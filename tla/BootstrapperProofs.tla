------------------------- MODULE BootstrapperProofs -------------------------
(***************************************************************************)
(* Proofs about the DAG bootstrapper model (Bootstrapper.tla) that hold    *)
(* for every value of its constants satisfying the module's assumptions.  *)
(***************************************************************************)
EXTENDS Bootstrapper, TLAPS

USE DagAssumption, StorageAssumption, ConfigAssumption
\* the variable groups the actions' UNCHANGED clauses name
USE DEF storageVars, queueVars, dbVars, fetchVars, walkVars, lifeVars

-----------------------------------------------------------------------------
(* Helpers of the model.                                                  *)

\* ParseVtx keeps every status a Status (Manager.ParseVtx, lines 127, 190).
LEMMA ParseType ==
    ASSUME status \in [Vtx -> Status], NEW S
    PROVE  Parse(S) \in [Vtx -> Status]
BY DEF Parse, Status

\* The vertices the Ancestors walk hands to process() are vertices: the
\* first parsed (it is b[1]) and every later one parsed before it was kept.
LEMMA PrefixType ==
    ASSUME NEW b, b[1] \in Vtx
    PROVE  Prefix(b) \subseteq Vtx
<1> SUFFICES ASSUME NEW i \in Walked(b) PROVE b[i] \in Vtx
    BY DEF Prefix
<1>1. i \in 1 .. Len(b) /\ Consumed(b, i)
    BY DEF Walked
<1>2. CASE i = 1
    BY <1>2
<1>3. CASE i # 1
    <2>1. i \in 2 .. i
        BY <1>1, <1>3
    <2>2. QED
        BY <1>1, <2>1 DEF Consumed
<1>4. QED
    BY <1>2, <1>3

\* processedCache.Put leaves a cache of vertices (line 511).
LEMMA CachePutType ==
    ASSUME NEW c \in SUBSET Vtx, NEW v \in Vtx, NEW c2 \in CachePut(c, v)
    PROVE  c2 \subseteq Vtx
BY DEF CachePut

\* process(vs) seeds its loop with vertices.
LEMMA ProcessType ==
    ASSUME cache \subseteq Vtx, NEW vs \in SUBSET Vtx,
           NEW miss \in SUBSET Vtx, NEW nf \in SUBSET Vtx,
           Process(vs, miss, nf)
    PROVE  /\ heap' \subseteq Vtx /\ missing' \subseteq Vtx
           /\ needToFetch' \subseteq Vtx /\ heightSet' \subseteq Vtx
           /\ cache' \subseteq Vtx /\ prevHeight' \in Nat /\ step' = "Process"
BY DEF Process

\* ForceAccepted(ids) on a set of vertices (lines 536-559).
LEMMA ForceAcceptedType ==
    ASSUME TypeOK, NEW ids \in SUBSET Vtx, ForceAccepted(ids)
    PROVE  /\ heap' \subseteq Vtx /\ missing' \subseteq Vtx
           /\ needToFetch' \subseteq Vtx /\ heightSet' \subseteq Vtx
           /\ cache' \subseteq Vtx /\ frontier' \subseteq Vtx
           /\ prevHeight' \in Nat /\ step' = "Process"
<1> DEFINE pending == missing \cup ids
           unknown == {v \in pending : ~Stored(v)}
           accepted == {v \in pending : status[v] = "Accepted"}
<1>1. /\ pending \ (unknown \cup accepted) \in SUBSET Vtx
      /\ (missing \ accepted) \cup unknown \in SUBSET Vtx
      /\ needToFetch \cup unknown \in SUBSET Vtx
    BY DEF TypeOK
<1>2. Process(pending \ (unknown \cup accepted),
              (missing \ accepted) \cup unknown, needToFetch \cup unknown)
      /\ frontier' = ids
    BY DEF ForceAccepted
<1>3. cache \subseteq Vtx
    BY DEF TypeOK
<1>4. QED
    BY <1>1, <1>2, <1>3, ProcessType

-----------------------------------------------------------------------------
(* One lemma per handler: each step of Next keeps TypeOK.                 *)

\* The initial state, storage as reopened at boot, is well typed.
LEMMA InitType == Init => TypeOK
<1> SUFFICES ASSUME Init PROVE TypeOK
    OBVIOUS
<1>1. txAccepted \subseteq Tx
    <2> SUFFICES ASSUME NEW t \in txAccepted PROVE t \in Tx
        OBVIOUS
    <2>1. PICK v \in Vtx : t \in Txs[v]
        BY DEF Init
    <2>2. QED
        BY <2>1
<1>2. status \in [Vtx -> Status] /\ netIdx \in 1 .. Len(NetFrontiers)
    BY DEF Init
<1>3. outstanding \subseteq Request /\ sent \subseteq Request
    BY DEF Init
<1>4. QED
    BY <1>1, <1>2, <1>3 DEF Init, TypeOK

\* Start (lines 289-360): either branch leaves typed state.
LEMMA StartType == TypeOK /\ Start => TypeOK'
<1> SUFFICES ASSUME TypeOK, Start PROVE TypeOK'
    OBVIOUS
<1>1. Edge \in SUBSET Vtx
    BY DEF Edge, AcceptedSet
<1>2. CASE Linearized /\ ForceAccepted(Edge) /\ UNCHANGED <<started, voting>>
    BY <1>1, <1>2, ForceAcceptedType DEF Start, TypeOK
<1>3. CASE ~Linearized /\ started' = ShouldStart /\ voting' = ShouldStart
           /\ UNCHANGED <<needToFetch, missing, walkVars, step, frontier>>
    BY <1>3 DEF Start, TypeOK, ShouldStart
<1>4. QED
    BY <1>2, <1>3 DEF Start

\* Connected and Disconnected (lines 243-270) only move the tracker.
LEMMA ConnectionType ==
    ASSUME TypeOK, NEW n \in Beacons, Connected(n) \/ Disconnected(n)
    PROVE  TypeOK'
BY DEF Connected, Disconnected, TypeOK, storageVars, queueVars, dbVars,
       fetchVars, walkVars

\* The frontier poll decides and calls ForceAccepted on a reported frontier.
LEMMA FrontierDecidedType == TypeOK /\ FrontierDecided => TypeOK'
<1> SUFFICES ASSUME TypeOK, FrontierDecided PROVE TypeOK'
    OBVIOUS
<1>1. NetFrontiers[netIdx] \in SUBSET Vtx
    BY DEF TypeOK
<1>2. QED
    BY <1>1, ForceAcceptedType DEF FrontierDecided, TypeOK

\* GetAncestorsFailed (lines 229-241) re-fetches requested vertices.
LEMMA GetAncestorsFailedType ==
    ASSUME TypeOK, NEW node, NEW req, GetAncestorsFailed(node, req)
    PROVE  TypeOK'
<1> DEFINE match == {o \in outstanding : o.node = node /\ o.req = req}
<1>1. {o.vtx : o \in match} \subseteq Vtx
  <2>1. SUFFICES ASSUME NEW x \in {o.vtx : o \in match} PROVE x \in Vtx
    OBVIOUS
  <2>2. PICK o \in match : x = o.vtx
    BY <2>1
  <2>3. o \in Request
    BY <2>2 DEF TypeOK
  <2>. QED
    BY <2>2, <2>3 DEF Request
<1>2. outstanding \ match \subseteq Request
    BY DEF TypeOK
<1>3. QED
    BY <1>1, <1>2 DEF GetAncestorsFailed, Fetch, TypeOK

\* The four outcomes of an Ancestors batch (lines 126-227).
LEMMA AncestorsBatchType ==
    ASSUME TypeOK, NEW node, NEW req, NEW b, AncestorsBatch(node, req, b)
    PROVE  TypeOK'
<1> DEFINE match == {o \in outstanding : o.node = node /\ o.req = req}
           rv == {o.vtx : o \in match}
<1>1. rv \subseteq Vtx /\ outstanding \ match \subseteq Request
    BY DEF TypeOK, Request
<1>2. \A S : Parse(S) \in [Vtx -> Status]
    BY ParseType DEF TypeOK
<1>3. /\ outstanding' = outstanding \ match
      /\ UNCHANGED <<txAccepted, vtxJobs, txJobs, vtxJobsDB, missingDB, txJobsDB,
                     requestID, sent, phase, started, voting, connected,
                     halted, frontier, netIdx, crashes>>
    BY DEF AncestorsBatch
<1>4. CASE UNCHANGED <<status, missing, walkVars>> /\ Fetch(rv)
    BY <1>1, <1>3, <1>4 DEF Fetch, TypeOK
<1>5. CASE status' = Parse({b[1]}) /\ Fetch(rv) /\ UNCHANGED <<missing, walkVars>>
    BY <1>1, <1>2, <1>3, <1>5 DEF Fetch, TypeOK
<1>6. CASE status' = Parse({b[1]})
           /\ UNCHANGED <<needToFetch, missing, walkVars, step>>
    BY <1>1, <1>2, <1>3, <1>6 DEF TypeOK
<1>7. CASE b[1] \in Vtx /\ status' = Parse(ParsedBy(b))
           /\ Process(Prefix(b), missing, needToFetch \ Prefix(b))
    <2>1. Prefix(b) \subseteq Vtx
        BY <1>7, PrefixType
    <2>2. /\ heap' \subseteq Vtx /\ missing' \subseteq Vtx
          /\ needToFetch' \subseteq Vtx /\ heightSet' \subseteq Vtx
          /\ cache' \subseteq Vtx /\ prevHeight' \in Nat /\ step' = "Process"
        BY <1>7, <2>1 DEF Process, TypeOK
    <2>3. status' \in [Vtx -> Status]
        BY <1>2, <1>7
    <2>4. outstanding' \subseteq Request
        BY <1>1, <1>3
    <2>5. /\ txAccepted' \subseteq Tx /\ vtxJobs' \subseteq Vtx
          /\ vtxJobsDB' \subseteq Vtx /\ missingDB' \subseteq Vtx
          /\ txJobs' \subseteq Tx /\ txJobsDB' \subseteq Tx
          /\ frontier' \subseteq Vtx /\ sent' \subseteq Request
          /\ requestID' \in Nat /\ phase' \in {"Init", "Running", "Done", "Fatal"}
          /\ started' \in BOOLEAN /\ voting' \in BOOLEAN /\ halted' \in BOOLEAN
          /\ connected' \subseteq Beacons
          /\ netIdx' \in 1 .. Len(NetFrontiers) /\ crashes' \in Nat
        BY <1>3 DEF TypeOK
    <2>6. QED
        BY <2>2, <2>3, <2>4, <2>5 DEF TypeOK
<1>8. QED
    BY <1>4, <1>5, <1>6, <1>7 DEF AncestorsBatch

\* Ancestors and AncestorsFailed, the two network deliveries.
LEMMA DeliveryType ==
    ASSUME TypeOK, NEW node, NEW req, NEW vtxs,
           Ancestors(node, req, vtxs) \/ AncestorsFailed(node, req)
    PROVE  TypeOK'
BY GetAncestorsFailedType, AncestorsBatchType DEF Ancestors, AncestorsFailed

\* One iteration of process()'s loop (lines 425-523).
LEMMA ProcessStepType == TypeOK /\ ProcessStep => TypeOK'
<1> SUFFICES ASSUME TypeOK, ProcessStep PROVE TypeOK'
    OBVIOUS
<1>1. PICK v \in Popped :
          \/ ProcessUnknown(v) \/ ProcessRejected(v) \/ ProcessAccepted(v)
          \/ ProcessQueued(v) \/ ProcessNew(v)
    BY DEF ProcessStep
<1>2. v \in Vtx
    BY DEF Popped, TypeOK
<1>3. CASE ProcessNew(v)
    <2>1. cache' \subseteq Vtx
        BY <1>2, <1>3, CachePutType DEF ProcessNew, TypeOK
    <2>2. QED
        BY <1>2, <1>3, <2>1 DEF ProcessStep, ProcessNew, TypeOK, storageVars, dbVars
<1>4. QED
    BY <1>1, <1>2, <1>3 DEF ProcessStep, ProcessUnknown, ProcessRejected,
       ProcessAccepted, ProcessQueued, TypeOK, queueVars, storageVars, dbVars

\* The remaining handler micro-steps: halting, the commits, fetch(),
\* checkFinish() and the two ExecuteAll calls.
LEMMA HandlerType ==
    TypeOK /\ (ProcessHalted \/ ProcessDone \/ CommitTx \/ CommitVtx
               \/ FetchStep \/ FetchDone \/ ExecTx \/ ExecVtx) => TypeOK'
<1> SUFFICES ASSUME TypeOK, ProcessHalted \/ ProcessDone \/ CommitTx \/ CommitVtx
                      \/ FetchStep \/ FetchDone \/ ExecTx \/ ExecVtx
             PROVE  TypeOK'
    OBVIOUS
<1>1. CASE FetchStep
    <2>1. PICK v \in needToFetch :
            /\ needToFetch' = needToFetch \ {v}
            /\ \/ UNCHANGED <<outstanding, requestID, sent, step, phase>>
               \/ phase' = "Fatal" /\ step' = "Idle"
                  /\ UNCHANGED <<outstanding, requestID, sent>>
               \/ /\ \E n \in Beacons :
                       LET r == [node |-> n, req |-> requestID + 1, vtx |-> v]
                       IN  /\ requestID' = requestID + 1
                           /\ outstanding' = outstanding \cup {r}
                           /\ sent' = sent \cup {r}
                  /\ UNCHANGED <<step, phase>>
        BY <1>1 DEF FetchStep
    <2>2. v \in Vtx
        BY DEF TypeOK
    <2>3. \A n \in Beacons : [node |-> n, req |-> requestID + 1, vtx |-> v] \in Request
        BY <2>2 DEF TypeOK, Request
    <2>4. QED
        BY <1>1, <2>1, <2>3 DEF FetchStep, TypeOK
<1>2. CASE ExecVtx
    <2>1. status' \in [Vtx -> Status]
        BY <1>2 DEF ExecVtx, TypeOK, Status
    <2>2. QED
        BY <1>2, <2>1 DEF ExecVtx, TypeOK
<1>3. QED
    BY <1>1, <1>2 DEF ProcessHalted, ProcessDone, CommitTx, CommitVtx, Fetch,
       FetchDone, ExecTx, TypeOK, storageVars, queueVars, dbVars, fetchVars,
       walkVars

\* The environment: Halt, Crash, NetworkAdvance.
LEMMA EnvironmentType == TypeOK /\ (Halt \/ Crash \/ NetworkAdvance) => TypeOK'
<1> SUFFICES ASSUME TypeOK, Halt \/ Crash \/ NetworkAdvance PROVE TypeOK'
    OBVIOUS
<1>1. CASE Halt
    BY <1>1 DEF Halt, TypeOK
<1>2. CASE Crash
    <2>1. crashes' \in Nat /\ requestID' \in Nat /\ prevHeight' \in Nat
        BY <1>2 DEF Crash, TypeOK
    <2>2. /\ vtxJobs' \subseteq Vtx /\ missing' \subseteq Vtx /\ txJobs' \subseteq Tx
          /\ UNCHANGED <<status, txAccepted, vtxJobsDB, missingDB, txJobsDB, netIdx>>
        BY <1>2 DEF Crash, TypeOK
    <2>3. /\ needToFetch' = {} /\ outstanding' = {} /\ sent' = {}
          /\ cache' = {} /\ heap' = {} /\ heightSet' = {}
          /\ step' = "Idle" /\ phase' = "Init" /\ started' = FALSE /\ voting' = FALSE
          /\ connected' = {} /\ halted' = FALSE /\ frontier' = {}
        BY <1>2 DEF Crash
    <2>4. QED
        BY <2>1, <2>2, <2>3 DEF TypeOK
<1>3. CASE NetworkAdvance
    BY <1>3 DEF NetworkAdvance, TypeOK
<1>4. QED
    BY <1>1, <1>2, <1>3

\* Every step of the bootstrapper, or a stutter, keeps TypeOK.
LEMMA TypeNext == TypeOK /\ [Next]_vars => TypeOK'
<1> SUFFICES ASSUME TypeOK, [Next]_vars PROVE TypeOK'
    OBVIOUS
<1>1. CASE Start
    BY <1>1, StartType
<1>2. CASE \E n \in Beacons : Connected(n) \/ Disconnected(n)
    BY <1>2, ConnectionType
<1>3. CASE FrontierDecided
    BY <1>3, FrontierDecidedType
<1>4. CASE \E m \in sent : AncestorsFailed(m.node, m.req)
    BY <1>4, DeliveryType
<1>5. CASE \E m \in sent : \E b \in AnswerBatches(m.vtx) : Ancestors(m.node, m.req, b)
    BY <1>5, DeliveryType
<1>6. CASE ProcessStep
    BY <1>6, ProcessStepType
<1>7. CASE ProcessHalted \/ ProcessDone \/ CommitTx \/ CommitVtx
           \/ FetchStep \/ FetchDone \/ ExecTx \/ ExecVtx
    BY <1>7, HandlerType
<1>8. CASE Halt \/ Crash \/ NetworkAdvance
    BY <1>8, EnvironmentType
<1>9. CASE UNCHANGED vars
    BY <1>9 DEF vars, TypeOK, storageVars, queueVars, dbVars, fetchVars,
       walkVars, lifeVars
<1>10. QED
    BY <1>1, <1>2, <1>3, <1>4, <1>5, <1>6, <1>7, <1>8, <1>9 DEF Next

-----------------------------------------------------------------------------
(* Type correctness of the bootstrapper: in every reachable state, for     *)
(* every DAG, storage and configuration the assumptions allow, the       *)
(* queues, the request table, the cache, the heap and the lifecycle flags *)
(* hold values of their declared kinds, whatever the peers send and      *)
(* wherever the node crashes.                                             *)
THEOREM TypeCorrect == Spec => []TypeOK
<1>1. Init => TypeOK
    BY InitType
<1>2. TypeOK /\ [Next]_vars => TypeOK'
    BY TypeNext
<1>3. QED
    BY <1>1, <1>2, PTL DEF Spec

-----------------------------------------------------------------------------
(* The transactions of a vertex are on disk before the vertex is.         *)

\* process() queues a vertex's transactions in the same step as the vertex
\* (lines 444-478): every in-memory vertex job has its transactions queued
\* or accepted.
JobTxsCovered == \A v \in vtxJobs : Txs[v] \subseteq txJobs \cup txAccepted

\* The committed transaction queue never holds a transaction that is
\* neither in the working queue nor accepted.
CommittedTxsKnown == txJobsDB \subseteq txJobs \cup txAccepted

\* Between TxBlocked.Commit and VtxBlocked.Commit (lines 525-530) the
\* committed transaction queue is the working one.
CommitOrder == step = "CommitVtx" => txJobsDB = txJobs

\* VtxBlocked.ExecuteAll runs after TxBlocked.ExecuteAll emptied the
\* transaction queue (lines 582-600).
ExecOrder == step = "ExecVtx" => txJobs = {} /\ txJobsDB = {}

TxsCore == /\ CommittedTxsCovered /\ JobTxsCovered /\ CommittedTxsKnown
           /\ CommitOrder /\ ExecOrder

\* A step that leaves both queues, their commits and the accepted
\* transactions alone, and enters neither commit nor execution of vertices,
\* keeps the strengthening.
LEMMA TxsQuiet ==
    ASSUME TxsCore,
           UNCHANGED <<txAccepted, vtxJobs, txJobs, vtxJobsDB, txJobsDB>>,
           step' \in {"Idle", "Process", "CommitTx", "Fetch", "ExecTx"} \/ step' = step
    PROVE  TxsCore'
BY DEF TxsCore, CommittedTxsCovered, JobTxsCovered, CommittedTxsKnown,
       CommitOrder, ExecOrder

\* process() pops one vertex; only a new Processing vertex is queued, with
\* its transactions.
LEMMA ProcessStepTxs == TxsCore /\ ProcessStep => TxsCore'
<1> SUFFICES ASSUME TxsCore, ProcessStep PROVE TxsCore'
    OBVIOUS
<1>1. PICK v \in Popped :
          \/ ProcessUnknown(v) \/ ProcessRejected(v) \/ ProcessAccepted(v)
          \/ ProcessQueued(v) \/ ProcessNew(v)
    BY DEF ProcessStep
<1>2. UNCHANGED <<txAccepted, vtxJobsDB, txJobsDB>> /\ step = "Process"
    BY DEF ProcessStep, PopStep
<1>3. CASE ProcessNew(v)
    <2>1. vtxJobs' = vtxJobs \cup {v} /\ txJobs' = txJobs \cup Txs[v] /\ step' = step
        BY <1>3 DEF ProcessNew
    <2>2. QED
        BY <1>2, <2>1 DEF TxsCore, CommittedTxsCovered, JobTxsCovered,
           CommittedTxsKnown, CommitOrder, ExecOrder
<1>4. CASE ~ProcessNew(v)
    <2>1. ProcessUnknown(v) \/ ProcessRejected(v) \/ ProcessAccepted(v)
          \/ ProcessQueued(v)
        BY <1>1, <1>4
    <2>2. UNCHANGED <<vtxJobs, txJobs>> /\ step' \in {"Idle", "Process"}
        <3>1. CASE ProcessUnknown(v)
            BY <1>2, <3>1 DEF ProcessUnknown
        <3>2. CASE ProcessRejected(v)
            BY <3>2 DEF ProcessRejected
        <3>3. CASE ProcessAccepted(v)
            BY <1>2, <3>3 DEF ProcessAccepted
        <3>4. CASE ProcessQueued(v)
            BY <1>2, <3>4 DEF ProcessQueued
        <3>5. QED
            BY <2>1, <3>1, <3>2, <3>3, <3>4
    <2>3. QED
        BY <1>2, <2>2, TxsQuiet
<1>5. QED
    BY <1>3, <1>4

\* TxBlocked.Commit copies the working transaction queue to disk.
LEMMA CommitTxTxs == TxsCore /\ CommitTx => TxsCore'
BY DEF CommitTx, TxsCore, CommittedTxsCovered, JobTxsCovered,
       CommittedTxsKnown, CommitOrder, ExecOrder

\* VtxBlocked.Commit runs after TxBlocked.Commit: the vertices it writes
\* have their transactions on disk already.
LEMMA CommitVtxTxs == TxsCore /\ CommitVtx => TxsCore'
BY DEF CommitVtx, Fetch, TxsCore, CommittedTxsCovered, JobTxsCovered,
       CommittedTxsKnown, CommitOrder, ExecOrder

\* TxBlocked.ExecuteAll accepts every queued transaction.
LEMMA ExecTxTxs == TxsCore /\ ExecTx => TxsCore'
BY DEF ExecTx, TxsCore, CommittedTxsCovered, JobTxsCovered,
       CommittedTxsKnown, CommitOrder, ExecOrder

\* VtxBlocked.ExecuteAll rewrites the vertex queue, on disk too; every
\* vertex it keeps has its transactions accepted.
LEMMA ExecVtxTxs == TxsCore /\ ExecVtx => TxsCore'
<1> SUFFICES ASSUME TxsCore, ExecVtx PROVE TxsCore'
    OBVIOUS
<1>1. /\ txJobs = {} /\ txJobsDB = {}
      /\ UNCHANGED <<txAccepted, txJobs, txJobsDB>> /\ step' = "Idle"
      /\ vtxJobs' \subseteq vtxJobs /\ vtxJobsDB' = vtxJobs'
    BY DEF ExecVtx, TxsCore, ExecOrder
<1>2. QED
    BY <1>1 DEF TxsCore, CommittedTxsCovered, JobTxsCovered,
       CommittedTxsKnown, CommitOrder, ExecOrder

\* A crash reopens the queues at their last commit.
LEMMA CrashTxs == TxsCore /\ Crash => TxsCore'
BY DEF Crash, TxsCore, CommittedTxsCovered, JobTxsCovered,
       CommittedTxsKnown, CommitOrder, ExecOrder

\* Every step, or a stutter, keeps the strengthening TxsCore.
LEMMA TxsNext == TxsCore /\ [Next]_vars => TxsCore'
<1> SUFFICES ASSUME TxsCore, [Next]_vars PROVE TxsCore'
    OBVIOUS
<1>1. CASE Start
    BY <1>1, TxsQuiet DEF Start, ForceAccepted, Process
<1>2. CASE \E n \in Beacons : Connected(n) \/ Disconnected(n)
    BY <1>2, TxsQuiet DEF Connected, Disconnected
<1>3. CASE FrontierDecided
    BY <1>3, TxsQuiet DEF FrontierDecided, ForceAccepted, Process
<1>4. ASSUME NEW node, NEW req, GetAncestorsFailed(node, req) PROVE TxsCore'
    BY <1>4, TxsQuiet DEF GetAncestorsFailed, Fetch
<1>5. ASSUME NEW node, NEW req, NEW b, AncestorsBatch(node, req, b) PROVE TxsCore'
    <2>1. UNCHANGED <<txAccepted, vtxJobs, txJobs, vtxJobsDB, txJobsDB>>
        BY <1>5 DEF AncestorsBatch
    <2>2. step' \in {"Process", "Fetch"} \/ step' = step
        BY <1>5 DEF AncestorsBatch, Fetch, Process
    <2>3. QED
        BY <2>1, <2>2, TxsQuiet
<1>6. CASE \E m \in sent : AncestorsFailed(m.node, m.req)
    BY <1>4, <1>6 DEF AncestorsFailed
<1>7. CASE \E m \in sent : \E b \in AnswerBatches(m.vtx) : Ancestors(m.node, m.req, b)
    BY <1>4, <1>5, <1>7 DEF Ancestors
<1>8. CASE ProcessStep
    BY <1>8, ProcessStepTxs
<1>9. CASE ProcessHalted \/ ProcessDone \/ FetchStep \/ FetchDone
    BY <1>9, TxsQuiet DEF ProcessHalted, ProcessDone, FetchStep, FetchDone
<1>10. CASE CommitTx \/ CommitVtx \/ ExecTx \/ ExecVtx
    BY <1>10, CommitTxTxs, CommitVtxTxs, ExecTxTxs, ExecVtxTxs
<1>11. CASE Halt \/ NetworkAdvance
    BY <1>11, TxsQuiet DEF Halt, NetworkAdvance
<1>12. CASE Crash
    BY <1>12, CrashTxs
<1>13. CASE UNCHANGED vars
    BY <1>13, TxsQuiet DEF vars
<1>14. QED
    BY <1>1, <1>2, <1>3, <1>6, <1>7, <1>8, <1>9, <1>10, <1>11, <1>12,
       <1>13 DEF Next

(* Transactions before vertices on disk: in every reachable state each     *)
(* committed vertex job has its transactions committed or accepted, so    *)
(* VtxBlocked.ExecuteAll after a crash never finds a vertex whose         *)
(* transactions were lost (the commit order of process, lines 525-530).   *)
THEOREM TxsCommittedFirst == Spec => []CommittedTxsCovered
<1>1. Init => TxsCore
    BY DEF Init, TxsCore, CommittedTxsCovered, JobTxsCovered,
       CommittedTxsKnown, CommitOrder, ExecOrder
<1>2. TxsCore /\ [Next]_vars => TxsCore'
    BY TxsNext
<1>3. TxsCore => CommittedTxsCovered
    BY DEF TxsCore
<1>4. QED
    BY <1>1, <1>2, <1>3, PTL DEF Spec

=============================================================================
