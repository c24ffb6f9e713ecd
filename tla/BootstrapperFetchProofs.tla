----------------------- MODULE BootstrapperFetchProofs -----------------------
(***************************************************************************)
(* Proof that no missing vertex is lost (NoLostVertex): once the frontier *)
(* poll has decided, every vertex the engine records as missing is stored, *)
(* requested from a beacon or still in needToFetch.  The argument needs   *)
(* three facts about the request table beside the property itself: Start *)
(* (which resets RequestID) only runs with no request outstanding, every  *)
(* outstanding request ID is at most RequestID, and OutstandingRequests   *)
(* holds one vertex per (nodeID, requestID), so the Ancestors response    *)
(* that removes a request is about that request's vertex.                 *)
(***************************************************************************)
EXTENDS BootstrapperProofs

USE DagAssumption, StorageAssumption, ConfigAssumption
USE DEF storageVars, queueVars, dbVars, fetchVars, walkVars, lifeVars

\* Before Start no handler ran and no request is outstanding.
InitIdle == phase = "Init" => step = "Idle" /\ outstanding = {} /\ ~started

\* Every outstanding request ID was handed out by fetch (line 398).
ReqBelow == \A o \in outstanding : o.req <= requestID

\* OutstandingRequests maps a (nodeID, requestID) to one vertex.
ReqUnique == \A o1, o2 \in outstanding :
                o1.node = o2.node /\ o1.req = o2.req => o1 = o2

\* the content of NoLostVertex, for any handler state
Kept == \A v \in missing : Stored(v) \/ v \in OutVtxs \/ v \in needToFetch

KeptInv == phase = "Running" /\ started /\ ~voting => Kept

\* The inductive invariant of this module.
FetchInv == InitIdle /\ ReqBelow /\ ReqUnique /\ KeptInv
-----------------------------------------------------------------------------
(* Helpers.                                                               *)

\* ParseVtx never forgets a stored vertex.
LEMMA ParseStored ==
    ASSUME status \in [Vtx -> Status], NEW S, NEW v \in Vtx, Stored(v)
    PROVE  Parse(S)[v] # "Unknown"
BY DEF Parse, Stored

\* ParseVtx stores every vertex it is given.
LEMMA ParseStores ==
    ASSUME status \in [Vtx -> Status], NEW S, NEW v \in S \cap Vtx
    PROVE  Parse(S)[v] # "Unknown"
BY DEF Parse

\* Every vertex the walk hands to process() was parsed (lines 188-192):
\* a walked index was reached.
LEMMA PrefixParsed ==
    ASSUME NEW b, b[1] \in Vtx
    PROVE  Prefix(b) \subseteq ParsedBy(b)
<1> SUFFICES ASSUME NEW i \in Walked(b) PROVE b[i] \in ParsedBy(b)
    BY DEF Prefix
<1>1. i \in 1 .. Len(b) /\ Consumed(b, i)
    BY DEF Walked
<1>2. Consumed(b, i - 1)
    BY <1>1 DEF Consumed
<1>3. i \in Reached(b)
    BY <1>1, <1>2 DEF Reached
<1>4. b[i] \in Vtx
    BY PrefixType DEF Prefix
<1>. QED
    BY <1>3, <1>4 DEF ParsedBy

\* The first element of a non-empty batch is always parsed (line 127).
LEMMA FirstParsed ==
    ASSUME NEW b, b[1] \in Vtx, 1 \in 1 .. Len(b)
    PROVE  b[1] \in ParsedBy(b)
<1>1. Consumed(b, 0)
    BY DEF Consumed
<1>. QED
    BY <1>1 DEF Reached, ParsedBy

\* A truncated non-empty batch is non-empty (AncestorsMax > 0).
LEMMA TruncatedNonEmpty ==
    ASSUME NEW vtxs \in Batches, vtxs # <<>>
    PROVE  1 \in 1 .. Len(IF Len(vtxs) > AncestorsMax
                          THEN SubSeq(vtxs, 1, AncestorsMax) ELSE vtxs)
<1>1. PICK n \in 0 .. MaxBatchLen : vtxs \in [1 .. n -> Bytes]
    BY DEF Batches
<1>2. vtxs \in Seq(Bytes) /\ Len(vtxs) = n
    BY <1>1
<1>3. n # 0
    BY <1>1, <1>2
<1>. QED
    BY <1>2, <1>3
-----------------------------------------------------------------------------
(* One lemma per handler.                                                 *)

\* The initial state satisfies the strengthening.
LEMMA FetchInit == Init => FetchInv
BY DEF Init, FetchInv, InitIdle, ReqBelow, ReqUnique, KeptInv

\* A step that leaves the request table, the missing IDs, needToFetch,
\* the statuses and the lifecycle flags alone keeps the strengthening.
LEMMA FetchQuiet ==
    ASSUME FetchInv,
           UNCHANGED <<status, missing, needToFetch, outstanding, requestID,
                       step, phase, started, voting>>
    PROVE  FetchInv'
BY DEF FetchInv, InitIdle, ReqBelow, ReqUnique, KeptInv, Kept, Stored, OutVtxs

\* Start (lines 289-330) runs with no request outstanding; it sets started
\* only together with the poll, and on a linearized DAG not at all.
LEMMA FetchStart ==
    ASSUME FetchInv, Start
    PROVE  FetchInv'
<1>1. outstanding = {} /\ ~started
    BY DEF Start, FetchInv, InitIdle
<1>2. outstanding' = {} /\ phase' = "Running"
    BY <1>1 DEF Start
<1>3. UNCHANGED started \/ started' = voting'
    <2>1. CASE Linearized /\ ForceAccepted(Edge) /\ UNCHANGED <<started, voting>>
        BY <2>1
    <2>2. CASE ~Linearized /\ started' = ShouldStart /\ voting' = ShouldStart
        BY <2>2
    <2>. QED
        BY <2>1, <2>2 DEF Start
<1>. QED
    BY <1>1, <1>2, <1>3 DEF FetchInv, InitIdle, ReqBelow, ReqUnique, KeptInv

\* Connected and Disconnected (lines 243-270) set started only with the
\* frontier poll.
LEMMA FetchConnection ==
    ASSUME FetchInv, NEW n, Connected(n) \/ Disconnected(n)
    PROVE  FetchInv'
<1>1. UNCHANGED <<status, missing, needToFetch, outstanding, requestID, step, phase>>
    BY DEF Connected, Disconnected
<1>2. \/ UNCHANGED <<started, voting>>
      \/ voting'
    BY DEF Connected, Disconnected
<1>3. CASE UNCHANGED <<started, voting>>
    BY <1>1, <1>3, FetchQuiet
<1>4. CASE voting'
    BY <1>1, <1>4 DEF FetchInv, InitIdle, ReqBelow, ReqUnique, KeptInv, Connected,
       Disconnected, Dispatchable
<1>. QED
    BY <1>2, <1>3, <1>4

\* ForceAccepted(ids) (lines 536-559): every pending vertex that is not
\* stored is added to needToFetch, so whatever stays missing is kept.
LEMMA KeptForceAccepted ==
    ASSUME TypeOK, NEW ids, ForceAccepted(ids), UNCHANGED <<status, outstanding>>
    PROVE  Kept'
<1> DEFINE pending == missing \cup ids
           unknown == {v \in pending : ~Stored(v)}
           accepted == {v \in pending : status[v] = "Accepted"}
<1>1. missing' \subseteq (missing \ accepted) \cup unknown
      /\ needToFetch' = needToFetch \cup unknown
    BY DEF ForceAccepted, Process
<1>. QED
    BY <1>1 DEF Kept, Stored

\* The frontier poll decides (Startup's ForceAccepted): it clears the poll
\* flag and folds every missing vertex back into needToFetch.
LEMMA FetchFrontierDecided ==
    ASSUME TypeOK, FetchInv, FrontierDecided
    PROVE  FetchInv'
<1>1. ForceAccepted(NetFrontiers[netIdx])
      /\ UNCHANGED <<status, outstanding, requestID, phase, started>>
      /\ phase = "Running"
    BY DEF FrontierDecided, Dispatchable
<1>2. Kept'
    BY <1>1, KeptForceAccepted
<1>. QED
    BY <1>1, <1>2 DEF FetchInv, InitIdle, ReqBelow, ReqUnique, KeptInv

\* GetAncestorsFailed (lines 229-241) re-fetches the vertex of the
\* request it removes.
LEMMA FetchGetAncestorsFailed ==
    ASSUME FetchInv, phase = "Running", NEW node, NEW req,
           GetAncestorsFailed(node, req)
    PROVE  FetchInv'
<1> DEFINE match == {o \in outstanding : o.node = node /\ o.req = req}
<1>1. /\ outstanding' = outstanding \ match
      /\ needToFetch' = needToFetch \cup {o.vtx : o \in match}
      /\ UNCHANGED <<status, missing, requestID, phase, started, voting>>
    BY DEF GetAncestorsFailed, Fetch
<1>2. OutVtxs \subseteq OutVtxs' \cup needToFetch'
    BY <1>1 DEF OutVtxs
<1>3. Kept => Kept'
    BY <1>1, <1>2 DEF Kept, Stored
<1>. QED
    BY <1>1, <1>3 DEF FetchInv, InitIdle, ReqBelow, ReqUnique, KeptInv

\* An Ancestors batch (lines 126-227).  The early returns re-fetch the
\* requested vertex; the walk parses the requested vertex (the only one
\* the removed request names) and every vertex it takes out of
\* needToFetch.
LEMMA FetchAncestorsBatch ==
    ASSUME TypeOK, FetchInv, phase = "Running", NEW node, NEW req, NEW b,
           1 \in 1 .. Len(b),
           AncestorsBatch(node, req, b)
    PROVE  FetchInv'
<1> DEFINE match == {o \in outstanding : o.node = node /\ o.req = req}
           rv == {o.vtx : o \in match}
<1>1. /\ outstanding' = outstanding \ match
      /\ UNCHANGED <<requestID, phase, started, voting>>
    BY DEF AncestorsBatch
<1>2. ReqBelow' /\ ReqUnique' /\ InitIdle'
    <2>1. ReqBelow'
        BY <1>1 DEF FetchInv, ReqBelow
    <2>2. ReqUnique'
        BY <1>1 DEF FetchInv, ReqUnique
    <2>3. InitIdle'
        BY <1>1 DEF InitIdle
    <2>. QED
        BY <2>1, <2>2, <2>3
<1>3. \A o \in match : \A o2 \in match : o = o2
    BY DEF FetchInv, ReqUnique
<1>4. \A v \in Vtx : Stored(v) => Stored(v)'
    <2>1. \E S : status' = Parse(S) \/ UNCHANGED status
        BY DEF AncestorsBatch
    <2>. QED
        BY <2>1, ParseStored DEF TypeOK, Stored
<1>5. CASE UNCHANGED missing /\ needToFetch' = needToFetch \cup rv
    <2>1. OutVtxs \subseteq OutVtxs' \cup needToFetch'
        BY <1>1, <1>5 DEF OutVtxs
    <2>2. Kept => Kept'
        BY <1>4, <1>5, <2>1 DEF TypeOK, Kept
    <2>. QED
        BY <1>1, <1>2, <2>2 DEF FetchInv, KeptInv
<1>6. CASE UNCHANGED <<missing, needToFetch>> /\ match = {}
    <2>1. OutVtxs' = OutVtxs
        BY <1>1, <1>6 DEF OutVtxs
    <2>2. Kept => Kept'
        BY <1>4, <1>6, <2>1 DEF TypeOK, Kept
    <2>. QED
        BY <1>1, <1>2, <2>2 DEF FetchInv, KeptInv
<1>7. CASE /\ b[1] \in Vtx /\ (match # {} => b[1] \in rv)
           /\ status' = Parse(ParsedBy(b))
           /\ Process(Prefix(b), missing, needToFetch \ Prefix(b))
    <2>1. Prefix(b) \subseteq ParsedBy(b) /\ b[1] \in ParsedBy(b)
        BY <1>7, PrefixParsed, FirstParsed
    <2>2. ParsedBy(b) \subseteq Vtx
        BY DEF ParsedBy
    <2>3. \A v \in ParsedBy(b) : Stored(v)'
        BY <1>7, <2>2, ParseStores DEF TypeOK, Stored
    <2>4. \A o \in match : o.vtx = b[1]
        BY <1>3, <1>7
    <2>5. missing' \subseteq missing /\ needToFetch \subseteq needToFetch' \cup Prefix(b)
        BY <1>7 DEF Process
    <2>6. OutVtxs \subseteq OutVtxs' \cup {b[1]}
        BY <1>1, <2>4 DEF OutVtxs
    <2>7. Kept => Kept'
        BY <1>4, <2>1, <2>3, <2>5, <2>6 DEF Kept, TypeOK
    <2>. QED
        BY <1>1, <1>2, <2>7 DEF FetchInv, KeptInv
<1>. QED
    BY <1>5, <1>6, <1>7 DEF AncestorsBatch, Fetch

\* One pop of process() (lines 425-523): an unknown vertex becomes missing
\* and needed together; a queued one leaves both; a rejected one is fatal.
LEMMA FetchProcessStep ==
    ASSUME FetchInv, ProcessStep
    PROVE  FetchInv'
<1>1. PICK v \in Popped : \/ ProcessUnknown(v) \/ ProcessRejected(v) \/ ProcessAccepted(v)
                          \/ ProcessQueued(v) \/ ProcessNew(v)
    BY DEF ProcessStep
<1>2. /\ UNCHANGED <<status, outstanding, requestID, started, voting>>
      /\ step = "Process"
    BY DEF ProcessStep, PopStep
<1>3. CASE ProcessRejected(v)
    BY <1>2, <1>3 DEF ProcessRejected, FetchInv, InitIdle, ReqBelow, ReqUnique,
       KeptInv
<1>4. CASE ~ProcessRejected(v)
    <2>1. UNCHANGED phase
        BY <1>1, <1>4 DEF ProcessUnknown, ProcessAccepted, ProcessQueued, ProcessNew
    <2>2. \/ missing' = missing \cup {v} /\ needToFetch' = needToFetch \cup {v}
          \/ missing' = missing \ {v} /\ needToFetch' = needToFetch \ {v}
          \/ UNCHANGED <<missing, needToFetch>>
        BY <1>1, <1>4 DEF ProcessUnknown, ProcessAccepted, ProcessQueued, ProcessNew
    <2>3. Kept => Kept'
        BY <1>2, <2>2 DEF Kept, Stored, OutVtxs
    <2>4. InitIdle' /\ ReqBelow' /\ ReqUnique'
        BY <1>2, <2>1 DEF FetchInv, InitIdle, ReqBelow, ReqUnique
    <2>. QED
        BY <1>2, <2>1, <2>3, <2>4 DEF FetchInv, KeptInv
<1>. QED
    BY <1>3, <1>4

\* One iteration of fetch() (lines 380-402): the vertex it pops is already
\* requested or stored, or it is requested now under a fresh request ID,
\* or Beacons.Sample fails and the engine stops.
LEMMA FetchFetchStep ==
    ASSUME TypeOK, FetchInv, FetchStep
    PROVE  FetchInv'
<1>1. PICK v \in needToFetch :
        /\ needToFetch' = needToFetch \ {v}
        /\ \/ /\ v \in OutVtxs \/ Stored(v)
              /\ UNCHANGED <<outstanding, requestID, sent, step, phase>>
           \/ /\ v \notin OutVtxs /\ ~Stored(v) /\ Beacons = {}
              /\ phase' = "Fatal" /\ step' = "Idle"
              /\ UNCHANGED <<outstanding, requestID, sent>>
           \/ /\ v \notin OutVtxs /\ ~Stored(v)
              /\ \E n \in Beacons :
                   LET r == [node |-> n, req |-> requestID + 1, vtx |-> v]
                   IN  /\ requestID' = requestID + 1
                       /\ outstanding' = outstanding \cup {r}
                       /\ sent' = sent \cup {r}
              /\ UNCHANGED <<step, phase>>
    BY DEF FetchStep
<1>2. UNCHANGED <<status, missing, started, voting>> /\ step = "Fetch"
    BY DEF FetchStep
<1>3. CASE (v \in OutVtxs \/ Stored(v)) /\ UNCHANGED <<outstanding, requestID, step, phase>>
    <2>1. Kept => Kept'
        BY <1>1, <1>2, <1>3 DEF Kept, Stored, OutVtxs
    <2>. QED
        BY <1>2, <1>3, <2>1 DEF FetchInv, InitIdle, ReqBelow, ReqUnique, KeptInv
<1>4. CASE phase' = "Fatal" /\ UNCHANGED <<outstanding, requestID>>
    BY <1>2, <1>4 DEF FetchInv, InitIdle, ReqBelow, ReqUnique, KeptInv
<1>5. CASE /\ UNCHANGED <<step, phase>>
           /\ \E n \in Beacons :
                LET r == [node |-> n, req |-> requestID + 1, vtx |-> v]
                IN  /\ requestID' = requestID + 1
                    /\ outstanding' = outstanding \cup {r}
    <2>1. PICK n \in Beacons : /\ requestID' = requestID + 1
                               /\ outstanding' = outstanding \cup
                                    {[node |-> n, req |-> requestID + 1, vtx |-> v]}
        BY <1>5
    <2>2. requestID \in Nat /\ \A o \in outstanding : o.req \in Nat
        BY DEF TypeOK, Request
    <2>3. ReqBelow' /\ ReqUnique'
        BY <2>1, <2>2 DEF FetchInv, ReqBelow, ReqUnique
    <2>4. v \in OutVtxs'
        <3>1. [node |-> n, req |-> requestID + 1, vtx |-> v] \in outstanding'
            BY <2>1
        <3>2. [node |-> n, req |-> requestID + 1, vtx |-> v].vtx = v
            OBVIOUS
        <3>. QED
            BY <3>1, <3>2, Zenon DEF OutVtxs
    <2>5. Kept => Kept'
        BY <1>1, <1>2, <2>1, <2>4 DEF Kept, Stored, OutVtxs
    <2>. QED
        BY <1>2, <1>5, <2>3, <2>5 DEF FetchInv, InitIdle, KeptInv
<1>. QED
    BY <1>1, <1>3, <1>4, <1>5

\* VtxBlocked.ExecuteAll (lines 590-624) only accepts vertices; it ends
\* the pass idle, restarting the poll, or in Done.
LEMMA FetchExecVtx ==
    ASSUME TypeOK, FetchInv, ExecVtx
    PROVE  FetchInv'
<1>1. UNCHANGED <<missing, needToFetch, outstanding, requestID, started>>
      /\ step = "ExecVtx"
    BY DEF ExecVtx
<1>2. \A v \in Vtx : Stored(v) => Stored(v)'
    BY DEF ExecVtx, Stored, TypeOK
<1>3. \/ UNCHANGED <<phase, voting>>
      \/ UNCHANGED phase /\ voting'
      \/ phase' = "Done"
    BY DEF ExecVtx
<1>4. Kept => Kept'
    BY <1>1, <1>2 DEF Kept, OutVtxs, TypeOK
<1>5. InitIdle' /\ ReqBelow' /\ ReqUnique'
    <2>1. phase # "Init"
        BY <1>1 DEF FetchInv, InitIdle
    <2>. QED
        BY <1>1, <1>3, <2>1 DEF FetchInv, InitIdle, ReqBelow, ReqUnique
<1>. QED
    BY <1>1, <1>3, <1>4, <1>5 DEF FetchInv, KeptInv

\* A crash forgets every request and reboots into Init.
LEMMA FetchCrash ==
    ASSUME FetchInv, Crash
    PROVE  FetchInv'
BY DEF Crash, FetchInv, InitIdle, ReqBelow, ReqUnique, KeptInv

\* Every step, or a stutter, keeps the strengthening.
LEMMA FetchNext ==
    ASSUME TypeOK, FetchInv, [Next]_vars
    PROVE  FetchInv'
<1>1. CASE Start
    BY <1>1, FetchStart
<1>2. CASE \E n \in Beacons : Connected(n) \/ Disconnected(n)
    BY <1>2, FetchConnection
<1>3. CASE FrontierDecided
    BY <1>3, FetchFrontierDecided
<1>4. CASE \E m \in sent : AncestorsFailed(m.node, m.req)
    BY <1>4, FetchGetAncestorsFailed DEF AncestorsFailed, Dispatchable
<1>5. CASE \E m \in sent : \E b \in AnswerBatches(m.vtx) : Ancestors(m.node, m.req, b)
    <2>1. PICK m \in sent : \E b \in AnswerBatches(m.vtx) : Ancestors(m.node, m.req, b)
        BY <1>5
    <2>2. PICK vtxs \in AnswerBatches(m.vtx) : Ancestors(m.node, m.req, vtxs)
        BY <2>1
    <2>3. phase = "Running"
        BY <2>2 DEF Ancestors, Dispatchable
    <2>4. CASE vtxs = <<>>
        BY <2>2, <2>3, <2>4, FetchGetAncestorsFailed DEF Ancestors
    <2>5. CASE vtxs # <<>>
        <3> DEFINE b == IF Len(vtxs) > AncestorsMax THEN SubSeq(vtxs, 1, AncestorsMax)
                        ELSE vtxs
        <3>1. vtxs \in Batches
            BY <2>5 DEF AnswerBatches, HonestBatches
        <3>2. 1 \in 1 .. Len(b)
            BY <2>5, <3>1, TruncatedNonEmpty
        <3>3. AncestorsBatch(m.node, m.req, b)
            BY <2>2, <2>5 DEF Ancestors
        <3>. QED
            BY <2>3, <3>2, <3>3, FetchAncestorsBatch
    <2>. QED
        BY <2>4, <2>5
<1>6. CASE ProcessStep
    BY <1>6, FetchProcessStep
<1>7. CASE FetchStep
    BY <1>7, FetchFetchStep
<1>8. CASE ExecVtx
    BY <1>8, FetchExecVtx
<1>9. CASE Crash
    BY <1>9, FetchCrash
<1>10. CASE CommitVtx \/ ProcessDone \/ CommitTx
    <2>1. UNCHANGED <<status, missing, needToFetch, outstanding, requestID,
                      phase, started, voting>>
        BY <1>10 DEF CommitVtx, ProcessDone, CommitTx, Fetch
    <2>2. step \in {"Process", "CommitTx", "CommitVtx"}
        BY <1>10 DEF CommitVtx, ProcessDone, CommitTx
    <2>. QED
        BY <2>1, <2>2 DEF FetchInv, InitIdle, ReqBelow, ReqUnique, KeptInv, Kept,
           Stored, OutVtxs
<1>11. CASE ProcessHalted \/ FetchDone \/ ExecTx
    <2>1. UNCHANGED <<status, missing, needToFetch, outstanding, requestID,
                      phase, started, voting>>
        BY <1>11 DEF ProcessHalted, FetchDone, ExecTx
    <2>2. step \in {"Process", "Fetch", "ExecTx"}
        BY <1>11 DEF ProcessHalted, FetchDone, ExecTx
    <2>. QED
        BY <2>1, <2>2 DEF FetchInv, InitIdle, ReqBelow, ReqUnique, KeptInv, Kept,
           Stored, OutVtxs
<1>12. CASE Halt \/ NetworkAdvance \/ UNCHANGED vars
    BY <1>12, FetchQuiet DEF Halt, NetworkAdvance, vars
<1>. QED
    BY <1>1, <1>2, <1>3, <1>4, <1>5, <1>6, <1>7, <1>8, <1>9, <1>10, <1>11,
       <1>12 DEF Next

-----------------------------------------------------------------------------
(* No missing vertex is lost (fetch, GetAncestorsFailed and Ancestors,    *)
(* lines 126-241 and 379-402): for every DAG, storage and configuration,  *)
(* whatever batches the peers send, whichever requests time out and      *)
(* wherever the node crashes, whenever the engine waits for its next     *)
(* event after the frontier poll, every missing vertex is stored,         *)
(* requested from a beacon or still to be fetched.                       *)
THEOREM MissingNeverDropped == Spec => []NoLostVertex
<1>1. Init => TypeOK /\ FetchInv
    BY InitType, FetchInit
<1>2. TypeOK /\ FetchInv /\ [Next]_vars => TypeOK' /\ FetchInv'
    BY TypeNext, FetchNext
<1>3. FetchInv => NoLostVertex
    BY DEF FetchInv, KeptInv, Kept, NoLostVertex, Dispatchable
<1>. QED
    BY <1>1, <1>2, <1>3, PTL DEF Spec
====
