----------------------- MODULE BootstrapperJobsProofs -----------------------
(***************************************************************************)
(* Proof that the committed vertex queue is closed under parents          *)
(* (CommittedJobsClosed): after a crash anywhere, every parent of a       *)
(* committed vertex job is accepted, committed as a job, or committed as  *)
(* missing, so the restarted node resumes from a queue it can finish.     *)
(***************************************************************************)
EXTENDS BootstrapperProofs

USE DagAssumption, StorageAssumption, ConfigAssumption
USE DEF storageVars, queueVars, dbVars, fetchVars, walkVars, lifeVars

\* While process() runs, every parent of an in-memory vertex job is
\* accepted, queued, marked missing, or still on the heap to be popped.
JobsClosed ==
    \A v \in vtxJobs : Parents[v] \subseteq AcceptedSet \cup vtxJobs \cup missing \cup heap

\* The handler returned early (halted, or a fatal error): the heap was
\* dropped and the working queues are never committed before a restart.
Aborted == step = "Idle" /\ (halted \/ phase = "Fatal")

\* The heap lives only inside process().
HeapOnlyInProcess == step # "Process" => heap = {}

\* checkFinish executes only once nothing is missing (lines 566-568).
NothingMissingInExec == step \in {"ExecTx", "ExecVtx"} => missing = {}

\* A vertex process() skips because it is cached or already seen at the
\* current height was queued (or has been accepted since).
SeenQueued == cache \cup heightSet \subseteq vtxJobs \cup AcceptedSet

JobsCore ==
    /\ CommittedJobsClosed /\ HeapOnlyInProcess /\ NothingMissingInExec
    /\ SeenQueued /\ (JobsClosed \/ Aborted)

\* The inductive invariant: types, the transaction strengthening, and JobsCore.
JobsInv == TypeOK /\ TxsCore /\ JobsCore

\* ParseVtx only ever moves Unknown to Processing: no vertex becomes or
\* stops being accepted.
LEMMA ParseAccepted ==
    ASSUME status \in [Vtx -> Status], NEW S, status' = Parse(S)
    PROVE  AcceptedSet' = AcceptedSet
BY DEF Parse, AcceptedSet

\* processedCache.Put adds the vertex and may evict others.
LEMMA CachePutSub ==
    ASSUME NEW c, NEW v, NEW c2 \in CachePut(c, v)
    PROVE  c2 \subseteq c \cup {v}
BY DEF CachePut

\* A step that leaves the queues, the walk state and the accepted set alone
\* keeps JobsCore, provided it enters process() or execution only when
\* the heap, respectively the missing set, allows it.
LEMMA JobsQuiet ==
    ASSUME JobsCore,
           AcceptedSet' = AcceptedSet,
           UNCHANGED <<vtxJobs, missing, heap, cache, heightSet, vtxJobsDB, missingDB>>,
           step' # "Process" => heap = {},
           step' \in {"ExecTx", "ExecVtx"} => missing = {},
           Aborted => Aborted'
    PROVE  JobsCore'
BY DEF JobsCore, CommittedJobsClosed, HeapOnlyInProcess, NothingMissingInExec,
       SeenQueued, JobsClosed

\* process(vs) entered from an idle dispatcher: the heap is reseeded and
\* the missing markers it clears belong to cached vertices.
LEMMA JobsProcess ==
    ASSUME JobsCore, ~Aborted, step = "Idle",
           NEW vs, NEW miss, NEW nf, Process(vs, miss, nf),
           missing \subseteq miss \cup AcceptedSet,
           AcceptedSet' = AcceptedSet,
           UNCHANGED <<vtxJobs, vtxJobsDB, missingDB>>
    PROVE  JobsCore'
<1>1. heap = {}
    BY DEF JobsCore, HeapOnlyInProcess
<1>2. JobsClosed
    BY DEF JobsCore
<1>3. JobsClosed'
    <2> SUFFICES ASSUME NEW v \in vtxJobs, NEW p \in Parents[v]
                 PROVE  p \in AcceptedSet \cup vtxJobs \cup missing' \cup heap'
        BY DEF JobsClosed
    <2>1. p \in AcceptedSet \cup vtxJobs \cup missing
        BY <1>1, <1>2 DEF JobsClosed
    <2>2. CASE p \in missing /\ p \notin AcceptedSet /\ p \in vs /\ p \in cache
        BY <2>2 DEF JobsCore, SeenQueued
    <2>. QED
        BY <2>1, <2>2 DEF Process
<1>. QED
    BY <1>3 DEF JobsCore, CommittedJobsClosed, HeapOnlyInProcess,
       NothingMissingInExec, SeenQueued, Process

\* One pop of process() (lines 430-517): an Unknown vertex becomes missing,
\* a queued or accepted one is covered already, a new one is queued and
\* its parents are either cached, seen at this height, or pushed; a
\* Rejected one aborts the handler.
LEMMA JobsProcessStep ==
    ASSUME TypeOK, JobsCore, ProcessStep
    PROVE  JobsCore'
<1>1. PICK v \in Popped :
          \/ ProcessUnknown(v) \/ ProcessRejected(v) \/ ProcessAccepted(v)
          \/ ProcessQueued(v) \/ ProcessNew(v)
    BY DEF ProcessStep
<1>2. /\ step = "Process" /\ v \in heap
      /\ UNCHANGED <<status, vtxJobsDB, missingDB, halted>>
    BY DEF ProcessStep, PopStep, Popped
<1>3. JobsClosed /\ AcceptedSet' = AcceptedSet
    BY <1>2 DEF JobsCore, Aborted, AcceptedSet
<1>4. CASE ProcessRejected(v)
    <2>1. /\ UNCHANGED <<vtxJobs, missing, cache, heightSet>>
          /\ heap' = {} /\ step' = "Idle" /\ phase' = "Fatal"
        BY <1>4 DEF ProcessRejected
    <2>2. Aborted'
        BY <1>2, <2>1 DEF Aborted
    <2>3. CommittedJobsClosed' /\ SeenQueued'
        BY <1>2, <1>3, <2>1 DEF JobsCore, CommittedJobsClosed, SeenQueued
    <2>. QED
        BY <2>1, <2>2, <2>3 DEF JobsCore, HeapOnlyInProcess, NothingMissingInExec
<1>5. CASE ProcessUnknown(v) \/ ProcessAccepted(v) \/ ProcessQueued(v)
    <2>1. /\ UNCHANGED <<vtxJobs, cache, heightSet>> /\ step' = "Process"
          /\ heap' = heap \ {v}
          /\ missing \ {v} \subseteq missing'
          /\ v \in AcceptedSet \cup vtxJobs \cup missing'
        <3>1. CASE ProcessUnknown(v)
            BY <1>2, <3>1 DEF ProcessUnknown
        <3>2. CASE ProcessAccepted(v)
            BY <1>2, <3>2 DEF ProcessAccepted, AcceptedSet, TypeOK
        <3>3. CASE ProcessQueued(v)
            BY <1>2, <3>3 DEF ProcessQueued
        <3>. QED
            BY <1>5, <3>1, <3>2, <3>3
    <2>2. JobsClosed'
        BY <1>3, <2>1 DEF JobsClosed
    <2>. QED
        BY <1>2, <1>3, <2>1, <2>2 DEF JobsCore, CommittedJobsClosed,
           HeapOnlyInProcess, NothingMissingInExec, SeenQueued
<1>6. CASE ProcessNew(v)
    <2>1. /\ vtxJobs' = vtxJobs \cup {v} /\ missing' = missing \ {v}
          /\ heap' = (heap \ {v}) \cup {p \in Parents[v] : p \notin cache /\ p \notin heightSet}
          /\ cache' \subseteq cache \cup {v}
          /\ heightSet' \subseteq heightSet \cup {v}
          /\ step' = "Process"
        <3>1. cache' \subseteq cache \cup {v}
            <4>1. CASE Striped(v)
                BY <1>6, <4>1, CachePutSub DEF ProcessNew
            <4>2. CASE ~Striped(v)
                BY <1>6, <4>2 DEF ProcessNew
            <4>. QED
                BY <4>1, <4>2
        <3>. QED
            BY <1>2, <1>6, <3>1 DEF ProcessNew
    <2>2. SeenQueued'
        BY <1>3, <2>1 DEF JobsCore, SeenQueued
    <2>3. JobsClosed'
        <3> SUFFICES ASSUME NEW w \in vtxJobs', NEW p \in Parents[w]
                     PROVE  p \in AcceptedSet' \cup vtxJobs' \cup missing' \cup heap'
            BY DEF JobsClosed
        <3>1. CASE w = v
            BY <1>3, <2>1, <3>1 DEF JobsCore, SeenQueued
        <3>2. CASE w # v
            BY <1>3, <2>1, <3>2 DEF JobsClosed
        <3>. QED
            BY <3>1, <3>2
    <2>. QED
        BY <1>2, <1>3, <2>1, <2>2, <2>3 DEF JobsCore, CommittedJobsClosed,
           HeapOnlyInProcess, NothingMissingInExec
<1>. QED
    BY <1>1, <1>4, <1>5, <1>6

\* VtxBlocked.Commit (line 530) writes the working queue and the missing
\* IDs when the heap is empty: the committed queue is closed.
LEMMA JobsCommitVtx ==
    ASSUME JobsCore, CommitVtx
    PROVE  JobsCore'
<1>1. heap = {} /\ JobsClosed
    BY DEF CommitVtx, JobsCore, HeapOnlyInProcess, Aborted
<1>. QED
    BY <1>1 DEF CommitVtx, Fetch, JobsCore, CommittedJobsClosed, HeapOnlyInProcess,
       NothingMissingInExec, SeenQueued, JobsClosed, AcceptedSet

\* The heap is dropped when process() sees the engine halted: the handler
\* returns without committing.
LEMMA JobsProcessHalted ==
    ASSUME JobsCore, ProcessHalted
    PROVE  JobsCore'
BY DEF ProcessHalted, JobsCore, CommittedJobsClosed, HeapOnlyInProcess,
       NothingMissingInExec, SeenQueued, Aborted, AcceptedSet

\* A crash reopens the queues at their last commit, which is closed.
LEMMA JobsCrash ==
    ASSUME JobsCore, Crash
    PROVE  JobsCore'
BY DEF Crash, JobsCore, CommittedJobsClosed, HeapOnlyInProcess,
       NothingMissingInExec, SeenQueued, JobsClosed, AcceptedSet

\* VtxBlocked.ExecuteAll (lines 582-600) runs after nothing is missing and
\* every transaction was accepted: each runnable job is accepted, so the
\* queue it writes back, in memory and on disk, stays closed.
LEMMA JobsExecVtx ==
    ASSUME TypeOK, TxsCore, JobsCore, ExecVtx
    PROVE  JobsCore'
<1>1. /\ heap = {} /\ missing = {} /\ JobsClosed /\ txJobs = {}
      /\ UNCHANGED <<txAccepted, heap, missing, missingDB, heightSet>>
      /\ step' = "Idle" /\ cache' \subseteq cache
    BY DEF ExecVtx, JobsCore, HeapOnlyInProcess, NothingMissingInExec, Aborted,
       TxsCore, ExecOrder
<1>2. Runnable \subseteq Executed
    <2> SUFFICES ASSUME NEW v \in Runnable PROVE TxsDone(v)
        BY DEF Executed
    <2>1. v \in vtxJobs
        BY DEF Runnable
    <2>. QED
        BY <1>1, <2>1 DEF TxsDone, TxsCore, JobTxsCovered
<1>3. /\ vtxJobs' = vtxJobs \ Runnable /\ vtxJobsDB' = vtxJobs'
      /\ vtxJobs \subseteq vtxJobs' \cup AcceptedSet'
      /\ AcceptedSet \subseteq AcceptedSet'
    <2>1. Executed \subseteq Vtx
        BY DEF Executed, Runnable, TypeOK
    <2>. QED
        BY <1>2, <2>1 DEF ExecVtx, AcceptedSet, TypeOK
<1>4. JobsClosed' /\ CommittedJobsClosed'
    BY <1>1, <1>3 DEF JobsClosed, CommittedJobsClosed
<1>5. SeenQueued'
    BY <1>1, <1>3 DEF JobsCore, SeenQueued
<1>. QED
    BY <1>1, <1>4, <1>5 DEF JobsCore, HeapOnlyInProcess, NothingMissingInExec

\* checkFinish enters execution only when nothing is missing.
LEMMA JobsFetchDone ==
    ASSUME JobsCore, FetchDone
    PROVE  JobsCore'
<1>1. heap = {} /\ ~Aborted
    BY DEF FetchDone, JobsCore, HeapOnlyInProcess, Aborted
<1>. QED
    BY <1>1, JobsQuiet DEF FetchDone, AcceptedSet

\* ForceAccepted(ids) (lines 536-559) from an idle dispatcher: the missing
\* IDs it drops are accepted.
LEMMA JobsForceAccepted ==
    ASSUME TypeOK, JobsCore, ~Aborted, step = "Idle",
           NEW ids, ForceAccepted(ids),
           UNCHANGED <<status, vtxJobs, vtxJobsDB, missingDB>>
    PROVE  JobsCore'
<1> DEFINE pending == missing \cup ids
           unknown == {v \in pending : ~Stored(v)}
           accepted == {v \in pending : status[v] = "Accepted"}
<1>1. Process(pending \ (unknown \cup accepted),
              (missing \ accepted) \cup unknown, needToFetch \cup unknown)
    BY DEF ForceAccepted
<1>2. missing \subseteq ((missing \ accepted) \cup unknown) \cup AcceptedSet
    BY DEF TypeOK, AcceptedSet
<1>3. AcceptedSet' = AcceptedSet
    BY DEF AcceptedSet
<1>. QED
    BY <1>1, <1>2, <1>3, JobsProcess

\* An Ancestors batch (lines 126-227): the three early returns touch only
\* storage and the fetch set; the walk hands its prefix to process().
LEMMA JobsAncestorsBatch ==
    ASSUME TypeOK, JobsCore, ~Aborted, step = "Idle",
           NEW node, NEW req, NEW b, AncestorsBatch(node, req, b)
    PROVE  JobsCore'
<1>1. heap = {}
    BY DEF JobsCore, HeapOnlyInProcess
<1>2. AcceptedSet' = AcceptedSet /\ UNCHANGED <<vtxJobs, vtxJobsDB, missingDB>>
    <2>1. \E S : status' = Parse(S) \/ UNCHANGED status
        BY DEF AncestorsBatch
    <2>2. UNCHANGED status => AcceptedSet' = AcceptedSet
        BY DEF AcceptedSet
    <2>. QED
        BY <2>1, <2>2, ParseAccepted DEF AncestorsBatch, TypeOK
<1>3. CASE Process(Prefix(b), missing, needToFetch \ Prefix(b))
    BY <1>2, <1>3, JobsProcess
<1>4. CASE ~Process(Prefix(b), missing, needToFetch \ Prefix(b))
    <2>1. UNCHANGED <<missing, heap, cache, heightSet>> /\ step' \in {"Idle", "Fetch"}
        BY <1>4 DEF AncestorsBatch, Fetch, Process
    <2>. QED
        BY <1>1, <1>2, <2>1, JobsQuiet
<1>. QED
    BY <1>3, <1>4

\* Every step, or a stutter, keeps JobsCore.
LEMMA JobsNext ==
    ASSUME TypeOK, TxsCore, JobsCore, [Next]_vars
    PROVE  JobsCore'
<1>1. CASE Start
    <2>1. step = "Idle" /\ ~Aborted /\ UNCHANGED <<status, vtxJobs, vtxJobsDB, missingDB>>
        BY <1>1 DEF Start, Aborted
    <2>2. CASE Linearized /\ ForceAccepted(Edge)
        BY <2>1, <2>2, JobsForceAccepted
    <2>3. CASE UNCHANGED <<missing, walkVars, step>>
        BY <2>1, <2>3, JobsQuiet DEF JobsCore, HeapOnlyInProcess, AcceptedSet
    <2>. QED
        BY <1>1, <2>2, <2>3 DEF Start
<1>2. CASE \E n \in Beacons : Connected(n) \/ Disconnected(n)
    <2>1. /\ UNCHANGED <<status, vtxJobs, missing, heap, cache, heightSet,
                        vtxJobsDB, missingDB, step>>
          /\ step = "Idle" /\ ~Aborted
        BY <1>2 DEF Connected, Disconnected, Dispatchable, Aborted
    <2>2. heap = {} /\ AcceptedSet' = AcceptedSet
        BY <2>1 DEF JobsCore, HeapOnlyInProcess, AcceptedSet
    <2>. QED
        BY <2>1, <2>2, JobsQuiet
<1>3. CASE FrontierDecided
    <2>1. step = "Idle" /\ ~Aborted /\ UNCHANGED <<status, vtxJobs, vtxJobsDB, missingDB>>
        BY <1>3 DEF FrontierDecided, Dispatchable, Aborted
    <2>. QED
        BY <1>3, <2>1, JobsForceAccepted DEF FrontierDecided
<1>4. ASSUME NEW node, NEW req, Dispatchable, GetAncestorsFailed(node, req)
      PROVE  JobsCore'
    <2>1. heap = {} /\ ~Aborted
        BY <1>4 DEF Dispatchable, JobsCore, HeapOnlyInProcess, Aborted
    <2>. QED
        BY <1>4, <2>1, JobsQuiet DEF GetAncestorsFailed, Fetch, AcceptedSet
<1>5. CASE \E m \in sent : AncestorsFailed(m.node, m.req)
    BY <1>4, <1>5 DEF AncestorsFailed
<1>6. CASE \E m \in sent : \E b \in AnswerBatches(m.vtx) : Ancestors(m.node, m.req, b)
    <2>0. PICK m \in sent : \E b \in AnswerBatches(m.vtx) : Ancestors(m.node, m.req, b)
        BY <1>6
    <2>1. PICK b \in AnswerBatches(m.vtx) : Ancestors(m.node, m.req, b)
        BY <2>0
    <2>2. step = "Idle" /\ ~Aborted /\ Dispatchable
        BY <2>1 DEF Ancestors, Dispatchable, Aborted
    <2>. QED
        BY <1>4, <2>1, <2>2, JobsAncestorsBatch DEF Ancestors
<1>7. CASE ProcessStep
    BY <1>7, JobsProcessStep
<1>8. CASE ProcessHalted \/ CommitVtx \/ FetchDone \/ ExecVtx \/ Crash
    BY <1>8, JobsProcessHalted, JobsCommitVtx, JobsFetchDone, JobsExecVtx, JobsCrash
<1>9. CASE ProcessDone \/ CommitTx \/ FetchStep \/ ExecTx
    <2>1. heap = {} /\ ~Aborted
        BY <1>9 DEF ProcessDone, CommitTx, FetchStep, ExecTx, JobsCore,
           HeapOnlyInProcess, Aborted
    <2>2. step' # "Process" /\ (step' \in {"ExecTx", "ExecVtx"} => missing = {})
        BY <1>9 DEF ProcessDone, CommitTx, FetchStep, ExecTx, JobsCore,
           NothingMissingInExec
    <2>3. AcceptedSet' = AcceptedSet
        BY <1>9 DEF ProcessDone, CommitTx, FetchStep, ExecTx, AcceptedSet
    <2>. QED
        BY <1>9, <2>1, <2>2, <2>3, JobsQuiet DEF ProcessDone, CommitTx, FetchStep, ExecTx
<1>10. CASE Halt \/ NetworkAdvance \/ UNCHANGED vars
    <2>1. UNCHANGED <<status, vtxJobs, missing, heap, cache, heightSet,
                      vtxJobsDB, missingDB, step>>
        BY <1>10 DEF Halt, NetworkAdvance, vars
    <2>2. Aborted => Aborted'
        BY <1>10 DEF Halt, NetworkAdvance, vars, Aborted
    <2>3. /\ step' # "Process" => heap = {}
          /\ step' \in {"ExecTx", "ExecVtx"} => missing = {}
          /\ AcceptedSet' = AcceptedSet
        BY <2>1 DEF JobsCore, HeapOnlyInProcess, NothingMissingInExec, AcceptedSet
    <2>. QED
        BY <2>1, <2>2, <2>3, JobsQuiet
<1>. QED
    BY <1>1, <1>2, <1>3, <1>5, <1>6, <1>7, <1>8, <1>9, <1>10 DEF Next

(* The committed vertex queue is closed under parents (process, lines     *)
(* 425-531, and its commit at 530): whatever the peers send, wherever     *)
(* the node crashes or is halted, every parent of a committed vertex job  *)
(* is accepted, committed as a job, or committed as missing, so the      *)
(* restarted node's ForceAccepted resumes a traversal it can finish.      *)
THEOREM CommittedJobsResumable == Spec => []CommittedJobsClosed
<1>1. Init => JobsInv
    BY InitType DEF Init, JobsInv, TxsCore, CommittedTxsCovered, JobTxsCovered,
       CommittedTxsKnown, CommitOrder, ExecOrder, JobsCore, CommittedJobsClosed,
       HeapOnlyInProcess, NothingMissingInExec, SeenQueued, JobsClosed
<1>2. JobsInv /\ [Next]_vars => JobsInv'
    BY TypeNext, TxsNext, JobsNext DEF JobsInv
<1>3. JobsInv => CommittedJobsClosed
    BY DEF JobsInv, JobsCore
<1>. QED
    BY <1>1, <1>2, <1>3, PTL DEF Spec
=============================================================================
