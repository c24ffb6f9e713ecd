----------------------- MODULE BootstrapperPollProofs -----------------------
(***************************************************************************)
(* Proof that no frontier poll is pending once the DAG is linearized, and *)
(* that a linearized engine is never left waiting (NoPollOnceLinearized). *)
(* Start (lines 323-327) runs ForceAccepted on a linearized DAG without   *)
(* setting started, so the argument has to show that the poll flag is    *)
(* only ever set with nothing to do (Startup) or with every requested    *)
(* vertex accepted (Restart after ExecuteAll), that in such a state no    *)
(* pass can accept the stop vertex, and that the pass Start runs on a     *)
(* linearized DAG has nothing missing and nothing to fetch, so it runs    *)
(* through to OnFinished.                                                 *)
(***************************************************************************)
EXTENDS BootstrapperAncestryProofs

USE DagAssumption, StorageAssumption, ConfigAssumption
USE DEF storageVars, queueVars, dbVars, fetchVars, walkVars, lifeVars

\* A handler runs only while the engine runs.
HandlerRunning == step # "Idle" => phase = "Running"

\* Before Start no handler ran: nothing is requested, nothing to fetch,
\* no poll pending.
InitQuiet ==
    phase = "Init" =>
        /\ step = "Idle" /\ OutVtxs = {} /\ needToFetch = {}
        /\ ~voting /\ ~started

\* Until the startup tracker says to start (or the DAG is linearized),
\* no handler has anything to request.
StartedQuiet ==
    ~started /\ ~Linearized =>
        /\ step = "Idle" /\ OutVtxs = {} /\ needToFetch = {} /\ ~voting

\* Outside process() and its commit, the committed missing set is the
\* working one (unless the handler gave up and only a restart follows).
MissingSynced ==
    \/ step \in {"Process", "CommitTx", "CommitVtx"}
    \/ Aborted
    \/ missingDB = missing

\* the vertices the engine keeps track of: missing, queued or accepted
Tracked == missing \cup vtxJobs \cup AcceptedSet

\* Every vertex requested or to be fetched is tracked.
FetchTracked == OutVtxs \cup needToFetch \subseteq Tracked

\* Startup: idle, with nothing requested and nothing to fetch.
Fresh == step = "Idle" /\ OutVtxs = {} /\ needToFetch = {}

\* After ExecuteAll: no job, nothing missing, and whatever is on the heap,
\* requested or to be fetched is accepted.
Drained ==
    /\ vtxJobs = {} /\ missing = {}
    /\ heap \cup OutVtxs \cup needToFetch \subseteq AcceptedSet

\* A pending poll: the DAG is not linearized and no pass can change that.
VoteInv == voting => ~Linearized /\ (Fresh \/ Drained)

\* Once linearized: no poll, no missing vertex (in memory or committed),
\* and a running engine is either halted or inside a pass that has
\* nothing to pop and nothing to fetch.
LinInv ==
    Linearized =>
        /\ ~voting /\ missing = {} /\ missingDB = {}
        /\ phase = "Running" =>
              \/ halted /\ step = "Idle"
              \/ needToFetch = {} /\ heap = {} /\ step # "Idle"

PollInv ==
    /\ HandlerRunning /\ InitQuiet /\ StartedQuiet /\ MissingSynced
    /\ FetchTracked /\ VoteInv /\ LinInv

\* The full inductive invariant of this module.
PollHyp == JobsInv /\ RejInv /\ PollInv
-----------------------------------------------------------------------------
(* ExecuteAll runs every job.                                             *)

\* When checkFinish reaches VtxBlocked.ExecuteAll (lines 590-600) nothing
\* is missing, the queue is closed under parents and every transaction is
\* accepted, so every queued vertex job is executed.
LEMMA ExecAll ==
    ASSUME JobsInv, RejInv, ExecVtx
    PROVE  Runnable = vtxJobs /\ Executed = vtxJobs
<1>1. heap = {} /\ missing = {} /\ JobsClosed
    BY DEF ExecVtx, JobsInv, JobsCore, HeapOnlyInProcess, NothingMissingInExec,
       Aborted
<1>2. \A v \in vtxJobs : TxsDone(v)
    BY DEF ExecVtx, JobsInv, TxsCore, ExecOrder, JobTxsCovered, TxsDone
<1>3. AcceptedSet \cup vtxJobs \subseteq Vtx /\ ParentClosed(AcceptedSet \cup vtxJobs)
    BY <1>1 DEF RejInv, ParentClosed, JobsClosed, AcceptedSet, JobsInv, TypeOK
<1>4. \A v \in vtxJobs : Anc({v}) \subseteq AcceptedSet \cup vtxJobs
    BY <1>3, AncLeast
<1>5. vtxJobs \subseteq Runnable
    BY <1>2, <1>4 DEF Runnable, AcceptedSet
<1>. QED
    BY <1>2, <1>5 DEF Runnable, Executed

\* ExecuteAll empties the queue into the accepted set.
LEMMA ExecAllStatus ==
    ASSUME JobsInv, RejInv, ExecVtx
    PROVE  /\ vtxJobs' = {}
           /\ AcceptedSet' = AcceptedSet \cup vtxJobs
           /\ vtxJobs = {} => status' = status
<1>1. Executed = vtxJobs /\ Runnable = vtxJobs
    BY ExecAll
<1>2. vtxJobs \subseteq Vtx /\ status \in [Vtx -> Status]
    BY DEF JobsInv, TypeOK
<1>. QED
    BY <1>1, <1>2 DEF ExecVtx, AcceptedSet
-----------------------------------------------------------------------------
(* The engine's own steps.                                                *)

\* The initial state satisfies the strengthening.
LEMMA PollInit == Init => PollInv
BY DEF Init, PollInv, HandlerRunning, InitQuiet, StartedQuiet, MissingSynced,
   FetchTracked, Tracked, VoteInv, LinInv, OutVtxs

\* A running, idle, unhalted engine (any dispatched handler) is not
\* linearized, and its committed missing set is the working one.
LEMMA DispatchState ==
    ASSUME PollInv, Dispatchable
    PROVE  ~Linearized /\ missingDB = missing
BY DEF PollInv, LinInv, MissingSynced, Dispatchable, Aborted

\* Start (lines 309-330): a linearized DAG runs ForceAccepted on its edge
\* with nothing missing; otherwise the startup tracker decides.
LEMMA PollStart ==
    ASSUME PollHyp, Start
    PROVE  PollInv'
<1>1. /\ phase = "Init" /\ step = "Idle" /\ OutVtxs = {} /\ needToFetch = {}
      /\ ~voting /\ ~started /\ ~halted
    BY DEF Start, PollHyp, PollInv, InitQuiet
<1>2. UNCHANGED <<status, vtxJobs, outstanding, missingDB, halted>> /\ phase' = "Running"
    BY DEF Start
<1>3. CASE Linearized /\ ForceAccepted(Edge) /\ UNCHANGED <<started, voting>>
    <2>1. missing = {} /\ missingDB = {}
        BY <1>3 DEF PollHyp, PollInv, LinInv
    <2>2. \A v \in Edge : status[v] = "Accepted"
        BY DEF Edge, AcceptedSet
    <2>3. heap' = {} /\ missing' = {} /\ needToFetch' = {} /\ step' = "Process"
        BY <1>1, <1>3, <2>1, <2>2 DEF ForceAccepted, Process, Stored
    <2>4. Linearized'
        BY <1>2, <1>3 DEF Linearized
    <2>. QED
        BY <1>1, <1>2, <1>3, <2>1, <2>3, <2>4 DEF PollInv, HandlerRunning,
           InitQuiet, StartedQuiet, MissingSynced, FetchTracked, VoteInv,
           LinInv, OutVtxs
<1>4. CASE /\ ~Linearized /\ started' = ShouldStart /\ voting' = ShouldStart
           /\ UNCHANGED <<needToFetch, missing, walkVars, step, frontier>>
    <2>1. missingDB = missing
        BY <1>1 DEF PollHyp, PollInv, MissingSynced, Aborted
    <2>2. ~Linearized'
        BY <1>2, <1>4 DEF Linearized
    <2>. QED
        BY <1>1, <1>2, <1>4, <2>1, <2>2 DEF PollInv, HandlerRunning, InitQuiet,
           StartedQuiet, MissingSynced, FetchTracked, VoteInv, LinInv, OutVtxs,
           Fresh
<1>. QED
    BY <1>3, <1>4 DEF Start

\* Connected and Disconnected (lines 333-361): only a Connected that
\* reaches the quorum before any start sets the poll, from a fresh state.
LEMMA PollConnection ==
    ASSUME PollHyp, NEW n, Connected(n) \/ Disconnected(n)
    PROVE  PollInv'
<1>1. Dispatchable /\ ~Linearized /\ missingDB = missing
    BY DispatchState DEF Connected, Disconnected, PollHyp
<1>2. UNCHANGED <<status, vtxJobs, missing, missingDB, heap, needToFetch,
                  outstanding, step, phase, halted>>
    BY DEF Connected, Disconnected
<1>3. ~Linearized'
    BY <1>1, <1>2 DEF Linearized
<1>4. CASE UNCHANGED <<started, voting>>
    BY <1>1, <1>2, <1>3, <1>4 DEF PollHyp, PollInv, HandlerRunning, InitQuiet,
       StartedQuiet, MissingSynced, FetchTracked, Tracked, VoteInv, LinInv,
       OutVtxs, Fresh, Drained, AcceptedSet, Aborted
<1>5. CASE ~started /\ started' = TRUE /\ voting' = TRUE
    <2>1. Fresh
        BY <1>1, <1>5 DEF PollHyp, PollInv, StartedQuiet, Fresh
    <2>2. Fresh' /\ VoteInv' /\ StartedQuiet' /\ LinInv'
        BY <1>2, <1>3, <1>5, <2>1 DEF Fresh, OutVtxs, VoteInv, StartedQuiet, LinInv
    <2>3. HandlerRunning' /\ InitQuiet' /\ MissingSynced' /\ FetchTracked'
        BY <1>1, <1>2 DEF PollHyp, PollInv, HandlerRunning, InitQuiet,
           MissingSynced, FetchTracked, Tracked, OutVtxs, AcceptedSet, Dispatchable
    <2>. QED
        BY <2>2, <2>3 DEF PollInv
<1>. QED
    BY <1>4, <1>5 DEF Connected, Disconnected

\* Another goroutine halts the engine: nothing else changes.
LEMMA PollHalt ==
    ASSUME PollHyp, Halt
    PROVE  PollInv'
<1>1. UNCHANGED <<status, vtxJobs, missing, missingDB, heap, needToFetch,
                  outstanding, step, phase, started, voting>> /\ ~halted /\ halted'
    BY DEF Halt
<1>2. Linearized' = Linearized /\ AcceptedSet' = AcceptedSet
    BY <1>1 DEF Linearized, AcceptedSet
<1>. QED
    BY <1>1, <1>2 DEF PollHyp, PollInv, HandlerRunning, InitQuiet, StartedQuiet,
       MissingSynced, FetchTracked, Tracked, VoteInv, LinInv, OutVtxs, Fresh,
       Drained, Aborted

\* A crash reopens the queues at their commit and forgets everything else.
LEMMA PollCrash ==
    ASSUME PollHyp, Crash
    PROVE  PollInv'
<1>1. Linearized' = Linearized /\ missing' = missingDB /\ UNCHANGED missingDB
    BY DEF Crash, Linearized
<1>. QED
    BY <1>1 DEF Crash, PollHyp, PollInv, HandlerRunning, InitQuiet, StartedQuiet,
       MissingSynced, FetchTracked, VoteInv, LinInv, OutVtxs

\* A step that keeps the accepted set keeps the stop vertex's status.
LEMMA LinearizedAccepted ==
    ASSUME AcceptedSet' = AcceptedSet
    PROVE  Linearized' = Linearized
BY DEF Linearized, AcceptedSet

\* A step that keeps the accepted set and changes none of the other state
\* the strengthening reads.
LEMMA PollQuiet ==
    ASSUME PollHyp, AcceptedSet' = AcceptedSet,
           UNCHANGED <<vtxJobs, missing, missingDB, heap, needToFetch,
                       outstanding, step, phase, started, voting, halted>>
    PROVE  PollInv'
<1>1. Linearized' = Linearized
    BY LinearizedAccepted
<1>. QED
    BY <1>1 DEF PollHyp, PollInv, HandlerRunning, InitQuiet, StartedQuiet,
       MissingSynced, FetchTracked, Tracked, VoteInv, LinInv, OutVtxs, Fresh,
       Drained, Aborted
-----------------------------------------------------------------------------
(* Dispatched handlers.                                                   *)

\* ForceAccepted(ids) (lines 536-559) marks missing and to fetch only the
\* same unknown vertices, and clears only accepted or cached markers.
LEMMA TrackForceAccepted ==
    ASSUME JobsInv, FetchTracked, NEW ids \in SUBSET Vtx, ForceAccepted(ids),
           UNCHANGED <<status, vtxJobs, outstanding>>
    PROVE  FetchTracked'
<1> DEFINE pending == missing \cup ids
           unknown == {v \in pending : ~Stored(v)}
           accepted == {v \in pending : status[v] = "Accepted"}
<1>1. /\ missing' = ((missing \ accepted) \cup unknown)
                      \ ((pending \ (unknown \cup accepted)) \cap cache)
      /\ needToFetch' = needToFetch \cup unknown
    BY DEF ForceAccepted, Process
<1>2. cache \subseteq vtxJobs \cup AcceptedSet /\ missing \subseteq Vtx
    BY DEF JobsInv, JobsCore, SeenQueued, TypeOK
<1>3. accepted \subseteq AcceptedSet /\ AcceptedSet' = AcceptedSet
    BY <1>2 DEF AcceptedSet
<1>4. Tracked \cup unknown \subseteq Tracked'
    BY <1>1, <1>2, <1>3 DEF Tracked
<1>. QED
    BY <1>1, <1>4 DEF FetchTracked, OutVtxs

\* The frontier poll decided (Startup's callback): ForceAccepted clears
\* the poll and enters process().
LEMMA PollFrontier ==
    ASSUME PollHyp, FrontierDecided
    PROVE  PollInv'
<1>1. Dispatchable /\ ~Linearized /\ voting
    BY DispatchState DEF FrontierDecided, PollHyp
<1>2. started
    BY <1>1 DEF PollHyp, PollInv, StartedQuiet
<1>3. /\ UNCHANGED <<status, vtxJobs, outstanding, phase, started, missingDB>>
      /\ step' = "Process" /\ ~voting'
    BY DEF FrontierDecided, ForceAccepted, Process
<1>4. NetFrontiers[netIdx] \subseteq Vtx
    BY DEF PollHyp, JobsInv, TypeOK
<1>5. FetchTracked'
    BY <1>3, <1>4, TrackForceAccepted DEF FrontierDecided, PollHyp, PollInv
<1>6. ~Linearized'
    BY <1>1, <1>3 DEF Linearized
<1>. QED
    BY <1>1, <1>2, <1>3, <1>5, <1>6 DEF PollInv, HandlerRunning, InitQuiet,
       StartedQuiet, MissingSynced, VoteInv, LinInv, Dispatchable

\* A handler that drops the matching requests and re-fetches their
\* vertices (GetAncestorsFailed, and Ancestors answered with garbage or
\* the wrong vertex): nothing new is requested or to be fetched.
LEMMA PollRefetch ==
    ASSUME PollHyp, Dispatchable,
           NEW match \in SUBSET outstanding, match # {},
           outstanding' = outstanding \ match,
           needToFetch' = needToFetch \cup {o.vtx : o \in match},
           step' = "Fetch", AcceptedSet' = AcceptedSet,
           UNCHANGED <<vtxJobs, missing, missingDB, heap, phase, started,
                       voting, halted>>
    PROVE  PollInv'
<1>1. ~Linearized /\ missingDB = missing /\ ~Linearized'
    BY DispatchState, LinearizedAccepted DEF PollHyp
<1>2. OutVtxs' \subseteq OutVtxs /\ {o.vtx : o \in match} \subseteq OutVtxs
      /\ OutVtxs # {}
    BY DEF OutVtxs
<1>3. started /\ (voting => Drained)
    BY <1>1, <1>2 DEF PollHyp, PollInv, StartedQuiet, VoteInv, Fresh
<1>4. FetchTracked'
    BY <1>2 DEF PollHyp, PollInv, FetchTracked, Tracked
<1>5. voting' => Drained'
    BY <1>2, <1>3 DEF Drained
<1>. QED
    BY <1>1, <1>3, <1>4, <1>5 DEF PollInv, HandlerRunning, InitQuiet,
       StartedQuiet, MissingSynced, VoteInv, LinInv, Dispatchable
\* GetAncestorsFailed (lines 246-263) re-fetches the requested vertex.
LEMMA PollGetAncestorsFailed ==
    ASSUME PollHyp, Dispatchable, NEW node, NEW req, GetAncestorsFailed(node, req)
    PROVE  PollInv'
<1> DEFINE match == {o \in outstanding : o.node = node /\ o.req = req}
<1>1. AcceptedSet' = AcceptedSet
    BY DEF GetAncestorsFailed, AcceptedSet
<1>2. /\ match \in SUBSET outstanding /\ match # {}
      /\ outstanding' = outstanding \ match
      /\ needToFetch' = needToFetch \cup {o.vtx : o \in match}
      /\ step' = "Fetch"
      /\ UNCHANGED <<vtxJobs, missing, missingDB, heap, phase, started, voting, halted>>
    BY DEF GetAncestorsFailed, Fetch
<1>. QED
    BY <1>1, <1>2, PollRefetch

(* An Ancestors batch (lines 151-244): a re-fetch, an unsolicited vertex  *)
(* that is only stored, or the walk.  The walk starts from a requested or *)
(* needed vertex, so while a poll is pending it only visits ancestors of  *)
(* an accepted vertex, which are accepted.                                *)
LEMMA PollBatch ==
    ASSUME PollHyp, Dispatchable, NEW node, NEW req, NEW b,
           AncestorsBatch(node, req, b)
    PROVE  PollInv'
<1> DEFINE match == {o \in outstanding : o.node = node /\ o.req = req}
           rv == {o.vtx : o \in match}
           first == b[1]
<1>1. ~Linearized /\ missingDB = missing
    BY DispatchState DEF PollHyp
<1>2. AcceptedSet' = AcceptedSet
    <2>1. \/ status' = Parse({first}) \/ status' = Parse(ParsedBy(b))
          \/ UNCHANGED status
        BY DEF AncestorsBatch
    <2>2. status \in [Vtx -> Status]
        BY DEF PollHyp, JobsInv, TypeOK
    <2>. QED
        BY <2>1, <2>2, ParseAccepted DEF AcceptedSet
<1>3. /\ outstanding' = outstanding \ match
      /\ UNCHANGED <<vtxJobs, missingDB, phase, started, voting, halted>>
    BY DEF AncestorsBatch
<1>4. CASE /\ first = Garbage /\ match # {} /\ Fetch(rv)
           /\ UNCHANGED <<status, missing, walkVars>>
    <2>1. /\ match \in SUBSET outstanding /\ match # {}
          /\ needToFetch' = needToFetch \cup {o.vtx : o \in match}
          /\ step' = "Fetch" /\ UNCHANGED <<missing, heap>>
        BY <1>4 DEF Fetch
    <2>. QED
        BY <1>2, <1>3, <2>1, PollRefetch
<1>5. CASE /\ first \in Vtx /\ match # {} /\ first \notin rv
           /\ status' = Parse({first}) /\ Fetch(rv)
           /\ UNCHANGED <<missing, walkVars>>
    <2>1. /\ match \in SUBSET outstanding /\ match # {}
          /\ needToFetch' = needToFetch \cup {o.vtx : o \in match}
          /\ step' = "Fetch" /\ UNCHANGED <<missing, heap>>
        BY <1>5 DEF Fetch
    <2>. QED
        BY <1>2, <1>3, <2>1, PollRefetch
<1>6. CASE /\ first \in Vtx /\ match = {}
           /\ first \notin OutVtxs /\ first \notin needToFetch
           /\ status' = Parse({first})
           /\ UNCHANGED <<needToFetch, missing, walkVars, step>>
    <2>1. outstanding' = outstanding
        BY <1>3, <1>6
    <2>. QED
        BY <1>2, <1>3, <1>6, <2>1, PollQuiet
<1>7. CASE /\ first \in Vtx
           /\ IF match # {} THEN first \in rv ELSE first \in OutVtxs \cup needToFetch
           /\ status' = Parse(ParsedBy(b))
           /\ Process(Prefix(b), missing, needToFetch \ Prefix(b))
    <2>1. first \in OutVtxs \cup needToFetch
        BY <1>7 DEF OutVtxs
    <2>2. started /\ (voting => Drained)
        BY <1>1, <2>1 DEF PollHyp, PollInv, StartedQuiet, VoteInv, Fresh
    <2>3. /\ heap' = Prefix(b) \ cache
          /\ missing' = missing \ (Prefix(b) \cap cache)
          /\ needToFetch' = needToFetch \ Prefix(b)
          /\ step' = "Process"
        BY <1>7 DEF Process
    <2>4. OutVtxs' \subseteq OutVtxs
        BY <1>3 DEF OutVtxs
    <2>5. FetchTracked'
        <3>1. cache \subseteq vtxJobs \cup AcceptedSet
            BY DEF PollHyp, JobsInv, JobsCore, SeenQueued
        <3>. QED
            BY <1>2, <1>3, <2>3, <2>4, <3>1 DEF PollHyp, PollInv, FetchTracked,
               Tracked
    <2>6. voting' => Drained'
        <3>1. SUFFICES ASSUME voting PROVE Drained'
            BY <1>3
        <3>2. first \in AcceptedSet
            BY <2>1, <2>2, <3>1 DEF Drained
        <3>3. Prefix(b) \subseteq Anc({first})
            BY <1>7, WalkAnc
        <3>4. Anc({first}) \subseteq AcceptedSet
            BY <3>2, AncLeast DEF PollHyp, RejInv, AcceptedSet
        <3>. QED
            BY <1>2, <1>3, <2>2, <2>3, <2>4, <3>1, <3>3, <3>4 DEF Drained
    <2>7. ~Linearized'
        BY <1>1, <1>2, LinearizedAccepted
    <2>. QED
        BY <1>3, <2>2, <2>3, <2>5, <2>6, <2>7 DEF PollInv, HandlerRunning,
           InitQuiet, StartedQuiet, MissingSynced, VoteInv, LinInv, Dispatchable
<1>. QED
    BY <1>4, <1>5, <1>6, <1>7 DEF AncestorsBatch
-----------------------------------------------------------------------------
(* The loops of process(), fetch() and checkFinish().                     *)

\* Inside a handler the engine runs, and it has started or is linearized.
LEMMA HandlerState ==
    ASSUME PollHyp, step # "Idle"
    PROVE  /\ phase = "Running" /\ ~Aborted
           /\ started \/ Linearized
           /\ voting => ~Linearized /\ Drained
BY DEF PollHyp, PollInv, HandlerRunning, StartedQuiet, VoteInv, Fresh, Aborted

\* One pop of process() (lines 425-518).  While a poll is pending the heap
\* holds only accepted vertices, which process() skips.
LEMMA PollProcessStep ==
    ASSUME PollHyp, ProcessStep
    PROVE  PollInv'
<1>1. PICK v \in Popped : \/ ProcessUnknown(v) \/ ProcessRejected(v)
                          \/ ProcessAccepted(v) \/ ProcessQueued(v) \/ ProcessNew(v)
    BY DEF ProcessStep
<1>2. /\ step = "Process" /\ heap # {} /\ ~halted /\ v \in heap
      /\ UNCHANGED <<status, missingDB, outstanding, started, voting, halted>>
    BY DEF ProcessStep, PopStep, Popped
<1>3. phase = "Running" /\ started /\ ~Linearized /\ ~Linearized'
      /\ (voting => Drained)
    BY <1>2, HandlerState DEF PollHyp, PollInv, LinInv, Linearized
<1>4. voting => status[v] = "Accepted"
    BY <1>2, <1>3 DEF Drained, AcceptedSet
<1>5. AcceptedSet' = AcceptedSet
    BY <1>2 DEF AcceptedSet
<1>6. CASE ProcessRejected(v)
    <2>1. ~voting /\ phase' = "Fatal" /\ step' = "Idle"
          /\ UNCHANGED <<vtxJobs, missing, needToFetch>>
        BY <1>4, <1>6 DEF ProcessRejected
    <2>. QED
        BY <1>2, <1>3, <1>5, <2>1 DEF PollHyp, PollInv, HandlerRunning,
           InitQuiet, StartedQuiet, MissingSynced, FetchTracked, Tracked,
           VoteInv, LinInv, OutVtxs, Aborted
<1>7. CASE ProcessAccepted(v)
    <2>1. heap' \subseteq heap /\ UNCHANGED <<vtxJobs, missing, needToFetch, step, phase>>
        BY <1>7 DEF ProcessAccepted
    <2>. QED
        BY <1>2, <1>3, <1>5, <2>1 DEF PollHyp, PollInv, HandlerRunning,
           InitQuiet, StartedQuiet, MissingSynced, FetchTracked, Tracked,
           VoteInv, LinInv, OutVtxs, Drained
<1>8. CASE ProcessUnknown(v) \/ ProcessQueued(v) \/ ProcessNew(v)
    <2>1. ~voting /\ UNCHANGED <<step, phase>>
        BY <1>4, <1>8 DEF ProcessUnknown, ProcessQueued, ProcessNew
    <2>2. Tracked \subseteq Tracked'
        BY <1>5, <1>8 DEF ProcessUnknown, ProcessQueued, ProcessNew, Tracked
    <2>3. needToFetch' \subseteq Tracked' \cup needToFetch
        BY <1>5, <1>8 DEF ProcessUnknown, ProcessQueued, ProcessNew, Tracked
    <2>4. FetchTracked'
        BY <1>2, <2>2, <2>3 DEF PollHyp, PollInv, FetchTracked, OutVtxs
    <2>. QED
        BY <1>2, <1>3, <2>1, <2>4 DEF PollHyp, PollInv, HandlerRunning,
           InitQuiet, StartedQuiet, MissingSynced, VoteInv, LinInv
<1>. QED
    BY <1>1, <1>6, <1>7, <1>8

\* b.Halted() at the top of the loop: the heap is dropped, nothing else.
LEMMA PollProcessHalted ==
    ASSUME PollHyp, ProcessHalted
    PROVE  PollInv'
<1>1. /\ step = "Process" /\ heap # {} /\ halted /\ step' = "Idle" /\ heap' = {}
      /\ UNCHANGED <<status, vtxJobs, missing, missingDB, needToFetch,
                     outstanding, phase, started, voting, halted>>
    BY DEF ProcessHalted
<1>2. phase = "Running" /\ started /\ ~Linearized /\ ~Linearized'
      /\ (voting => Drained)
    BY <1>1, HandlerState DEF PollHyp, PollInv, LinInv, Linearized
<1>. QED
    BY <1>1, <1>2 DEF PollHyp, PollInv, HandlerRunning, InitQuiet, StartedQuiet,
       MissingSynced, FetchTracked, Tracked, VoteInv, LinInv, OutVtxs, Drained,
       AcceptedSet, Aborted

\* The commit at the end of process() (lines 520-531) and the call of
\* fetch() with no new IDs: the committed missing set becomes the working
\* one, and the pass goes on.
LEMMA PollCommit ==
    ASSUME PollHyp, ProcessDone \/ CommitTx \/ CommitVtx
    PROVE  PollInv'
<1>1. /\ step \in {"Process", "CommitTx", "CommitVtx"}
      /\ step' \in {"CommitTx", "CommitVtx", "Fetch"}
      /\ step' = "Fetch" => missingDB' = missing
      /\ UNCHANGED <<status, vtxJobs, missing, needToFetch, outstanding, heap,
                     phase, started, voting, halted>>
      /\ missingDB' = missingDB \/ missingDB' = missing
    BY DEF ProcessDone, CommitTx, CommitVtx, Fetch
<1>2. phase = "Running" /\ (started \/ Linearized) /\ Linearized' = Linearized
    BY <1>1, HandlerState DEF Linearized
<1>3. LinInv'
    BY <1>1, <1>2 DEF PollHyp, PollInv, LinInv
<1>4. MissingSynced'
    BY <1>1 DEF MissingSynced
<1>5. AcceptedSet' = AcceptedSet /\ OutVtxs' = OutVtxs
    BY <1>1 DEF AcceptedSet, OutVtxs
<1>6. FetchTracked' /\ VoteInv'
    BY <1>1, <1>2, <1>5 DEF PollHyp, PollInv, FetchTracked, Tracked, VoteInv,
       Drained, Fresh
<1>7. HandlerRunning' /\ InitQuiet' /\ StartedQuiet'
    BY <1>1, <1>2 DEF HandlerRunning, InitQuiet, StartedQuiet
<1>. QED
    BY <1>3, <1>4, <1>6, <1>7 DEF PollInv
\* One turn of the loop of fetch() (lines 133-149).  While a poll is
\* pending everything to fetch is accepted, hence stored and skipped;
\* a request is only sent for a vertex the engine tracks.
LEMMA PollFetchStep ==
    ASSUME PollHyp, FetchStep
    PROVE  PollInv'
<1>1. PICK v \in needToFetch :
          /\ needToFetch' = needToFetch \ {v}
          /\ \/ (v \in OutVtxs \/ Stored(v)) /\ UNCHANGED <<outstanding, step, phase>>
             \/ ~Stored(v) /\ phase' = "Fatal" /\ step' = "Idle"
                /\ UNCHANGED outstanding
             \/ /\ ~Stored(v) /\ UNCHANGED <<step, phase>>
                /\ \E n \in Beacons :
                      outstanding' = outstanding
                                     \cup {[node |-> n, req |-> requestID + 1, vtx |-> v]}
    BY DEF FetchStep
<1>2. /\ step = "Fetch" /\ needToFetch # {}
      /\ UNCHANGED <<status, vtxJobs, missing, missingDB, heap, started, voting, halted>>
    BY DEF FetchStep, FetchLoop
<1>3. /\ phase = "Running" /\ started /\ ~Linearized /\ ~Linearized'
      /\ missingDB = missing /\ (voting => Drained)
    BY <1>2, HandlerState DEF PollHyp, PollInv, LinInv, Linearized, MissingSynced
<1>4. voting => Stored(v)
    BY <1>3 DEF Drained, AcceptedSet, Stored
<1>5. AcceptedSet' = AcceptedSet /\ Tracked' = Tracked
    BY <1>2 DEF AcceptedSet, Tracked
<1>6. OutVtxs' \subseteq OutVtxs \cup {v} /\ v \in Tracked
    BY <1>1 DEF PollHyp, PollInv, FetchTracked, OutVtxs
<1>7. FetchTracked'
    BY <1>1, <1>5, <1>6 DEF PollHyp, PollInv, FetchTracked
<1>8. voting' => Drained'
    BY <1>1, <1>2, <1>3, <1>4, <1>5 DEF Drained, OutVtxs
<1>9. \/ step' = "Idle" /\ phase' = "Fatal"
      \/ step' = "Fetch" /\ phase' = "Running"
    BY <1>1, <1>2, <1>3
<1>10. HandlerRunning' /\ InitQuiet' /\ StartedQuiet' /\ MissingSynced'
    BY <1>2, <1>3, <1>9 DEF HandlerRunning, InitQuiet, StartedQuiet, MissingSynced
<1>11. VoteInv' /\ LinInv'
    BY <1>2, <1>3, <1>8 DEF VoteInv, LinInv
<1>. QED
    BY <1>7, <1>10, <1>11 DEF PollInv

\* checkFinish (lines 563-570) returns while a vertex is missing and
\* otherwise executes; once linearized nothing is missing.
LEMMA PollFetchDone ==
    ASSUME PollHyp, FetchDone
    PROVE  PollInv'
<1>1. /\ step = "Fetch" /\ step' = IF missing = {} THEN "ExecTx" ELSE "Idle"
      /\ UNCHANGED <<status, vtxJobs, missing, missingDB, heap, needToFetch,
                     outstanding, phase, started, voting, halted>>
    BY DEF FetchDone
<1>2. /\ phase = "Running" /\ (started \/ Linearized) /\ missingDB = missing
      /\ (voting => ~Linearized /\ Drained)
    BY <1>1, HandlerState DEF PollHyp, PollInv, MissingSynced
<1>3. Linearized' = Linearized /\ AcceptedSet' = AcceptedSet /\ OutVtxs' = OutVtxs
    BY <1>1 DEF Linearized, AcceptedSet, OutVtxs
<1>4. LinInv'
    BY <1>1, <1>2, <1>3 DEF PollHyp, PollInv, LinInv
<1>5. HandlerRunning' /\ InitQuiet' /\ StartedQuiet' /\ MissingSynced'
    BY <1>1, <1>2, <1>3 DEF HandlerRunning, InitQuiet, StartedQuiet, MissingSynced
<1>6. FetchTracked' /\ VoteInv'
    BY <1>1, <1>2, <1>3 DEF PollHyp, PollInv, FetchTracked, Tracked, VoteInv,
       Drained
<1>. QED
    BY <1>4, <1>5, <1>6 DEF PollInv

\* TxBlocked.ExecuteAll (lines 572-588), then return if halted.
LEMMA PollExecTx ==
    ASSUME PollHyp, ExecTx
    PROVE  PollInv'
<1>1. /\ step = "ExecTx" /\ step' = IF halted THEN "Idle" ELSE "ExecVtx"
      /\ UNCHANGED <<status, vtxJobs, missing, missingDB, heap, needToFetch,
                     outstanding, phase, started, voting, halted>>
    BY DEF ExecTx
<1>2. /\ phase = "Running" /\ (started \/ Linearized) /\ missingDB = missing
      /\ (voting => ~Linearized /\ Drained)
    BY <1>1, HandlerState DEF PollHyp, PollInv, MissingSynced
<1>3. Linearized' = Linearized /\ AcceptedSet' = AcceptedSet /\ OutVtxs' = OutVtxs
    BY <1>1 DEF Linearized, AcceptedSet, OutVtxs
<1>4. LinInv'
    BY <1>1, <1>2, <1>3 DEF PollHyp, PollInv, LinInv
<1>5. HandlerRunning' /\ InitQuiet' /\ StartedQuiet' /\ MissingSynced'
    BY <1>1, <1>2, <1>3 DEF HandlerRunning, InitQuiet, StartedQuiet, MissingSynced
<1>6. FetchTracked' /\ VoteInv'
    BY <1>1, <1>2, <1>3 DEF PollHyp, PollInv, FetchTracked, Tracked, VoteInv,
       Drained
<1>. QED
    BY <1>4, <1>5, <1>6 DEF PollInv
(* VtxBlocked.ExecuteAll and what follows it (lines 590-623).  Every job  *)
(* runs, so everything requested or to be fetched is now accepted: the   *)
(* poll Restart sets again finds a drained engine.  A pending poll, on   *)
(* the other hand, means the queue was already empty, so this step        *)
(* cannot be the one that accepts the stop vertex.                        *)
LEMMA PollExecVtx ==
    ASSUME PollHyp, ExecVtx
    PROVE  PollInv'
<1>1. /\ step = "ExecVtx" /\ step' = "Idle"
      /\ UNCHANGED <<missing, missingDB, needToFetch, outstanding, heap,
                     started, halted>>
    BY DEF ExecVtx
<1>2. /\ phase = "Running" /\ (started \/ Linearized) /\ missingDB = missing
      /\ (voting => ~Linearized /\ Drained)
    BY <1>1, HandlerState DEF PollHyp, PollInv, MissingSynced
<1>3. missing = {} /\ heap = {}
    BY <1>1 DEF PollHyp, JobsInv, JobsCore, NothingMissingInExec, HeapOnlyInProcess
<1>4. /\ vtxJobs' = {}
      /\ AcceptedSet' = AcceptedSet \cup vtxJobs
      /\ vtxJobs = {} => status' = status
    BY ExecAllStatus DEF PollHyp
<1>5. Linearized => Linearized'
    BY <1>4 DEF Linearized, AcceptedSet
<1>6. voting => ~Linearized'
    BY <1>2, <1>4 DEF Drained, Linearized
<1>7. Drained'
    <2>1. OutVtxs \cup needToFetch \subseteq AcceptedSet'
        BY <1>3, <1>4 DEF PollHyp, PollInv, FetchTracked, Tracked
    <2>2. OutVtxs' = OutVtxs
        BY <1>1 DEF OutVtxs
    <2>. QED
        BY <1>1, <1>3, <1>4, <2>1, <2>2 DEF Drained
<1>8. HandlerRunning' /\ MissingSynced' /\ FetchTracked'
    BY <1>1, <1>2, <1>7 DEF HandlerRunning, MissingSynced, FetchTracked, Tracked,
       Drained
<1>9. StartedQuiet'
    BY <1>1, <1>2, <1>5 DEF StartedQuiet
<1>10. CASE halted /\ UNCHANGED <<phase, voting, cache>>
    BY <1>1, <1>2, <1>3, <1>6, <1>7, <1>8, <1>9, <1>10 DEF PollInv, InitQuiet,
       VoteInv, LinInv
<1>11. CASE ~halted /\ status'[StopVtx] # "Accepted" /\ voting' = TRUE
            /\ UNCHANGED <<phase, cache>>
    BY <1>2, <1>7, <1>8, <1>9, <1>11 DEF PollInv, InitQuiet, VoteInv, LinInv,
       Linearized
<1>12. CASE ~halted /\ status'[StopVtx] = "Accepted" /\ phase' = "Done"
            /\ cache' = {} /\ UNCHANGED voting
    <2>1. ~voting'
        BY <1>6, <1>12 DEF Linearized
    <2>. QED
        BY <1>1, <1>2, <1>3, <1>8, <1>9, <1>12, <2>1 DEF PollInv, InitQuiet,
           VoteInv, LinInv
<1>. QED
    BY <1>10, <1>11, <1>12 DEF ExecVtx
-----------------------------------------------------------------------------
(* The theorem.                                                           *)

\* Every step, or a stutter, keeps the strengthening.
LEMMA PollNext ==
    ASSUME PollHyp, [Next]_vars
    PROVE  PollInv'
<1>1. CASE Start
    BY <1>1, PollStart
<1>2. CASE \E n \in Beacons : Connected(n) \/ Disconnected(n)
    BY <1>2, PollConnection
<1>3. CASE FrontierDecided
    BY <1>3, PollFrontier
<1>4. CASE \E m \in sent : AncestorsFailed(m.node, m.req)
    BY <1>4, PollGetAncestorsFailed DEF AncestorsFailed
<1>5. CASE \E m \in sent : \E b \in AnswerBatches(m.vtx) : Ancestors(m.node, m.req, b)
    <2>1. PICK m \in sent : \E b \in AnswerBatches(m.vtx) : Ancestors(m.node, m.req, b)
        BY <1>5
    <2>2. PICK b \in AnswerBatches(m.vtx) : Ancestors(m.node, m.req, b)
        BY <2>1
    <2>3. CASE GetAncestorsFailed(m.node, m.req)
        BY <2>2, <2>3, PollGetAncestorsFailed DEF Ancestors
    <2>4. CASE AncestorsBatch(m.node, m.req,
                   IF Len(b) > AncestorsMax THEN SubSeq(b, 1, AncestorsMax) ELSE b)
        BY <2>2, <2>4, PollBatch DEF Ancestors
    <2>. QED
        BY <2>2, <2>3, <2>4 DEF Ancestors
<1>6. CASE ProcessStep
    BY <1>6, PollProcessStep
<1>7. CASE ProcessHalted
    BY <1>7, PollProcessHalted
<1>8. CASE ProcessDone \/ CommitTx \/ CommitVtx
    BY <1>8, PollCommit
<1>9. CASE FetchStep
    BY <1>9, PollFetchStep
<1>10. CASE FetchDone
    BY <1>10, PollFetchDone
<1>11. CASE ExecTx
    BY <1>11, PollExecTx
<1>12. CASE ExecVtx
    BY <1>12, PollExecVtx
<1>13. CASE Halt
    BY <1>13, PollHalt
<1>14. CASE Crash
    BY <1>14, PollCrash
<1>15. CASE NetworkAdvance \/ UNCHANGED vars
    <2>1. AcceptedSet' = AcceptedSet
        BY <1>15 DEF NetworkAdvance, vars, AcceptedSet
    <2>. QED
        BY <1>15, <2>1, PollQuiet DEF NetworkAdvance, vars
<1>. QED
    BY <1>1, <1>2, <1>3, <1>4, <1>5, <1>6, <1>7, <1>8, <1>9, <1>10, <1>11,
       <1>12, <1>13, <1>14, <1>15 DEF Next

(* No second frontier poll on a linearized DAG (Start, lines 323-327,     *)
(* Startup, Restart and checkFinish): for every DAG, storage, beacon set  *)
(* and configuration, and whatever the peers send, once the stop vertex   *)
(* is accepted no frontier poll is pending, and a running, unhalted       *)
(* engine is inside a handler rather than waiting for an event.           *)
THEOREM LinearizedNoPoll == Spec => []NoPollOnceLinearized
<1>1. Init => PollHyp
    <2>1. SUFFICES ASSUME Init PROVE PollHyp
        OBVIOUS
    <2>2. JobsInv
        BY <2>1, InitType DEF Init, JobsInv, TxsCore, CommittedTxsCovered,
           JobTxsCovered, CommittedTxsKnown, CommitOrder, ExecOrder, JobsCore,
           CommittedJobsClosed, HeapOnlyInProcess, NothingMissingInExec,
           SeenQueued, JobsClosed
    <2>3. RejInv
        BY <2>1 DEF Init, RejInv, Queued, ParentClosed, AcceptedSet
    <2>. QED
        BY <2>1, <2>2, <2>3, PollInit DEF PollHyp
<1>2. PollHyp /\ [Next]_vars => PollHyp'
    BY TypeNext, TxsNext, JobsNext, RejNext, PollNext DEF PollHyp, JobsInv
<1>3. PollHyp => NoPollOnceLinearized
    BY DEF PollHyp, PollInv, LinInv, NoPollOnceLinearized
<1>. QED
    BY <1>1, <1>2, <1>3, PTL DEF Spec
====
