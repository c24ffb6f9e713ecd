--------------------- MODULE BootstrapperAncestryProofs ---------------------
(***************************************************************************)
(* Proof of Byzantine containment (OnlyNeededQueued): whatever batches    *)
(* the peers send, only ancestors of a frontier the beacons reported, or  *)
(* of the storage at boot, are ever queued or accepted.  The argument     *)
(* rests on the Ancestors walk (lines 175-224): every vertex it keeps is  *)
(* an ancestor of the vertex that answers the request, by induction over  *)
(* the batch, done here with the least-element principle of Nat.          *)
(***************************************************************************)
EXTENDS BootstrapperJobsProofs, WellFoundedInduction

USE DagAssumption, StorageAssumption, ConfigAssumption
USE DEF storageVars, queueVars, dbVars, fetchVars, walkVars, lifeVars

-----------------------------------------------------------------------------
(* The ancestor closure.                                                  *)

\* Anc(S) lies below every parent-closed set of vertices containing S.
LEMMA AncLeast ==
    ASSUME NEW S, NEW T \in SUBSET Vtx, S \subseteq T, ParentClosed(T)
    PROVE  Anc(S) \subseteq T
BY DEF Anc

\* Anc(S) is itself a parent-closed set of vertices.
LEMMA AncClosed ==
    ASSUME NEW S
    PROVE  Anc(S) \subseteq Vtx /\ ParentClosed(Anc(S))
<1>1. Anc(S) \subseteq Vtx
    BY DEF Anc
<1>2. ASSUME NEW v \in Anc(S), NEW p \in Parents[v] PROVE p \in Anc(S)
    <2>1. v \in Vtx /\ p \in Vtx
        BY <1>1 DEF Anc
    <2>2. \A T \in SUBSET Vtx : S \subseteq T /\ ParentClosed(T) => p \in T
        BY <2>1 DEF Anc, ParentClosed
    <2>. QED
        BY <2>1, <2>2 DEF Anc
<1>. QED
    BY <1>1, <1>2 DEF ParentClosed

\* A set of vertices lies in its own closure.
LEMMA AncBase ==
    ASSUME NEW S \in SUBSET Vtx
    PROVE  S \subseteq Anc(S)
BY DEF Anc

\* The closure of a subset of a closure stays inside it.
LEMMA AncWithin ==
    ASSUME NEW S, NEW U, S \subseteq Anc(U)
    PROVE  Anc(S) \subseteq Anc(U)
BY AncClosed, AncLeast

\* A non-empty set of naturals has a least element (from the well-
\* foundedness of < on Nat).
LEMMA LeastIndex ==
    ASSUME NEW T \in SUBSET Nat, T # {}
    PROVE  \E m \in T : \A k \in T : m <= k
<1>1. \E x \in T : \A y \in T : ~(<<y, x>> \in OpToRel(<, Nat))
    BY NatLessThanWellFounded, WFMin
<1>2. PICK x \in T : \A y \in T : ~(<<y, x>> \in OpToRel(<, Nat))
    BY <1>1
<1>3. \A y \in T : ~(y < x)
    BY <1>2 DEF OpToRel
<1>. QED
    BY <1>3

(* The Ancestors walk keeps only ancestors of the vertex that answered    *)
(* (lines 181-224): a vertex is appended only if some vertex appended     *)
(* before it named it as a parent (the eligibleVertices check at 206).   *)
LEMMA WalkAnc ==
    ASSUME NEW b, b[1] \in Vtx
    PROVE  Prefix(b) \subseteq Anc({b[1]})
<1> DEFINE A == Anc({b[1]})
           Bad == {i \in Walked(b) : b[i] \notin A}
<1>1. A \subseteq Vtx /\ ParentClosed(A) /\ b[1] \in A
    BY AncClosed, AncBase
<1>2. SUFFICES ASSUME NEW w \in Walked(b), b[w] \notin A PROVE FALSE
    BY DEF Prefix
<1>3. Bad \subseteq Nat /\ Bad # {}
    BY <1>2 DEF Walked
<1>4. PICK i \in Bad : \A k \in Bad : i <= k
    BY <1>3, LeastIndex
<1>5. i \in 2 .. Len(b) /\ Consumed(b, i)
    <2>1. i \in Walked(b) /\ b[i] \notin A
        BY <1>4
    <2>2. i # 1
        BY <1>1, <2>1
    <2>. QED
        BY <2>1, <2>2 DEF Walked
<1>6. b[i] \in Elig(b, i - 1)
    BY <1>5 DEF Consumed
<1>7. PICK j \in 1 .. i - 1 : b[i] \in ParentsOf(b[j])
    BY <1>5, <1>6 DEF Elig
<1>8. j \in Walked(b)
    BY <1>5, <1>7 DEF Walked, Consumed
<1>9. b[j] \in A
    <2>1. SUFFICES ASSUME b[j] \notin A PROVE FALSE
        OBVIOUS
    <2>2. j \in Bad
        BY <1>8, <2>1
    <2>3. i <= j
        BY <1>4, <2>2
    <2>. QED
        BY <1>5, <1>7, <2>3
<1>10. b[j] \in Vtx
    BY <1>1, <1>9
<1>. QED
    BY <1>1, <1>4, <1>7, <1>9, <1>10 DEF ParentsOf, ParentClosed
-----------------------------------------------------------------------------
(* The needed vertices.                                                   *)

\* the frontiers reported so far and the storage at boot
NeedRoots == (UNION {NetFrontiers[i] : i \in 1 .. netIdx})
                \cup {v \in Vtx : InitStatus[v] = "Accepted"}

\* Every vertex the engine holds for work: queued, committed, accepted,
\* missing, on the heap, to be fetched, or requested.
Work == heap \cup vtxJobs \cup vtxJobsDB \cup AcceptedSet \cup missing
            \cup missingDB \cup needToFetch \cup OutVtxs

\* The strengthening of OnlyNeededQueued: all the work is needed.
NeedInv == Work \subseteq Needed

\* The roots up to any reported frontier are vertices.
LEMMA RootsVtx ==
    ASSUME NEW n \in 1 .. Len(NetFrontiers)
    PROVE  (UNION {NetFrontiers[i] : i \in 1 .. n})
               \cup {v \in Vtx : InitStatus[v] = "Accepted"} \subseteq Vtx
<1>1. \A i \in 1 .. n : NetFrontiers[i] \subseteq Vtx
    BY ConfigAssumption
<1>. QED
    BY <1>1

\* Needed is the closure of its roots.
LEMMA NeededIsAnc == Needed = Anc(NeedRoots)
BY DEF Needed, NeedRoots

\* The needed vertices are closed under parents.
LEMMA NeededClosed == Needed \subseteq Vtx /\ ParentClosed(Needed)
BY AncClosed DEF Needed

\* Everything above a needed vertex's ancestors is needed.
LEMMA NeededAnc ==
    ASSUME NEW x \in Needed
    PROVE  Anc({x}) \subseteq Needed
<1>1. {x} \subseteq Anc(NeedRoots)
    BY NeededIsAnc
<1>. QED
    BY <1>1, NeededIsAnc, AncWithin

\* The frontier the network reports now is needed.
LEMMA NeededFrontier ==
    ASSUME netIdx \in 1 .. Len(NetFrontiers)
    PROVE  NetFrontiers[netIdx] \subseteq Needed
<1>1. NeedRoots \subseteq Vtx
    BY RootsVtx DEF NeedRoots
<1>2. NetFrontiers[netIdx] \subseteq NeedRoots
    BY DEF NeedRoots
<1>. QED
    BY <1>1, <1>2, AncBase DEF Needed, NeedRoots

\* The network reporting a new frontier only adds needed vertices.
LEMMA NeededGrows ==
    ASSUME netIdx \in 1 .. Len(NetFrontiers), netIdx < Len(NetFrontiers),
           netIdx' = netIdx + 1
    PROVE  Needed \subseteq Needed'
<1> DEFINE R1 == (UNION {NetFrontiers[i] : i \in 1 .. netIdx + 1})
                     \cup {v \in Vtx : InitStatus[v] = "Accepted"}
<1>1. Needed' = Anc(R1)
    BY DEF Needed
<1>2. NeedRoots \subseteq R1 /\ R1 \subseteq Vtx
    <2>1. netIdx + 1 \in 1 .. Len(NetFrontiers)
        BY ConfigAssumption
    <2>. QED
        BY <2>1, RootsVtx DEF NeedRoots
<1>3. R1 \subseteq Anc(R1)
    BY <1>2, AncBase
<1>4. Anc(R1) \subseteq Vtx /\ ParentClosed(Anc(R1))
    BY AncClosed
<1>5. Anc(NeedRoots) \subseteq Anc(R1)
    BY <1>2, <1>3, <1>4, AncLeast
<1>. QED
    BY <1>1, <1>5 DEF Needed, NeedRoots

\* A step that leaves the reported frontiers alone keeps NeedInv if
\* everything it leaves for work is needed.
LEMMA NeedKeep ==
    ASSUME UNCHANGED netIdx, Work' \subseteq Needed
    PROVE  NeedInv'
BY DEF NeedInv, Needed

\* ForceAccepted(ids) on needed ids (lines 536-559) keeps NeedInv.
LEMMA NeedForceAccepted ==
    ASSUME NeedInv, NEW ids \in SUBSET Needed, ForceAccepted(ids),
           UNCHANGED <<status, vtxJobs, vtxJobsDB, missingDB, outstanding, netIdx>>
    PROVE  NeedInv'
<1>1. missing \cup ids \subseteq Needed
    BY DEF NeedInv, Work
<1>2. heap' \cup missing' \cup needToFetch' \subseteq missing \cup ids \cup needToFetch
    BY DEF ForceAccepted, Process
<1>3. AcceptedSet' = AcceptedSet /\ OutVtxs' = OutVtxs
    BY DEF AcceptedSet, OutVtxs
<1>. QED
    BY <1>1, <1>2, <1>3, NeedKeep DEF NeedInv, Work

\* An Ancestors batch (lines 126-224): the early returns only re-fetch
\* requested vertices; the walk keeps ancestors of a requested or needed
\* vertex, so everything it hands to process() is needed.
LEMMA NeedAncestorsBatch ==
    ASSUME TypeOK, NeedInv, UNCHANGED netIdx, step = "Idle",
           NEW node, NEW req, NEW b, AncestorsBatch(node, req, b)
    PROVE  NeedInv'
<1> DEFINE match == {o \in outstanding : o.node = node /\ o.req = req}
           rv == {o.vtx : o \in match}
<1>1. rv \subseteq OutVtxs /\ OutVtxs' \subseteq OutVtxs
    BY DEF AncestorsBatch, OutVtxs
<1>2. AcceptedSet' = AcceptedSet
    <2>1. \E S : status' = Parse(S) \/ UNCHANGED status
        BY DEF AncestorsBatch
    <2>2. UNCHANGED status => AcceptedSet' = AcceptedSet
        BY DEF AcceptedSet
    <2>. QED
        BY <2>1, <2>2, ParseAccepted DEF TypeOK
<1>3. UNCHANGED <<vtxJobs, vtxJobsDB, missingDB>>
    BY DEF AncestorsBatch
<1>4. CASE Process(Prefix(b), missing, needToFetch \ Prefix(b))
    <2>0. /\ b[1] \in Vtx
          /\ IF match # {} THEN b[1] \in rv ELSE b[1] \in OutVtxs \cup needToFetch
        BY <1>4 DEF AncestorsBatch, Process, Fetch
    <2>1. b[1] \in OutVtxs \cup needToFetch /\ b[1] \in Vtx
        BY <1>1, <2>0
    <2>2. Prefix(b) \subseteq Needed
        BY <2>1, WalkAnc, NeededAnc DEF NeedInv, Work
    <2>3. heap' \cup missing' \cup needToFetch' \subseteq Prefix(b) \cup missing \cup needToFetch
        BY <1>4 DEF Process
    <2>. QED
        BY <1>1, <1>2, <1>3, <2>2, <2>3, NeedKeep DEF NeedInv, Work
<1>5. CASE ~Process(Prefix(b), missing, needToFetch \ Prefix(b))
    <2>1. UNCHANGED <<missing, heap>> /\ needToFetch' \subseteq needToFetch \cup rv
        BY <1>5 DEF AncestorsBatch, Fetch, Process
    <2>. QED
        BY <1>1, <1>2, <1>3, <2>1, NeedKeep DEF NeedInv, Work
<1>. QED
    BY <1>4, <1>5

\* One pop of process() (lines 425-518): a popped vertex and the parents
\* it pushes are needed because the heap is and Needed is parent-closed.
LEMMA NeedProcessStep ==
    ASSUME TypeOK, NeedInv, ProcessStep
    PROVE  NeedInv'
<1>1. PICK v \in Popped : \/ ProcessUnknown(v) \/ ProcessRejected(v) \/ ProcessAccepted(v)
                          \/ ProcessQueued(v) \/ ProcessNew(v)
    BY DEF ProcessStep
<1>2. v \in heap /\ v \in Needed /\ Parents[v] \subseteq Needed
    BY NeededClosed DEF Popped, NeedInv, Work, ParentClosed
<1>3. UNCHANGED <<netIdx, vtxJobsDB, missingDB, outstanding>>
      /\ AcceptedSet' = AcceptedSet /\ OutVtxs' = OutVtxs
    BY DEF ProcessStep, AcceptedSet, OutVtxs
<1>4. /\ heap' \subseteq heap \cup Parents[v]
      /\ vtxJobs' \subseteq vtxJobs \cup {v}
      /\ missing' \subseteq missing \cup {v}
      /\ needToFetch' \subseteq needToFetch \cup {v}
    BY <1>1 DEF ProcessUnknown, ProcessRejected, ProcessAccepted, ProcessQueued,
       ProcessNew
<1>. QED
    BY <1>2, <1>3, <1>4, NeedKeep DEF NeedInv, Work

\* One iteration of fetch() (lines 380-410) requests a vertex it needed.
LEMMA NeedFetchStep ==
    ASSUME NeedInv, FetchStep
    PROVE  NeedInv'
<1>1. PICK v \in needToFetch : /\ needToFetch' = needToFetch \ {v}
                               /\ OutVtxs' \subseteq OutVtxs \cup {v}
    BY DEF FetchStep, OutVtxs
<1>2. UNCHANGED <<status, heap, vtxJobs, vtxJobsDB, missing, missingDB, netIdx>>
    BY DEF FetchStep
<1>. QED
    BY <1>1, <1>2, NeedKeep DEF NeedInv, Work, AcceptedSet

\* ExecuteAll of the vertex queue (lines 590-600) accepts only queued jobs.
LEMMA NeedExecVtx ==
    ASSUME TypeOK, NeedInv, ExecVtx
    PROVE  NeedInv'
<1>1. AcceptedSet' \subseteq AcceptedSet \cup vtxJobs
    BY DEF ExecVtx, AcceptedSet, Executed, Runnable, TypeOK
<1>2. vtxJobs' \subseteq vtxJobs /\ vtxJobsDB' \subseteq vtxJobs
    BY DEF ExecVtx
<1>3. UNCHANGED <<heap, missing, missingDB, needToFetch, outstanding, netIdx>>
    BY DEF ExecVtx
<1>. QED
    BY <1>1, <1>2, <1>3, NeedKeep DEF NeedInv, Work, OutVtxs

\* A crash reopens the queues at their last commit and forgets the rest.
LEMMA NeedCrash ==
    ASSUME NeedInv, Crash
    PROVE  NeedInv'
<1>1. /\ vtxJobs' = vtxJobsDB /\ missing' = missingDB
      /\ heap' = {} /\ needToFetch' = {} /\ outstanding' = {}
      /\ UNCHANGED <<status, vtxJobsDB, missingDB, netIdx>>
    BY DEF Crash
<1>. QED
    BY <1>1, NeedKeep DEF NeedInv, Work, AcceptedSet, OutVtxs

\* Every step, or a stutter, keeps NeedInv.
LEMMA NeedNext ==
    ASSUME TypeOK, NeedInv, [Next]_vars
    PROVE  NeedInv'
<1>1. CASE Start
    <2>1. UNCHANGED <<status, vtxJobs, vtxJobsDB, missingDB, outstanding, netIdx>>
        BY <1>1 DEF Start
    <2>2. CASE Linearized /\ ForceAccepted(Edge)
        <3>1. Edge \subseteq Needed
            BY DEF Edge, NeedInv, Work
        <3>. QED
            BY <2>1, <2>2, <3>1, NeedForceAccepted
    <2>3. CASE UNCHANGED <<missing, needToFetch, walkVars>>
        BY <2>1, <2>3, NeedKeep DEF NeedInv, Work, AcceptedSet, OutVtxs
    <2>. QED
        BY <1>1, <2>2, <2>3 DEF Start
<1>2. CASE FrontierDecided
    <2>1. NetFrontiers[netIdx] \subseteq Needed
        BY NeededFrontier DEF TypeOK
    <2>. QED
        BY <1>2, <2>1, NeedForceAccepted DEF FrontierDecided
<1>3. ASSUME NEW node, NEW req, GetAncestorsFailed(node, req)
      PROVE  NeedInv'
    <2>1. /\ needToFetch' \subseteq needToFetch \cup OutVtxs
          /\ OutVtxs' \subseteq OutVtxs
          /\ UNCHANGED <<status, heap, vtxJobs, vtxJobsDB, missing, missingDB, netIdx>>
        BY <1>3 DEF GetAncestorsFailed, Fetch, OutVtxs
    <2>. QED
        BY <2>1, NeedKeep DEF NeedInv, Work, AcceptedSet
<1>4. CASE \E m \in sent : AncestorsFailed(m.node, m.req)
    BY <1>3, <1>4 DEF AncestorsFailed
<1>5. CASE \E m \in sent : \E b \in AnswerBatches(m.vtx) : Ancestors(m.node, m.req, b)
    <2>1. PICK m \in sent : \E b \in AnswerBatches(m.vtx) : Ancestors(m.node, m.req, b)
        BY <1>5
    <2>2. PICK b \in AnswerBatches(m.vtx) : Ancestors(m.node, m.req, b)
        BY <2>1
    <2>3. step = "Idle" /\ UNCHANGED netIdx
        BY <2>2 DEF Ancestors, Dispatchable, AncestorsBatch, GetAncestorsFailed
    <2>. QED
        BY <1>3, <2>2, <2>3, NeedAncestorsBatch DEF Ancestors
<1>6. CASE ProcessStep \/ FetchStep \/ ExecVtx \/ Crash
    BY <1>6, NeedProcessStep, NeedFetchStep, NeedExecVtx, NeedCrash
<1>7. CASE CommitVtx
    <2>1. /\ vtxJobsDB' = vtxJobs /\ missingDB' = missing
          /\ needToFetch' = needToFetch
          /\ UNCHANGED <<status, heap, vtxJobs, missing, outstanding, netIdx>>
        BY <1>7 DEF CommitVtx, Fetch
    <2>. QED
        BY <2>1, NeedKeep DEF NeedInv, Work, AcceptedSet, OutVtxs
<1>8. CASE \/ \E n \in Beacons : Connected(n) \/ Disconnected(n)
           \/ ProcessHalted \/ ProcessDone \/ CommitTx \/ FetchDone \/ ExecTx
           \/ Halt \/ UNCHANGED vars
    <2>1. /\ heap' \subseteq heap
          /\ UNCHANGED <<status, vtxJobs, vtxJobsDB, missing, missingDB,
                         needToFetch, outstanding, netIdx>>
        BY <1>8 DEF Connected, Disconnected, ProcessHalted, ProcessDone, CommitTx,
           FetchDone, ExecTx, Halt, vars
    <2>. QED
        BY <2>1, NeedKeep DEF NeedInv, Work, AcceptedSet, OutVtxs
<1>9. CASE NetworkAdvance
    <2>1. Needed \subseteq Needed'
        BY <1>9, NeededGrows DEF NetworkAdvance, TypeOK
    <2>2. Work' = Work
        BY <1>9 DEF NetworkAdvance, Work, AcceptedSet, OutVtxs
    <2>. QED
        BY <2>1, <2>2 DEF NeedInv
<1>. QED
    BY <1>1, <1>2, <1>4, <1>5, <1>6, <1>7, <1>8, <1>9 DEF Next

(* Byzantine containment (Ancestors, lines 153-224, and process): for     *)
(* every DAG, storage and configuration, whatever batches the peers send, *)
(* only ancestors of a frontier the beacons reported, or of the storage   *)
(* at boot, are ever queued for execution, committed or accepted.         *)
THEOREM ByzantineContained == Spec => []OnlyNeededQueued
<1>1. Init => TypeOK /\ NeedInv
    <2>1. SUFFICES ASSUME Init PROVE TypeOK /\ NeedInv
        OBVIOUS
    <2>2. Work = {v \in Vtx : InitStatus[v] = "Accepted"}
        BY <2>1 DEF Init, Work, AcceptedSet, OutVtxs
    <2>3. Work \subseteq NeedRoots /\ NeedRoots \subseteq Vtx
        BY <2>1, <2>2, RootsVtx DEF Init, NeedRoots
    <2>. QED
        BY <2>1, <2>3, InitType, AncBase, NeededIsAnc DEF NeedInv
<1>2. TypeOK /\ NeedInv /\ [Next]_vars => TypeOK' /\ NeedInv'
    BY TypeNext, NeedNext
<1>3. NeedInv => OnlyNeededQueued
    BY DEF NeedInv, Work, OnlyNeededQueued
<1>. QED
    BY <1>1, <1>2, <1>3, PTL DEF Spec
-----------------------------------------------------------------------------
(* Rejected vertices stay out.                                            *)

\* An ancestor is never higher than the vertex it lies below.
LEMMA AncHeight ==
    ASSUME NEW p \in Vtx
    PROVE  \A w \in Anc({p}) : Height[w] <= Height[p]
<1> DEFINE T == {w \in Vtx : Height[w] <= Height[p]}
<1>1. ParentClosed(T)
    BY DEF ParentClosed
<1>2. Anc({p}) \subseteq T
    BY <1>1, AncLeast
<1>. QED
    BY <1>2

\* The proper ancestors of a parent are proper ancestors of the child.
LEMMA AncParent ==
    ASSUME NEW v \in Vtx, NEW p \in Parents[v]
    PROVE  /\ p \in Anc({v}) \ {v}
           /\ Anc({p}) \ {p} \subseteq Anc({v}) \ {v}
<1>1. p \in Vtx /\ Height[p] < Height[v]
    OBVIOUS
<1>2. p \in Anc({v})
    BY AncClosed, AncBase DEF ParentClosed
<1>3. Anc({p}) \subseteq Anc({v})
    BY <1>2, AncWithin
<1>4. \A a \in Anc({p}) : Height[a] < Height[v]
    <2>1. \A a \in Anc({p}) : a \in Vtx /\ Height[a] <= Height[p]
        BY <1>1, AncHeight, AncClosed
    <2>. QED
        BY <1>1, <2>1
<1>5. \A a \in Anc({p}) : a # v
    BY <1>4
<1>. QED
    BY <1>1, <1>2, <1>3, <1>5

\* the vertices the queues hold, in memory and on disk
Queued == vtxJobs \cup vtxJobsDB \cup missing \cup missingDB

\* The strengthening of RejectedStaysOut: nothing queued or missing is
\* Rejected, and the accepted vertices are closed under parents.
RejInv ==
    /\ \A v \in Queued : status[v] # "Rejected"
    /\ ParentClosed(AcceptedSet)

\* A step that creates no Rejected status, keeps the accepted set, and
\* queues only vertices that are not Rejected keeps RejInv.
LEMMA RejKeep ==
    ASSUME TypeOK, RejInv, AcceptedSet' = AcceptedSet,
           \A x \in Vtx : status'[x] = "Rejected" => status[x] = "Rejected",
           Queued' \subseteq Queued \cup {x \in Vtx : status[x] # "Rejected"}
    PROVE  RejInv'
<1>1. Queued \subseteq Vtx
    BY DEF TypeOK, Queued
<1>. QED
    BY <1>1 DEF RejInv, ParentClosed

\* ParseVtx creates no Rejected status (it only stores Unknown vertices).
LEMMA ParseNotRejected ==
    ASSUME status \in [Vtx -> Status], NEW S, status' = Parse(S)
    PROVE  \A x \in Vtx : status'[x] = "Rejected" => status[x] = "Rejected"
BY DEF Parse

\* ExecuteAll of the vertex queue (lines 590-600) accepts a job only with
\* its parents, so the accepted vertices stay closed under parents.
LEMMA RejExecVtx ==
    ASSUME TypeOK, RejInv, ExecVtx
    PROVE  RejInv'
<1>1. \A x \in Vtx : status'[x] = IF x \in Executed THEN "Accepted" ELSE status[x]
    BY DEF ExecVtx
<1>2. AcceptedSet' = AcceptedSet \cup Executed /\ Executed \subseteq vtxJobs
    BY <1>1 DEF AcceptedSet, Executed, Runnable, TypeOK
<1>3. \A v \in Queued' : status'[v] # "Rejected"
    <2>1. Queued' \subseteq Queued
        BY DEF ExecVtx, Queued
    <2>. QED
        BY <1>1, <2>1 DEF RejInv, TypeOK, Queued
<1>4. ASSUME NEW v \in AcceptedSet', NEW p \in Parents[v] PROVE p \in AcceptedSet'
    <2>1. CASE v \in AcceptedSet
        BY <1>2, <2>1 DEF RejInv, ParentClosed
    <2>2. CASE v \in Executed
        <3>1. v \in Vtx /\ v \in Runnable
            BY <2>2 DEF Executed, Runnable, TypeOK
        <3>2. p \in Anc({v}) \ {v} /\ Anc({p}) \ {p} \subseteq Anc({v}) \ {v}
            BY <3>1, AncParent
        <3>3. status[p] = "Accepted" \/ (p \in vtxJobs /\ TxsDone(p))
            BY <3>1, <3>2 DEF Runnable
        <3>4. CASE status[p] = "Accepted"
            BY <1>2, <3>4 DEF AcceptedSet
        <3>5. CASE p \in vtxJobs /\ TxsDone(p)
            <4>1. p \in Runnable
                BY <3>1, <3>2, <3>5 DEF Runnable
            <4>. QED
                BY <1>2, <3>5, <4>1 DEF Executed
        <3>. QED
            BY <3>3, <3>4, <3>5
    <2>. QED
        BY <1>2, <2>1, <2>2
<1>. QED
    BY <1>3, <1>4 DEF RejInv, ParentClosed

\* A step that leaves storage alone and queues nothing new keeps RejInv.
LEMMA RejQuiet ==
    ASSUME TypeOK, RejInv, UNCHANGED status, Queued' \subseteq Queued
    PROVE  RejInv'
BY RejKeep DEF AcceptedSet

\* ForceAccepted(ids) (lines 536-559) marks missing only unknown vertices.
LEMMA RejForceAccepted ==
    ASSUME TypeOK, RejInv, NEW ids \in SUBSET Vtx, ForceAccepted(ids),
           UNCHANGED <<status, vtxJobs, vtxJobsDB, missingDB>>
    PROVE  RejInv'
<1>1. missing' \subseteq missing \cup {x \in Vtx : status[x] = "Unknown"}
    BY DEF ForceAccepted, Process, Stored, TypeOK
<1>. QED
    BY <1>1, RejKeep DEF Queued, AcceptedSet

\* One pop of process() (lines 425-518) queues a Processing vertex or
\* marks an Unknown one missing; a Rejected one ends the handler.
LEMMA RejProcessStep ==
    ASSUME TypeOK, RejInv, ProcessStep
    PROVE  RejInv'
<1>1. PICK v \in Popped : \/ ProcessUnknown(v) \/ ProcessRejected(v) \/ ProcessAccepted(v)
                          \/ ProcessQueued(v) \/ ProcessNew(v)
    BY DEF ProcessStep
<1>2. v \in Vtx /\ UNCHANGED <<status, vtxJobsDB, missingDB>>
    BY DEF Popped, TypeOK, ProcessStep
<1>3. /\ vtxJobs' \subseteq vtxJobs \cup {x \in {v} : status[x] = "Processing"}
      /\ missing' \subseteq missing \cup {x \in {v} : status[x] = "Unknown"}
    BY <1>1 DEF ProcessUnknown, ProcessRejected, ProcessAccepted, ProcessQueued,
       ProcessNew
<1>. QED
    BY <1>2, <1>3, RejKeep DEF Queued, AcceptedSet

\* Every step, or a stutter, keeps RejInv.
LEMMA RejNext ==
    ASSUME TypeOK, RejInv, [Next]_vars
    PROVE  RejInv'
<1>1. CASE Start
    <2>1. UNCHANGED <<status, vtxJobs, vtxJobsDB, missingDB>>
        BY <1>1 DEF Start
    <2>2. CASE Linearized /\ ForceAccepted(Edge)
        BY <2>1, <2>2, RejForceAccepted DEF Edge, AcceptedSet
    <2>3. CASE UNCHANGED missing
        BY <2>1, <2>3, RejQuiet DEF Queued
    <2>. QED
        BY <1>1, <2>2, <2>3 DEF Start
<1>2. CASE FrontierDecided
    <2>1. NetFrontiers[netIdx] \subseteq Vtx
        BY ConfigAssumption DEF TypeOK
    <2>. QED
        BY <1>2, <2>1, RejForceAccepted DEF FrontierDecided
<1>3. ASSUME NEW node, NEW req, NEW b, AncestorsBatch(node, req, b)
      PROVE  RejInv'
    <2>1. \E S : status' = Parse(S) \/ UNCHANGED status
        BY <1>3 DEF AncestorsBatch
    <2>2. AcceptedSet' = AcceptedSet
          /\ \A x \in Vtx : status'[x] = "Rejected" => status[x] = "Rejected"
        BY <2>1, ParseAccepted, ParseNotRejected DEF TypeOK, AcceptedSet
    <2>3. Queued' \subseteq Queued
        BY <1>3 DEF AncestorsBatch, Process, Queued
    <2>. QED
        BY <2>2, <2>3, RejKeep
<1>4. CASE \E m \in sent : \E b \in AnswerBatches(m.vtx) : Ancestors(m.node, m.req, b)
    <2>1. PICK m \in sent : \E b \in AnswerBatches(m.vtx) : Ancestors(m.node, m.req, b)
        BY <1>4
    <2>2. PICK b \in AnswerBatches(m.vtx) : Ancestors(m.node, m.req, b)
        BY <2>1
    <2>3. CASE GetAncestorsFailed(m.node, m.req)
        BY <2>3, RejQuiet DEF GetAncestorsFailed, Queued
    <2>. QED
        BY <1>3, <2>2, <2>3 DEF Ancestors
<1>5. CASE \E m \in sent : AncestorsFailed(m.node, m.req)
    BY <1>5, RejQuiet DEF AncestorsFailed, GetAncestorsFailed, Queued
<1>6. CASE ProcessStep \/ ExecVtx
    BY <1>6, RejProcessStep, RejExecVtx
<1>7. CASE \/ \E n \in Beacons : Connected(n) \/ Disconnected(n)
           \/ ProcessHalted \/ ProcessDone \/ CommitTx \/ CommitVtx
           \/ FetchStep \/ FetchDone \/ ExecTx \/ Halt \/ Crash \/ NetworkAdvance
           \/ UNCHANGED vars
    <2>1. UNCHANGED status /\ Queued' \subseteq Queued
        BY <1>7 DEF Connected, Disconnected, ProcessHalted, ProcessDone, CommitTx,
           CommitVtx, FetchStep, FetchDone, ExecTx, Halt, Crash, NetworkAdvance,
           vars, Queued
    <2>. QED
        BY <2>1, RejQuiet
<1>. QED
    BY <1>1, <1>2, <1>4, <1>5, <1>6, <1>7 DEF Next

(* Rejected vertices stay out (process, lines 437-438, and ExecuteAll):  *)
(* for every DAG, storage and configuration, and whatever peers send, no  *)
(* committed vertex job has a Rejected parent and no accepted vertex has  *)
(* a Rejected ancestor.                                                   *)
THEOREM RejectedNeverAccepted == Spec => []RejectedStaysOut
<1>1. Init => JobsInv /\ RejInv
    <2>1. SUFFICES ASSUME Init PROVE JobsInv /\ RejInv
        OBVIOUS
    <2>2. JobsInv
        BY <2>1, InitType DEF Init, JobsInv, TxsCore, CommittedTxsCovered,
           JobTxsCovered, CommittedTxsKnown, CommitOrder, ExecOrder, JobsCore,
           CommittedJobsClosed, HeapOnlyInProcess, NothingMissingInExec,
           SeenQueued, JobsClosed
    <2>3. RejInv
        BY <2>1 DEF Init, RejInv, Queued, ParentClosed, AcceptedSet
    <2>. QED
        BY <2>2, <2>3
<1>2. JobsInv /\ RejInv /\ [Next]_vars => JobsInv' /\ RejInv'
    BY TypeNext, TxsNext, JobsNext, RejNext DEF JobsInv
<1>3. JobsInv /\ RejInv => RejectedStaysOut
    <2>1. SUFFICES ASSUME JobsInv, RejInv PROVE RejectedStaysOut
        OBVIOUS
    <2>2. ASSUME NEW v \in vtxJobsDB, NEW p \in Parents[v] PROVE status[p] # "Rejected"
        BY <2>1 DEF JobsInv, JobsCore, CommittedJobsClosed, RejInv, Queued,
           AcceptedSet
    <2>3. ASSUME NEW v \in AcceptedSet, NEW w \in Anc({v}) PROVE status[w] # "Rejected"
        <3>1. Anc({v}) \subseteq AcceptedSet
            <4>1. /\ AcceptedSet \in SUBSET Vtx /\ {v} \subseteq AcceptedSet
                  /\ ParentClosed(AcceptedSet)
                BY <2>1 DEF RejInv, AcceptedSet
            <4>. QED
                BY <4>1, AncLeast
        <3>. QED
            BY <3>1 DEF AcceptedSet
    <2>. QED
        BY <2>2, <2>3 DEF RejectedStaysOut
<1>. QED
    BY <1>1, <1>2, <1>3, PTL DEF Spec
=============================================================================
