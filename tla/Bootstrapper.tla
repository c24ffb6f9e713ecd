---------------------------- MODULE Bootstrapper ----------------------------
(***************************************************************************)
(* The DAG bootstrapper of                                                 *)
(*   src/snow/engine/pepecoin/bootstrap/bootstrapper.go                    *)
(* One event handler runs at a time (the chain's dispatcher is serial), so *)
(* a handler is an entry action followed by the micro-steps of its loops:  *)
(* `step' names the loop the running handler is in ("Process" = the heap  *)
(* loop of process(), "CommitTx"/"CommitVtx" = the two queue commits,     *)
(* "Fetch" = the loop of fetch(), "ExecTx"/"ExecVtx" = the two ExecuteAll  *)
(* calls of checkFinish()).  Only Halt (called from another goroutine),    *)
(* Crash (the node process dies) and the network's own progress interleave *)
(* with those micro-steps.                                                 *)
(***************************************************************************)
EXTENDS Naturals, FiniteSets, Sequences

CONSTANTS
    Vtx,            \* IDs of the vertices the network can ever send
    Tx,             \* IDs of their transactions
    Parents,        \* Parents[v]: the parents v declares
    Height,         \* Height[v]
    Txs,            \* Txs[v]: the transactions of v
    StopVtx,        \* the stop vertex; its acceptance linearizes the DAG
    InitStatus,     \* the status of every vertex in local storage at boot
    NetFrontiers,   \* the accepted frontiers the beacons report, in order
    Beacons,        \* Config.Beacons: the validators fetch() samples
    StartupQuorum,  \* beacons the startup tracker waits for
    MaxOutstanding, \* common.MaxOutstandingGetAncestorsRequests
    AncestorsMax,   \* Config.AncestorsMaxContainersReceived
    StripeDistance, \* stripeDistance
    StripeWidth,    \* stripeWidth
    CacheSize,      \* cacheSize
    Byzantine,      \* whether peers may answer with arbitrary batches
    Garbage,        \* bytes that ParseVtx rejects
    MaxBatchLen,    \* bound: longest Ancestors batch a peer sends
    MaxRequestID,   \* bound: request IDs issued between two crashes
    MaxCrashes      \* bound: node crashes in one behaviour

Status == {"Unknown", "Processing", "Accepted", "Rejected"}

\* Reflexive ancestor closure of S: the least parent-closed superset.
ParentClosed(T) == \A t \in T : Parents[t] \subseteq T
Anc(S) == {v \in Vtx : \A T \in SUBSET Vtx : S \subseteq T /\ ParentClosed(T) => v \in T}

ASSUME DagAssumption ==
    /\ Parents \in [Vtx -> SUBSET Vtx]
    /\ Height \in [Vtx -> Nat]
    /\ \A v \in Vtx : \A p \in Parents[v] : Height[p] < Height[v]
    /\ Txs \in [Vtx -> SUBSET Tx]
    /\ StopVtx \in Vtx
    /\ Garbage \notin Vtx

ASSUME StorageAssumption ==
    /\ InitStatus \in [Vtx -> Status]
    /\ \A v \in Vtx : InitStatus[v] = "Accepted" =>
                        \A p \in Parents[v] : InitStatus[p] = "Accepted"

ASSUME ConfigAssumption ==
    /\ NetFrontiers \in Seq(SUBSET Vtx) /\ Len(NetFrontiers) >= 1
    /\ StartupQuorum \in Nat
    /\ MaxOutstanding \in Nat \ {0}
    /\ AncestorsMax \in Nat \ {0}
    /\ StripeDistance \in Nat \ {0}
    /\ StripeWidth \in Nat
    /\ CacheSize \in Nat \ {0}
    /\ Byzantine \in BOOLEAN
    /\ MaxBatchLen \in Nat
    /\ MaxRequestID \in Nat
    /\ MaxCrashes \in Nat

VARIABLES
    status,       \* Manager storage: status of each vertex (durable)
    txAccepted,   \* transactions the VM has accepted (durable)
    vtxJobs,      \* VtxBlocked: queued vertex jobs (working copy)
    missing,      \* VtxBlocked.MissingIDs (working copy)
    txJobs,       \* TxBlocked: queued transaction jobs (working copy)
    vtxJobsDB,    \* VtxBlocked jobs as last committed
    missingDB,    \* VtxBlocked missing IDs as last committed
    txJobsDB,     \* TxBlocked jobs as last committed
    needToFetch,  \* b.needToFetch
    outstanding,  \* b.OutstandingRequests as [node, req, vtx] records
    requestID,    \* b.Config.SharedCfg.RequestID
    sent,         \* GetAncestors requests sent since boot (the network)
    cache,        \* b.processedCache
    heap,         \* process(): toProcess
    heightSet,    \* process(): vtxHeightSet
    prevHeight,   \* process(): prevHeight
    step,         \* the loop the running handler is in, "Idle" if none
    phase,        \* "Init" before Start, "Running", "Done", "Fatal"
    started,      \* b.started
    voting,       \* Startup() ran: the accepted frontier is being polled
    connected,    \* beacons the startup tracker counts as connected
    halted,       \* b.Halted()
    frontier,     \* the IDs given to the last ForceAccepted
    netIdx,       \* which of NetFrontiers the network has reached
    crashes       \* crashes so far

storageVars == <<status, txAccepted>>
queueVars == <<vtxJobs, missing, txJobs>>
dbVars == <<vtxJobsDB, missingDB, txJobsDB>>
fetchVars == <<needToFetch, outstanding, requestID, sent>>
walkVars == <<cache, heap, heightSet, prevHeight>>
lifeVars == <<step, phase, started, voting, connected, halted, frontier>>
vars == <<storageVars, queueVars, dbVars, fetchVars, walkVars, lifeVars,
          netIdx, crashes>>

Request == [node : Beacons, req : Nat, vtx : Vtx]
Bytes == Vtx \cup {Garbage}
Batches == UNION {[1 .. n -> Bytes] : n \in 0 .. MaxBatchLen}

Stored(v) == status[v] # "Unknown"
AcceptedSet == {v \in Vtx : status[v] = "Accepted"}
OutVtxs == {o.vtx : o \in outstanding}
ShouldStart == Cardinality(connected) >= StartupQuorum
Linearized == status[StopVtx] = "Accepted"
\* Manager.Edge(): accepted vertices no accepted vertex names as a parent
Edge == {v \in AcceptedSet : \A w \in AcceptedSet : v \notin Parents[w]}
\* height % stripeDistance < stripeWidth
Striped(v) == Height[v] % StripeDistance < StripeWidth
\* ParseVtx persists every vertex it parses
Parse(S) == [v \in Vtx |-> IF v \in S /\ status[v] = "Unknown"
                            THEN "Processing" ELSE status[v]]
\* The caches an LRU Put may leave: an evicted entry is any entry
CachePut(c, v) == IF v \in c \/ Cardinality(c) < CacheSize THEN {c \cup {v}}
                  ELSE {(c \ {e}) \cup {v} : e \in c}
-----------------------------------------------------------------------------
(* The walk over an Ancestors batch b (vtxs[0] is b[1]).  Elig(b, i) is   *)
(* eligibleVertices after b[i] was consumed: the loop removes b[i], then   *)
(* adds b[i]'s parents, so it holds the parents of a consumed b[j] that no *)
(* later b[k] removed.  Consumed(b, i) says b[2..i] all parsed and were    *)
(* eligible.  Walked(b) holds the indices the loop appended to            *)
(* processVertices, Reached(b) those ParseVtx was called on: the walked   *)
(* ones and the one that broke the loop.                                  *)
ParentsOf(x) == IF x \in Vtx THEN Parents[x] ELSE {}
Elig(b, i) == {p \in Vtx : \E j \in 1 .. i : /\ p \in ParentsOf(b[j])
                                           /\ \A k \in j + 1 .. i : b[k] # p}
\* Mutant: the walk keeps every vertex that parses (no eligibility check).
ConsumedWithoutEligibility(b, i) == \A j \in 2 .. i : b[j] \in Vtx
Consumed(b, i) == \A j \in 2 .. i : b[j] \in Vtx /\ b[j] \in Elig(b, j - 1)
Walked(b) == {i \in 1 .. Len(b) : Consumed(b, i)}
Reached(b) == {i \in 1 .. Len(b) : Consumed(b, i - 1)}
\* Mutant: the element that broke the walk is kept (off by one).
PrefixPastBreak(b) == {b[i] : i \in Reached(b)}
Prefix(b) == {b[i] : i \in Walked(b)}
\* the vertices ParseVtx stored: every reached element that parsed
ParsedBy(b) == {b[i] : i \in Reached(b)} \cap Vtx
\* what an honest peer sends: the requested vertex and its ancestors
HonestBatches(v) == {b \in Batches \ {<<>>} :
                        b[1] = v /\ Consumed(b, Len(b))}
AnswerBatches(v) == IF Byzantine THEN Batches ELSE HonestBatches(v) \cup {<<>>}
-----------------------------------------------------------------------------
Init ==
    /\ status = InitStatus
    /\ txAccepted = UNION {Txs[v] : v \in {w \in Vtx : InitStatus[w] = "Accepted"}}
    /\ vtxJobs = {} /\ missing = {} /\ txJobs = {}
    /\ vtxJobsDB = {} /\ missingDB = {} /\ txJobsDB = {}
    /\ needToFetch = {} /\ outstanding = {} /\ requestID = 0 /\ sent = {}
    /\ cache = {} /\ heap = {} /\ heightSet = {} /\ prevHeight = 0
    /\ step = "Idle" /\ phase = "Init" /\ started = FALSE /\ voting = FALSE
    /\ connected = {} /\ halted = FALSE /\ frontier = {}
    /\ netIdx = 1 /\ crashes = 0

\* A handler may be dispatched: no handler is running and the engine runs.
Dispatchable == step = "Idle" /\ phase = "Running" /\ ~halted
\* The handler may call fetch(): the model's request-ID budget allows it.
CanFetch == requestID + MaxOutstanding <= MaxRequestID

\* process(vs): seed the heap, then run its loop.  miss and nf are the
\* missing IDs and needToFetch the caller left.
Process(vs, miss, nf) ==
    /\ heap' = vs \ cache
    /\ missing' = miss \ (vs \cap cache)
    /\ needToFetch' = nf
    /\ heightSet' = {} /\ prevHeight' = 0
    /\ step' = "Process"
    /\ UNCHANGED cache

\* Mutant: ForceAccepted forgets the persisted missing IDs.
ForceAcceptedIgnoringMissing(ids) ==
    LET unknown == {v \in ids : ~Stored(v)}
        accepted == {v \in ids : status[v] = "Accepted"}
    IN  /\ Process(ids \ (unknown \cup accepted),
                   (missing \ accepted) \cup unknown, needToFetch \cup unknown)
        /\ frontier' = ids

\* ForceAccepted(ids)
ForceAccepted(ids) ==
    LET pending == missing \cup ids
        unknown == {v \in pending : ~Stored(v)}
        accepted == {v \in pending : status[v] = "Accepted"}
    IN  /\ Process(pending \ (unknown \cup accepted),
                   (missing \ accepted) \cup unknown, needToFetch \cup unknown)
        /\ frontier' = ids

\* fetch(ids...): add ids to needToFetch, then run its loop.
Fetch(ids) == needToFetch' = needToFetch \cup ids /\ step' = "Fetch"
(* Entry actions: one per handler.                                         *)

\* Mutant: Start ignores StopVertexAccepted and always waits for the tracker.
StartIgnoringLinearized ==
    /\ phase = "Init" /\ step = "Idle" /\ ~halted
    /\ phase' = "Running"
    /\ requestID' = 0
    /\ started' = ShouldStart
    /\ voting' = ShouldStart
    /\ UNCHANGED <<needToFetch, missing, walkVars, step, frontier>>
    /\ UNCHANGED <<storageVars, vtxJobs, txJobs, dbVars, outstanding, sent,
                   connected, halted, netIdx, crashes>>

\* Start(ctx, startReqID): a linearized DAG re-confirms its edge, otherwise
\* the engine waits for the startup tracker.  (LinearizeOnStartup = false.)
Start ==
    /\ phase = "Init" /\ step = "Idle" /\ ~halted
    /\ phase' = "Running"
    /\ requestID' = 0
    /\ \/ /\ Linearized
          /\ ForceAccepted(Edge)
          /\ UNCHANGED <<started, voting>>
       \/ /\ ~Linearized
          /\ started' = ShouldStart
          /\ voting' = ShouldStart
          /\ UNCHANGED <<needToFetch, missing, walkVars, step, frontier>>
    /\ UNCHANGED <<storageVars, vtxJobs, txJobs, dbVars, outstanding, sent,
                   connected, halted, netIdx, crashes>>

\* Connected(nodeID): the tracker counts the beacon; the first time it
\* says to start, Startup() polls the beacons for the accepted frontier.
Connected(n) ==
    /\ Dispatchable
    /\ connected' = connected \cup {n}
    /\ IF ~started /\ Cardinality(connected') >= StartupQuorum
       THEN started' = TRUE /\ voting' = TRUE
       ELSE UNCHANGED <<started, voting>>
    /\ UNCHANGED <<storageVars, queueVars, dbVars, fetchVars, walkVars,
                   step, phase, halted, frontier, netIdx, crashes>>

\* Disconnected(nodeID)
Disconnected(n) ==
    /\ Dispatchable
    /\ connected' = connected \ {n}
    /\ UNCHANGED <<storageVars, queueVars, dbVars, fetchVars, walkVars,
                   step, phase, started, voting, halted, frontier, netIdx, crashes>>

\* The frontier poll Startup() began has decided: ForceAccepted(frontier).
FrontierDecided ==
    /\ Dispatchable /\ CanFetch /\ voting
    /\ voting' = FALSE
    /\ ForceAccepted(NetFrontiers[netIdx])
    /\ UNCHANGED <<storageVars, vtxJobs, txJobs, dbVars, outstanding,
                   requestID, sent, phase, started, connected, halted,
                   netIdx, crashes>>

\* Mutant: the failed request is forgotten but its vertex is not re-fetched.
GetAncestorsFailedNoRefetch(node, req) ==
    LET match == {o \in outstanding : o.node = node /\ o.req = req}
    IN  /\ match # {}
        /\ outstanding' = outstanding \ match
        /\ Fetch({})
        /\ UNCHANGED <<storageVars, queueVars, dbVars, requestID, sent,
                       walkVars, phase, started, voting, connected, halted,
                       frontier, netIdx, crashes>>

\* GetAncestorsFailed(nodeID, requestID): re-fetch the requested vertex.
\* Without a matching request the handler returns nil, a stuttering step.
GetAncestorsFailed(node, req) ==
    LET match == {o \in outstanding : o.node = node /\ o.req = req}
    IN  /\ match # {}
        /\ outstanding' = outstanding \ match
        /\ Fetch({o.vtx : o \in match})
        /\ UNCHANGED <<storageVars, queueVars, dbVars, requestID, sent,
                       walkVars, phase, started, voting, connected, halted,
                       frontier, netIdx, crashes>>

\* Ancestors(nodeID, requestID, vtxs) with a non-empty batch b, already
\* truncated to AncestorsMaxContainersReceived.
AncestorsBatch(node, req, b) ==
    LET match == {o \in outstanding : o.node = node /\ o.req = req}
        requested == match # {}
        rv == {o.vtx : o \in match}
        first == b[1]
    IN  /\ outstanding' = outstanding \ match
        /\ UNCHANGED <<txAccepted, vtxJobs, txJobs, dbVars, requestID, sent,
                       phase, started, voting, connected, halted, frontier,
                       netIdx, crashes>>
        /\ \/ \* vtxs[0] does not parse (unrequested: return nil, a stutter)
              /\ first = Garbage /\ requested
              /\ Fetch(rv)
              /\ UNCHANGED <<status, missing, walkVars>>
           \/ \* the wrong vertex answers the request: re-fetch it
              /\ first \in Vtx /\ requested /\ first \notin rv
              /\ status' = Parse({first})
              /\ Fetch(rv)
              /\ UNCHANGED <<missing, walkVars>>
           \/ \* an unsolicited vertex nobody needs
              /\ first \in Vtx /\ ~requested
              /\ first \notin OutVtxs /\ first \notin needToFetch
              /\ status' = Parse({first})
              /\ UNCHANGED <<needToFetch, missing, walkVars, step>>
           \/ \* the requested or a needed vertex: walk the batch
              /\ first \in Vtx
              /\ IF requested THEN first \in rv
                 ELSE first \in OutVtxs \cup needToFetch
              /\ status' = Parse(ParsedBy(b))
              /\ Process(Prefix(b), missing, needToFetch \ Prefix(b))

Ancestors(node, req, vtxs) ==
    /\ Dispatchable /\ CanFetch
    /\ \/ /\ vtxs = <<>>
          /\ GetAncestorsFailed(node, req)
       \/ /\ vtxs # <<>>
          /\ AncestorsBatch(node, req,
                 IF Len(vtxs) > AncestorsMax THEN SubSeq(vtxs, 1, AncestorsMax)
                 ELSE vtxs)

\* A timeout or a failed send: the router delivers GetAncestorsFailed.
AncestorsFailed(node, req) ==
    /\ Dispatchable /\ CanFetch
    /\ GetAncestorsFailed(node, req)
(* The loop of process(): pop an Unknown vertex if the heap holds one,     *)
(* else one of greatest height (vertex.Heap's order).                      *)
Popped == IF \E v \in heap : status[v] = "Unknown"
          THEN {v \in heap : status[v] = "Unknown"}
          ELSE {v \in heap : \A w \in heap : Height[w] <= Height[v]}

PopStep == step = "Process" /\ heap # {} /\ ~halted

\* b.Halted() at the top of the loop: return nil, nothing committed.
ProcessHalted ==
    /\ step = "Process" /\ heap # {} /\ halted
    /\ step' = "Idle" /\ heap' = {}
    /\ UNCHANGED <<storageVars, queueVars, dbVars, fetchVars, cache,
                   heightSet, prevHeight, phase, started, voting, connected,
                   halted, frontier, netIdx, crashes>>

\* Mutant: VtxBlocked.AddMissingID is not called.
ProcessUnknownNotMissing(v) ==
    /\ status[v] = "Unknown"
    /\ heap' = heap \ {v}
    /\ needToFetch' = needToFetch \cup {v}
    /\ UNCHANGED <<missing, vtxJobs, txJobs, cache, heightSet, prevHeight, step, phase>>

\* case choices.Unknown: mark it missing and needed.
ProcessUnknown(v) ==
    /\ status[v] = "Unknown"
    /\ heap' = heap \ {v}
    /\ missing' = missing \cup {v}
    /\ needToFetch' = needToFetch \cup {v}
    /\ UNCHANGED <<vtxJobs, txJobs, cache, heightSet, prevHeight, step, phase>>

\* Mutant: a rejected vertex is popped and skipped like an accepted one.
ProcessRejectedIgnored(v) ==
    /\ status[v] = "Rejected"
    /\ heap' = heap \ {v}
    /\ UNCHANGED <<queueVars, needToFetch, cache, heightSet, prevHeight, step, phase>>

\* case choices.Rejected: the handler returns an error.
ProcessRejected(v) ==
    /\ status[v] = "Rejected"
    /\ phase' = "Fatal" /\ step' = "Idle" /\ heap' = {}
    /\ UNCHANGED <<queueVars, needToFetch, cache, heightSet, prevHeight>>

\* An accepted vertex matches no case of the switch.
ProcessAccepted(v) ==
    /\ status[v] = "Accepted"
    /\ heap' = heap \ {v}
    /\ UNCHANGED <<queueVars, needToFetch, cache, heightSet, prevHeight, step, phase>>

\* case choices.Processing, VtxBlocked.Push reports it already queued.
ProcessQueued(v) ==
    /\ status[v] = "Processing" /\ v \in vtxJobs
    /\ heap' = heap \ {v}
    /\ needToFetch' = needToFetch \ {v}
    /\ missing' = missing \ {v}
    /\ UNCHANGED <<vtxJobs, txJobs, cache, heightSet, prevHeight, step, phase>>

\* case choices.Processing, pushed: queue it and its transactions, push
\* the parents neither cached nor seen at this height, cache it if it lies
\* in the stripe, and track the height run.
ProcessNew(v) ==
    /\ status[v] = "Processing" /\ v \notin vtxJobs
    /\ needToFetch' = needToFetch \ {v}
    /\ missing' = missing \ {v}
    /\ vtxJobs' = vtxJobs \cup {v}
    /\ txJobs' = txJobs \cup Txs[v]
    /\ heap' = (heap \ {v}) \cup {p \in Parents[v] : p \notin cache /\ p \notin heightSet}
    /\ IF Striped(v) THEN cache' \in CachePut(cache, v) ELSE UNCHANGED cache
    /\ heightSet' = IF Height[v] = prevHeight THEN heightSet \cup {v} ELSE {v}
    /\ prevHeight' = Height[v]
    /\ UNCHANGED <<step, phase>>

ProcessStep ==
    /\ PopStep
    /\ \E v \in Popped :
          \/ ProcessUnknown(v) \/ ProcessRejected(v) \/ ProcessAccepted(v)
          \/ ProcessQueued(v) \/ ProcessNew(v)
    /\ UNCHANGED <<storageVars, dbVars, outstanding, requestID, sent, started,
                   voting, connected, halted, frontier, netIdx, crashes>>

\* The heap is empty: TxBlocked.Commit(), then VtxBlocked.Commit().
ProcessDone ==
    /\ step = "Process" /\ heap = {}
    /\ step' = "CommitTx"
    /\ UNCHANGED <<storageVars, queueVars, dbVars, fetchVars, walkVars, phase,
                   started, voting, connected, halted, frontier, netIdx, crashes>>

\* Mutant: TxBlocked.Commit() is not called.
CommitTxSkipped ==
    /\ step = "CommitTx"
    /\ step' = "CommitVtx"
    /\ UNCHANGED <<storageVars, queueVars, dbVars, fetchVars, walkVars, phase,
                   started, voting, connected, halted, frontier, netIdx, crashes>>

CommitTx ==
    /\ step = "CommitTx"
    /\ txJobsDB' = txJobs
    /\ step' = "CommitVtx"
    /\ UNCHANGED <<storageVars, queueVars, vtxJobsDB, missingDB, fetchVars,
                   walkVars, phase, started, voting, connected, halted,
                   frontier, netIdx, crashes>>

\* After the commit process() calls fetch() with no new IDs.
CommitVtx ==
    /\ step = "CommitVtx"
    /\ vtxJobsDB' = vtxJobs /\ missingDB' = missing
    /\ Fetch({})
    /\ UNCHANGED <<storageVars, queueVars, txJobsDB, outstanding, requestID,
                   sent, walkVars, phase, started, voting, connected, halted,
                   frontier, netIdx, crashes>>
-----------------------------------------------------------------------------
(* The loop of fetch(): take any needed ID while under the request cap.   *)
FetchLoop == needToFetch # {} /\ Cardinality(outstanding) < MaxOutstanding

\* Mutant: a failing Beacons.Sample(1) only drops the request for this
\* vertex (log and continue) instead of returning the error.
FetchStepDropOnSampleError ==
    /\ step = "Fetch" /\ FetchLoop
    /\ \E v \in needToFetch :
         /\ needToFetch' = needToFetch \ {v}
         /\ \/ /\ v \in OutVtxs \/ Stored(v) \/ Beacons = {}
               /\ UNCHANGED <<outstanding, requestID, sent>>
            \/ /\ v \notin OutVtxs /\ ~Stored(v)
               /\ \E n \in Beacons :
                    LET r == [node |-> n, req |-> requestID + 1, vtx |-> v]
                    IN  /\ requestID' = requestID + 1
                        /\ outstanding' = outstanding \cup {r}
                        /\ sent' = sent \cup {r}
    /\ UNCHANGED <<storageVars, queueVars, dbVars, walkVars, step, phase,
                   started, voting, connected, halted, frontier, netIdx, crashes>>

FetchStep ==
    /\ step = "Fetch" /\ FetchLoop
    /\ \E v \in needToFetch :
         /\ needToFetch' = needToFetch \ {v}
         /\ \/ \* already requested, or already stored
               /\ v \in OutVtxs \/ Stored(v)
               /\ UNCHANGED <<outstanding, requestID, sent, step, phase>>
            \/ \* Beacons.Sample(1) fails: the handler returns an error
               /\ v \notin OutVtxs /\ ~Stored(v) /\ Beacons = {}
               /\ phase' = "Fatal" /\ step' = "Idle"
               /\ UNCHANGED <<outstanding, requestID, sent>>
            \/ \* send GetAncestors(validatorID, RequestID+1, v)
               /\ v \notin OutVtxs /\ ~Stored(v)
               /\ \E n \in Beacons :
                    LET r == [node |-> n, req |-> requestID + 1, vtx |-> v]
                    IN  /\ requestID' = requestID + 1
                        /\ outstanding' = outstanding \cup {r}
                        /\ sent' = sent \cup {r}
               /\ UNCHANGED <<step, phase>>
    /\ UNCHANGED <<storageVars, queueVars, dbVars, walkVars, started, voting,
                   connected, halted, frontier, netIdx, crashes>>

\* checkFinish(): return while vertices are missing, else execute.
FetchDone ==
    /\ step = "Fetch" /\ ~FetchLoop /\ phase # "Done"
    /\ step' = IF missing = {} THEN "ExecTx" ELSE "Idle"
    /\ UNCHANGED <<storageVars, queueVars, dbVars, fetchVars, walkVars, phase,
                   started, voting, connected, halted, frontier, netIdx, crashes>>

\* TxBlocked.ExecuteAll, then return if halted.
ExecTx ==
    /\ step = "ExecTx"
    /\ txAccepted' = txAccepted \cup txJobs
    /\ txJobs' = {} /\ txJobsDB' = {}
    /\ step' = IF halted THEN "Idle" ELSE "ExecVtx"
    /\ UNCHANGED <<status, vtxJobs, missing, vtxJobsDB, missingDB, fetchVars,
                   walkVars, phase, started, voting, connected, halted,
                   frontier, netIdx, crashes>>

(* VtxBlocked.ExecuteAll runs a vertex job once its parents are accepted: *)
(* it accepts the vertex when its transactions are accepted and drops the *)
(* job otherwise.  Runnable jobs are those whose proper ancestors are all *)
(* accepted or queued with accepted transactions.                         *)
TxsDone(v) == Txs[v] \subseteq txAccepted'
Runnable == {v \in vtxJobs :
               \A a \in Anc({v}) \ {v} :
                  status[a] = "Accepted" \/ (a \in vtxJobs /\ TxsDone(a))}
Executed == {v \in Runnable : TxsDone(v)}

ExecVtx ==
    /\ step = "ExecVtx"
    /\ UNCHANGED txAccepted
    /\ status' = [v \in Vtx |-> IF v \in Executed THEN "Accepted" ELSE status[v]]
    /\ vtxJobs' = vtxJobs \ Runnable
    /\ vtxJobsDB' = vtxJobs \ Runnable
    /\ step' = "Idle"
    /\ \/ /\ halted
          /\ UNCHANGED <<phase, voting, cache>>
       \/ \* not linearized: Restart(ctx, true) polls the frontier again
          /\ ~halted /\ status'[StopVtx] # "Accepted"
          /\ voting' = TRUE
          /\ UNCHANGED <<phase, cache>>
       \/ \* VM.Linearize(stopVertexID), processedCache.Flush(), OnFinished
          /\ ~halted /\ status'[StopVtx] = "Accepted"
          /\ phase' = "Done" /\ cache' = {}
          /\ UNCHANGED voting
    /\ UNCHANGED <<missing, txJobs, missingDB, txJobsDB, fetchVars, heap,
                   heightSet, prevHeight, started, connected, halted,
                   frontier, netIdx, crashes>>
-----------------------------------------------------------------------------
(* The environment.                                                        *)

\* Another goroutine halts the engine.
Halt ==
    /\ ~halted /\ phase \notin {"Done", "Fatal"}
    /\ halted' = TRUE
    /\ UNCHANGED <<storageVars, queueVars, dbVars, fetchVars, walkVars, step,
                   phase, started, voting, connected, frontier, netIdx, crashes>>

\* The node process dies and reboots, at any time and in any phase (a node
\* that finished bootstrapping restarts into Start too): memory and
\* connections are lost, the queues reopen at their last commit.
Crash ==
    /\ crashes < MaxCrashes
    /\ crashes' = crashes + 1
    /\ vtxJobs' = vtxJobsDB /\ missing' = missingDB /\ txJobs' = txJobsDB
    /\ needToFetch' = {} /\ outstanding' = {} /\ requestID' = 0 /\ sent' = {}
    /\ cache' = {} /\ heap' = {} /\ heightSet' = {} /\ prevHeight' = 0
    /\ step' = "Idle" /\ phase' = "Init" /\ started' = FALSE /\ voting' = FALSE
    /\ connected' = {} /\ halted' = FALSE /\ frontier' = {}
    /\ UNCHANGED <<storageVars, dbVars, netIdx>>

\* The network accepts more of the DAG.
NetworkAdvance ==
    /\ netIdx < Len(NetFrontiers)
    /\ netIdx' = netIdx + 1
    /\ UNCHANGED <<storageVars, queueVars, dbVars, fetchVars, walkVars,
                   lifeVars, crashes>>

Next ==
    \/ Start
    \/ \E n \in Beacons : Connected(n) \/ Disconnected(n)
    \/ FrontierDecided
    \/ \E m \in sent : AncestorsFailed(m.node, m.req)
    \/ \E m \in sent : \E b \in AnswerBatches(m.vtx) : Ancestors(m.node, m.req, b)
    \/ ProcessHalted \/ ProcessStep \/ ProcessDone \/ CommitTx \/ CommitVtx
    \/ FetchStep \/ FetchDone \/ ExecTx \/ ExecVtx
    \/ Halt \/ Crash \/ NetworkAdvance

Spec == Init /\ [][Next]_vars
(* Properties.                                                             *)

TypeOK ==
    /\ status \in [Vtx -> Status]
    /\ txAccepted \subseteq Tx
    /\ vtxJobs \subseteq Vtx /\ missing \subseteq Vtx
    /\ vtxJobsDB \subseteq Vtx /\ missingDB \subseteq Vtx
    /\ txJobs \subseteq Tx /\ txJobsDB \subseteq Tx
    /\ needToFetch \subseteq Vtx /\ cache \subseteq Vtx /\ heap \subseteq Vtx
    /\ heightSet \subseteq Vtx /\ frontier \subseteq Vtx
    /\ outstanding \subseteq Request /\ sent \subseteq Request
    /\ requestID \in Nat /\ prevHeight \in Nat
    /\ step \in {"Idle", "Process", "CommitTx", "CommitVtx", "Fetch", "ExecTx", "ExecVtx"}
    /\ phase \in {"Init", "Running", "Done", "Fatal"}
    /\ started \in BOOLEAN /\ voting \in BOOLEAN /\ halted \in BOOLEAN
    /\ connected \subseteq Beacons
    /\ netIdx \in 1 .. Len(NetFrontiers) /\ crashes \in Nat

\* The vertices some reported frontier, or the storage at boot, descends from.
Needed == Anc((UNION {NetFrontiers[i] : i \in 1 .. netIdx})
                \cup {v \in Vtx : InitStatus[v] = "Accepted"})

(* Byzantine containment (Ancestors, lines 153-224): whatever batches the  *)
(* peers send, only ancestors of a frontier the beacons reported are ever  *)
(* queued for execution or accepted.  Peers can make the node store a     *)
(* foreign vertex (ParseVtx persists it) but never queue or accept it.    *)
OnlyNeededQueued == vtxJobs \cup vtxJobsDB \cup AcceptedSet \subseteq Needed

(* Resumability of the committed vertex queue (process, lines 425-531):   *)
(* every parent of a committed vertex job is accepted, committed as a job *)
(* or committed as missing, so a node that crashes anywhere restarts from  *)
(* a queue whose every job can eventually run.                            *)
CommittedJobsClosed ==
    \A v \in vtxJobsDB : Parents[v] \subseteq AcceptedSet \cup vtxJobsDB \cup missingDB

(* Transactions before vertices on disk (process, lines 444-478 and the   *)
(* commits at 525-530): a committed vertex job always has its            *)
(* transactions committed or accepted, because the vertex push is what    *)
(* gates re-pushing them; otherwise ExecuteAll would drop the vertex.     *)
CommittedTxsCovered ==
    \A v \in vtxJobsDB : Txs[v] \subseteq txJobsDB \cup txAccepted

(* Rejected vertices stay out (process, lines 437-438): whatever storage  *)
(* holds and whatever batches peers send, no committed vertex job has a   *)
(* Rejected parent, because popping a parent in the same pass returns the *)
(* error before the queues are committed, and no accepted vertex has a    *)
(* Rejected ancestor.  (A job above a missing vertex whose own parent is  *)
(* Rejected can be committed: the rejection is met once that vertex       *)
(* arrives.)                                                              *)
RejectedStaysOut ==
    /\ \A v \in vtxJobsDB : \A p \in Parents[v] : status[p] # "Rejected"
    /\ \A v \in AcceptedSet : \A w \in Anc({v}) : status[w] # "Rejected"

(* No missing vertex is lost (fetch, lines 379-402; GetAncestorsFailed,  *)
(* 229-241; Ancestors, 126-227): whenever the engine waits for the next   *)
(* event after its frontier poll, every vertex still missing is stored,   *)
(* requested from a beacon or still to be fetched.  fetch() pops a vertex *)
(* from needToFetch before Beacons.Sample can fail, timeouts and wrong    *)
(* answers must re-fetch, and a crash empties needToFetch: a vertex that  *)
(* fell out of all three would never be requested again.                 *)
NoLostVertex ==
    Dispatchable /\ started /\ ~voting =>
        \A v \in missing : Stored(v) \/ v \in OutVtxs \/ v \in needToFetch

(* No second frontier poll on a linearized DAG (Start, lines 323-327):    *)
(* Start on a linearized DAG calls ForceAccepted without setting started, *)
(* so a later Connected reaching the quorum would run Startup; this is   *)
(* harmless only if, once the stop vertex is accepted, no frontier poll  *)
(* is pending and the engine is never left waiting for another event.    *)
NoPollOnceLinearized ==
    Linearized => ~voting /\ (phase = "Running" /\ ~halted => step # "Idle")

(* Termination (checkFinish, lines 563-623): under a serial dispatcher     *)
(* that runs handlers to completion, honest answers to outstanding        *)
(* requests and a network that eventually linearizes, bootstrapping ends  *)
(* (or fails, is halted, or uses up the model's request budget).         *)
Termination == <>(phase \in {"Done", "Fatal"} \/ halted \/ ~CanFetch)

HandlerSteps ==
    ProcessHalted \/ ProcessStep \/ ProcessDone \/ CommitTx \/ CommitVtx
    \/ FetchStep \/ FetchDone \/ ExecTx \/ ExecVtx

\* an honest beacon answers an outstanding request with the vertex itself
HonestAnswer == \E o \in outstanding : Ancestors(o.node, o.req, <<o.vtx>>)

Fairness ==
    /\ WF_vars(Start)
    /\ WF_vars(HandlerSteps)
    /\ \A n \in Beacons : WF_vars(Connected(n))
    /\ SF_vars(FrontierDecided)
    /\ SF_vars(HonestAnswer)
    /\ WF_vars(NetworkAdvance)

FairSpec == Spec /\ Fairness
=============================================================================
