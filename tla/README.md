# Formal models of pepecoingo: DAG bootstrapper, P-chain validator set, beacon counter

This directory holds TLA+ models of three parts of the node:
- the X-chain DAG bootstrapper, `src/snow/engine/pepecoin/bootstrap/bootstrapper.go`;
- the P-chain's current validator set and its diff layer, `src/vms/platformvm/state/validator.go`;
- the beacon connection counter, `src/node/beacon_manager.go`.

It also holds the TLC configurations that model-check them and the TLAPS proofs of their main invariants and of one refinement.
The three parts do not share state, so each is a model of its own.
`PROJECT.json` lists the components, the runs, the mutants, the source lines each
definition models (`map`), the findings, the hazards and the theorems.

## The system: the DAG bootstrapper

The bootstrapper brings a node's copy of the X-chain DAG up to the accepted frontier the
beacons report. It has four parts, all in `bootstrapper.go`:

| Part | Code | Role |
|---|---|---|
| RequestScheduler | `fetch` (378-405) | Pops IDs from `needToFetch` while fewer than `MaxOutstandingGetAncestorsRequests` are outstanding. Skips IDs that are already requested or stored. Samples a beacon, sends `GetAncestors` and finally calls `checkFinish`. |
| AncestorsValidator | `Ancestors` (107-227), `GetAncestorsFailed` (229-241) | Handles a response. Garbage first bytes, a wrong vertex or an unsolicited unneeded vertex each return early, possibly re-fetching. Otherwise the batch is walked while each next vertex parses and is an eligible parent of what came before. Every parsed vertex is persisted by `ParseVtx`. |
| TraversalEngine | `process` (408-533), `ForceAccepted` (536-559) | Walks a heap that pops unknown vertices first, then greatest height. Records unknown vertices as missing and to fetch, stops on a rejected one, and queues a new processing vertex with its transactions and its parents. Parents in the processed cache or in the current height set are skipped. Then it commits `TxBlocked` and `VtxBlocked`, in that order, and calls `fetch`. |
| BootstrapLifecycle | `Start` (289-360), `Connected` / `Disconnected` (243-270), `checkFinish` (563-624) | Starts by re-confirming the edge of a linearized DAG or by waiting for the startup quorum of beacons. `checkFinish` runs `TxBlocked.ExecuteAll`, then `VtxBlocked.ExecuteAll`, then either restarts the frontier poll or linearizes the VM. |

Handlers are dispatched one at a time by the chain's handler. `Halt` comes from another
goroutine and is checked at lines 426, 583 and 600. The blocked-job queues, the startup
tracker, `Startup` / `Restart` and the vertex manager live outside `src/`. They are
modelled from `spec.md` and marked `spec_modelled` in the map.

## Modules

- `Bootstrapper.tla`: the whole bootstrapper as one state machine.
  - **State.**
    - Storage: `status` per vertex and `txAccepted`.
    - The working copies of the queues (`vtxJobs`, `missing`, `txJobs`) and their last commits (`vtxJobsDB`, `missingDB`, `txJobsDB`).
    - The fetch state: `needToFetch`, `outstanding`, `requestID`, and `sent` (the network).
    - The walk of `process`: `cache`, `heap`, `heightSet`, `prevHeight`.
    - The lifecycle: `phase`, `started`, `voting`, `connected`, `halted`.
  - **Handler steps.** A handler is an entry action (`Start`, `Connected`, `Disconnected`, `FrontierDecided`, `Ancestors`, `AncestorsFailed`) followed by micro-steps. `step` records which loop the running handler is in:
    - `ProcessStep`, one heap pop of `process`;
    - `ProcessDone`, `CommitTx` and `CommitVtx`, the two commits;
    - `FetchStep`, one iteration of `fetch`;
    - `FetchDone`, the first test of `checkFinish`;
    - `ExecTx` and `ExecVtx`, the two `ExecuteAll` calls.
  - **Interleaving.** No other handler can run between micro-steps, because the dispatcher is serial. Only `Halt`, `Crash` and `NetworkAdvance` interleave with them.
  - **Crash.** It reverts the queues to their last commit and loses all memory. A node can restart at any time and in any phase, including after bootstrapping finished. A restart on a linearized DAG goes through the `StopVertexAccepted` branch of `Start` (lines 323-330).
  - **Ancestors batches.** With `Byzantine`, a batch is any sequence over the vertices and one unparseable `Garbage` value. Otherwise it is the requested vertex followed by a valid walk.
  - **The walk.** `Elig`, `Consumed`, `Walked` and `Reached` translate lines 175-224. `Reached` includes the index that broke the loop, because `ParseVtx` was called on it.
    - `Elig(b, i)` is `eligibleVertices` after `b[i]` was consumed. It is written in closed form: the parents of some consumed `b[j]` that no later `b[k]` removed. That is what the loop computes, because it removes `b[i]` and then adds `b[i]`'s parents.
    - The closed form keeps recursion out of the modules the proofs use. `MCBootstrapper.tla` also defines `EligLoop`, the loop as a recursive function. Its `ASSUME EligIsLoop` makes TLC check, on every run, that the two agree on every batch of the instance.
  - **`Needed`.** The union of the reported frontiers is parenthesized: `(UNION {...}) \cup {...}`. TLC and tlapm parse the unparenthesized form differently.
  - **Abstractions.**
    - The LRU cache is a set from which `Put` may evict any entry. This over-approximates LRU order.
    - Request IDs are naturals, reset on a crash.
    - `RequestID` is counted against the bound `MaxRequestID`.
- `MCBootstrapper.tla`: a five-vertex DAG. It has a genesis `g`, two children `a` and `b` with one transaction each, a stop vertex `s` above them, and a stray vertex `r` that no frontier reaches. There is one beacon. The network first reports `{a}`, then `{s}`.
- `BootstrapperProofs.tla`: the TLAPS proofs of `TypeOK` and `CommittedTxsCovered`.
- `BootstrapperJobsProofs.tla`: the TLAPS proof of `CommittedJobsClosed`.
- `BootstrapperAncestryProofs.tla`: the TLAPS proofs of `OnlyNeededQueued` and `RejectedStaysOut`.
- `BootstrapperPollProofs.tla`: the TLAPS proof of `NoPollOnceLinearized`.
- `BootstrapperFetchProofs.tla`: the TLAPS proof of `NoLostVertex`.

## Runs

| Run | cfg | Checks | Bounds, and why they are enough |
|---|---|---|---|
| bootstrap_safety | `MCBootstrapper.cfg` | `TypeOK`, `OnlyNeededQueued`, `CommittedJobsClosed`, `CommittedTxsCovered`, `NoPollOnceLinearized`, `NoLostVertex` | See below. |
| bootstrap_fatal | `MCBootstrapperFatal.cfg` | `NoLostVertex` | No beacons, and a rejected vertex in storage below an accepted frontier. `fetch` pops an unknown vertex from `needToFetch` and then `Beacons.Sample` fails (lines 394-396): the engine must stop rather than go on without the vertex. |
| bootstrap_rejected | `MCBootstrapperRejected.cfg` | `RejectedStaysOut` | The same storage, with one beacon and a startup quorum of 1: the walk from the frontier reaches `b`, which storage marks rejected (the genesis `g` is accepted), and the fatal return at lines 437-438 fires, before and after a crash. |
| bootstrap_termination | `MCBootstrapperLive.cfg` | `Termination` | Honest peers, one crash and 6 request IDs. This is enough to bootstrap the whole DAG across the frontier advance and one restart. |
| bootstrap_byzantine_stall | `MCBootstrapperStall.cfg` | `Termination`, expected to be violated | One Byzantine answer, no crash, one outstanding request. |

Bounds of bootstrap_safety:
- batches of up to 3 entries, truncated to `AncestorsMax` = 2;
- 4 request IDs;
- one crash;
- a one-entry cache in which `a`, `b` and `g` are striped;
- any number of halts.

These bounds already allow a batch that breaks the walk after one step, a crash between the two commits, and a restart after `Done` on the linearized DAG. They also let the cache evict a queued vertex.

Deadlock checking is off in every run, because the engine really does stop. It stops after `Done` or a fatal error, and when the request budget or the network bound is exhausted.

Every property of a passing run has a mutant under `mutants` that TLC finds violating it:

| Mutant | What it does | Property it violates |
|---|---|---|
| Walk without the eligibility check | The walk keeps every vertex that parses. | `OnlyNeededQueued` |
| Break element kept | The vertex that broke the walk is processed, an off-by-one. | `TypeOK` (garbage reaches the heap) |
| `AddMissingID` dropped | An unknown vertex is not recorded as missing. | `CommittedJobsClosed` |
| `TxBlocked.Commit` skipped | The transaction queue is never committed. | `CommittedTxsCovered` |
| `Beacons.Sample` error only drops the request | The vertex is popped and forgotten (log and continue) instead of returning the error. | `NoLostVertex` on the fatal run |
| `GetAncestorsFailed` without re-fetch | A timed-out request is forgotten and its vertex is not fetched again. | `NoLostVertex` |
| `Start` ignores the linearization flag | A restart on a linearized DAG sets `started` and polls the frontier again. | `NoPollOnceLinearized` |
| Rejected vertex skipped | `process` drops a rejected vertex instead of returning the fatal error. | `RejectedStaysOut` on the rejected run |
| `ForceAccepted` ignores `MissingIDs` | After a crash, the persisted missing IDs are not re-processed. | `Termination` |

## Properties

- `OnlyNeededQueued`: Byzantine containment. Only ancestors of a reported frontier, or of the storage at boot, are ever queued or accepted. A peer can make the node store a foreign vertex, but never queue or accept it.
- `CommittedJobsClosed`: every parent of a committed vertex job is accepted, committed as a job, or committed as missing. This makes a crash at any point resumable, and covers the processed cache and the height set that prune parents.
- `CommittedTxsCovered`: a committed vertex job has its transactions committed or accepted. This relies on the commit order `TxBlocked` before `VtxBlocked`.
- `NoPollOnceLinearized`: once the DAG is linearized, no frontier poll is pending and an idle running engine never comes back. A restarted node that had finished must go straight to `Done` through `ForceAccepted(Edge)`; `Start` does not set `started` on that path (line 327), so a pass that ever returned to the idle dispatcher would let a later `Connected` start a second poll.
- `RejectedStaysOut`: no committed vertex job has a parent rejected in storage, and no accepted vertex has a rejected ancestor. Only the fatal return at line 437 stops a rejected vertex met in a traversal; skipping it would commit its children.
  - The stronger statement "no vertex above a rejected vertex is ever committed as a job" is false, and not because of a bug. When the rejected vertex's child is still unknown, `process` only marks that child missing. A vertex above it is then committed before the traversal reaches the rejected one. On the same DAG with the genesis `g` rejected instead of `b`, TLC found such a trace: `s` is committed while `a` and `b` are still missing. The spec promises only that meeting the rejected vertex is fatal, and that keeps it out of what is accepted.
- `NoLostVertex`: whenever the engine waits for its next event after the frontier poll, every missing vertex is stored, requested from a beacon, or still in `needToFetch`. Four places could lose one: `fetch` pops the vertex before `Beacons.Sample` can fail (line 394), a timeout must re-fetch (line 240), a wrong answer must re-fetch (line 155), and a crash empties `needToFetch`, so `ForceAccepted` must fold the persisted `MissingIDs` back in (line 537). A vertex that fell out of all three sets would never be requested again. Stored covers the stalled vertex of the finding below: it is safe by this property, yet never processed.
- `Termination`: bootstrapping ends in `Done` or `Fatal`, or when the engine is halted or the request budget is used up.

### Fairness behind Termination

- Weak fairness on `Start`, on the handler micro-steps and on `Connected`. A running handler runs to completion, and connections are delivered.
- Weak fairness on `NetworkAdvance`. The network eventually reports its final frontier.
- Strong fairness on `FrontierDecided` and on an honest answer to an outstanding request. These are environment assumptions: beacons eventually answer truthfully. Strong fairness is needed because other handlers, such as a stale response, repeatedly disable them for a moment.

## Finding

The bootstrap_byzantine_stall run finds a liveness failure in `Ancestors`.

**The trace.**
1. `s` is fetched and processed, so `a` and `b` become missing.
2. `b` is requested, and a Byzantine peer answers `[b, a]`.
3. `ParseVtx(a)` at line 190 persists `a`.
4. The eligibility check at line 206 breaks the walk, because `a` is not a parent of `b`. So `a` stays in `needToFetch` and in `MissingIDs`, and is never processed.
5. `fetch` pops `a` and skips it, because `GetVtx` now succeeds (lines 389-392).
6. `checkFinish` returns at line 566 forever, with nothing outstanding.

**Why it matters.** `spec.md` (section 4, failure semantics) says Byzantine responses are dropped or trigger a bounded re-fetch. Here one response blocks bootstrapping until the node restarts. A restart re-processes `MissingIDs` in `ForceAccepted`.

## Proofs of the bootstrapper

The proofs assume `DagAssumption`, `StorageAssumption` and `ConfigAssumption`, and nothing else about the constants.

- **`TypeCorrect`**: `Spec => []TypeOK`.
  - `TypeOK` is inductive by itself.
  - The proof has one lemma per handler.
  - Helper lemmas cover `Parse`, `Prefix` (walked indices name vertices), `CachePut` and `ForceAccepted`.
- **`TxsCommittedFirst`**: `Spec => []CommittedTxsCovered`.
  - `CommittedTxsCovered` is not inductive on its own. A `CommitVtx` step writes the working vertex queue to disk, so it needs to know that the working transaction queue has already been written.
  - The strengthening `TxsCore` adds four conjuncts:
    - `JobTxsCovered`: the working vertex jobs have their transactions queued or accepted;
    - `CommittedTxsKnown`: the committed transaction queue is contained in the working queue plus the accepted transactions;
    - `CommitOrder`: between the two commits, the committed transaction queue is the working one;
    - `ExecOrder`: vertices execute only after the transaction queues were emptied.
  - TLC checks `TxsCore` on the safety run before the proof is attempted.
  - The proof has one lemma per step that touches the queues (`ProcessStep`, `CommitTx`, `CommitVtx`, `ExecTx`, `ExecVtx`, `Crash`). The other steps are handled by a "quiet step" lemma.

- **`CommittedJobsResumable`** (`BootstrapperJobsProofs.tla`): `Spec => []CommittedJobsClosed`.
  - `CommittedJobsClosed` is not inductive: `CommitVtx` copies the working queue to disk, and the cache and the height set prune parents that are only known to be queued or accepted.
  - The strengthening `JobsCore` adds:
    - `JobsClosed`: the working vertex jobs are closed in the same sense, unless the pass was aborted (`Aborted`: idle after a halt or a fatal error, where nothing is committed any more);
    - `HeapOnlyInProcess` and `NothingMissingInExec`: the heap is empty outside `process`, and nothing is missing when the queues execute, so execution never strands a parent;
    - `SeenQueued`: every vertex in the cache or the height set is queued or accepted, which is why pruning it keeps closure.
  - It rests on `TxsCore` and `TypeOK` (the lemmas `TxsNext` and `TypeNext`). TLC checked the strengthening on the safety, fatal and termination instances first.
  - There is one lemma per step that moves vertices (`ProcessStep`, split by the stored status, `CommitVtx`, `ExecVtx`, `FetchDone`, `ForceAccepted`, an `Ancestors` batch, `Crash`, a halted pass), and a quiet-step lemma for the rest.

- **`ByzantineContained`** (`BootstrapperAncestryProofs.tla`): `Spec => []OnlyNeededQueued`.
  - The strengthening `NeedInv` says that all the work is needed: the heap, both queues and their commits, the accepted set, `needToFetch` and the requested vertices. `Needed` is the ancestor closure of the reported frontiers and of the vertices accepted at boot.
  - The fetch state is included because an `Ancestors` walk starts from a requested or needed vertex. Everything the walk keeps is then an ancestor of needed work, and so needed.
  - `WalkAnc` is the key lemma: everything a walk keeps is an ancestor of the batch's first vertex. It is an induction over the batch, done by the least-element principle. Take the least walked index whose vertex is not an ancestor. It is not 1, and its vertex is eligible, so it is a parent of an earlier walked vertex, which is an ancestor. This needs `WFMin` with the well-foundedness of `<` on `Nat` from `WellFoundedInduction`, not an induction rule with an operator parameter.
  - `Anc` is the least parent-closed superset (`AncLeast`, `AncClosed`).
  - `NeededGrows` shows that a frontier advance only enlarges `Needed`.
- **`RejectedNeverAccepted`** (`BootstrapperAncestryProofs.tla`): `Spec => []RejectedStaysOut`.
  - The strengthening `RejInv` has two parts. Nothing in the queues or their commits (in memory or on disk) is rejected. The accepted set is closed under parents.
  - The second part holds at boot by `StorageAssumption`. `ExecuteAll` keeps it: a job runs only when all of its proper ancestors are accepted or run in the same call (`Runnable`). `AncParent`, proved by heights, turns that into "its parents are accepted".
  - It rests on `JobsInv`, for `CommittedJobsClosed`.
- **`LinearizedNoPoll`** (`BootstrapperPollProofs.tla`): `Spec => []NoPollOnceLinearized`.
  - The difficulty is that `Start` on a linearized DAG does not set `started`. The strengthening `PollInv` (checked first by TLC on all five bootstrapper instances) says:
    - `HandlerRunning`: a handler runs only in phase `Running`;
    - `InitQuiet`: before `Start` nothing is requested, nothing is to be fetched, and no poll is pending;
    - `StartedQuiet`: until the tracker starts the engine (or the DAG is linearized), the engine is idle with nothing requested. So the only dispatched handlers are the connection events;
    - `MissingSynced`: outside `process` and its commits, the committed `MissingIDs` equal the working ones, unless the pass aborted;
    - `FetchTracked`: every requested or to-be-fetched vertex is missing, queued or accepted;
    - `VoteInv`: a pending poll means the DAG is not linearized, and the engine is either fresh (idle, with nothing requested) or drained (no jobs, nothing missing, and everything on the heap, requested or to be fetched accepted);
    - `LinInv`: once linearized there is no poll and nothing is missing (in memory or committed), and a running engine is halted or inside a pass with nothing to pop or fetch.
  - Why it holds. `ExecAll` shows that when `checkFinish` reaches `VtxBlocked.ExecuteAll` every job runs. Nothing is missing, the queue is closed under parents (`JobsClosed`), the accepted set is closed (`RejInv`) and every transaction is accepted (`TxsCore`). So `FetchTracked` makes the poll that `Restart` sets start from a drained engine. From a drained engine, a walk visits only ancestors of an accepted vertex (`WalkAnc`), which are accepted. So no pass can accept the stop vertex while the poll is pending. On the restart path, `MissingSynced` and `LinInv` give `ForceAccepted(Edge)` an empty missing set, so the pass reaches `Done` without returning to the dispatcher.
  - It rests on `JobsInv` and `RejInv`.
- **`MissingNeverDropped`** (`BootstrapperFetchProofs.tla`): `Spec => []NoLostVertex`.
  - `NoLostVertex` speaks only of an idle engine. The strengthening `FetchInv` states its content, `Kept`, for every handler state in phase `Running` once `started` is set and no poll is pending. It adds three facts about the request table:
    - `InitIdle`: before `Start` no handler runs, nothing is outstanding and `started` is unset. `Start` resets `RequestID` (line 319), and `started` set with no poll would otherwise skip the `ForceAccepted` that folds the persisted `MissingIDs` back in;
    - `ReqBelow`: every outstanding request ID is at most `RequestID`, so the ID `fetch` hands out is fresh;
    - `ReqUnique`: one vertex per (nodeID, requestID), as in `OutstandingRequests`. The walk of an `Ancestors` batch removes the request without re-fetching its vertex, and this is what shows that the removed vertex is `vtxs[0]`, which `ParseVtx` has stored.
  - Why it holds. A vertex leaves `needToFetch` only in three ways: `fetch` requests it (or finds it requested or stored), the walk parses it (`PrefixParsed`), or `Beacons.Sample` fails and the engine stops. A request leaves the table only through a timeout, which re-fetches, or an answer, which re-fetches or parses the vertex (`FirstParsed`). A stored vertex stays stored. `ForceAccepted` puts every unstored pending vertex into `needToFetch`, so the decided poll re-establishes `Kept` after a crash.

**Only model-checked** (for the bootstrapper):
- Liveness (`Termination`) and anything about `ENABLED`, which are beyond the prover.
- That the closed-form `Elig` is the loop of lines 184-221. `EligIsLoop` checks it on the instance's batches. For every batch it would need an induction over data, which the installed provers cannot do.

## The P-chain validator set (`validator.go`)

`Validators` (lines 13-44) is what the P-chain state keeps of its current stakers. Each staker is a validator or a delegator of one (subnet, node) key, and each key has at most one validator. It is read three ways:
- `GetValidator`;
- an iterator over the delegators of a key;
- an iterator over all stakers.

`baseValidators` (46-180) keeps the data twice:
- per-key entries `validators[subnet][node]`, each holding a validator and a delegator tree;
- a tree of all stakers.

Every write also records a per-key `validatorDiff`, which the state flushes to disk. `pruneValidator` (167-180) drops an entry that holds neither a validator nor delegators, and drops a subnet's map once it is empty. `diffValidators` (182-319) is the layer a block's diff writes into:
- per-key diff records (`modified`/`deleted`/`validator`, added and removed delegators);
- the sets `addedStakers` and `deletedStakers`.

Its `GetValidator` is three-valued: modified, deleted, or unknown (ask the parent).

**Modules.**
- `StakerSets.tla` holds the shared constants and their assumption. The constants are the staker transactions with their keys, and the stakers loaded at start-up.
- `ValidatorSet.tla` is the abstract specification: the set `current` of stakers, with four operations that add or remove a validator or a delegator.
- `Validators.tla` holds the implementation.
  - `b*` variables hold the base.
  - `layer` says whether a diff has been opened on top of it (`NewDiff`).
  - `d*` variables hold the diff.
  - One action per `Put*`/`Delete*` method of each layer.
  - `ViewValidator`, `ViewDelegators` and `ViewStakers` are the three reads of the top layer.
  - Who calls the methods is outside `src/`. `Put` and `Delete` model the callers' contract, marked `spec_modelled`:
    - staker TxIDs are unique (the `used` ghost);
    - a validator is put only where none is shown;
    - a staker is deleted only if the staker iterator shows it.
- `MCValidators.tla`: two subnets and two nodes.
  - Two validators, V1 and V2, compete for one key.
  - V3 validates on the other subnet.
  - D1 delegates on V1's key. D2 delegates on a key that has no validator.

| Run | cfg | Checks |
|---|---|---|
| validators_safety | `MCValidators.cfg` | `TypeOK`; `ViewsAgree` (the three reads agree); `NoLeakedEntries` (pruning is exact); `BaseDiffRecordsChanges` (replaying the base's `validatorDiff` on the start-up stakers yields the current entries) |
| validators_refinement | `MCValidatorsRefine.cfg` | `AbsSpec`: with `current <- ViewStakers`, every step is an abstract step or a stutter |

**Bounds.** The instance has 1,152 states. It reaches all of the following:
- a delete and a re-put of another validator on the same key within one layer;
- an entry pruned and then re-created;
- delegators with and without a validator on their key;
- every operation on both layers.

**Mutants.**
- A base put that records no diff breaks `BaseDiffRecordsChanges`.
- A diff delete that keeps `deleted` unset breaks `ViewsAgree`.
- A prune that keeps the subnet map breaks `NoLeakedEntries`.
- A diff delegator put that goes to the validator slot breaks `TypeOK`.
- A diff delegator put that skips `addedStakers` breaks `AbsSpec`.

**Proofs (`ValidatorsProofs.tla`).** They assume `StakerAssumption` only.
- `BaseInv` is the strengthening for the base invariants. It is `TypeOK`, `NoLeakedEntries` and `BaseDiffRecordsChanges`, plus the fact that every staker and every removed delegator is in `used`. The last fact is what shows that a new TxID cannot already be in a tree or a diff.
- `ViewsInv` adds:
  - the diff is empty while `layer = "base"`;
  - the staker view has one validator per key;
  - `ViewsAgree`;
  - the diff's sets are within `used`.
- `TypeCorrect`, `EntriesPruned`, `BaseDiffComplete` and `ViewsConsistent` prove `Spec => []P` for each invariant.
- `ImplementsValidatorSet` proves `Spec => AbsSpec`. `Init` maps to `Abs!Init`. Each concrete action, given `ViewsInv`, maps to the matching abstract action on `ViewStakers`. `NewDiff` maps to a stutter.

## The beacon counter (`beacon_manager.go`)

`beaconManager` wraps the router. `Connected` (27-34) atomically increments `numConns` when a beacon connects on the primary network. The call that reaches `requiredConns` then cancels the start-up timer. `Disconnected` (36-41) decrements `numConns` for any beacon.

The network calls these methods from one goroutine per peer, so calls of different peers interleave. The add and the `Cancel` are two separate steps.

**Module.** `BeaconManager.tla` has:
- the state `numConns`, `timer` and a per-peer `pc`, which is `"cancel"` between the add and the `Cancel`;
- the environment: the network's view `up`/`subs` and a session counter;
- the actions `Connected`, `Cancel`, `Disconnected` and `TimerFires`.

The network's contract is not in `src/`, so `Delivers` models it (`spec_modelled`): a peer is announced on the primary network before any subnet, and it is disconnected once.

**Run beacon_counter** (`MCBeaconManager.cfg`). The instance has three peers, two of which are beacons. `RequiredConns` = 2, which is `(3*2+3)/4`. It has 4 connection sessions and 314 states. The run checks:
- `TypeOK`, including that `numConns` is never negative;
- `CountExact`: `numConns` equals the number of connected beacons;
- `EnoughCancels`: once `RequiredConns` beacons are connected, the timer is eventually not armed.

**Fairness.** `EnoughCancels` assumes weak fairness of each `Cancel`: a goroutine that started a call finishes it. The timer is not assumed to fire.

**Deadlock.** Checking is off: after the last session the node really is idle.

**Mutants.**
- Counting beacons on every subnet breaks `CountExact`.
- Uncounting every disconnecting peer breaks `TypeOK`.
- Cancelling only above `RequiredConns` breaks `EnoughCancels`.

**Proof.** `BeaconManagerProofs.tla` proves `CountIsExact`: `Spec => [](TypeOK /\ CountExact)`, and from it `BeaconTypeCorrect`: `Spec => []TypeOK`. The conjunction is inductive, and the step uses `FS_AddElement` / `FS_RemoveElement` on the connected beacons. It assumes `BeaconAssumption`, which includes that the peer set is finite.

**Not covered.** With `requiredConns = 0` (no beacons), nothing ever cancels the timer. That value is set in `node.go`, which is not in `src/`.

## Not modelled yet

- In `validator.go`:
  - the iterators' order (the model reads sets);
  - the pending stakers;
  - how diffs are created and applied to the base (the model opens one diff on top of the base).
- The router that `beaconManager` forwards to.
- The `timer` package.
- The X-chain wallet backend (`wallet/chain/x/backend_visitor.go`). It only forwards to an `AcceptTx` and a UTXO getter that are not in `src/`, and the spec says nothing of them.
- Parsers, codecs, RPC and configuration code, which have no state machine.
