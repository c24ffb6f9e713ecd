---------------------------- MODULE BeaconManager ----------------------------
(***************************************************************************)
(* The beacon connection counter of src/node/beacon_manager.go.  It wraps *)
(* the router: Connected counts beacons connecting on the primary network *)
(* and cancels the "could not reach the beacons" timer once RequiredConns *)
(* are counted; Disconnected uncounts a beacon.  The network calls them   *)
(* from one goroutine per peer, so calls of different peers interleave;   *)
(* the counter is atomic, but the Cancel after it is a separate step.     *)
(* The network's side of the contract (a peer is connected on the primary *)
(* network before any subnet, and disconnected once) is the environment.  *)
(***************************************************************************)
EXTENDS Integers, FiniteSets

CONSTANTS
    Nodes,          \* peers
    Beacons,        \* b.beacons
    Subnets,        \* subnet IDs, the primary network included
    Primary,        \* constants.PrimaryNetworkID
    RequiredConns,  \* b.requiredConns
    MaxSessions     \* bound on the number of connections the network makes

ASSUME BeaconAssumption ==
    /\ IsFiniteSet(Nodes) /\ Beacons \subseteq Nodes /\ Primary \in Subnets
    /\ RequiredConns \in Nat /\ MaxSessions \in Nat

VARIABLES
    up,        \* the network's view: peers connected (handshake done)
    subs,      \* subnets each connected peer was announced on
    numConns,  \* b.numConns
    timer,     \* b.timer: "armed", "cancelled" or "fired"
    pc,        \* per peer goroutine: "idle", or "cancel" between Add and Cancel
    sessions   \* connections made so far (bounded)

vars == <<up, subs, numConns, timer, pc, sessions>>

Init ==
    /\ up = {} /\ subs = [n \in Nodes |-> {}]
    /\ numConns = 0 /\ timer = "armed"
    /\ pc = [n \in Nodes |-> "idle"] /\ sessions = 0

\* The network delivers Connected(n, s): on the primary network when the
\* peer's handshake completes, then once per subnet it is announced on.
\* Returns whether the call is a delivery the network makes.
Delivers(n, s) ==
    IF s = Primary THEN n \notin up /\ sessions < MaxSessions
    ELSE n \in up /\ s \notin subs[n]

\* Mutant: a beacon is counted on every subnet it is announced on.
ConnectedAnySubnet(n, s) ==
    /\ pc[n] = "idle" /\ Delivers(n, s)
    /\ up' = up \cup {n}
    /\ subs' = [subs EXCEPT ![n] = @ \cup {s}]
    /\ sessions' = IF s = Primary THEN sessions + 1 ELSE sessions
    /\ IF n \in Beacons
       THEN /\ numConns' = numConns + 1
            /\ pc' = IF numConns + 1 >= RequiredConns THEN [pc EXCEPT ![n] = "cancel"] ELSE pc
       ELSE UNCHANGED <<numConns, pc>>
    /\ UNCHANGED timer

\* Mutant: the timer is cancelled only once more than RequiredConns are counted.
ConnectedStrict(n, s) ==
    /\ pc[n] = "idle" /\ Delivers(n, s)
    /\ up' = up \cup {n}
    /\ subs' = [subs EXCEPT ![n] = @ \cup {s}]
    /\ sessions' = IF s = Primary THEN sessions + 1 ELSE sessions
    /\ IF s = Primary /\ n \in Beacons
       THEN /\ numConns' = numConns + 1
            /\ pc' = IF numConns + 1 > RequiredConns THEN [pc EXCEPT ![n] = "cancel"] ELSE pc
       ELSE UNCHANGED <<numConns, pc>>
    /\ UNCHANGED timer

\* Connected(nodeID, nodeVersion, subnetID): the atomic add and the
\* comparison; the Cancel is the goroutine's next step.
Connected(n, s) ==
    /\ pc[n] = "idle" /\ Delivers(n, s)
    /\ up' = up \cup {n}
    /\ subs' = [subs EXCEPT ![n] = @ \cup {s}]
    /\ sessions' = IF s = Primary THEN sessions + 1 ELSE sessions
    /\ IF s = Primary /\ n \in Beacons
       THEN /\ numConns' = numConns + 1
            /\ pc' = IF numConns + 1 >= RequiredConns THEN [pc EXCEPT ![n] = "cancel"] ELSE pc
       ELSE UNCHANGED <<numConns, pc>>
    /\ UNCHANGED timer

\* b.timer.Cancel(): a no-op once the timer fired.
Cancel(n) ==
    /\ pc[n] = "cancel"
    /\ timer' = IF timer = "armed" THEN "cancelled" ELSE timer
    /\ pc' = [pc EXCEPT ![n] = "idle"]
    /\ UNCHANGED <<up, subs, numConns, sessions>>

\* Mutant: every disconnect is uncounted, beacon or not.
DisconnectedAny(n) ==
    /\ pc[n] = "idle" /\ n \in up
    /\ up' = up \ {n} /\ subs' = [subs EXCEPT ![n] = {}]
    /\ numConns' = numConns - 1
    /\ UNCHANGED <<timer, pc, sessions>>

\* Disconnected(nodeID): the network disconnects a connected peer once.
Disconnected(n) ==
    /\ pc[n] = "idle" /\ n \in up
    /\ up' = up \ {n} /\ subs' = [subs EXCEPT ![n] = {}]
    /\ numConns' = IF n \in Beacons THEN numConns - 1 ELSE numConns
    /\ UNCHANGED <<timer, pc, sessions>>

\* The timeout elapses before it was cancelled.
TimerFires ==
    /\ timer = "armed" /\ timer' = "fired"
    /\ UNCHANGED <<up, subs, numConns, pc, sessions>>

Next ==
    \/ \E n \in Nodes, s \in Subnets : Connected(n, s)
    \/ \E n \in Nodes : Cancel(n) \/ Disconnected(n)
    \/ TimerFires

\* A goroutine that started a Connected call finishes it.  The timer is
\* not assumed to fire: the timeout may be longer than any behaviour.
Fairness == \A n \in Nodes : WF_vars(Cancel(n))

Spec == Init /\ [][Next]_vars
FairSpec == Spec /\ Fairness
-----------------------------------------------------------------------------
\* Every variable holds a value of its type.
TypeOK ==
    /\ up \subseteq Nodes /\ subs \in [Nodes -> SUBSET Subnets]
    /\ numConns \in Nat /\ timer \in {"armed", "cancelled", "fired"}
    /\ pc \in [Nodes -> {"idle", "cancel"}] /\ sessions \in 0..MaxSessions

\* numConns counts exactly the beacons connected now: Connected counts
\* only primary-network connections while Disconnected uncounts every
\* beacon disconnect, so the two agree only because the network announces
\* a peer on the primary network before any subnet and disconnects it once.
CountExact == numConns = Cardinality(up \cap Beacons)

\* Once RequiredConns beacons are connected, the timer is cancelled (unless
\* it already fired): the last counted Connected call cancels it.
EnoughCancels ==
    Cardinality(up \cap Beacons) >= RequiredConns ~> timer # "armed"
=============================================================================
