------------------------- MODULE BeaconManagerProofs -------------------------
(* Proofs that the beacon counter is exact and never negative, for every   *)
(* set of peers and beacons, under the network's connection contract.      *)
EXTENDS BeaconManager, FiniteSetTheorems, TLAPS

USE BeaconAssumption

\* The counter and the count of connected beacons agree, and all is typed.
Inv == TypeOK /\ CountExact

\* A connected beacon set is finite, so its cardinality is a natural.
LEMMA UpBeaconsFinite ==
    ASSUME NEW U \in SUBSET Nodes
    PROVE  /\ IsFiniteSet(U \cap Beacons)
           /\ Cardinality(U \cap Beacons) \in Nat
BY FS_Subset, FS_CardinalityType

LEMMA InitInv == Init => Inv
BY FS_EmptySet DEF Init, Inv, TypeOK, CountExact

LEMMA NextInv == Inv /\ [Next]_vars => Inv'
<1> SUFFICES ASSUME Inv, [Next]_vars PROVE Inv'
    OBVIOUS
<1>1. ASSUME NEW n \in Nodes, NEW s \in Subnets, Connected(n, s) PROVE Inv'
  <2>1. TypeOK'
    <3>1. numConns' \in Nat
      BY <1>1 DEF Connected, Inv, TypeOK
    <3>2. pc' \in [Nodes -> {"idle", "cancel"}]
      BY <1>1 DEF Connected, Inv, TypeOK
    <3>3. sessions' \in 0..MaxSessions
      BY <1>1 DEF Connected, Delivers, Inv, TypeOK
    <3>4. up' \subseteq Nodes /\ subs' \in [Nodes -> SUBSET Subnets]
      BY <1>1 DEF Connected, Inv, TypeOK
    <3>5. timer' \in {"armed", "cancelled", "fired"}
      BY <1>1 DEF Connected, Inv, TypeOK
    <3>. QED
      BY <3>1, <3>2, <3>3, <3>4, <3>5 DEF TypeOK
  <2>2. CASE s = Primary /\ n \in Beacons
    <3>1. n \notin up
      BY <1>1, <2>2 DEF Connected, Delivers
    <3>2. up' \cap Beacons = (up \cap Beacons) \cup {n}
      BY <1>1, <2>2 DEF Connected
    <3>3. Cardinality(up' \cap Beacons) = Cardinality(up \cap Beacons) + 1
      BY <3>1, <3>2, UpBeaconsFinite, FS_AddElement DEF Inv, TypeOK
    <3>4. numConns' = numConns + 1
      BY <1>1, <2>2 DEF Connected
    <3>. QED
      BY <2>1, <3>3, <3>4 DEF Inv, CountExact
  <2>3. CASE s = Primary /\ n \notin Beacons
    <3>1. up' \cap Beacons = up \cap Beacons
      BY <1>1, <2>3 DEF Connected
    <3>. QED
      BY <1>1, <2>1, <2>3, <3>1 DEF Connected, Inv, CountExact
  <2>4. CASE s # Primary
    <3>1. up' = up
      BY <1>1, <2>4 DEF Connected, Delivers
    <3>. QED
      BY <1>1, <2>1, <2>4, <3>1 DEF Connected, Inv, CountExact
  <2>. QED
    BY <2>2, <2>3, <2>4
<1>2. ASSUME NEW n \in Nodes, Cancel(n) PROVE Inv'
  BY <1>2 DEF Cancel, Inv, TypeOK, CountExact
<1>3. ASSUME NEW n \in Nodes, Disconnected(n) PROVE Inv'
  <2>1. CASE n \in Beacons
    <3>1. up' \cap Beacons = (up \cap Beacons) \ {n}
      BY <1>3 DEF Disconnected
    <3>0. n \in up \cap Beacons /\ up \subseteq Nodes
      BY <1>3, <2>1 DEF Disconnected, Inv, TypeOK
    <3>2. Cardinality(up' \cap Beacons) = Cardinality(up \cap Beacons) - 1
      <4>1. IsFiniteSet(up \cap Beacons)
        BY <3>0, UpBeaconsFinite
      <4>2. Cardinality((up \cap Beacons) \ {n}) = Cardinality(up \cap Beacons) - 1
        BY <3>0, <4>1, FS_RemoveElement
      <4>. QED
        BY <3>1, <4>2
    <3>3. Cardinality(up' \cap Beacons) \in Nat
      BY <1>3, UpBeaconsFinite DEF Disconnected, Inv, TypeOK
    <3>. QED
      BY <1>3, <2>1, <3>2, <3>3 DEF Disconnected, Inv, TypeOK, CountExact
  <2>2. CASE n \notin Beacons
    <3>1. up' \cap Beacons = up \cap Beacons
      BY <1>3, <2>2 DEF Disconnected
    <3>. QED
      BY <1>3, <2>2, <3>1 DEF Disconnected, Inv, TypeOK, CountExact
  <2>. QED
    BY <2>1, <2>2
<1>4. CASE TimerFires
  BY <1>4 DEF TimerFires, Inv, TypeOK, CountExact
<1>5. CASE UNCHANGED vars
  BY <1>5 DEF vars, Inv, TypeOK, CountExact
<1>. QED
  BY <1>1, <1>2, <1>3, <1>4, <1>5 DEF Next

\* The beacon counter numConns is never negative and always equals the
\* number of connected beacons: Connected's primary-network test and
\* Disconnected's beacon test keep add and subtract paired.
THEOREM CountIsExact == Spec => [](TypeOK /\ CountExact)
<1>1. Init => Inv
  BY InitInv
<1>2. Inv /\ [Next]_vars => Inv'
  BY NextInv
<1>. QED
  BY <1>1, <1>2, PTL DEF Spec, Inv

\* Connected and Disconnected never drive numConns below zero and leave
\* every variable of the counter and its timer well typed.
THEOREM BeaconTypeCorrect == Spec => []TypeOK
<1>1. Inv => TypeOK
  BY DEF Inv
<1>. QED
  BY <1>1, CountIsExact, PTL DEF Inv
=============================================================================
