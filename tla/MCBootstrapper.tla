--------------------------- MODULE MCBootstrapper ---------------------------
(* A five-vertex DAG: genesis g is accepted; a and b sit on it; the stop  *)
(* vertex s sits on a and b; r also sits on g but no frontier reaches it. *)
(* The beacons first report {a}, and {s} once the network linearizes.     *)
EXTENDS Bootstrapper

MCVtx == {"g", "a", "b", "s", "r"}
MCTx == {"t1", "t2", "t3"}
MCParents == [v \in MCVtx |-> CASE v = "g" -> {}
                                [] v = "s" -> {"a", "b"}
                                [] OTHER   -> {"g"}]
MCHeight == [v \in MCVtx |-> CASE v = "g" -> 0 [] v = "s" -> 2 [] OTHER -> 1]
MCTxs == [v \in MCVtx |-> CASE v = "a" -> {"t1"}
                            [] v = "b" -> {"t2"}
                            [] v = "r" -> {"t3"}
                            [] OTHER   -> {}]
MCInitStatus == [v \in MCVtx |-> IF v = "g" THEN "Accepted" ELSE "Unknown"]
\* storage that holds s and rejected b, which the network accepted
MCRejectedStatus == [v \in MCVtx |-> CASE v = "g" -> "Accepted"
                                       [] v = "b" -> "Rejected"
                                       [] v = "s" -> "Processing"
                                       [] OTHER   -> "Unknown"]
MCNetFrontiers == <<{"a"}, {"s"}>>
MCBeacons == {"n1"}
MCNoBeacons == {}
\* eligibleVertices as the loop of Ancestors (lines 181-224) computes it
EligLoop(b) == LET e[i \in 1 .. Len(b)] ==
                     IF i = 1 THEN ParentsOf(b[1])
                     ELSE (e[i - 1] \ {b[i]}) \cup ParentsOf(b[i])
               IN  e
(* The closed form Elig the model walks with is what the loop computes,   *)
(* for every batch a peer can send in these runs.                         *)
ASSUME EligIsLoop == \A b \in Batches : \A i \in 1 .. Len(b) : Elig(b, i) = EligLoop(b)[i]
=============================================================================
