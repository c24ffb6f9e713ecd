---------------------------- MODULE MCValidators ----------------------------
(* Two subnets and two nodes.  V1 and V2 validate node N1 on subnet S1 (so *)
(* only one of them can be current at a time), V3 validates N1 on S2, D1   *)
(* delegates to N1 on S1 and D2 to N2 on S1, a key with no validator.      *)
(* The state is loaded with V1 and D1.                                     *)
EXTENDS Validators

MCSubnets == {"S1", "S2"}
MCNodes == {"N1", "N2"}
MCValidatorTxs == {"V1", "V2", "V3"}
MCDelegatorTxs == {"D1", "D2"}
MCSubnetOf == [s \in MCValidatorTxs \cup MCDelegatorTxs |-> IF s = "V3" THEN "S2" ELSE "S1"]
MCNodeOf == [s \in MCValidatorTxs \cup MCDelegatorTxs |-> IF s = "D2" THEN "N2" ELSE "N1"]
MCInitStakers == {"V1", "D1"}
=============================================================================
