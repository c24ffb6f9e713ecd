----------------------------- MODULE StakerSets -----------------------------
(***************************************************************************)
(* The staker transactions of the P-chain's validator state               *)
(* (src/vms/platformvm/state/validator.go) and what a set of them says    *)
(* about one (subnet, node) key.                                          *)
(***************************************************************************)
CONSTANTS
    Subnets,       \* subnet IDs
    Nodes,         \* node IDs
    ValidatorTxs,  \* staker transactions that add a validator
    DelegatorTxs,  \* staker transactions that add a delegator
    SubnetOf,      \* Staker.SubnetID
    NodeOf,        \* Staker.NodeID
    InitStakers,   \* the stakers loaded from disk
    Nil            \* no staker (nil / database.ErrNotFound)

StakerTxs == ValidatorTxs \cup DelegatorTxs
Keys == Subnets \X Nodes
Key(s) == <<SubnetOf[s], NodeOf[s]>>

\* The validator a set of stakers holds for key k, or Nil.
ValidatorAt(S, k) == IF \E s \in S \cap ValidatorTxs : Key(s) = k
                     THEN CHOOSE s \in S \cap ValidatorTxs : Key(s) = k
                     ELSE Nil
\* The delegators a set of stakers holds for key k.
DelegatorsAt(S, k) == {s \in S \cap DelegatorTxs : Key(s) = k}
\* At most one validator per key.
OneValidatorPerKey(S) == \A s, t \in S \cap ValidatorTxs : Key(s) = Key(t) => s = t

ASSUME StakerAssumption ==
    /\ ValidatorTxs \cap DelegatorTxs = {}
    /\ SubnetOf \in [StakerTxs -> Subnets] /\ NodeOf \in [StakerTxs -> Nodes]
    /\ InitStakers \subseteq StakerTxs /\ OneValidatorPerKey(InitStakers)
    /\ Nil \notin StakerTxs
=============================================================================
