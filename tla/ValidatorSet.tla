---------------------------- MODULE ValidatorSet ----------------------------
(***************************************************************************)
(* What the P-chain's Validators interface promises                        *)
(*   (src/vms/platformvm/state/validator.go, lines 13-44):                 *)
(* a set of current stakers, each a validator or a delegator of one        *)
(* (subnet, node) key, with at most one validator per key.  Staker         *)
(* transactions are unique: a staker is added once and removed at most     *)
(* once.  GetValidator, the delegator iterator and the staker iterator are *)
(* three readings of this one set.                                         *)
(***************************************************************************)
EXTENDS StakerSets

VARIABLES
    current,   \* the current stakers
    used       \* every staker transaction ever added (they are unique)

Init == current = InitStakers /\ used = InitStakers

\* PutCurrentValidator of a new validator for a key that has none.
AddValidator(s) ==
    /\ s \in ValidatorTxs \ used /\ ValidatorAt(current, Key(s)) = Nil
    /\ current' = current \cup {s} /\ used' = used \cup {s}

\* DeleteCurrentValidator of a current validator.
RemoveValidator(s) ==
    /\ s \in current \cap ValidatorTxs
    /\ current' = current \ {s} /\ UNCHANGED used

\* PutCurrentDelegator of a new delegator.
AddDelegator(s) ==
    /\ s \in DelegatorTxs \ used
    /\ current' = current \cup {s} /\ used' = used \cup {s}

\* DeleteCurrentDelegator of a current delegator.
RemoveDelegator(s) ==
    /\ s \in current \cap DelegatorTxs
    /\ current' = current \ {s} /\ UNCHANGED used

Next == \E s \in StakerTxs :
           AddValidator(s) \/ RemoveValidator(s) \/ AddDelegator(s) \/ RemoveDelegator(s)

Spec == Init /\ [][Next]_<<current, used>>
=============================================================================
