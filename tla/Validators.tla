----------------------------- MODULE Validators -----------------------------
(***************************************************************************)
(* The P-chain validator set state of                                      *)
(*   src/vms/platformvm/state/validator.go                                 *)
(* baseValidators is the state as loaded: a map subnet -> node -> entry    *)
(* (validator and delegator tree), the tree of all stakers, and the        *)
(* per-key diffs recorded since the state was loaded.  diffValidators is  *)
(* the layer a block's diff keeps on top of it: per-key diffs, the added  *)
(* stakers and the deleted ones.  Each method is one atomic step (the     *)
(* state is only touched under the VM's lock).  Operations go to the     *)
(* base until a diff is created on top of it, then to the diff.  The     *)
(* callers read the state through the layer they write to.               *)
(***************************************************************************)
EXTENDS StakerSets

VARIABLES
    bEntries,  \* keys with an entry in baseValidators.validators
    bSubnets,  \* subnets with an entry in baseValidators.validators
    bVal,      \* entry.validator per key (Nil when nil)
    bDels,     \* entry.delegators per key
    bStakers,  \* baseValidators.stakers
    bDiff,     \* baseValidators.validatorDiffs per key
    layer,     \* "base", or "diff" once a diff was created on top
    dDiff,     \* diffValidators.validatorDiffs per key
    dAdded,    \* diffValidators.addedStakers
    dDeleted,  \* diffValidators.deletedStakers (keyed by TxID)
    used       \* staker transactions added so far (they are unique)

baseVars == <<bEntries, bSubnets, bVal, bDels, bStakers, bDiff>>
diffVars == <<dDiff, dAdded, dDeleted>>
vars == <<baseVars, layer, diffVars, used>>

\* diffValidator: a key's change record.  A missing map entry reads as
\* NoDiff, the zero value getOrCreate stores.
DiffRec == [modified : BOOLEAN, deleted : BOOLEAN, validator : ValidatorTxs \cup {Nil},
            added : SUBSET DelegatorTxs, removed : SUBSET DelegatorTxs]
NoDiff == [modified |-> FALSE, deleted |-> FALSE, validator |-> Nil,
           added |-> {}, removed |-> {}]
-----------------------------------------------------------------------------
(* Reads.                                                                  *)

\* baseValidators.GetValidator: ErrNotFound (Nil) without an entry or when
\* the entry's validator is nil.
BaseGetValidator(k) ==
    IF k[1] \notin bSubnets \/ k \notin bEntries THEN Nil ELSE bVal[k]

\* baseValidators.GetDelegatorIterator
BaseDelegators(k) ==
    IF k[1] \notin bSubnets \/ k \notin bEntries THEN {} ELSE bDels[k]

\* diffValidators.GetValidator: <<staker, found>>; <<Nil, TRUE>> when the
\* validator was deleted in this diff.
DiffGetValidator(k) ==
    IF ~dDiff[k].modified THEN <<Nil, FALSE>>
    ELSE IF dDiff[k].deleted THEN <<Nil, TRUE>>
    ELSE <<dDiff[k].validator, TRUE>>

\* diffValidators.GetDelegatorIterator: the parent's delegators merged with
\* the added ones, masked by the deleted TxIDs.
DiffDelegators(parent, k) == (parent \cup dDiff[k].added) \ dDiff[k].removed

\* diffValidators.GetStakerIterator
DiffStakers(parent) == (parent \cup dAdded) \ dDeleted

\* The three readings of the top layer.
ViewValidator(k) ==
    IF layer = "base" THEN BaseGetValidator(k)
    ELSE IF DiffGetValidator(k)[2] THEN DiffGetValidator(k)[1]
    ELSE BaseGetValidator(k)
ViewDelegators(k) ==
    IF layer = "base" THEN BaseDelegators(k) ELSE DiffDelegators(BaseDelegators(k), k)
ViewStakers ==
    IF layer = "base" THEN bStakers ELSE DiffStakers(bStakers)
-----------------------------------------------------------------------------
(* baseValidators.                                                         *)

\* pruneValidator(subnetID, nodeID): drop the key's entry when it holds
\* neither a validator nor delegators, and the subnet's map when empty.
\* Returns the new <<entries, subnets>>.
\* Mutant: pruneValidator that never deletes the subnet's map.
PruneKeepingSubnet(k, val, dels) ==
    IF val[k] # Nil \/ dels[k] # {} THEN <<bEntries \cup {k}, bSubnets \cup {k[1]}>>
    ELSE <<bEntries \ {k}, bSubnets \cup {k[1]}>>
pruneValidator(k, val, dels) ==
    IF val[k] # Nil \/ dels[k] # {} THEN <<bEntries \cup {k}, bSubnets \cup {k[1]}>>
    ELSE LET ents == bEntries \ {k}
         IN  <<ents, IF \E e \in ents : e[1] = k[1] THEN bSubnets
                     ELSE bSubnets \ {k[1]}>>

\* validatorDiff updated in place through getOrCreateValidatorDiff
SetValidatorDiff(d, k, deleted, s) ==
    [d EXCEPT ![k] = [modified |-> TRUE, deleted |-> deleted, validator |-> s,
                      added |-> @.added, removed |-> @.removed]]

\* Mutant: PutValidator that records no validatorDiff.
BasePutValidatorNoDiff(s) ==
    LET k == Key(s) IN
    /\ bEntries' = bEntries \cup {k} /\ bSubnets' = bSubnets \cup {k[1]}
    /\ bVal' = [bVal EXCEPT ![k] = s]
    /\ bStakers' = bStakers \cup {s}
    /\ UNCHANGED <<bDels, bDiff>>

\* PutValidator(staker)
BasePutValidator(s) ==
    LET k == Key(s) IN
    /\ bEntries' = bEntries \cup {k} /\ bSubnets' = bSubnets \cup {k[1]}
    /\ bVal' = [bVal EXCEPT ![k] = s]
    /\ bDiff' = SetValidatorDiff(bDiff, k, FALSE, s)
    /\ bStakers' = bStakers \cup {s}
    /\ UNCHANGED bDels

\* DeleteValidator(staker)
BaseDeleteValidator(s) ==
    LET k == Key(s)
        val == [bVal EXCEPT ![k] = Nil]
        p == pruneValidator(k, val, bDels)
    IN  /\ bVal' = val
        /\ bEntries' = p[1] /\ bSubnets' = p[2]
        /\ bDiff' = SetValidatorDiff(bDiff, k, TRUE, s)
        /\ bStakers' = bStakers \ {s}
        /\ UNCHANGED bDels

\* PutDelegator(staker)
BasePutDelegator(s) ==
    LET k == Key(s) IN
    /\ bEntries' = bEntries \cup {k} /\ bSubnets' = bSubnets \cup {k[1]}
    /\ bDels' = [bDels EXCEPT ![k] = @ \cup {s}]
    /\ bDiff' = [bDiff EXCEPT ![k].added = @ \cup {s}]
    /\ bStakers' = bStakers \cup {s}
    /\ UNCHANGED bVal

\* DeleteDelegator(staker)
BaseDeleteDelegator(s) ==
    LET k == Key(s)
        dels == [bDels EXCEPT ![k] = @ \ {s}]
        p == pruneValidator(k, bVal, dels)
    IN  /\ bDels' = dels
        /\ bEntries' = p[1] /\ bSubnets' = p[2]
        /\ bDiff' = [bDiff EXCEPT ![k].removed = @ \cup {s}]
        /\ bStakers' = bStakers \ {s}
        /\ UNCHANGED bVal
-----------------------------------------------------------------------------
(* diffValidators.                                                         *)

\* PutValidator(staker)
DiffPutValidator(s) ==
    /\ dDiff' = SetValidatorDiff(dDiff, Key(s), FALSE, s)
    /\ dAdded' = dAdded \cup {s}
    /\ UNCHANGED dDeleted

\* Mutant: DeleteValidator that leaves validatorDeleted unset.
DiffDeleteValidatorKeepsFlag(s) ==
    /\ dDiff' = SetValidatorDiff(dDiff, Key(s), FALSE, s)
    /\ dDeleted' = dDeleted \cup {s}
    /\ UNCHANGED dAdded

\* DeleteValidator(staker)
DiffDeleteValidator(s) ==
    /\ dDiff' = SetValidatorDiff(dDiff, Key(s), TRUE, s)
    /\ dDeleted' = dDeleted \cup {s}
    /\ UNCHANGED dAdded

\* Mutant: PutDelegator that skips addedStakers.
DiffPutDelegatorNotInStakers(s) ==
    /\ dDiff' = [dDiff EXCEPT ![Key(s)].added = @ \cup {s}]
    /\ UNCHANGED <<dAdded, dDeleted>>

\* Mutant: PutDelegator that records the staker in the validator slot.
DiffPutDelegatorAsValidator(s) ==
    /\ dDiff' = SetValidatorDiff(dDiff, Key(s), FALSE, s)
    /\ dAdded' = dAdded \cup {s}
    /\ UNCHANGED dDeleted

\* PutDelegator(staker)
DiffPutDelegator(s) ==
    /\ dDiff' = [dDiff EXCEPT ![Key(s)].added = @ \cup {s}]
    /\ dAdded' = dAdded \cup {s}
    /\ UNCHANGED dDeleted

\* DeleteDelegator(staker)
DiffDeleteDelegator(s) ==
    /\ dDiff' = [dDiff EXCEPT ![Key(s)].removed = @ \cup {s}]
    /\ dDeleted' = dDeleted \cup {s}
    /\ UNCHANGED dAdded
-----------------------------------------------------------------------------
(* The state as loaded from disk, with an empty base diff.                *)
Init ==
    /\ bVal = [k \in Keys |-> ValidatorAt(InitStakers, k)]
    /\ bDels = [k \in Keys |-> DelegatorsAt(InitStakers, k)]
    /\ bEntries = {Key(s) : s \in InitStakers}
    /\ bSubnets = {SubnetOf[s] : s \in InitStakers}
    /\ bStakers = InitStakers
    /\ bDiff = [k \in Keys |-> NoDiff]
    /\ layer = "base"
    /\ dDiff = [k \in Keys |-> NoDiff] /\ dAdded = {} /\ dDeleted = {}
    /\ used = InitStakers

\* The callers' side of the contract: a staker transaction is put once,
\* a validator only where the layer shows none, and a staker is deleted
\* after being read from the layer's staker iterator.
CanPutValidator(s) == s \in ValidatorTxs \ used /\ ViewValidator(Key(s)) = Nil
CanDeleteValidator(s) == s \in ViewStakers \cap ValidatorTxs
CanPutDelegator(s) == s \in DelegatorTxs \ used
CanDeleteDelegator(s) == s \in ViewStakers \cap DelegatorTxs

\* One method call on the layer the caller writes to.
Put(s) ==
    /\ \/ CanPutValidator(s) /\ IF layer = "base" THEN BasePutValidator(s) /\ UNCHANGED diffVars
                                ELSE DiffPutValidator(s) /\ UNCHANGED baseVars
       \/ CanPutDelegator(s) /\ IF layer = "base" THEN BasePutDelegator(s) /\ UNCHANGED diffVars
                                ELSE DiffPutDelegator(s) /\ UNCHANGED baseVars
    /\ used' = used \cup {s}
    /\ UNCHANGED layer

Delete(s) ==
    /\ \/ CanDeleteValidator(s) /\ IF layer = "base" THEN BaseDeleteValidator(s) /\ UNCHANGED diffVars
                                   ELSE DiffDeleteValidator(s) /\ UNCHANGED baseVars
       \/ CanDeleteDelegator(s) /\ IF layer = "base" THEN BaseDeleteDelegator(s) /\ UNCHANGED diffVars
                                   ELSE DiffDeleteDelegator(s) /\ UNCHANGED baseVars
    /\ UNCHANGED <<layer, used>>

\* A block's diff is created on top of the base: empty diffValidators.
NewDiff ==
    /\ layer = "base" /\ layer' = "diff"
    /\ UNCHANGED <<baseVars, diffVars, used>>

Next == NewDiff \/ \E s \in StakerTxs : Put(s) \/ Delete(s)

Spec == Init /\ [][Next]_vars
-----------------------------------------------------------------------------
(* Properties.                                                             *)

\* Every variable holds a value of its type; in particular a validator
\* slot (entry or diff) only ever holds a validator transaction and a
\* delegator tree or mask only delegator transactions.
TypeOK ==
    /\ bEntries \subseteq Keys /\ bSubnets \subseteq Subnets
    /\ bVal \in [Keys -> ValidatorTxs \cup {Nil}]
    /\ bDels \in [Keys -> SUBSET DelegatorTxs]
    /\ bStakers \subseteq StakerTxs
    /\ bDiff \in [Keys -> DiffRec]
    /\ layer \in {"base", "diff"}
    /\ dDiff \in [Keys -> DiffRec]
    /\ dAdded \subseteq StakerTxs /\ dDeleted \subseteq StakerTxs
    /\ used \subseteq StakerTxs

\* GetValidator and GetDelegatorIterator of the top layer (the base, or the
\* diff consulted before its parent) agree with its staker iterator: the
\* validator a key shows is the one validator of that key in the staker
\* tree, and its delegators are exactly the tree's delegators of that key.
\* Breaking it takes puts and deletes of one key on both layers, in an
\* order that a per-method unit test does not exercise.
ViewsAgree ==
    \A k \in Keys :
        /\ ViewValidator(k) = ValidatorAt(ViewStakers, k)
        /\ ViewDelegators(k) = DelegatorsAt(ViewStakers, k)

\* pruneValidator keeps the base map free of leaked entries: a (subnet,
\* node) entry exists exactly while it holds a validator or a delegator,
\* and a subnet's map exists exactly while it holds an entry.
NoLeakedEntries ==
    /\ bEntries = {k \in Keys : bVal[k] # Nil \/ bDels[k] # {}}
    /\ bSubnets = {k[1] : k \in bEntries}

\* The base's validatorDiffs record every change since load: replaying a
\* key's diff on the stakers loaded from disk gives the key's current
\* validator and delegators (what is written back to disk).
BaseDiffRecordsChanges ==
    \A k \in Keys :
        /\ bVal[k] = IF ~bDiff[k].modified THEN ValidatorAt(InitStakers, k)
                     ELSE IF bDiff[k].deleted THEN Nil ELSE bDiff[k].validator
        /\ bDels[k] = (DelegatorsAt(InitStakers, k) \cup bDiff[k].added)
                          \ bDiff[k].removed

\* The validator set as the layers show it through the staker iterator
\* behaves as the Validators interface promises.
Abs == INSTANCE ValidatorSet WITH current <- ViewStakers
AbsSpec == Abs!Spec
=============================================================================
