-------------------------- MODULE ValidatorsProofs --------------------------
(***************************************************************************)
(* Proofs about the validator state of validator.go, for every set of      *)
(* subnets, nodes and staker transactions satisfying StakerAssumption.     *)
(***************************************************************************)
EXTENDS Validators, TLAPS

USE StakerAssumption DEF baseVars, diffVars

\* The base's map and diff invariants need one fact about the callers:
\* a staker is only ever deleted after it was put, so every TxID the base
\* tree or a base diff's delegator mask holds was put before, and a fresh
\* delegator is never already masked.
BaseInv ==
    /\ TypeOK
    /\ NoLeakedEntries
    /\ BaseDiffRecordsChanges
    /\ bStakers \subseteq used
    /\ \A k \in Keys : bDiff[k].removed \subseteq used
\* ViewsAgree needs, besides BaseInv: an empty diff while the base is
\* written, at most one validator per key among the stakers the top layer
\* shows, and every TxID the diff holds put before (so a fresh staker is
\* never masked).
ViewsInv ==
    /\ BaseInv
    /\ layer = "base" => /\ dDiff = [k \in Keys |-> NoDiff]
                         /\ dAdded = {} /\ dDeleted = {}
    /\ OneValidatorPerKey(ViewStakers)
    /\ ViewsAgree
    /\ dAdded \subseteq used /\ dDeleted \subseteq used
    /\ \A k \in Keys : dDiff[k].removed \subseteq used
\* What the top layer reads for key k once the base map is pruned: the
\* diff's validator record when it has one, else the base entry.
TopVal(k) ==
    IF layer = "diff" /\ dDiff[k].modified
    THEN IF dDiff[k].deleted THEN Nil ELSE dDiff[k].validator
    ELSE bVal[k]
TopDels(k) ==
    IF layer = "diff" THEN (bDels[k] \cup dDiff[k].added) \ dDiff[k].removed
    ELSE bDels[k]
-----------------------------------------------------------------------------
(* Lemmas about the operators the model is built from.                     *)

\* A staker's key is a key, and ValidatorAt names a validator exactly
\* when the set holds one for the key.
LEMMA KeyType ==
    ASSUME NEW s \in StakerTxs PROVE Key(s) \in Keys
BY DEF Key, Keys

LEMMA ValidatorAtFacts ==
    ASSUME NEW S, NEW k
    PROVE  /\ ValidatorAt(S, k) \in ValidatorTxs \cup {Nil}
           /\ ValidatorAt(S, k) = Nil <=> ~\E s \in S \cap ValidatorTxs : Key(s) = k
BY DEF ValidatorAt, StakerTxs

\* pruneValidator, called after the entry of key k was changed, leaves
\* exactly the non-empty entries and the subnets that still hold one.
LEMMA PruneFacts ==
    ASSUME NoLeakedEntries, bEntries \subseteq Keys, NEW k \in Keys,
           \A j \in Keys \ {k} : bVal'[j] = bVal[j] /\ bDels'[j] = bDels[j],
           bEntries' = pruneValidator(k, bVal', bDels')[1],
           bSubnets' = pruneValidator(k, bVal', bDels')[2]
    PROVE  NoLeakedEntries'
<1> DEFINE ents == bEntries \ {k}
           live == {j \in Keys : bVal'[j] # Nil \/ bDels'[j] # {}}
<1>1. CASE bVal'[k] # Nil \/ bDels'[k] # {}
  <2>1. bEntries' = bEntries \cup {k} /\ bSubnets' = bSubnets \cup {k[1]}
    BY <1>1 DEF pruneValidator
  <2>2. bEntries \cup {k} = live
    BY <1>1 DEF NoLeakedEntries
  <2>3. bSubnets \cup {k[1]} = {j[1] : j \in bEntries \cup {k}}
    BY DEF NoLeakedEntries
  <2> QED BY <2>1, <2>2, <2>3 DEF NoLeakedEntries
<1>2. CASE ~(bVal'[k] # Nil \/ bDels'[k] # {})
  <2>1. ents = live
    BY <1>2 DEF NoLeakedEntries
  <2>2. CASE \E e \in ents : e[1] = k[1]
    <3>1. bEntries' = ents /\ bSubnets' = bSubnets
      BY <1>2, <2>2 DEF pruneValidator
    <3>2. bSubnets = {j[1] : j \in ents}
      BY <2>2 DEF NoLeakedEntries
    <3> QED BY <2>1, <3>1, <3>2 DEF NoLeakedEntries
  <2>3. CASE ~\E e \in ents : e[1] = k[1]
    <3>1. bEntries' = ents /\ bSubnets' = bSubnets \ {k[1]}
      BY <1>2, <2>3 DEF pruneValidator
    <3>2. bSubnets \ {k[1]} = {j[1] : j \in ents}
      BY <2>3 DEF NoLeakedEntries
    <3> QED BY <2>1, <3>1, <3>2 DEF NoLeakedEntries
  <2> QED BY <2>2, <2>3
<1> QED BY <1>1, <1>2
-----------------------------------------------------------------------------
(* The initial state: the stakers loaded from disk, with empty diffs.      *)
LEMMA InitBaseInv == Init => BaseInv
<1> SUFFICES ASSUME Init PROVE BaseInv
  OBVIOUS
<1>1. \A k \in Keys : ValidatorAt(InitStakers, k) # Nil \/ DelegatorsAt(InitStakers, k) # {}
                      <=> \E s \in InitStakers : Key(s) = k
  BY ValidatorAtFacts DEF DelegatorsAt, StakerTxs
<1>2. TypeOK
  <2>1. bEntries \subseteq Keys /\ bSubnets \subseteq Subnets
    BY KeyType DEF Init, StakerTxs, Key
  <2>2. bVal \in [Keys -> ValidatorTxs \cup {Nil}]
    BY ValidatorAtFacts DEF Init
  <2>3. bDels \in [Keys -> SUBSET DelegatorTxs]
    BY DEF Init, DelegatorsAt
  <2>4. NoDiff \in DiffRec
    BY DEF NoDiff, DiffRec
  <2> QED BY <2>1, <2>2, <2>3, <2>4 DEF Init, TypeOK, StakerTxs
<1>3. NoLeakedEntries
  <2>1. bEntries = {k \in Keys : bVal[k] # Nil \/ bDels[k] # {}}
    BY <1>1, KeyType DEF Init, StakerTxs
  <2>2. bSubnets = {k[1] : k \in bEntries}
    <3>1. ASSUME NEW n \in bSubnets PROVE \E k \in bEntries : n = k[1]
      <4>1. PICK s \in InitStakers : n = SubnetOf[s]
        BY <3>1 DEF Init
      <4>2. Key(s) \in bEntries /\ Key(s)[1] = n
        BY <4>1 DEF Init, Key
      <4> QED BY <4>2
    <3>2. ASSUME NEW k \in bEntries PROVE k[1] \in bSubnets
      <4>1. PICK s \in InitStakers : k = Key(s)
        BY <3>2 DEF Init
      <4> QED BY <4>1 DEF Init, Key
    <3> QED BY <3>1, <3>2
  <2> QED BY <2>1, <2>2 DEF NoLeakedEntries
<1>4. BaseDiffRecordsChanges
  BY DEF Init, BaseDiffRecordsChanges, NoDiff
<1> QED BY <1>2, <1>3, <1>4 DEF Init, BaseInv, NoDiff
-----------------------------------------------------------------------------
(* One lemma per baseValidators method, called by a caller that keeps the  *)
(* contract (the guard of Put or Delete).                                  *)

LEMMA BasePutValidatorInv ==
    ASSUME BaseInv, NEW s \in ValidatorTxs \ used, BasePutValidator(s),
           used' = used \cup {s}, UNCHANGED <<layer, diffVars>>
    PROVE  BaseInv'
<1> DEFINE k == Key(s)
<1>1. k \in Keys /\ s # Nil
  BY KeyType DEF StakerTxs
<1>2. TypeOK'
  <2>1. bVal' \in [Keys -> ValidatorTxs \cup {Nil}]
    BY <1>1 DEF BaseInv, TypeOK, BasePutValidator
  <2>2. bDiff' \in [Keys -> DiffRec]
    <3>1. bDiff'[k] \in DiffRec
      BY <1>1 DEF BaseInv, TypeOK, BasePutValidator, SetValidatorDiff, DiffRec
    <3> QED BY <1>1, <3>1 DEF BaseInv, TypeOK, BasePutValidator, SetValidatorDiff
  <2>3. bEntries' \subseteq Keys /\ bSubnets' \subseteq Subnets /\ bStakers' \subseteq StakerTxs
    BY <1>1 DEF BaseInv, TypeOK, BasePutValidator, Keys, StakerTxs
  <2> QED BY <2>1, <2>2, <2>3 DEF BaseInv, TypeOK, BasePutValidator
<1>3. NoLeakedEntries'
  <2>1. bEntries' = {j \in Keys : bVal'[j] # Nil \/ bDels'[j] # {}}
    <3>1. bVal'[k] # Nil /\ \A j \in Keys \ {k} : bVal'[j] = bVal[j]
      BY <1>1 DEF BaseInv, TypeOK, BasePutValidator
    <3>2. bEntries' = bEntries \cup {k} /\ bDels' = bDels
      BY DEF BasePutValidator
    <3> QED BY <1>1, <3>1, <3>2 DEF BaseInv, NoLeakedEntries
  <2>2. bSubnets' = {j[1] : j \in bEntries'}
    BY <1>1 DEF BaseInv, NoLeakedEntries, BasePutValidator
  <2> QED BY <2>1, <2>2 DEF NoLeakedEntries
<1>4. BaseDiffRecordsChanges'
  BY <1>1 DEF BaseInv, TypeOK, BaseDiffRecordsChanges, BasePutValidator, SetValidatorDiff
<1>5. bStakers' \subseteq used' /\ \A j \in Keys : bDiff'[j].removed \subseteq used'
  BY <1>1 DEF BaseInv, TypeOK, BasePutValidator, SetValidatorDiff
<1> QED BY <1>2, <1>3, <1>4, <1>5 DEF BaseInv

LEMMA BaseDeleteValidatorInv ==
    ASSUME BaseInv, NEW s \in ValidatorTxs, BaseDeleteValidator(s), used' = used, UNCHANGED <<layer, diffVars>>
    PROVE  BaseInv'
<1> DEFINE k == Key(s)
           val == [bVal EXCEPT ![k] = Nil]
<1>1. k \in Keys
  BY KeyType DEF StakerTxs
<1>2. /\ bVal' = val /\ bDels' = bDels
      /\ bEntries' = pruneValidator(k, val, bDels)[1]
      /\ bSubnets' = pruneValidator(k, val, bDels)[2]
  BY DEF BaseDeleteValidator
<1>3. NoLeakedEntries'
  <2>1. \A j \in Keys \ {k} : bVal'[j] = bVal[j] /\ bDels'[j] = bDels[j]
    BY <1>2 DEF BaseInv, TypeOK
  <2>2. NoLeakedEntries /\ bEntries \subseteq Keys
    BY DEF BaseInv, TypeOK
  <2> QED BY <1>1, <1>2, <2>1, <2>2, PruneFacts
<1>4. TypeOK'
  <2>1. bEntries' \subseteq Keys /\ bSubnets' \subseteq Subnets
    BY <1>3 DEF NoLeakedEntries, Keys
  <2>2. bVal' \in [Keys -> ValidatorTxs \cup {Nil}]
    BY <1>1, <1>2 DEF BaseInv, TypeOK
  <2>3. bDiff' \in [Keys -> DiffRec]
    <3>1. bDiff'[k] \in DiffRec
      BY <1>1 DEF BaseInv, TypeOK, BaseDeleteValidator, SetValidatorDiff, DiffRec
    <3> QED BY <1>1, <3>1 DEF BaseInv, TypeOK, BaseDeleteValidator, SetValidatorDiff
  <2>4. bStakers' \subseteq StakerTxs
    BY DEF BaseInv, TypeOK, BaseDeleteValidator
  <2> QED BY <1>2, <2>1, <2>2, <2>3, <2>4 DEF BaseInv, TypeOK, BaseDeleteValidator
<1>5. BaseDiffRecordsChanges'
  BY <1>1, <1>2 DEF BaseInv, TypeOK, BaseDiffRecordsChanges, BaseDeleteValidator,
                    SetValidatorDiff
<1>6. bStakers' \subseteq used' /\ \A j \in Keys : bDiff'[j].removed \subseteq used'
  BY <1>1 DEF BaseInv, TypeOK, BaseDeleteValidator, SetValidatorDiff
<1> QED BY <1>3, <1>4, <1>5, <1>6 DEF BaseInv

LEMMA BasePutDelegatorInv ==
    ASSUME BaseInv, NEW s \in DelegatorTxs \ used, BasePutDelegator(s),
           used' = used \cup {s}, UNCHANGED <<layer, diffVars>>
    PROVE  BaseInv'
<1> DEFINE k == Key(s)
<1>1. k \in Keys /\ s \notin bDiff[k].removed
  BY KeyType DEF StakerTxs, BaseInv
<1>2. TypeOK'
  <2>1. bDels' \in [Keys -> SUBSET DelegatorTxs]
    BY <1>1 DEF BaseInv, TypeOK, BasePutDelegator
  <2>2. bDiff' \in [Keys -> DiffRec]
    <3>1. bDiff[k] \in DiffRec /\ s \in DelegatorTxs
      BY <1>1 DEF BaseInv, TypeOK
    <3>2. bDiff'[k] = [bDiff[k] EXCEPT !.added = @ \cup {s}]
      BY <1>1 DEF BaseInv, TypeOK, BasePutDelegator
    <3>3. bDiff'[k] \in DiffRec
      BY <3>1, <3>2 DEF DiffRec
    <3> QED BY <1>1, <3>3 DEF BaseInv, TypeOK, BasePutDelegator
  <2>3. bEntries' \subseteq Keys /\ bSubnets' \subseteq Subnets /\ bStakers' \subseteq StakerTxs
    BY <1>1 DEF BaseInv, TypeOK, BasePutDelegator, Keys, StakerTxs
  <2> QED BY <2>1, <2>2, <2>3 DEF BaseInv, TypeOK, BasePutDelegator
<1>3. NoLeakedEntries'
  <2>1. bEntries' = {j \in Keys : bVal'[j] # Nil \/ bDels'[j] # {}}
    <3>1. bDels'[k] # {} /\ \A j \in Keys \ {k} : bDels'[j] = bDels[j]
      BY <1>1 DEF BaseInv, TypeOK, BasePutDelegator
    <3>2. bEntries' = bEntries \cup {k} /\ bVal' = bVal
      BY DEF BasePutDelegator
    <3> QED BY <1>1, <3>1, <3>2 DEF BaseInv, NoLeakedEntries
  <2>2. bSubnets' = {j[1] : j \in bEntries'}
    BY <1>1 DEF BaseInv, NoLeakedEntries, BasePutDelegator
  <2> QED BY <2>1, <2>2 DEF NoLeakedEntries
<1>4. BaseDiffRecordsChanges'
  BY <1>1 DEF BaseInv, TypeOK, BaseDiffRecordsChanges, BasePutDelegator
<1>5. bStakers' \subseteq used' /\ \A j \in Keys : bDiff'[j].removed \subseteq used'
  BY <1>1 DEF BaseInv, TypeOK, BasePutDelegator
<1> QED BY <1>2, <1>3, <1>4, <1>5 DEF BaseInv

LEMMA BaseDeleteDelegatorInv ==
    ASSUME BaseInv, NEW s \in bStakers \cap DelegatorTxs, BaseDeleteDelegator(s),
           used' = used, UNCHANGED <<layer, diffVars>>
    PROVE  BaseInv'
<1> DEFINE k == Key(s)
           dels == [bDels EXCEPT ![k] = @ \ {s}]
<1>1. k \in Keys /\ s \in used
  BY KeyType DEF StakerTxs, BaseInv
<1>2. /\ bDels' = dels /\ bVal' = bVal
      /\ bEntries' = pruneValidator(k, bVal, dels)[1]
      /\ bSubnets' = pruneValidator(k, bVal, dels)[2]
  BY DEF BaseDeleteDelegator
<1>3. NoLeakedEntries'
  <2>1. \A j \in Keys \ {k} : bVal'[j] = bVal[j] /\ bDels'[j] = bDels[j]
    BY <1>2 DEF BaseInv, TypeOK
  <2>2. NoLeakedEntries /\ bEntries \subseteq Keys
    BY DEF BaseInv, TypeOK
  <2> QED BY <1>1, <1>2, <2>1, <2>2, PruneFacts
<1>4. TypeOK'
  <2>1. bEntries' \subseteq Keys /\ bSubnets' \subseteq Subnets
    BY <1>3 DEF NoLeakedEntries, Keys
  <2>2. bDels' \in [Keys -> SUBSET DelegatorTxs]
    BY <1>1, <1>2 DEF BaseInv, TypeOK
  <2>3. bDiff' \in [Keys -> DiffRec]
    <3>1. bDiff'[k] \in DiffRec
      BY <1>1 DEF BaseInv, TypeOK, BaseDeleteDelegator, DiffRec
    <3> QED BY <1>1, <3>1 DEF BaseInv, TypeOK, BaseDeleteDelegator
  <2>4. bStakers' \subseteq StakerTxs
    BY DEF BaseInv, TypeOK, BaseDeleteDelegator
  <2> QED BY <1>2, <2>1, <2>2, <2>3, <2>4 DEF BaseInv, TypeOK, BaseDeleteDelegator
<1>5. BaseDiffRecordsChanges'
  BY <1>1, <1>2 DEF BaseInv, TypeOK, BaseDiffRecordsChanges, BaseDeleteDelegator
<1>6. bStakers' \subseteq used' /\ \A j \in Keys : bDiff'[j].removed \subseteq used'
  BY <1>1 DEF BaseInv, TypeOK, BaseDeleteDelegator
<1> QED BY <1>3, <1>4, <1>5, <1>6 DEF BaseInv
-----------------------------------------------------------------------------
(* The diffValidators methods and NewDiff leave the base alone.            *)

\* The diff record updates keep a diff a function to change records.
LEMMA SetValidatorDiffType ==
    ASSUME NEW d \in [Keys -> DiffRec], NEW k \in Keys, NEW b \in BOOLEAN,
           NEW v \in ValidatorTxs
    PROVE  SetValidatorDiff(d, k, b, v) \in [Keys -> DiffRec]
BY DEF SetValidatorDiff, DiffRec

LEMMA DelegatorDiffType ==
    ASSUME NEW d \in [Keys -> DiffRec], NEW k \in Keys, NEW v \in DelegatorTxs
    PROVE  /\ [d EXCEPT ![k].added = @ \cup {v}] \in [Keys -> DiffRec]
           /\ [d EXCEPT ![k].removed = @ \cup {v}] \in [Keys -> DiffRec]
<1>1. [d[k] EXCEPT !.added = @ \cup {v}] \in DiffRec
      /\ [d[k] EXCEPT !.removed = @ \cup {v}] \in DiffRec
  BY DEF DiffRec
<1> QED BY <1>1

\* A step that changes only the diff layer and the set of used TxIDs.
LEMMA DiffStepInv ==
    ASSUME BaseInv, UNCHANGED baseVars, layer' \in {"base", "diff"},
           dDiff' \in [Keys -> DiffRec], dAdded' \subseteq StakerTxs,
           dDeleted' \subseteq StakerTxs, used \subseteq used', used' \subseteq StakerTxs
    PROVE  BaseInv'
BY DEF BaseInv, TypeOK, NoLeakedEntries, BaseDiffRecordsChanges

LEMMA DiffActionsInv ==
    ASSUME BaseInv, NEW s \in StakerTxs, UNCHANGED <<baseVars, layer>>,
           used' \in {used, used \cup {s}},
           \/ s \in ValidatorTxs /\ DiffPutValidator(s)
           \/ s \in ValidatorTxs /\ DiffDeleteValidator(s)
           \/ s \in DelegatorTxs /\ DiffPutDelegator(s)
           \/ s \in DelegatorTxs /\ DiffDeleteDelegator(s)
    PROVE  BaseInv'
<1>1. dDiff \in [Keys -> DiffRec] /\ dAdded \subseteq StakerTxs /\ dDeleted \subseteq StakerTxs
      /\ used \subseteq StakerTxs /\ layer \in {"base", "diff"} /\ Key(s) \in Keys
  BY KeyType DEF BaseInv, TypeOK
<1>2. dDiff' \in [Keys -> DiffRec]
  <2>1. CASE s \in ValidatorTxs /\ (DiffPutValidator(s) \/ DiffDeleteValidator(s))
    <3>1. SetValidatorDiff(dDiff, Key(s), FALSE, s) \in [Keys -> DiffRec]
          /\ SetValidatorDiff(dDiff, Key(s), TRUE, s) \in [Keys -> DiffRec]
      BY <1>1, <2>1, SetValidatorDiffType
    <3> QED BY <2>1, <3>1 DEF DiffPutValidator, DiffDeleteValidator
  <2>2. CASE s \in DelegatorTxs /\ (DiffPutDelegator(s) \/ DiffDeleteDelegator(s))
    <3>1. [dDiff EXCEPT ![Key(s)].added = @ \cup {s}] \in [Keys -> DiffRec]
          /\ [dDiff EXCEPT ![Key(s)].removed = @ \cup {s}] \in [Keys -> DiffRec]
      BY <1>1, <2>2, DelegatorDiffType
    <3> QED BY <2>2, <3>1 DEF DiffPutDelegator, DiffDeleteDelegator
  <2> QED BY <2>1, <2>2
<1>3. dAdded' \subseteq StakerTxs /\ dDeleted' \subseteq StakerTxs
  BY <1>1 DEF DiffPutValidator, DiffDeleteValidator, DiffPutDelegator, DiffDeleteDelegator
<1> QED BY <1>1, <1>2, <1>3, DiffStepInv
-----------------------------------------------------------------------------
(* Every step of the specification keeps BaseInv.                          *)
LEMMA NextBaseInv == BaseInv /\ [Next]_vars => BaseInv'
<1> SUFFICES ASSUME BaseInv, [Next]_vars PROVE BaseInv'
  OBVIOUS
<1>1. CASE NewDiff
  BY <1>1, DiffStepInv DEF NewDiff, BaseInv, TypeOK
<1>2. ASSUME NEW s \in StakerTxs, Put(s) PROVE BaseInv'
  <2>1. CASE layer = "base" /\ CanPutValidator(s)
    BY <1>2, <2>1, BasePutValidatorInv DEF Put, CanPutValidator, CanPutDelegator, StakerTxs
  <2>2. CASE layer = "base" /\ CanPutDelegator(s)
    BY <1>2, <2>2, BasePutDelegatorInv DEF Put, CanPutValidator, CanPutDelegator, StakerTxs
  <2>3. CASE layer # "base"
    BY <1>2, <2>3, DiffActionsInv DEF Put, CanPutValidator, CanPutDelegator
  <2> QED BY <1>2, <2>1, <2>2, <2>3 DEF Put
<1>3. ASSUME NEW s \in StakerTxs, Delete(s) PROVE BaseInv'
  <2>1. CASE layer = "base" /\ CanDeleteValidator(s)
    BY <1>3, <2>1, BaseDeleteValidatorInv DEF Delete, CanDeleteValidator,
                                              CanDeleteDelegator, StakerTxs
  <2>2. CASE layer = "base" /\ CanDeleteDelegator(s)
    BY <1>3, <2>2, BaseDeleteDelegatorInv DEF Delete, CanDeleteValidator,
                                              CanDeleteDelegator, ViewStakers, StakerTxs
  <2>3. CASE layer # "base"
    BY <1>3, <2>3, DiffActionsInv DEF Delete, CanDeleteValidator, CanDeleteDelegator
  <2> QED BY <1>3, <2>1, <2>2, <2>3 DEF Delete
<1>4. CASE UNCHANGED vars
  BY <1>4 DEF vars, BaseInv, TypeOK, NoLeakedEntries, BaseDiffRecordsChanges
<1> QED BY <1>1, <1>2, <1>3, <1>4 DEF Next
-----------------------------------------------------------------------------
(* Theorems.                                                               *)

\* Every reachable state is well typed: a validator slot of the base map or
\* of a diff only holds validator transactions, and the delegator trees and
\* masks only delegators.
THEOREM TypeCorrect == Spec => []TypeOK
<1>1. Init => BaseInv  BY InitBaseInv
<1>2. BaseInv /\ [Next]_vars => BaseInv'  BY NextBaseInv
<1>3. BaseInv => TypeOK  BY DEF BaseInv
<1> QED BY <1>1, <1>2, <1>3, PTL DEF Spec

\* baseValidators.pruneValidator never leaks an empty (subnet, node) entry
\* or an empty subnet map, and never drops a non-empty one, whatever
\* sequence of puts and deletes the callers make.
THEOREM EntriesPruned == Spec => []NoLeakedEntries
<1>1. BaseInv => NoLeakedEntries  BY DEF BaseInv
<1> QED BY <1>1, InitBaseInv, NextBaseInv, PTL DEF Spec

\* The base's validatorDiffs, replayed on the stakers loaded from disk,
\* give the base's current validators and delegators: the diff written
\* back to disk loses no change of any sequence of puts and deletes.
THEOREM BaseDiffComplete == Spec => []BaseDiffRecordsChanges
<1>1. BaseInv => BaseDiffRecordsChanges  BY DEF BaseInv
<1> QED BY <1>1, InitBaseInv, NextBaseInv, PTL DEF Spec
-----------------------------------------------------------------------------
(* What adding or removing one staker does to the per-key readings.        *)

LEMMA ValidatorAtIs ==
    ASSUME NEW S, NEW k, NEW v \in S \cap ValidatorTxs, Key(v) = k,
           \A t \in S \cap ValidatorTxs : Key(t) = k => t = v
    PROVE  ValidatorAt(S, k) = v
BY DEF ValidatorAt

\* The validator a set shows for k, when the set holds one for k.
LEMMA ValidatorAtMember ==
    ASSUME NEW S, OneValidatorPerKey(S), NEW k, NEW v \in S \cap ValidatorTxs, Key(v) = k
    PROVE  ValidatorAt(S, k) = v
BY ValidatorAtIs DEF OneValidatorPerKey

LEMMA ValidatorAtAdd ==
    ASSUME NEW S, OneValidatorPerKey(S), NEW s \in ValidatorTxs,
           ValidatorAt(S, Key(s)) = Nil, NEW k
    PROVE  /\ ValidatorAt(S \cup {s}, k) = IF k = Key(s) THEN s ELSE ValidatorAt(S, k)
           /\ OneValidatorPerKey(S \cup {s})
<1>1. \A t \in S \cap ValidatorTxs : Key(t) # Key(s)
  BY ValidatorAtFacts
<1>2. OneValidatorPerKey(S \cup {s})
  BY <1>1 DEF OneValidatorPerKey
<1>3. CASE k = Key(s)
  <2>1. \A t \in (S \cup {s}) \cap ValidatorTxs : Key(t) = k => t = s
    BY <1>1, <1>3
  <2>2. ValidatorAt(S \cup {s}, k) = s
    BY <1>3, <2>1, ValidatorAtIs
  <2> QED BY <1>2, <1>3, <2>2
<1>4. CASE k # Key(s)
  <2>1. CASE \E v \in S \cap ValidatorTxs : Key(v) = k
    <3>1. PICK v \in S \cap ValidatorTxs : Key(v) = k
      BY <2>1
    <3>2. ValidatorAt(S, k) = v /\ ValidatorAt(S \cup {s}, k) = v
      BY <1>2, <3>1, ValidatorAtMember
    <3> QED BY <1>2, <1>4, <3>2
  <2>2. CASE ~\E v \in S \cap ValidatorTxs : Key(v) = k
    <3>1. ValidatorAt(S, k) = Nil /\ ValidatorAt(S \cup {s}, k) = Nil
      BY <1>4, <2>2, ValidatorAtFacts
    <3> QED BY <1>2, <1>4, <3>1
  <2> QED BY <2>1, <2>2
<1> QED BY <1>2, <1>3, <1>4

LEMMA ValidatorAtRemove ==
    ASSUME NEW S, OneValidatorPerKey(S), NEW s \in S \cap ValidatorTxs, NEW k
    PROVE  /\ ValidatorAt(S \ {s}, k) = IF k = Key(s) THEN Nil ELSE ValidatorAt(S, k)
           /\ OneValidatorPerKey(S \ {s})
<1>1. OneValidatorPerKey(S \ {s})
  BY DEF OneValidatorPerKey
<1>2. CASE k = Key(s)
  <2>1. ~\E v \in (S \ {s}) \cap ValidatorTxs : Key(v) = k
    BY <1>2 DEF OneValidatorPerKey
  <2> QED BY <1>1, <1>2, <2>1, ValidatorAtFacts
<1>3. CASE k # Key(s)
  <2>1. CASE \E v \in S \cap ValidatorTxs : Key(v) = k
    <3>1. PICK v \in S \cap ValidatorTxs : Key(v) = k
      BY <2>1
    <3>2. ValidatorAt(S, k) = v /\ ValidatorAt(S \ {s}, k) = v
      BY <1>1, <1>3, <3>1, ValidatorAtMember
    <3> QED BY <1>1, <1>3, <3>2
  <2>2. CASE ~\E v \in S \cap ValidatorTxs : Key(v) = k
    <3>1. ValidatorAt(S, k) = Nil /\ ValidatorAt(S \ {s}, k) = Nil
      BY <2>2, ValidatorAtFacts
    <3> QED BY <1>1, <1>3, <3>1
  <2> QED BY <2>1, <2>2
<1> QED BY <1>1, <1>2, <1>3

\* A delegator is no validator: adding or removing one leaves the
\* validators of every key alone and changes the delegators of its key.
LEMMA DelegatorChange ==
    ASSUME NEW S, NEW s \in DelegatorTxs, NEW k
    PROVE  /\ ValidatorAt(S \cup {s}, k) = ValidatorAt(S, k)
           /\ ValidatorAt(S \ {s}, k) = ValidatorAt(S, k)
           /\ OneValidatorPerKey(S) => OneValidatorPerKey(S \cup {s})
           /\ OneValidatorPerKey(S) => OneValidatorPerKey(S \ {s})
           /\ DelegatorsAt(S \cup {s}, k)
                = IF k = Key(s) THEN DelegatorsAt(S, k) \cup {s} ELSE DelegatorsAt(S, k)
           /\ DelegatorsAt(S \ {s}, k) = DelegatorsAt(S, k) \ {s}
<1>1. (S \cup {s}) \cap ValidatorTxs = S \cap ValidatorTxs
      /\ (S \ {s}) \cap ValidatorTxs = S \cap ValidatorTxs
  OBVIOUS
<1>2. ValidatorAt(S \cup {s}, k) = ValidatorAt(S, k) /\ ValidatorAt(S \ {s}, k) = ValidatorAt(S, k)
  BY <1>1 DEF ValidatorAt
<1>3. /\ OneValidatorPerKey(S) => OneValidatorPerKey(S \cup {s})
      /\ OneValidatorPerKey(S) => OneValidatorPerKey(S \ {s})
  BY <1>1 DEF OneValidatorPerKey
<1>4. /\ DelegatorsAt(S \cup {s}, k)
           = IF k = Key(s) THEN DelegatorsAt(S, k) \cup {s} ELSE DelegatorsAt(S, k)
      /\ DelegatorsAt(S \ {s}, k) = DelegatorsAt(S, k) \ {s}
  BY DEF DelegatorsAt
<1> QED BY <1>2, <1>3, <1>4
-----------------------------------------------------------------------------
(* The reads of the top layer, before and after a step.                   *)

LEMMA ViewReads ==
    ASSUME TypeOK, NoLeakedEntries
    PROVE  \A k \in Keys : ViewValidator(k) = TopVal(k) /\ ViewDelegators(k) = TopDels(k)
<1> SUFFICES ASSUME NEW k \in Keys
             PROVE  ViewValidator(k) = TopVal(k) /\ ViewDelegators(k) = TopDels(k)
  OBVIOUS
<1>1. BaseGetValidator(k) = bVal[k] /\ BaseDelegators(k) = bDels[k]
  BY DEF NoLeakedEntries, BaseGetValidator, BaseDelegators
<1> QED BY <1>1 DEF TypeOK, ViewValidator, ViewDelegators, TopVal, TopDels,
                   DiffGetValidator, DiffDelegators

LEMMA ViewReadsPrime ==
    ASSUME TypeOK', NoLeakedEntries'
    PROVE  \A k \in Keys : ViewValidator(k)' = TopVal(k)' /\ ViewDelegators(k)' = TopDels(k)'
<1> SUFFICES ASSUME NEW k \in Keys
             PROVE  ViewValidator(k)' = TopVal(k)' /\ ViewDelegators(k)' = TopDels(k)'
  OBVIOUS
<1>1. BaseGetValidator(k)' = bVal'[k] /\ BaseDelegators(k)' = bDels'[k]
  BY DEF NoLeakedEntries, BaseGetValidator, BaseDelegators
<1> QED BY <1>1 DEF TypeOK, ViewValidator, ViewDelegators, TopVal, TopDels,
                   DiffGetValidator, DiffDelegators
-----------------------------------------------------------------------------
(* One lemma per interface operation: if the top layer's staker set and    *)
(* its per-key reads change as the operation says, they still agree.       *)

AgreeNow == \A k \in Keys : /\ TopVal(k) = ValidatorAt(ViewStakers, k)
                            /\ TopDels(k) = DelegatorsAt(ViewStakers, k)
AgreeNext == \A k \in Keys : /\ TopVal(k)' = ValidatorAt(ViewStakers', k)
                             /\ TopDels(k)' = DelegatorsAt(ViewStakers', k)

LEMMA AgreeNowFromViews ==
    ASSUME TypeOK, NoLeakedEntries, ViewsAgree PROVE AgreeNow
BY ViewReads DEF ViewsAgree, AgreeNow

LEMMA ViewsFromAgreeNext ==
    ASSUME TypeOK', NoLeakedEntries', AgreeNext PROVE ViewsAgree'
BY ViewReadsPrime DEF ViewsAgree, AgreeNext

LEMMA AddValidatorAgree ==
    ASSUME AgreeNow, OneValidatorPerKey(ViewStakers),
           NEW s \in ValidatorTxs, ValidatorAt(ViewStakers, Key(s)) = Nil,
           ViewStakers' = ViewStakers \cup {s},
           \A k \in Keys : TopVal(k)' = IF k = Key(s) THEN s ELSE TopVal(k),
           \A k \in Keys : TopDels(k)' = TopDels(k)
    PROVE  AgreeNext /\ OneValidatorPerKey(ViewStakers')
<1>1. \A k \in Keys : ValidatorAt(ViewStakers \cup {s}, k)
                        = IF k = Key(s) THEN s ELSE ValidatorAt(ViewStakers, k)
  BY ValidatorAtAdd
<1>2. \A k \in Keys : DelegatorsAt(ViewStakers \cup {s}, k) = DelegatorsAt(ViewStakers, k)
  BY DEF DelegatorsAt
<1>3. OneValidatorPerKey(ViewStakers \cup {s})
  BY ValidatorAtAdd
<1> QED BY <1>1, <1>2, <1>3 DEF AgreeNow, AgreeNext

LEMMA RemoveValidatorAgree ==
    ASSUME AgreeNow, OneValidatorPerKey(ViewStakers),
           NEW s \in ViewStakers \cap ValidatorTxs,
           ViewStakers' = ViewStakers \ {s},
           \A k \in Keys : TopVal(k)' = IF k = Key(s) THEN Nil ELSE TopVal(k),
           \A k \in Keys : TopDels(k)' = TopDels(k)
    PROVE  AgreeNext /\ OneValidatorPerKey(ViewStakers')
<1>1. \A k \in Keys : ValidatorAt(ViewStakers \ {s}, k)
                        = IF k = Key(s) THEN Nil ELSE ValidatorAt(ViewStakers, k)
  BY ValidatorAtRemove
<1>2. \A k \in Keys : DelegatorsAt(ViewStakers \ {s}, k) = DelegatorsAt(ViewStakers, k)
  BY DEF DelegatorsAt
<1>3. OneValidatorPerKey(ViewStakers \ {s})
  BY ValidatorAtRemove
<1> QED BY <1>1, <1>2, <1>3 DEF AgreeNow, AgreeNext

LEMMA AddDelegatorAgree ==
    ASSUME AgreeNow, OneValidatorPerKey(ViewStakers), NEW s \in DelegatorTxs,
           ViewStakers' = ViewStakers \cup {s},
           \A k \in Keys : TopVal(k)' = TopVal(k),
           \A k \in Keys : TopDels(k)' = IF k = Key(s) THEN TopDels(k) \cup {s} ELSE TopDels(k)
    PROVE  AgreeNext /\ OneValidatorPerKey(ViewStakers')
<1>1. \A k \in Keys :
        /\ ValidatorAt(ViewStakers \cup {s}, k) = ValidatorAt(ViewStakers, k)
        /\ DelegatorsAt(ViewStakers \cup {s}, k)
             = IF k = Key(s) THEN DelegatorsAt(ViewStakers, k) \cup {s}
               ELSE DelegatorsAt(ViewStakers, k)
  <2> SUFFICES ASSUME NEW k \in Keys
               PROVE  /\ ValidatorAt(ViewStakers \cup {s}, k) = ValidatorAt(ViewStakers, k)
                      /\ DelegatorsAt(ViewStakers \cup {s}, k)
                           = IF k = Key(s) THEN DelegatorsAt(ViewStakers, k) \cup {s}
                             ELSE DelegatorsAt(ViewStakers, k)
    OBVIOUS
  <2>1. ValidatorAt(ViewStakers \cup {s}, k) = ValidatorAt(ViewStakers, k)
    BY DelegatorChange
  <2>2. DelegatorsAt(ViewStakers \cup {s}, k)
          = IF k = Key(s) THEN DelegatorsAt(ViewStakers, k) \cup {s}
            ELSE DelegatorsAt(ViewStakers, k)
    BY DEF DelegatorsAt
  <2> QED BY <2>1, <2>2
<1>2. OneValidatorPerKey(ViewStakers \cup {s})
  BY DelegatorChange
<1> QED BY <1>1, <1>2 DEF AgreeNow, AgreeNext

LEMMA RemoveDelegatorAgree ==
    ASSUME AgreeNow, OneValidatorPerKey(ViewStakers),
           NEW s \in ViewStakers \cap DelegatorTxs,
           ViewStakers' = ViewStakers \ {s},
           \A k \in Keys : TopVal(k)' = TopVal(k),
           \A k \in Keys : TopDels(k)' = IF k = Key(s) THEN TopDels(k) \ {s} ELSE TopDels(k)
    PROVE  AgreeNext /\ OneValidatorPerKey(ViewStakers')
<1>1. \A k \in Keys :
        /\ ValidatorAt(ViewStakers \ {s}, k) = ValidatorAt(ViewStakers, k)
        /\ DelegatorsAt(ViewStakers \ {s}, k) = DelegatorsAt(ViewStakers, k) \ {s}
        /\ k # Key(s) => s \notin DelegatorsAt(ViewStakers, k)
  <2> SUFFICES ASSUME NEW k \in Keys
               PROVE  /\ ValidatorAt(ViewStakers \ {s}, k) = ValidatorAt(ViewStakers, k)
                      /\ DelegatorsAt(ViewStakers \ {s}, k) = DelegatorsAt(ViewStakers, k) \ {s}
                      /\ k # Key(s) => s \notin DelegatorsAt(ViewStakers, k)
    OBVIOUS
  <2>1. ValidatorAt(ViewStakers \ {s}, k) = ValidatorAt(ViewStakers, k)
    BY DelegatorChange
  <2>2. DelegatorsAt(ViewStakers \ {s}, k) = DelegatorsAt(ViewStakers, k) \ {s}
        /\ (k # Key(s) => s \notin DelegatorsAt(ViewStakers, k))
    BY DEF DelegatorsAt
  <2> QED BY <2>1, <2>2
<1>2. OneValidatorPerKey(ViewStakers \ {s})
  BY DelegatorChange
<1> QED BY <1>1, <1>2 DEF AgreeNow, AgreeNext
-----------------------------------------------------------------------------
(* ViewsInv is kept by every method, on either layer.                      *)

DiffClean == layer = "base" => /\ dDiff = [k \in Keys |-> NoDiff]
                               /\ dAdded = {} /\ dDeleted = {}
DiffUsed == /\ dAdded \subseteq used /\ dDeleted \subseteq used
            /\ \A k \in Keys : dDiff[k].removed \subseteq used

LEMMA ViewsInvParts ==
    ViewsInv <=> /\ BaseInv /\ DiffClean /\ OneValidatorPerKey(ViewStakers)
                 /\ ViewsAgree /\ DiffUsed
BY DEF ViewsInv, DiffClean, DiffUsed

LEMMA ViewsInvNext ==
    ASSUME BaseInv', AgreeNext, OneValidatorPerKey(ViewStakers'), DiffClean', DiffUsed'
    PROVE  ViewsInv'
<1>1. ViewsAgree'
  BY ViewsFromAgreeNext DEF BaseInv
<1> QED BY <1>1 DEF ViewsInv, DiffClean, DiffUsed, OneValidatorPerKey

\* A base method leaves the (empty) diff alone.
LEMMA BaseStepDiff ==
    ASSUME ViewsInv, layer = "base", UNCHANGED <<layer, diffVars>>, used \subseteq used'
    PROVE  DiffClean' /\ DiffUsed' /\ ViewStakers = bStakers /\ ViewStakers' = bStakers'
           /\ AgreeNow
<1>1. AgreeNow
  BY AgreeNowFromViews DEF ViewsInv, BaseInv
<1> QED BY <1>1 DEF ViewsInv, DiffClean, DiffUsed, ViewStakers

LEMMA BasePutValidatorViews ==
    ASSUME ViewsInv, NEW s \in ValidatorTxs \ used, CanPutValidator(s), layer = "base",
           BasePutValidator(s), used' = used \cup {s}, UNCHANGED <<layer, diffVars>>
    PROVE  ViewsInv' /\ Abs!AddValidator(s)
<1>1. BaseInv' /\ DiffClean' /\ DiffUsed' /\ AgreeNow
      /\ ViewStakers = bStakers /\ ViewStakers' = bStakers'
  BY BasePutValidatorInv, BaseStepDiff DEF ViewsInv
<1>2. ValidatorAt(ViewStakers, Key(s)) = Nil
  BY KeyType DEF ViewsInv, ViewsAgree, CanPutValidator, StakerTxs
<1>3. \A k \in Keys : TopVal(k)' = IF k = Key(s) THEN s ELSE TopVal(k)
  BY DEF TopVal, BasePutValidator, ViewsInv, BaseInv, TypeOK
<1>4. \A k \in Keys : TopDels(k)' = TopDels(k)
  BY DEF TopDels, BasePutValidator
<1>5. AgreeNext /\ OneValidatorPerKey(ViewStakers')
  BY <1>1, <1>2, <1>3, <1>4, AddValidatorAgree DEF ViewsInv, BasePutValidator
<1>10. Abs!AddValidator(s)
  BY <1>1, <1>2 DEF Abs!AddValidator, BasePutValidator, Abs!ValidatorAt, ValidatorAt, Abs!Key, Key
<1> QED BY <1>10, <1>1, <1>5, ViewsInvNext

LEMMA BaseDeleteValidatorViews ==
    ASSUME ViewsInv, NEW s \in ValidatorTxs, CanDeleteValidator(s), layer = "base",
           BaseDeleteValidator(s), used' = used, UNCHANGED <<layer, diffVars>>
    PROVE  ViewsInv' /\ Abs!RemoveValidator(s)
<1>1. BaseInv' /\ DiffClean' /\ DiffUsed' /\ AgreeNow
      /\ ViewStakers = bStakers /\ ViewStakers' = bStakers'
  BY BaseDeleteValidatorInv, BaseStepDiff DEF ViewsInv
<1>2. \A k \in Keys : TopVal(k)' = IF k = Key(s) THEN Nil ELSE TopVal(k)
  BY DEF TopVal, BaseDeleteValidator, ViewsInv, BaseInv, TypeOK
<1>3. \A k \in Keys : TopDels(k)' = TopDels(k)
  BY DEF TopDels, BaseDeleteValidator
<1>4. AgreeNext /\ OneValidatorPerKey(ViewStakers')
  BY <1>1, <1>2, <1>3, RemoveValidatorAgree
     DEF ViewsInv, BaseDeleteValidator, CanDeleteValidator
<1>10. Abs!RemoveValidator(s)
  BY <1>1 DEF Abs!RemoveValidator, BaseDeleteValidator, CanDeleteValidator
<1> QED BY <1>10, <1>1, <1>4, ViewsInvNext

LEMMA BasePutDelegatorViews ==
    ASSUME ViewsInv, NEW s \in DelegatorTxs \ used, layer = "base",
           BasePutDelegator(s), used' = used \cup {s}, UNCHANGED <<layer, diffVars>>
    PROVE  ViewsInv' /\ Abs!AddDelegator(s)
<1>1. BaseInv' /\ DiffClean' /\ DiffUsed' /\ AgreeNow
      /\ ViewStakers = bStakers /\ ViewStakers' = bStakers'
  BY BasePutDelegatorInv, BaseStepDiff DEF ViewsInv
<1>2. \A k \in Keys : TopVal(k)' = TopVal(k)
  BY DEF TopVal, BasePutDelegator
<1>3. \A k \in Keys : TopDels(k)' = IF k = Key(s) THEN TopDels(k) \cup {s} ELSE TopDels(k)
  BY DEF TopDels, BasePutDelegator, ViewsInv, BaseInv, TypeOK
<1>4. AgreeNext /\ OneValidatorPerKey(ViewStakers')
  BY <1>1, <1>2, <1>3, AddDelegatorAgree DEF ViewsInv, BasePutDelegator
<1>10. Abs!AddDelegator(s)
  BY <1>1 DEF Abs!AddDelegator, BasePutDelegator
<1> QED BY <1>10, <1>1, <1>4, ViewsInvNext

LEMMA BaseDeleteDelegatorViews ==
    ASSUME ViewsInv, NEW s \in DelegatorTxs, CanDeleteDelegator(s), layer = "base",
           BaseDeleteDelegator(s), used' = used, UNCHANGED <<layer, diffVars>>
    PROVE  ViewsInv' /\ Abs!RemoveDelegator(s)
<1>1. BaseInv' /\ DiffClean' /\ DiffUsed' /\ AgreeNow
      /\ ViewStakers = bStakers /\ ViewStakers' = bStakers'
  <2>1. s \in bStakers
    BY DEF CanDeleteDelegator, ViewStakers
  <2> QED BY <2>1, BaseDeleteDelegatorInv, BaseStepDiff DEF ViewsInv
<1>2. \A k \in Keys : TopVal(k)' = TopVal(k)
  BY DEF TopVal, BaseDeleteDelegator
<1>3. \A k \in Keys : TopDels(k)' = IF k = Key(s) THEN TopDels(k) \ {s} ELSE TopDels(k)
  BY DEF TopDels, BaseDeleteDelegator, ViewsInv, BaseInv, TypeOK
<1>4. AgreeNext /\ OneValidatorPerKey(ViewStakers')
  BY <1>1, <1>2, <1>3, RemoveDelegatorAgree
     DEF ViewsInv, BaseDeleteDelegator, CanDeleteDelegator
<1>10. Abs!RemoveDelegator(s)
  BY <1>1 DEF Abs!RemoveDelegator, BaseDeleteDelegator, CanDeleteDelegator
<1> QED BY <1>10, <1>1, <1>4, ViewsInvNext

\* A diff method leaves the base alone and keeps the layer.
LEMMA DiffStepFacts ==
    ASSUME ViewsInv, layer # "base", UNCHANGED <<baseVars, layer>>
    PROVE  /\ layer = "diff" /\ DiffClean'
           /\ ViewStakers = (bStakers \cup dAdded) \ dDeleted
           /\ ViewStakers' = (bStakers \cup dAdded') \ dDeleted'
           /\ AgreeNow
           /\ dDiff \in [Keys -> DiffRec] /\ bStakers \subseteq used /\ DiffUsed
<1>1. AgreeNow
  BY AgreeNowFromViews DEF ViewsInv, BaseInv
<1> QED BY <1>1 DEF ViewsInv, BaseInv, TypeOK, DiffClean, DiffUsed, ViewStakers, DiffStakers

LEMMA DiffPutValidatorViews ==
    ASSUME ViewsInv, NEW s \in ValidatorTxs \ used, CanPutValidator(s), layer # "base",
           DiffPutValidator(s), used' = used \cup {s}, UNCHANGED <<baseVars, layer>>
    PROVE  ViewsInv' /\ Abs!AddValidator(s)
<1>1. /\ layer = "diff" /\ DiffClean' /\ AgreeNow
      /\ ViewStakers = (bStakers \cup dAdded) \ dDeleted
      /\ ViewStakers' = (bStakers \cup dAdded') \ dDeleted'
      /\ dDiff \in [Keys -> DiffRec] /\ bStakers \subseteq used /\ DiffUsed
  BY DiffStepFacts
<1>2. BaseInv'
  BY DiffActionsInv DEF ViewsInv, StakerTxs
<1>3. Key(s) \in Keys /\ s \notin dDeleted
  BY <1>1, KeyType DEF DiffUsed, StakerTxs
<1>4. ViewStakers' = ViewStakers \cup {s}
  BY <1>1, <1>3 DEF DiffPutValidator
<1>5. ValidatorAt(ViewStakers, Key(s)) = Nil
  BY <1>3 DEF ViewsInv, ViewsAgree, CanPutValidator
<1>6. \A k \in Keys : TopVal(k)' = IF k = Key(s) THEN s ELSE TopVal(k)
  BY <1>1, <1>3 DEF TopVal, DiffPutValidator, SetValidatorDiff
<1>7. \A k \in Keys : TopDels(k)' = TopDels(k)
  BY <1>1, <1>3 DEF TopDels, DiffPutValidator, SetValidatorDiff
<1>8. AgreeNext /\ OneValidatorPerKey(ViewStakers')
  BY <1>1, <1>4, <1>5, <1>6, <1>7, AddValidatorAgree DEF ViewsInv
<1>9. DiffUsed'
  BY <1>1, <1>3 DEF DiffUsed, DiffPutValidator, SetValidatorDiff
<1>10. Abs!AddValidator(s)
  BY <1>4, <1>5 DEF Abs!AddValidator, Abs!ValidatorAt, ValidatorAt, Abs!Key, Key
<1> QED BY <1>10, <1>1, <1>2, <1>8, <1>9, ViewsInvNext

LEMMA DiffDeleteValidatorViews ==
    ASSUME ViewsInv, NEW s \in ValidatorTxs, CanDeleteValidator(s), layer # "base",
           DiffDeleteValidator(s), used' = used, UNCHANGED <<baseVars, layer>>
    PROVE  ViewsInv' /\ Abs!RemoveValidator(s)
<1>1. /\ layer = "diff" /\ DiffClean' /\ AgreeNow
      /\ ViewStakers = (bStakers \cup dAdded) \ dDeleted
      /\ ViewStakers' = (bStakers \cup dAdded') \ dDeleted'
      /\ dDiff \in [Keys -> DiffRec] /\ bStakers \subseteq used /\ DiffUsed
  BY DiffStepFacts
<1>2. BaseInv'
  BY DiffActionsInv DEF ViewsInv, StakerTxs
<1>3. Key(s) \in Keys /\ s \in used
  BY <1>1, KeyType DEF DiffUsed, StakerTxs, CanDeleteValidator
<1>4. ViewStakers' = ViewStakers \ {s}
  BY <1>1 DEF DiffDeleteValidator
<1>5. \A k \in Keys : TopVal(k)' = IF k = Key(s) THEN Nil ELSE TopVal(k)
  BY <1>1, <1>3 DEF TopVal, DiffDeleteValidator, SetValidatorDiff
<1>6. \A k \in Keys : TopDels(k)' = TopDels(k)
  BY <1>1, <1>3 DEF TopDels, DiffDeleteValidator, SetValidatorDiff
<1>7. AgreeNext /\ OneValidatorPerKey(ViewStakers')
  BY <1>1, <1>4, <1>5, <1>6, RemoveValidatorAgree DEF ViewsInv, CanDeleteValidator
<1>8. DiffUsed'
  BY <1>1, <1>3 DEF DiffUsed, DiffDeleteValidator, SetValidatorDiff
<1>10. Abs!RemoveValidator(s)
  BY <1>4 DEF Abs!RemoveValidator, CanDeleteValidator
<1> QED BY <1>10, <1>1, <1>2, <1>7, <1>8, ViewsInvNext

LEMMA DiffPutDelegatorViews ==
    ASSUME ViewsInv, NEW s \in DelegatorTxs \ used, layer # "base",
           DiffPutDelegator(s), used' = used \cup {s}, UNCHANGED <<baseVars, layer>>
    PROVE  ViewsInv' /\ Abs!AddDelegator(s)
<1>1. /\ layer = "diff" /\ DiffClean' /\ AgreeNow
      /\ ViewStakers = (bStakers \cup dAdded) \ dDeleted
      /\ ViewStakers' = (bStakers \cup dAdded') \ dDeleted'
      /\ dDiff \in [Keys -> DiffRec] /\ bStakers \subseteq used /\ DiffUsed
  BY DiffStepFacts
<1>2. BaseInv'
  BY DiffActionsInv DEF ViewsInv, StakerTxs
<1>3. Key(s) \in Keys /\ s \notin dDeleted /\ s \notin dDiff[Key(s)].removed
  BY <1>1, KeyType DEF DiffUsed, StakerTxs
<1>4. ViewStakers' = ViewStakers \cup {s}
  BY <1>1, <1>3 DEF DiffPutDelegator
<1>5. \A k \in Keys : TopVal(k)' = TopVal(k)
  BY <1>1, <1>3 DEF TopVal, DiffPutDelegator
<1>6. \A k \in Keys : TopDels(k)' = IF k = Key(s) THEN TopDels(k) \cup {s} ELSE TopDels(k)
  BY <1>1, <1>3 DEF TopDels, DiffPutDelegator
<1>7. AgreeNext /\ OneValidatorPerKey(ViewStakers')
  BY <1>1, <1>4, <1>5, <1>6, AddDelegatorAgree DEF ViewsInv
<1>8. DiffUsed'
  BY <1>1, <1>3 DEF DiffUsed, DiffPutDelegator
<1>10. Abs!AddDelegator(s)
  BY <1>4 DEF Abs!AddDelegator
<1> QED BY <1>10, <1>1, <1>2, <1>7, <1>8, ViewsInvNext

LEMMA DiffDeleteDelegatorViews ==
    ASSUME ViewsInv, NEW s \in DelegatorTxs, CanDeleteDelegator(s), layer # "base",
           DiffDeleteDelegator(s), used' = used, UNCHANGED <<baseVars, layer>>
    PROVE  ViewsInv' /\ Abs!RemoveDelegator(s)
<1>1. /\ layer = "diff" /\ DiffClean' /\ AgreeNow
      /\ ViewStakers = (bStakers \cup dAdded) \ dDeleted
      /\ ViewStakers' = (bStakers \cup dAdded') \ dDeleted'
      /\ dDiff \in [Keys -> DiffRec] /\ bStakers \subseteq used /\ DiffUsed
  BY DiffStepFacts
<1>2. BaseInv'
  BY DiffActionsInv DEF ViewsInv, StakerTxs
<1>3. Key(s) \in Keys /\ s \in used
  BY <1>1, KeyType DEF DiffUsed, StakerTxs, CanDeleteDelegator
<1>4. ViewStakers' = ViewStakers \ {s}
  BY <1>1 DEF DiffDeleteDelegator
<1>5. \A k \in Keys : TopVal(k)' = TopVal(k)
  BY <1>1, <1>3 DEF TopVal, DiffDeleteDelegator
<1>6. \A k \in Keys : TopDels(k)' = IF k = Key(s) THEN TopDels(k) \ {s} ELSE TopDels(k)
  BY <1>1, <1>3 DEF TopDels, DiffDeleteDelegator
<1>7. AgreeNext /\ OneValidatorPerKey(ViewStakers')
  BY <1>1, <1>4, <1>5, <1>6, RemoveDelegatorAgree DEF ViewsInv, CanDeleteDelegator
<1>8. DiffUsed'
  BY <1>1, <1>3 DEF DiffUsed, DiffDeleteDelegator
<1>10. Abs!RemoveDelegator(s)
  BY <1>4 DEF Abs!RemoveDelegator, CanDeleteDelegator
<1> QED BY <1>10, <1>1, <1>2, <1>7, <1>8, ViewsInvNext

LEMMA NewDiffViews ==
    ASSUME ViewsInv, NewDiff PROVE ViewsInv' /\ UNCHANGED <<ViewStakers, used>>
<1>1. /\ dDiff = [k \in Keys |-> NoDiff] /\ dAdded = {} /\ dDeleted = {}
      /\ layer' = "diff" /\ UNCHANGED <<baseVars, diffVars, used>>
  BY DEF ViewsInv, NewDiff
<1>2. BaseInv'
  BY <1>1 DEF ViewsInv, BaseInv, TypeOK, NoLeakedEntries, BaseDiffRecordsChanges
<1>3. ViewStakers' = ViewStakers /\ AgreeNow
  BY <1>1, AgreeNowFromViews DEF ViewsInv, BaseInv, ViewStakers, DiffStakers, NewDiff
<1>4. \A k \in Keys : TopVal(k)' = TopVal(k) /\ TopDels(k)' = TopDels(k)
  BY <1>1 DEF TopVal, TopDels, NoDiff, NewDiff
<1>5. AgreeNext /\ OneValidatorPerKey(ViewStakers')
  BY <1>3, <1>4 DEF AgreeNow, AgreeNext, ViewsInv
<1>6. DiffClean' /\ DiffUsed'
  BY <1>1 DEF DiffClean, DiffUsed, NoDiff
<1> QED BY <1>1, <1>2, <1>3, <1>5, <1>6, ViewsInvNext
-----------------------------------------------------------------------------
(* The initial state and every step, mapped to the interface.             *)

LEMMA InitViewsInv == Init => ViewsInv /\ Abs!Init
<1> SUFFICES ASSUME Init PROVE ViewsInv /\ Abs!Init
  OBVIOUS
<1>1. BaseInv
  BY InitBaseInv
<1>2. ViewStakers = InitStakers /\ DiffClean /\ DiffUsed
  BY DEF Init, ViewStakers, DiffClean, DiffUsed, NoDiff
<1>3. AgreeNow
  BY <1>2 DEF Init, AgreeNow, TopVal, TopDels
<1>4. ViewsAgree
  BY <1>1, <1>3, ViewReads DEF BaseInv, AgreeNow, ViewsAgree
<1>5. Abs!Init
  BY <1>2 DEF Init, Abs!Init
<1> QED BY <1>1, <1>2, <1>4, <1>5 DEF ViewsInv, DiffClean, DiffUsed

LEMMA NextViewsInv ==
    ViewsInv /\ [Next]_vars => ViewsInv' /\ [Abs!Next]_<<ViewStakers, used>>
<1> SUFFICES ASSUME ViewsInv, [Next]_vars
             PROVE  ViewsInv' /\ [Abs!Next]_<<ViewStakers, used>>
  OBVIOUS
<1>1. layer \in {"base", "diff"}
  BY DEF ViewsInv, BaseInv, TypeOK
<1>2. CASE NewDiff
  BY <1>2, NewDiffViews
<1>3. ASSUME NEW s \in StakerTxs, Put(s)
      PROVE  ViewsInv' /\ [Abs!Next]_<<ViewStakers, used>>
  <2>1. CASE s \in ValidatorTxs
    <3>a. s \notin DelegatorTxs
      BY <2>1
    <3>2. ViewsInv' /\ Abs!AddValidator(s)
      BY <1>3, <2>1, <3>a, BasePutValidatorViews, DiffPutValidatorViews
         DEF Put, CanPutValidator, CanPutDelegator
    <3> QED BY <3>2 DEF Abs!Next, Abs!StakerTxs, StakerTxs
  <2>2. CASE s \in DelegatorTxs
    <3>a. s \notin ValidatorTxs
      BY <2>2
    <3>2. ViewsInv' /\ Abs!AddDelegator(s)
      BY <1>3, <2>2, <3>a, BasePutDelegatorViews, DiffPutDelegatorViews
         DEF Put, CanPutValidator, CanPutDelegator
    <3> QED BY <3>2 DEF Abs!Next, Abs!StakerTxs, StakerTxs
  <2> QED BY <2>1, <2>2 DEF StakerTxs
<1>4. ASSUME NEW s \in StakerTxs, Delete(s)
      PROVE  ViewsInv' /\ [Abs!Next]_<<ViewStakers, used>>
  <2>1. CASE s \in ValidatorTxs
    <3>a. s \notin DelegatorTxs
      BY <2>1
    <3>2. ViewsInv' /\ Abs!RemoveValidator(s)
      BY <1>4, <2>1, <3>a, BaseDeleteValidatorViews, DiffDeleteValidatorViews
         DEF Delete, CanDeleteValidator, CanDeleteDelegator
    <3> QED BY <3>2 DEF Abs!Next, Abs!StakerTxs, StakerTxs
  <2>2. CASE s \in DelegatorTxs
    <3>a. s \notin ValidatorTxs
      BY <2>2
    <3>2. ViewsInv' /\ Abs!RemoveDelegator(s)
      BY <1>4, <2>2, <3>a, BaseDeleteDelegatorViews, DiffDeleteDelegatorViews
         DEF Delete, CanDeleteValidator, CanDeleteDelegator
    <3> QED BY <3>2 DEF Abs!Next, Abs!StakerTxs, StakerTxs
  <2> QED BY <2>1, <2>2 DEF StakerTxs
<1>5. CASE UNCHANGED vars
  BY <1>5 DEF vars, ViewsInv, BaseInv, TypeOK, NoLeakedEntries, BaseDiffRecordsChanges,
              ViewsAgree, ViewValidator, ViewDelegators, ViewStakers, BaseGetValidator,
              BaseDelegators, DiffGetValidator, DiffDelegators, DiffStakers
<1> QED BY <1>2, <1>3, <1>4, <1>5 DEF Next

\* GetValidator and GetDelegatorIterator, read through the top layer (the
\* diff over the base once a diff exists), always agree with its staker
\* iterator, for every set of subnets, nodes and stakers and every sequence
\* of puts and deletes that keeps the callers' contract.
THEOREM ViewsConsistent == Spec => []ViewsAgree
<1>1. Init => ViewsInv  BY InitViewsInv
<1>2. ViewsInv /\ [Next]_vars => ViewsInv'  BY NextViewsInv
<1>3. ViewsInv => ViewsAgree  BY DEF ViewsInv
<1> QED BY <1>1, <1>2, <1>3, PTL DEF Spec

\* baseValidators with a diffValidators on top implement the Validators
\* interface: the staker set shown by the staker iterator starts as the
\* stakers loaded from disk and changes only by the interface's puts and
\* deletes (at most one validator per key, each staker added once).
THEOREM ImplementsValidatorSet == Spec => AbsSpec
<1>1. Init => ViewsInv /\ Abs!Init  BY InitViewsInv
<1>2. ViewsInv /\ [Next]_vars => ViewsInv' /\ [Abs!Next]_<<ViewStakers, used>>
  BY NextViewsInv
<1> QED BY <1>1, <1>2, PTL DEF Spec, AbsSpec, Abs!Spec
=============================================================================
