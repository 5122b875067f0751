------------------------ MODULE ValidatorStoreProofs ------------------------
(***************************************************************************)
(* Proofs about the validator store: the type invariant, and that without *)
(* marshalling errors and with fresh signers the ID index always resolves *)
(* to the record holding the validator's power while every record retired *)
(* by a signer rotation holds none.                                        *)
(***************************************************************************)
EXTENDS ValidatorStore, TLAPS

(* Every stored record belongs to an ID the index maps.  Needed by a join: *)
(* an ID without a signer has no record at all, retired or not.            *)
Indexed ==
  \A s \in Signers : validators[s] # NoVal => idMap[validators[s].id] # NoSigner

StoreInv == TypeOK /\ Indexed /\ PowerFollowsIndex

(* The type invariant: each keeper call keeps records, index, ghost power *)
(* and call count within their types.                                     *)
LEMMA TypeStep == TypeOK /\ [Next]_vars => TypeOK'
<1> SUFFICES ASSUME TypeOK, [Next]_vars PROVE TypeOK'
  OBVIOUS
<1> USE MaxPowerAssumption, MaxEpochAssumption, MaxOpsAssumption
    DEF TypeOK, Validator, Powers, Epochs
<1>1. ASSUME NEW id \in IDs, NEW s \in Signers, NEW p \in Powers \ {0},
             Join(id, s, p)
      PROVE  TypeOK'
  <2>1. PICK ok \in Outcomes :
          LET st == AddValidator(<<validators, idMap>>, s,
                                 [id |-> id, power |-> p, endEpoch |-> 0], ok)
          IN  /\ validators' = st[1]
              /\ idMap' = st[2]
              /\ stake' = IF ok THEN [stake EXCEPT ![id] = p] ELSE stake
    BY <1>1 DEF Join
  <2> QED
    BY <1>1, <2>1, MaxEpochAssumption DEF Join, AddValidator
<1>2. ASSUME NEW id \in IDs, NEW p \in Powers, UpdatePower(id, p)
      PROVE  TypeOK'
  <2>1. PICK ok \in Outcomes :
          LET st == AddValidator(<<validators, idMap>>, idMap[id],
                                 [validators[idMap[id]] EXCEPT !.power = p], ok)
          IN  /\ validators' = st[1]
              /\ idMap' = st[2]
              /\ stake' = IF ok THEN [stake EXCEPT ![id] = p] ELSE stake
    BY <1>2 DEF UpdatePower
  <2>2. idMap[id] \in Signers /\ validators[idMap[id]] \in Validator
    BY <1>2 DEF UpdatePower
  <2> QED
    BY <1>2, <2>1, <2>2 DEF UpdatePower, AddValidator
<1>3. ASSUME NEW id \in IDs, NEW e \in Epochs, AddDeactivationEpoch(id, e)
      PROVE  TypeOK'
  <2>1. idMap[id] \in Signers /\ validators[idMap[id]] \in Validator
    BY <1>3 DEF AddDeactivationEpoch
  <2>2. CASE e = 0
    BY <1>3, <2>2 DEF AddDeactivationEpoch
  <2>3. CASE e # 0
    <3>1. PICK ok \in Outcomes :
            LET st == AddValidator(<<validators, idMap>>, idMap[id],
                        [validators[idMap[id]] EXCEPT !.endEpoch = e], ok)
            IN  validators' = st[1] /\ idMap' = st[2]
      BY <1>3, <2>3 DEF AddDeactivationEpoch
    <3> QED
      BY <1>3, <2>1, <3>1 DEF AddDeactivationEpoch, AddValidator
  <2> QED
    BY <2>2, <2>3
<1>4. ASSUME NEW id \in IDs, NEW newS \in Signers, UpdateSigner(id, newS)
      PROVE  TypeOK'
  <2> DEFINE prevS == idMap[id]
             v == validators[prevS]
  <2>1. prevS \in Signers
    BY <1>4 DEF UpdateSigner
  <2>2. CASE v = NoVal
    BY <1>4, <2>2 DEF UpdateSigner
  <2>3. CASE v # NoVal
    <3>1. v \in Validator
      BY <2>1, <2>3
    <3>2. PICK ok1, ok2 \in Outcomes :
            LET st == RotatedStore(<<validators, idMap>>, v, prevS, newS,
                                   ok1, ok2)
            IN  validators' = st[1] /\ idMap' = st[2]
      BY <1>4, <2>3 DEF UpdateSigner
    <3>3. Retire(v) \in Validator /\ Retire(v).id = v.id
      BY <3>1 DEF Retire
    <3> QED
      BY <1>4, <2>1, <3>1, <3>2, <3>3 DEF UpdateSigner, RotatedStore, AddValidator
  <2> QED
    BY <2>2, <2>3
<1>5. CASE UNCHANGED vars
  BY <1>5 DEF vars
<1> QED
  BY <1>1, <1>2, <1>3, <1>4, <1>5 DEF Next

(* Every reachable store is well typed, for every set of IDs and signers. *)
THEOREM TypeCorrect == Spec => []TypeOK
<1>1. Init => TypeOK
  BY MaxOpsAssumption, MaxPowerAssumption DEF Init, TypeOK, Powers
<1> QED
  BY <1>1, TypeStep, PTL DEF Spec
-----------------------------------------------------------------------------
(* The step case of the power invariant, one step per keeper call.  A     *)
(* rotation keeps it because the new signer holds no record of another ID *)
(* (FreshSigners) and both writes succeed (~Faults): the old record is    *)
(* rewritten with power 0 before the copy with the power is written, so   *)
(* a rotation to the same signer ends with the power in place.            *)
LEMMA StoreStep ==
  ASSUME ~Faults, FreshSigners, StoreInv, [Next]_vars
  PROVE  StoreInv'
<1> USE MaxPowerAssumption, MaxEpochAssumption, MaxOpsAssumption,
        NoValAssumption, NoSignerAssumption DEF Outcomes
<1>0. TypeOK'
  BY TypeStep DEF StoreInv
<1>1. ASSUME NEW id \in IDs, NEW s \in Signers, NEW p \in Powers \ {0},
             Join(id, s, p)
      PROVE  StoreInv'
  <2> DEFINE rec == [id |-> id, power |-> p, endEpoch |-> 0]
  <2> USE DEF rec
  <2>1. /\ validators' = [validators EXCEPT ![s] = rec]
        /\ idMap' = [idMap EXCEPT ![id] = s]
        /\ stake' = [stake EXCEPT ![id] = p]
        /\ idMap[id] = NoSigner /\ validators[s] = NoVal
    BY <1>1 DEF Join, AddValidator
  <2>2. RecordsOf(id) = {}
    BY <2>1 DEF StoreInv, Indexed, RecordsOf
  <2>6. rec \in Validator /\ rec # NoVal
    BY DEF Validator, Powers, Epochs
  <2>3. Indexed'
    BY <2>1 DEF StoreInv, Indexed, TypeOK
  <2>4. PowerFollowsIndex'
    <3> SUFFICES ASSUME NEW j \in IDs, idMap'[j] # NoSigner
                 PROVE  /\ idMap'[j] \in RecordsOf(j)'
                        /\ validators'[idMap'[j]].power = stake'[j]
                        /\ \A t \in RecordsOf(j)' \ {idMap'[j]} :
                              validators'[t].power = 0
      BY DEF PowerFollowsIndex
    <3>1. CASE j = id
      <4>1. RecordsOf(j)' = {s}
        BY <2>1, <2>2, <2>6, <3>1 DEF RecordsOf, TypeOK, StoreInv
      <4> QED
        BY <2>1, <3>1, <4>1 DEF StoreInv, TypeOK
    <3>2. CASE j # id
      <4>1. idMap'[j] = idMap[j] /\ idMap[j] # s /\ stake'[j] = stake[j]
        BY <2>1, <3>2 DEF StoreInv, TypeOK, PowerFollowsIndex, RecordsOf
      <4>2. RecordsOf(j)' = RecordsOf(j)
        BY <2>1, <3>2 DEF RecordsOf, StoreInv, TypeOK
      <4> QED
        BY <2>1, <4>1, <4>2 DEF StoreInv, TypeOK, PowerFollowsIndex, RecordsOf
    <3> QED
      BY <3>1, <3>2
  <2> QED
    BY <1>0, <2>3, <2>4 DEF StoreInv
<1>2. ASSUME NEW id \in IDs, NEW p \in Powers, UpdatePower(id, p)
      PROVE  StoreInv'
  <2> DEFINE s == idMap[id]
  <2> USE DEF s
  <2>1. /\ validators' = [validators EXCEPT ![s] = [validators[s] EXCEPT !.power = p]]
        /\ idMap' = [idMap EXCEPT ![validators[s].id] = s]
        /\ stake' = [stake EXCEPT ![id] = p]
        /\ s # NoSigner /\ validators[s] # NoVal
    BY <1>2 DEF UpdatePower, AddValidator
  <2>2. s \in Signers /\ validators[s] \in Validator /\ validators[s].id = id
    BY <2>1 DEF StoreInv, TypeOK, PowerFollowsIndex, RecordsOf
  <2>3. idMap' = idMap
    BY <2>1, <2>2 DEF StoreInv, TypeOK
  <2>4. Indexed'
    BY <2>1, <2>2, <2>3 DEF StoreInv, Indexed, TypeOK, Validator
  <2>5. PowerFollowsIndex'
    BY <2>1, <2>2, <2>3
    DEF StoreInv, PowerFollowsIndex, RecordsOf, TypeOK, Validator
  <2> QED
    BY <1>0, <2>4, <2>5 DEF StoreInv
<1>3. ASSUME NEW id \in IDs, NEW e \in Epochs, AddDeactivationEpoch(id, e)
      PROVE  StoreInv'
  <2> DEFINE s == idMap[id]
  <2> USE DEF s
  <2>1. s \in Signers /\ validators[s] \in Validator /\ validators[s].id = id
    BY <1>3 DEF AddDeactivationEpoch, StoreInv, TypeOK, PowerFollowsIndex,
       RecordsOf
  <2>2. CASE e = 0
    BY <1>0, <1>3, <2>2 DEF AddDeactivationEpoch, StoreInv, Indexed,
       PowerFollowsIndex, RecordsOf
  <2>3. CASE e # 0
    <3>1. /\ validators' = [validators EXCEPT ![s] =
                              [validators[s] EXCEPT !.endEpoch = e]]
          /\ idMap' = [idMap EXCEPT ![validators[s].id] = s]
          /\ stake' = stake
      <4>1. PICK ok \in Outcomes :
              LET st == AddValidator(<<validators, idMap>>, idMap[id],
                          [validators[idMap[id]] EXCEPT !.endEpoch = e], ok)
              IN  validators' = st[1] /\ idMap' = st[2]
        BY <1>3, <2>3 DEF AddDeactivationEpoch
      <4>2. ok = TRUE
        OBVIOUS
      <4> QED
        BY <1>3, <2>1, <4>1, <4>2 DEF AddDeactivationEpoch, AddValidator, Validator
    <3>2. idMap' = idMap
      BY <2>1, <3>1 DEF StoreInv, TypeOK
    <3>3. Indexed'
      BY <2>1, <3>1, <3>2 DEF StoreInv, Indexed, TypeOK, Validator
    <3>4. PowerFollowsIndex'
      BY <2>1, <3>1, <3>2
      DEF StoreInv, PowerFollowsIndex, RecordsOf, TypeOK, Validator
    <3> QED
      BY <1>0, <3>3, <3>4 DEF StoreInv
  <2> QED
    BY <2>2, <2>3
<1>4. ASSUME NEW id \in IDs, NEW newS \in Signers, UpdateSigner(id, newS)
      PROVE  StoreInv'
  <2> DEFINE prevS == idMap[id]
             v == validators[prevS]
  <2> USE DEF prevS, v
  <2>1. prevS \in Signers /\ v \in Validator /\ v.id = id
    BY <1>4 DEF UpdateSigner, StoreInv, TypeOK, PowerFollowsIndex, RecordsOf
  <2>2. /\ validators' = [[validators EXCEPT ![prevS] = Retire(v)]
                             EXCEPT ![newS] = v]
        /\ idMap' = [idMap EXCEPT ![id] = newS]
        /\ stake' = stake
        /\ newS \notin HeldByOthers(id)
    <3>1. v # NoVal
      BY <2>1, NoValAssumption
    <3>2. Retire(v).id = id
      BY <2>1 DEF Retire
    <3>3. PICK ok1, ok2 \in Outcomes :
            LET st == RotatedStore(<<validators, idMap>>, v, prevS, newS, ok1, ok2)
            IN  validators' = st[1] /\ idMap' = st[2]
      BY <1>4, <3>1 DEF UpdateSigner
    <3>4. ok1 = TRUE /\ ok2 = TRUE
      BY <3>3
    <3>5. /\ validators' = [[validators EXCEPT ![prevS] = Retire(v)]
                               EXCEPT ![newS] = v]
          /\ idMap' = [[idMap EXCEPT ![id] = prevS] EXCEPT ![id] = newS]
      BY <2>1, <3>2, <3>3, <3>4 DEF RotatedStore, AddValidator
    <3>6. idMap' = [idMap EXCEPT ![id] = newS]
      BY <3>5
    <3>7. newS \notin HeldByOthers(id) /\ stake' = stake
      BY <1>4, <3>1 DEF UpdateSigner
    <3> QED
      BY <3>5, <3>6, <3>7
  <2>3. Retire(v) \in Validator /\ Retire(v).id = id /\ Retire(v).power = 0
    BY <2>1 DEF Retire, Validator, Powers
  <2>4. validators[newS] = NoVal \/ validators[newS].id = id
    BY <2>2 DEF HeldByOthers
  <2>5. Indexed'
    BY <2>1, <2>2, <2>3, NoSignerAssumption DEF StoreInv, Indexed, TypeOK
  <2>6. PowerFollowsIndex'
    BY <2>1, <2>2, <2>3, <2>4, NoValAssumption, NoSignerAssumption
    DEF StoreInv, PowerFollowsIndex, RecordsOf, TypeOK
  <2> QED
    BY <1>0, <2>5, <2>6 DEF StoreInv
<1>5. CASE UNCHANGED vars
  BY <1>5 DEF vars, StoreInv, TypeOK, Indexed, PowerFollowsIndex, RecordsOf
<1> QED
  BY <1>1, <1>2, <1>3, <1>4, <1>5 DEF Next

(* StoreInv holds in every reachable state of a fault-free store with    *)
(* fresh signers.                                                         *)
LEMMA StoreInvariant ==
  ASSUME ~Faults, FreshSigners
  PROVE  Spec => []StoreInv
<1>1. Init => StoreInv
  BY MaxOpsAssumption, MaxPowerAssumption
  DEF Init, StoreInv, TypeOK, Powers, Indexed, PowerFollowsIndex
<1>2. StoreInv /\ [Next]_vars => StoreInv'
  BY StoreStep
<1> QED
  BY <1>1, <1>2, PTL DEF Spec

(* A rotation never splits a validator's power: without marshalling       *)
(* errors and with fresh new signers, for every set of IDs and signers,   *)
(* the signer the ID map resolves holds the validator's power and every   *)
(* record UpdateSigner retired holds power 0.                             *)
THEOREM PowerFollowsIndexTheorem ==
  (~Faults /\ FreshSigners) => (Spec => []PowerFollowsIndex)
<1> SUFFICES ASSUME ~Faults, FreshSigners PROVE Spec => []PowerFollowsIndex
  OBVIOUS
<1>1. StoreInv => PowerFollowsIndex
  BY DEF StoreInv
<1> QED
  BY <1>1, StoreInvariant, PTL

-----------------------------------------------------------------------------
(* Two mapped IDs never share a signer: a signer's record has one ID.     *)
LEMMA IndexInjective ==
  ASSUME StoreInv, NEW i \in IDs, NEW j \in IDs, i # j, idMap[i] # NoSigner
  PROVE  idMap[j] # idMap[i]
BY NoSignerAssumption DEF StoreInv, PowerFollowsIndex, RecordsOf, TypeOK

(* The registry's view of an ID is unchanged when neither its index entry *)
(* nor the record under its signer changes.                               *)
LEMMA MappedUnchanged ==
  ASSUME NEW j \in IDs, idMap'[j] = idMap[j],
         idMap[j] # NoSigner => validators'[idMap[j]] = validators[idMap[j]]
  PROVE  /\ MappedPower'[j] = MappedPower[j]
         /\ MappedEnd'[j] = MappedEnd[j]
BY DEF MappedPower, MappedEnd, RecordOfID
(* Each keeper call is a registry step or leaves the registry unchanged.  *)
LEMMA RefinementStep ==
  ASSUME ~Faults, FreshSigners, StoreInv, [Next]_vars
  PROVE  [Registry!Next]_Registry!regVars
<1> USE MaxPowerAssumption, MaxEpochAssumption, MaxOpsAssumption,
        NoValAssumption, NoSignerAssumption DEF Outcomes
<1>1. ASSUME NEW id \in IDs, NEW s \in Signers, NEW p \in Powers \ {0},
             Join(id, s, p)
      PROVE  Registry!Register(id, s, p)
  <2> DEFINE rec == [id |-> id, power |-> p, endEpoch |-> 0]
  <2> USE DEF rec
  <2>1. /\ validators' = [validators EXCEPT ![s] = rec]
        /\ idMap' = [idMap EXCEPT ![id] = s]
        /\ idMap[id] = NoSigner /\ validators[s] = NoVal
    BY <1>1 DEF Join, AddValidator
  <2>2. rec \in Validator /\ rec # NoVal
    BY DEF Validator, Powers, Epochs
  <2>3. ASSUME NEW j \in IDs \ {id}, idMap[j] # NoSigner
        PROVE  idMap[j] # s
    BY <2>1, <2>3 DEF StoreInv, PowerFollowsIndex, RecordsOf
  <2>4. s \notin Registry!SignersOfOthers(id)
    BY <2>3 DEF Registry!SignersOfOthers
  <2>5. ASSUME NEW j \in IDs \ {id}
        PROVE  MappedPower'[j] = MappedPower[j] /\ MappedEnd'[j] = MappedEnd[j]
    <3>1. idMap'[j] = idMap[j]
      BY <2>1 DEF StoreInv, TypeOK
    <3>2. idMap[j] # NoSigner => validators'[idMap[j]] = validators[idMap[j]]
      BY <2>1, <2>3 DEF StoreInv, TypeOK
    <3> QED
      BY <3>1, <3>2, MappedUnchanged
  <2>6. MappedPower'[id] = p /\ MappedEnd'[id] = 0
    BY <2>1, <2>2 DEF MappedPower, MappedEnd, RecordOfID, StoreInv, TypeOK
  <2>7. /\ MappedPower' = [MappedPower EXCEPT ![id] = p]
        /\ MappedEnd' = [MappedEnd EXCEPT ![id] = 0]
    BY <2>5, <2>6 DEF MappedPower, MappedEnd
  <2> QED
    BY <2>1, <2>4, <2>7 DEF Registry!Register
<1>2. ASSUME NEW id \in IDs, NEW p \in Powers, UpdatePower(id, p)
      PROVE  Registry!SetPower(id, p)
  <2> DEFINE s == idMap[id]
  <2> USE DEF s
  <2>1. /\ s \in Signers /\ validators[s] \in Validator /\ validators[s].id = id
        /\ validators' = [validators EXCEPT ![s] = [validators[s] EXCEPT !.power = p]]
        /\ idMap' = idMap
    <3>1. s \in Signers /\ validators[s] \in Validator /\ validators[s].id = id
      BY <1>2 DEF UpdatePower, StoreInv, TypeOK, PowerFollowsIndex, RecordsOf
    <3>2. /\ validators' = [validators EXCEPT ![s] = [validators[s] EXCEPT !.power = p]]
          /\ idMap' = [idMap EXCEPT ![validators[s].id] = s]
      BY <1>2 DEF UpdatePower, AddValidator
    <3> QED
      BY <3>1, <3>2 DEF StoreInv, TypeOK
  <2>2. ASSUME NEW j \in IDs \ {id}
        PROVE  MappedPower'[j] = MappedPower[j] /\ MappedEnd'[j] = MappedEnd[j]
    <3>1. idMap[j] # NoSigner => validators'[idMap[j]] = validators[idMap[j]]
      BY <2>1, IndexInjective, <1>2 DEF UpdatePower, StoreInv, TypeOK
    <3> QED
      BY <2>1, <3>1, MappedUnchanged
  <2>3. MappedPower'[id] = p /\ MappedEnd'[id] = MappedEnd[id]
    BY <2>1 DEF MappedPower, MappedEnd, RecordOfID, StoreInv, TypeOK, Validator
  <2>4. /\ MappedPower' = [MappedPower EXCEPT ![id] = p]
        /\ MappedEnd' = MappedEnd
    <3>1. \A j \in IDs \ {id} : MappedPower'[j] = MappedPower[j] /\ MappedEnd'[j] = MappedEnd[j]
      BY <2>2
    <3>2. MappedPower' = [MappedPower EXCEPT ![id] = p]
      BY <3>1, <2>3 DEF MappedPower
    <3>3. MappedEnd' = MappedEnd
      BY <3>1, <2>3 DEF MappedEnd
    <3> QED
      BY <3>2, <3>3
  <2> QED
    BY <1>2, <2>1, <2>4 DEF Registry!SetPower, UpdatePower
<1>3. ASSUME NEW id \in IDs, NEW e \in Epochs, AddDeactivationEpoch(id, e)
      PROVE  [Registry!Next]_Registry!regVars
  <2> DEFINE s == idMap[id]
  <2> USE DEF s
  <2>0. s \in Signers /\ validators[s] \in Validator /\ validators[s].id = id
    BY <1>3 DEF AddDeactivationEpoch, StoreInv, TypeOK, PowerFollowsIndex,
       RecordsOf
  <2>1. CASE e = 0
    <3>1. UNCHANGED <<validators, idMap>>
      BY <1>3, <2>1 DEF AddDeactivationEpoch
    <3> QED
      BY <3>1 DEF Registry!regVars, MappedPower, MappedEnd, RecordOfID
  <2>2. CASE e # 0
    <3>1. /\ validators' = [validators EXCEPT ![s] =
                              [validators[s] EXCEPT !.endEpoch = e]]
          /\ idMap' = idMap
      <4>1. PICK ok \in Outcomes :
              LET st == AddValidator(<<validators, idMap>>, idMap[id],
                          [validators[idMap[id]] EXCEPT !.endEpoch = e], ok)
              IN  validators' = st[1] /\ idMap' = st[2]
        BY <1>3, <2>2 DEF AddDeactivationEpoch
      <4> QED
        BY <2>0, <4>1 DEF AddValidator, Validator, StoreInv, TypeOK
    <3>2. ASSUME NEW j \in IDs \ {id}
          PROVE  MappedPower'[j] = MappedPower[j] /\ MappedEnd'[j] = MappedEnd[j]
      <4>1. idMap[j] # NoSigner => validators'[idMap[j]] = validators[idMap[j]]
        BY <2>0, <3>1, IndexInjective, <1>3 DEF AddDeactivationEpoch, StoreInv,
           TypeOK
      <4> QED
        BY <3>1, <4>1, MappedUnchanged
    <3>3. MappedEnd'[id] = e /\ MappedPower'[id] = MappedPower[id]
      BY <2>0, <3>1 DEF MappedPower, MappedEnd, RecordOfID, StoreInv, TypeOK,
         Validator
    <3>4. /\ MappedEnd' = [MappedEnd EXCEPT ![id] = e]
          /\ MappedPower' = MappedPower
      <4>1. \A j \in IDs \ {id} : MappedPower'[j] = MappedPower[j] /\ MappedEnd'[j] = MappedEnd[j]
        BY <3>2
      <4>2. MappedEnd' = [MappedEnd EXCEPT ![id] = e]
        BY <4>1, <3>3 DEF MappedEnd
      <4>3. MappedPower' = MappedPower
        BY <4>1, <3>3 DEF MappedPower
      <4> QED
        BY <4>2, <4>3
    <3>5. Registry!Deactivate(id, e)
      BY <1>3, <2>2, <3>1, <3>4 DEF Registry!Deactivate, AddDeactivationEpoch
    <3> QED
      BY <3>5 DEF Registry!Next, Registry!Epochs, Epochs
  <2> QED
    BY <2>1, <2>2
<1>4. ASSUME NEW id \in IDs, NEW newS \in Signers, UpdateSigner(id, newS)
      PROVE  Registry!Rotate(id, newS)
  <2> DEFINE prevS == idMap[id]
             v == validators[prevS]
  <2> USE DEF prevS, v
  <2>1. prevS \in Signers /\ v \in Validator /\ v.id = id
    BY <1>4 DEF UpdateSigner, StoreInv, TypeOK, PowerFollowsIndex, RecordsOf
  <2>2. /\ validators' = [[validators EXCEPT ![prevS] = Retire(v)]
                             EXCEPT ![newS] = v]
        /\ idMap' = [idMap EXCEPT ![id] = newS]
        /\ newS \notin HeldByOthers(id)
    <3>1. v # NoVal
      BY <2>1
    <3>2. Retire(v).id = id
      BY <2>1 DEF Retire
    <3>3. PICK ok1, ok2 \in Outcomes :
            LET st == RotatedStore(<<validators, idMap>>, v, prevS, newS, ok1, ok2)
            IN  validators' = st[1] /\ idMap' = st[2]
      BY <1>4, <3>1 DEF UpdateSigner
    <3>4. ok1 = TRUE /\ ok2 = TRUE
      BY <3>3
    <3>5. /\ validators' = [[validators EXCEPT ![prevS] = Retire(v)]
                               EXCEPT ![newS] = v]
          /\ idMap' = [[idMap EXCEPT ![id] = prevS] EXCEPT ![id] = newS]
      BY <2>1, <3>2, <3>3, <3>4 DEF RotatedStore, AddValidator
    <3>6. idMap' = [idMap EXCEPT ![id] = newS]
      BY <3>5
    <3>7. newS \notin HeldByOthers(id)
      BY <1>4, <3>1 DEF UpdateSigner
    <3> QED
      BY <3>5, <3>6, <3>7
  <2>3. ASSUME NEW j \in IDs \ {id}, idMap[j] # NoSigner
        PROVE  idMap[j] # newS /\ idMap[j] # prevS
    <3>1. idMap[j] # newS
      BY <2>2, <2>3 DEF HeldByOthers, StoreInv, PowerFollowsIndex, RecordsOf
    <3>2. idMap[j] # prevS
      BY <1>4, <2>3, IndexInjective DEF UpdateSigner
    <3> QED
      BY <3>1, <3>2
  <2>4. newS \notin Registry!SignersOfOthers(id)
    BY <2>3 DEF Registry!SignersOfOthers
  <2>5. ASSUME NEW j \in IDs \ {id}
        PROVE  MappedPower'[j] = MappedPower[j] /\ MappedEnd'[j] = MappedEnd[j]
    <3>1. idMap'[j] = idMap[j]
      BY <2>2 DEF StoreInv, TypeOK
    <3>2. idMap[j] # NoSigner => validators'[idMap[j]] = validators[idMap[j]]
      BY <2>1, <2>2, <2>3 DEF StoreInv, TypeOK
    <3> QED
      BY <3>1, <3>2, MappedUnchanged
  <2>6. MappedPower'[id] = MappedPower[id] /\ MappedEnd'[id] = MappedEnd[id]
    BY <2>1, <2>2 DEF MappedPower, MappedEnd, RecordOfID, StoreInv, TypeOK
  <2>7. MappedPower' = MappedPower /\ MappedEnd' = MappedEnd
    BY <2>5, <2>6 DEF MappedPower, MappedEnd
  <2> QED
    BY <1>4, <2>2, <2>4, <2>7 DEF Registry!Rotate, UpdateSigner
<1>5. CASE UNCHANGED vars
  BY <1>5 DEF vars, Registry!regVars, MappedPower, MappedEnd, RecordOfID
<1> QED
  BY <1>1, <1>2, <1>3, <1>4, <1>5
  DEF Next, Registry!Next, Registry!Powers, Powers, Registry!Epochs, Epochs

(* The two-write store implements the atomic registry: without            *)
(* marshalling errors and with fresh new signers, for every set of IDs and *)
(* signers, every behaviour of the keeper calls is a behaviour of the      *)
(* registry of spec 3 and 4.7 in which a rotation is one step.             *)
THEOREM RefinementTheorem ==
  (~Faults /\ FreshSigners) => (Spec => ImplementsRegistry)
<1> SUFFICES ASSUME ~Faults, FreshSigners PROVE Spec => Registry!Spec
  BY DEF ImplementsRegistry
<1>1. Init => Registry!Init
  BY DEF Init, Registry!Init, MappedPower, MappedEnd
<1>2. StoreInv /\ [Next]_vars => [Registry!Next]_Registry!regVars
  BY RefinementStep
<1> QED
  BY <1>1, <1>2, StoreInvariant, PTL DEF Spec, Registry!Spec
====
