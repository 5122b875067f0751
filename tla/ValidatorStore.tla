--------------------------- MODULE ValidatorStore ---------------------------
(***************************************************************************)
(* The validator records of the staking keeper (src/unnamed/part_000).     *)
(*                                                                         *)
(* A validator record is stored under GetValidatorKey(signer), so the key  *)
(* changes when the signer does; a second map GetValidatorMapKey(id) holds *)
(* the signer of each validator ID.  AddValidator writes both.  A signer   *)
(* rotation (UpdateSigner) is two AddValidator calls: the record under the *)
(* old signer is rewritten with power 0, then a copy with the old power is *)
(* written under the new signer.  Keeper calls run inside the transactions *)
(* of the state machine, one at a time, and a transaction commits all its  *)
(* writes or none, so no step interleaves with another and no crash falls *)
(* between two writes of one call.                                         *)
(*                                                                         *)
(* A record is abstracted to its validator ID, its power and its end       *)
(* epoch; the public key and the other fields are never read by the code   *)
(* modelled here.  A marshalling error of AddValidator (Faults) leaves     *)
(* the store unchanged and returns an error.                               *)
(***************************************************************************)
EXTENDS Naturals, FiniteSets

CONSTANTS
  IDs,           \* validator IDs
  Signers,       \* signer addresses
  MaxPower,      \* largest power of a validator
  MaxEpoch,      \* largest end epoch (0 = no end epoch)
  MaxOps,        \* bound on keeper calls
  Faults,        \* TRUE: MarshallValidator may fail
  FreshSigners,  \* TRUE: a new signer never holds another validator's record
  NoVal,         \* no record under a signer key
  NoSigner       \* no signer under a validator ID key

Epochs == 0 .. MaxEpoch
Powers == 0 .. MaxPower
Validator == [id : IDs, power : Powers, endEpoch : Epochs]

ASSUME MaxPowerAssumption == MaxPower \in Nat \ {0}
ASSUME MaxEpochAssumption == MaxEpoch \in Nat
ASSUME MaxOpsAssumption == MaxOps \in Nat
ASSUME FaultsAssumption == Faults \in BOOLEAN
ASSUME FreshSignersAssumption == FreshSigners \in BOOLEAN
ASSUME NoValAssumption == NoVal \notin Validator
ASSUME NoSignerAssumption == NoSigner \notin Signers

VARIABLES
  validators,  \* validators[s]: the record under GetValidatorKey(s), or NoVal
  idMap,       \* idMap[id]: the signer under GetValidatorMapKey(id), or NoSigner
  stake,       \* ghost: stake[id] = the power the staking handlers gave id
  ops          \* keeper calls so far

vars == <<validators, idMap, stake, ops>>

(* Whether a marshalling call succeeds.                                   *)
Outcomes == IF Faults THEN BOOLEAN ELSE {TRUE}

-----------------------------------------------------------------------------
(* AddValidator (lines 87-107) on the store st = <<validators, idMap>>:   *)
(* a marshalling error returns before any write; otherwise the record is  *)
(* stored under its signer key (line 101) and the ID is mapped to that    *)
(* signer (line 105, SetValidatorIDToSignerAddr, lines 278-281).          *)
AddValidator(st, s, rec, ok) ==
  IF ok THEN << [st[1] EXCEPT ![s] = rec], [st[2] EXCEPT ![rec.id] = s] >>
        ELSE st

(* Mutant: the old record keeps its power (line 202 missing).             *)
RetireKeepsPower(v) == v

(* Line 202: the record under the old signer is retired with power 0.    *)
Retire(v) == [v EXCEPT !.power = 0]

(* Mutant: the copy under the new signer keeps power 0 (line 209 missing). *)
RotatedStoreNoRestore(st, v, prevS, newS, ok1, ok2) ==
  AddValidator(AddValidator(st, prevS, Retire(v), ok1), newS, Retire(v), ok2)

(* UpdateSigner (lines 192-214) on st, after GetValidatorInfo (lines      *)
(* 110-127) found v under prevS: two AddValidator calls whose errors are  *)
(* ignored (lines 204 and 212), the second with the power copied at line  *)
(* 201 and restored at line 209.                                          *)
RotatedStore(st, v, prevS, newS, ok1, ok2) ==
  AddValidator(AddValidator(st, prevS, Retire(v), ok1), newS, v, ok2)

(* The signers holding a record of a validator other than id.            *)
HeldByOthers(id) ==
  {s \in Signers : validators[s] # NoVal /\ validators[s].id # id}

-----------------------------------------------------------------------------
Init ==
  /\ validators = [s \in Signers |-> NoVal]
  /\ idMap = [id \in IDs |-> NoSigner]
  /\ stake = [id \in IDs |-> 0]
  /\ ops = 0

(* A staking handler registers a new validator id under an unused signer  *)
(* with power p (AddValidator).                                           *)
Join(id, s, p) ==
  /\ ops < MaxOps
  /\ idMap[id] = NoSigner
  /\ validators[s] = NoVal
  /\ \E ok \in Outcomes :
       LET st == AddValidator(<<validators, idMap>>, s,
                              [id |-> id, power |-> p, endEpoch |-> 0], ok)
       IN  /\ validators' = st[1]
           /\ idMap' = st[2]
           /\ stake' = IF ok THEN [stake EXCEPT ![id] = p] ELSE stake
  /\ ops' = ops + 1

(* A staking handler rewrites the record that the ID map resolves          *)
(* (GetValidatorFromValID, lines 296-307) with a new power.                *)
UpdatePower(id, p) ==
  /\ ops < MaxOps
  /\ idMap[id] # NoSigner
  /\ validators[idMap[id]] # NoVal
  /\ \E ok \in Outcomes :
       LET st == AddValidator(<<validators, idMap>>, idMap[id],
                              [validators[idMap[id]] EXCEPT !.power = p], ok)
       IN  /\ validators' = st[1]
           /\ idMap' = st[2]
           /\ stake' = IF ok THEN [stake EXCEPT ![id] = p] ELSE stake
  /\ ops' = ops + 1

(* AddDeactivationEpoch (lines 180-189) for the record the ID map         *)
(* resolves: an end epoch of 0 is an error; any other is written.         *)
AddDeactivationEpoch(id, e) ==
  /\ ops < MaxOps
  /\ idMap[id] # NoSigner
  /\ validators[idMap[id]] # NoVal
  /\ \/ /\ e = 0
        /\ UNCHANGED <<validators, idMap>>
     \/ /\ e # 0
        /\ \E ok \in Outcomes :
             LET st == AddValidator(<<validators, idMap>>, idMap[id],
                         [validators[idMap[id]] EXCEPT !.endEpoch = e], ok)
             IN  validators' = st[1] /\ idMap' = st[2]
  /\ ops' = ops + 1
  /\ UNCHANGED stake

(* A signer-update handler resolves the validator's current signer and    *)
(* calls UpdateSigner(newS, pubkey, prevS).  GetValidatorInfo fails when  *)
(* no record is under prevS (lines 194-198).                              *)
UpdateSigner(id, newS) ==
  /\ ops < MaxOps
  /\ idMap[id] # NoSigner
  /\ LET prevS == idMap[id]
         v     == validators[prevS]
     IN  \/ /\ v = NoVal
            /\ UNCHANGED <<validators, idMap>>
         \/ /\ v # NoVal
            /\ FreshSigners => newS \notin HeldByOthers(id)
            /\ \E ok1, ok2 \in Outcomes :
                 LET st == RotatedStore(<<validators, idMap>>, v, prevS, newS,
                                        ok1, ok2)
                 IN  validators' = st[1] /\ idMap' = st[2]
  /\ ops' = ops + 1
  /\ UNCHANGED stake

Next ==
  \/ \E id \in IDs, s \in Signers, p \in Powers \ {0} : Join(id, s, p)
  \/ \E id \in IDs, p \in Powers : UpdatePower(id, p)
  \/ \E id \in IDs, e \in Epochs : AddDeactivationEpoch(id, e)
  \/ \E id \in IDs, s \in Signers : UpdateSigner(id, s)

Spec == Init /\ [][Next]_vars

-----------------------------------------------------------------------------
TypeOK ==
  /\ validators \in [Signers -> Validator \cup {NoVal}]
  /\ idMap \in [IDs -> Signers \cup {NoSigner}]
  /\ stake \in [IDs -> Powers]
  /\ ops \in 0 .. MaxOps

(* The signers holding a record of validator id.                          *)
RecordsOf(id) == {s \in Signers : validators[s] # NoVal /\ validators[s].id = id}

(* Power follows the index: the signer the ID map resolves holds a record *)
(* of that ID with the power the handlers gave it, and every other record *)
(* of the ID (one retired by a signer rotation) has power 0, whatever     *)
(* sequence of joins, power updates, deactivations and rotations ran      *)
(* (spec 3: an ID maps to one current signer; 4.7: rotation keeps power). *)
PowerFollowsIndex ==
  \A id \in IDs :
     idMap[id] # NoSigner =>
       /\ idMap[id] \in RecordsOf(id)
       /\ validators[idMap[id]].power = stake[id]
       /\ \A s \in RecordsOf(id) \ {idMap[id]} : validators[s].power = 0

-----------------------------------------------------------------------------
(* The registry the store stands for: an ID's signer is the one the ID     *)
(* map holds, and its power and end epoch are those of the record under   *)
(* that signer.                                                           *)
RecordOfID(id) == validators[idMap[id]]

MappedPower ==
  [id \in IDs |-> IF idMap[id] = NoSigner \/ RecordOfID(id) = NoVal
                   THEN 0 ELSE RecordOfID(id).power]

MappedEnd ==
  [id \in IDs |-> IF idMap[id] = NoSigner \/ RecordOfID(id) = NoVal
                   THEN 0 ELSE RecordOfID(id).endEpoch]

Registry == INSTANCE ValidatorRegistry
              WITH signerOf <- idMap, powerOf <- MappedPower, endOf <- MappedEnd

(* The store implements the registry: every keeper call, the two writes of *)
(* UpdateSigner included, is one registry step (join, power change,        *)
(* deactivation or atomic rotation keeping the power) or changes nothing   *)
(* the registry shows (spec 8: rotation as one atomic operation).          *)
ImplementsRegistry == Registry!Spec
====
