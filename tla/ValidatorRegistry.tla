------------------------- MODULE ValidatorRegistry -------------------------
(***************************************************************************)
(* What the validator store promises (spec 3 and 4.7), with no storage    *)
(* keys: each validator ID has at most one signer, a power and an end     *)
(* epoch; no two IDs share a signer; a signer rotation is one atomic step *)
(* that changes the signer and keeps the power and the end epoch.         *)
(***************************************************************************)
EXTENDS Naturals

CONSTANTS IDs, Signers, MaxPower, MaxEpoch, NoSigner

Powers == 0 .. MaxPower
Epochs == 0 .. MaxEpoch

VARIABLES
  signerOf,  \* signerOf[id]: the signer of id, or NoSigner if id never joined
  powerOf,   \* powerOf[id]: the power of id
  endOf      \* endOf[id]: the end epoch of id (0 = none)

regVars == <<signerOf, powerOf, endOf>>

(* The signers of the IDs other than id.                                  *)
SignersOfOthers(id) ==
  {signerOf[j] : j \in {k \in IDs \ {id} : signerOf[k] # NoSigner}}

Init ==
  /\ signerOf = [id \in IDs |-> NoSigner]
  /\ powerOf = [id \in IDs |-> 0]
  /\ endOf = [id \in IDs |-> 0]

(* A new ID joins with an unused signer.                                  *)
Register(id, s, p) ==
  /\ signerOf[id] = NoSigner
  /\ s \notin SignersOfOthers(id)
  /\ signerOf' = [signerOf EXCEPT ![id] = s]
  /\ powerOf' = [powerOf EXCEPT ![id] = p]
  /\ endOf' = [endOf EXCEPT ![id] = 0]

(* A registered ID gets a new power.                                      *)
SetPower(id, p) ==
  /\ signerOf[id] # NoSigner
  /\ powerOf' = [powerOf EXCEPT ![id] = p]
  /\ UNCHANGED <<signerOf, endOf>>

(* A registered ID gets an end epoch.                                     *)
Deactivate(id, e) ==
  /\ signerOf[id] # NoSigner
  /\ e # 0
  /\ endOf' = [endOf EXCEPT ![id] = e]
  /\ UNCHANGED <<signerOf, powerOf>>

(* A registered ID moves to a signer no other ID holds; power and end     *)
(* epoch move with it.                                                    *)
Rotate(id, s) ==
  /\ signerOf[id] # NoSigner
  /\ s \notin SignersOfOthers(id)
  /\ signerOf' = [signerOf EXCEPT ![id] = s]
  /\ UNCHANGED <<powerOf, endOf>>

Next ==
  \/ \E id \in IDs, s \in Signers, p \in Powers \ {0} : Register(id, s, p)
  \/ \E id \in IDs, p \in Powers : SetPower(id, p)
  \/ \E id \in IDs, e \in Epochs : Deactivate(id, e)
  \/ \E id \in IDs, s \in Signers : Rotate(id, s)

Spec == Init /\ [][Next]_regVars
====
