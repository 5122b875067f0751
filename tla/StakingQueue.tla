---------------------------- MODULE StakingQueue ----------------------------
(***************************************************************************)
(* The per-root staking queue of staking/keep_sync.go.                     *)
(*                                                                         *)
(* Each source chain (rootID) has one ordered list of staking records,     *)
(* stored as one blob under getStakingQueueKey(rootID).  Detected staking  *)
(* events are enqueued by a caller that first looks the record up          *)
(* (findStakingRecordFromQueue) and then appends it                        *)
(* (AddStakingRecordToQueue); the applier takes the head                   *)
(* (GetNextStakingRecordFromQueue), applies it, and removes it by          *)
(* validator ID and nonce (removeStakingRecordFromQueue).  Keeper calls    *)
(* run inside transactions of the state machine, one at a time; a panic    *)
(* reverts every write of its transaction.                                 *)
(*                                                                         *)
(* A blob is Absent, or the sequence of records it encodes.  The empty     *)
(* sequence stands for an empty list written back by a removal: its        *)
(* encoding has no bytes, which the codec refuses to decode; a store that  *)
(* refuses nil values panics on that write instead (NilWritePanics).       *)
(***************************************************************************)
EXTENDS Naturals, Sequences, FiniteSets

CONSTANTS
  Roots,             \* source-chain identifiers (rootID bytes)
  ValidatorIDs,      \* validator IDs of staking records
  Nonces,            \* nonces of staking records
  TxHashes,          \* transaction hashes of staking records
  MaxEnqueues,       \* bound on enqueue calls per root
  ArbitraryRemoval,  \* TRUE: a handler may remove any record, not only the head
  NilWritePanics,    \* TRUE: the store panics on the nil encoding of an empty list
  Absent             \* no blob under the queue key

Records == [validatorID : ValidatorIDs, nonce : Nonces, txHash : TxHashes]

ASSUME MaxEnqueuesAssumption == MaxEnqueues \in Nat
ASSUME ArbitraryRemovalAssumption == ArbitraryRemoval \in BOOLEAN
ASSUME NilWritePanicsAssumption == NilWritePanics \in BOOLEAN
ASSUME AbsentAssumption == Absent \notin Seq(Records)

VARIABLES
  stored,    \* stored[r]: the blob under getStakingQueueKey(r)
  accepted,  \* ghost: accepted[r] = records AddStakingRecordToQueue appended, in order
  applied,   \* ghost: applied[r] = records the applier applied, in order
  detected,  \* ghost: detected[r] = records handed to the enqueue caller
  enqueues   \* enqueue calls so far per root

vars == <<stored, accepted, applied, detected, enqueues>>

-----------------------------------------------------------------------------
(* store.Has(key) followed by UnmarshalBinaryBare: whether the decode      *)
(* fails, and the list it yields (an absent key yields the empty list).    *)
DecodeFails(b) == b = <<>>
Decoded(b) == IF b = Absent THEN <<>> ELSE b

(* Mutant: only the head of the list is compared.                         *)
FindHeadOnly(b, rec) ==
  ~DecodeFails(b) /\ Decoded(b) # <<>> /\ Decoded(b)[1] = rec

(* findStakingRecordFromQueue (lines 63-84): a record with the same       *)
(* validator ID, nonce and tx hash is in the list; false on a decode error.*)
findStakingRecordFromQueue(b, rec) ==
  /\ ~DecodeFails(b)
  /\ \E i \in DOMAIN Decoded(b) :
       /\ Decoded(b)[i].validatorID = rec.validatorID
       /\ Decoded(b)[i].nonce = rec.nonce
       /\ Decoded(b)[i].txHash = rec.txHash

(* The index of the first record with validator ID v and nonce n, or 0.   *)
FirstMatch(s, v, n) ==
  IF \E i \in DOMAIN s : s[i].validatorID = v /\ s[i].nonce = n
    THEN CHOOSE i \in DOMAIN s :
           /\ s[i].validatorID = v /\ s[i].nonce = n
           /\ \A j \in 1 .. i - 1 : ~(s[j].validatorID = v /\ s[j].nonce = n)
    ELSE 0

(* Mutant: the matched record is kept (records[index:]).                  *)
RemoveKeepsMatch(s, i) == SubSeq(s, i, Len(s))

(* Lines 101-103: the list after the match, records[index+1:], which also *)
(* drops every record before the match.                                   *)
RemoveTail(s, i) == SubSeq(s, i + 1, Len(s))

-----------------------------------------------------------------------------
Init ==
  /\ stored = [r \in Roots |-> Absent]
  /\ accepted = [r \in Roots |-> <<>>]
  /\ applied = [r \in Roots |-> <<>>]
  /\ detected = [r \in Roots |-> {}]
  /\ enqueues = [r \in Roots |-> 0]

(* A detected staking record is enqueued: the caller skips it when        *)
(* findStakingRecordFromQueue finds it (spec 4.6), else calls             *)
(* AddStakingRecordToQueue (lines 24-43), which returns without writing   *)
(* when the stored list does not decode.                                  *)
Enqueue(r, rec) ==
  /\ enqueues[r] < MaxEnqueues
  /\ enqueues' = [enqueues EXCEPT ![r] = @ + 1]
  /\ detected' = [detected EXCEPT ![r] = @ \cup {rec}]
  /\ IF findStakingRecordFromQueue(stored[r], rec) \/ DecodeFails(stored[r])
       THEN UNCHANGED <<stored, accepted>>
       ELSE /\ stored' = [stored EXCEPT ![r] = Append(Decoded(@), rec)]
            /\ accepted' = [accepted EXCEPT ![r] = Append(@, rec)]
  /\ UNCHANGED applied

(* removeStakingRecordFromQueue (lines 87-113) on list s: the blob it    *)
(* leaves; no match leaves the list alone.                                *)
removeStakingRecordFromQueue(s, v, n) ==
  IF FirstMatch(s, v, n) = 0 THEN s ELSE RemoveTail(s, FirstMatch(s, v, n))

(* Line 109 writes the empty encoding of an empty list: with a store that *)
(* refuses nil values this panics and the transaction is reverted.        *)
RemovePanics(s, v, n) ==
  /\ NilWritePanics
  /\ FirstMatch(s, v, n) # 0
  /\ removeStakingRecordFromQueue(s, v, n) = <<>>

(* The applier: GetNextStakingRecordFromQueue (lines 46-60) returns the   *)
(* head of a stored, decodable list; the record is applied and removed by *)
(* its validator ID and nonce in the same transaction.                    *)
ApplyNext(r) ==
  /\ stored[r] # Absent
  /\ ~DecodeFails(stored[r])
  /\ LET rec == Head(stored[r]) IN
     /\ ~RemovePanics(stored[r], rec.validatorID, rec.nonce)
     /\ stored' = [stored EXCEPT ![r] =
          removeStakingRecordFromQueue(@, rec.validatorID, rec.nonce)]
     /\ applied' = [applied EXCEPT ![r] = Append(@, rec)]
  /\ UNCHANGED <<accepted, detected, enqueues>>

(* A handler that applied the record (v, n) removes it, whatever its      *)
(* place in the list.                                                     *)
RemoveRecord(r, v, n) ==
  /\ ArbitraryRemoval
  /\ stored[r] # Absent
  /\ ~DecodeFails(stored[r])
  /\ FirstMatch(stored[r], v, n) # 0
  /\ ~RemovePanics(stored[r], v, n)
  /\ stored' = [stored EXCEPT ![r] = removeStakingRecordFromQueue(@, v, n)]
  /\ applied' = [applied EXCEPT ![r] =
       Append(@, stored[r][FirstMatch(stored[r], v, n)])]
  /\ UNCHANGED <<accepted, detected, enqueues>>

Next ==
  \/ \E r \in Roots, rec \in Records : Enqueue(r, rec)
  \/ \E r \in Roots : ApplyNext(r)
  \/ \E r \in Roots, v \in ValidatorIDs, n \in Nonces : RemoveRecord(r, v, n)

(* The applier runs whenever the queue has a head it can read.             *)
Spec == Init /\ [][Next]_vars /\ \A r \in Roots : WF_vars(ApplyNext(r))

-----------------------------------------------------------------------------
TypeOK ==
  /\ stored \in [Roots -> Seq(Records) \cup {Absent}]
  /\ accepted \in [Roots -> Seq(Records)]
  /\ applied \in [Roots -> Seq(Records)]
  /\ detected \in [Roots -> SUBSET Records]
  /\ enqueues \in [Roots -> 0 .. MaxEnqueues]

(* Dedup (spec 3): no two records of a root's list share validator ID,    *)
(* nonce and tx hash, however enqueues and removals interleave.           *)
NoDuplicateTriple ==
  \A r \in Roots : \A i, j \in DOMAIN Decoded(stored[r]) :
     Decoded(stored[r])[i] = Decoded(stored[r])[j] => i = j

(* No record lost or applied twice: what was applied, followed by what is *)
(* still stored, is exactly what was appended, in the same order (spec    *)
(* 4.6: removal drops exactly the matched record).                        *)
Conservation ==
  \A r \in Roots : applied[r] \o Decoded(stored[r]) = accepted[r]

-----------------------------------------------------------------------------
(* The FIFO the stored lists stand for: a root's queue is its decoded     *)
(* list, and the records taken are the ones applied.                      *)
Fifo == INSTANCE StakingFifo
          WITH queue <- [r \in Roots |-> Decoded(stored[r])], done <- applied

(* The queue with the head-taking applier implements the FIFO: every      *)
(* enqueue that writes puts a record not yet waiting at the end, every    *)
(* apply takes exactly the first record, and a skipped or refused enqueue *)
(* changes nothing the FIFO shows (spec 4.6).                              *)
ImplementsFifo == Fifo!Spec

(* Every detected staking record is eventually applied to the validator   *)
(* set (spec 3: a record is removed after successful application).        *)
EveryDetectedApplied ==
  \A r \in Roots, rec \in Records :
     (rec \in detected[r]) ~> (\E i \in DOMAIN applied[r] : applied[r][i] = rec)
====
