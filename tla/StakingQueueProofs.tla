------------------------- MODULE StakingQueueProofs -------------------------
(***************************************************************************)
(* Proofs about StakingQueue, for every set of roots, validator IDs,       *)
(* nonces and tx hashes and every bound on enqueues.                        *)
(***************************************************************************)
EXTENDS StakingQueue, SequenceTheorems, WellFoundedInduction, TLAPS

USE MaxEnqueuesAssumption, ArbitraryRemovalAssumption,
    NilWritePanicsAssumption, AbsentAssumption

-----------------------------------------------------------------------------
(* Lemmas on the sequence operators the queue is built from.              *)

(* Appending to the second part of a concatenation appends to the whole.  *)
LEMMA ConcatAppend ==
  ASSUME NEW S, NEW s \in Seq(S), NEW t \in Seq(S), NEW e \in S
  PROVE  s \o Append(t, e) = Append(s \o t, e)
<1>1. Append(t, e) = t \o <<e>>
  BY AppendIsConcat
<1>2. Append(s \o t, e) = (s \o t) \o <<e>>
  BY ConcatProperties, AppendIsConcat
<1>3. <<e>> \in Seq(S)
  OBVIOUS
<1> QED
  BY <1>1, <1>2, <1>3, ConcatAssociative

(* Moving the head of t to the end of s leaves the concatenation alone.   *)
LEMMA ConcatHeadTail ==
  ASSUME NEW S, NEW s \in Seq(S), NEW t \in Seq(S), t # <<>>
  PROVE  Append(s, Head(t)) \o Tail(t) = s \o t
<1>1. Head(t) \in S /\ Tail(t) \in Seq(S)
  BY HeadTailProperties
<1>2. <<Head(t)>> \o Tail(t) = t
  <2>1. Len(t) \in 1 .. Len(t)
    BY EmptySeq
  <2>2. SubSeq(t, 1, Len(t)) = <<t[1]>> \o SubSeq(t, 2, Len(t))
    BY <2>1, SubSeqRecursiveFirst
  <2>3. SubSeq(t, 1, Len(t)) = t
    BY SubSeqFull
  <2>4. Tail(t) = SubSeq(t, 2, Len(t))
    BY TailIsSubSeq
  <2> QED
    BY <2>2, <2>3, <2>4
<1>3. Append(s, Head(t)) = s \o <<Head(t)>>
  BY <1>1, AppendIsConcat
<1>4. (s \o <<Head(t)>>) \o Tail(t) = s \o (<<Head(t)>> \o Tail(t))
  BY <1>1, ConcatAssociative
<1> QED
  BY <1>2, <1>3, <1>4

(* The head of a list is the first record with its own validator ID and  *)
(* nonce, so the applier's removal by key matches index 1.                *)
LEMMA HeadMatchFirst ==
  ASSUME NEW s \in Seq(Records), s # <<>>
  PROVE  FirstMatch(s, s[1].validatorID, s[1].nonce) = 1
<1> DEFINE v == s[1].validatorID
           n == s[1].nonce
           P(i) == /\ s[i].validatorID = v /\ s[i].nonce = n
                   /\ \A j \in 1 .. i - 1 : ~(s[j].validatorID = v /\ s[j].nonce = n)
<1>1. 1 \in DOMAIN s /\ P(1)
  BY EmptySeq
<1>2. \A i \in DOMAIN s : P(i) => i = 1
  BY EmptySeq
<1>3. (CHOOSE i \in DOMAIN s : P(i)) = 1
  BY <1>1, <1>2
<1>4. \E i \in DOMAIN s : s[i].validatorID = v /\ s[i].nonce = n
  BY <1>1
<1> QED
  BY <1>3, <1>4 DEF FirstMatch

(* The decoded list of a stored blob is a list of records.                *)
LEMMA DecodedType ==
  ASSUME NEW b \in Seq(Records) \cup {Absent}
  PROVE  Decoded(b) \in Seq(Records)
BY DEF Decoded

(* Removing the head by its key leaves the tail.                          *)
LEMMA RemoveHead ==
  ASSUME NEW s \in Seq(Records), s # <<>>
  PROVE  removeStakingRecordFromQueue(s, Head(s).validatorID, Head(s).nonce)
           = Tail(s)
<1>1. FirstMatch(s, Head(s).validatorID, Head(s).nonce) = 1
  BY HeadMatchFirst
<1>2. SubSeq(s, 2, Len(s)) = Tail(s)
  BY TailIsSubSeq
<1> QED
  BY <1>1, <1>2 DEF removeStakingRecordFromQueue, RemoveTail

(* A list in which no record occurs twice.                                *)
Distinct(s) == \A i, j \in DOMAIN s : s[i] = s[j] => i = j

(* When some record of s has validator ID v and nonce n, FirstMatch picks *)
(* one of them, and no earlier record has that key: the least matching   *)
(* index exists because < is well founded on Nat.                         *)
LEMMA FirstMatchFound ==
  ASSUME NEW s \in Seq(Records), NEW v, NEW n,
         \E i \in DOMAIN s : s[i].validatorID = v /\ s[i].nonce = n
  PROVE  /\ FirstMatch(s, v, n) \in 1 .. Len(s)
         /\ s[FirstMatch(s, v, n)].validatorID = v
         /\ s[FirstMatch(s, v, n)].nonce = n
<1> DEFINE M(i) == s[i].validatorID = v /\ s[i].nonce = n
           T == {i \in DOMAIN s : M(i)}
           Lt == OpToRel(<, Nat)
<1>1. DOMAIN s = 1 .. Len(s) /\ Len(s) \in Nat
  BY LenProperties
<1>2. T \subseteq Nat /\ T # {}
  BY <1>1
<1>3. \E x \in T : \A y \in T : ~(<<y, x>> \in Lt)
  <2>1. IsWellFoundedOn(Lt, Nat)
    BY NatLessThanWellFounded
  <2> QED
    BY <1>2, <2>1, WFMin
<1>4. \E x \in DOMAIN s : M(x) /\ \A j \in 1 .. x - 1 : ~M(j)
  <2>1. PICK x \in T : \A y \in T : ~(<<y, x>> \in Lt)
    BY <1>3
  <2>2. \A j \in 1 .. x - 1 : ~M(j)
    <3> SUFFICES ASSUME NEW j \in 1 .. x - 1, M(j) PROVE FALSE
      OBVIOUS
    <3>1. x \in 1 .. Len(s) /\ j \in T
      BY <1>1 DEF T
    <3>2. <<j, x>> \in Lt
      BY <3>1 DEF Lt, OpToRel
    <3> QED
      BY <2>1, <3>1, <3>2
  <2> QED
    BY <2>1, <2>2
<1> QED
  BY <1>1, <1>4 DEF FirstMatch

(* Removal by a key that some record has leaves a list of records, which *)
(* repeats no record if the list did not.                                  *)
LEMMA RemoveByKey ==
  ASSUME NEW s \in Seq(Records), NEW v, NEW n,
         \E i \in DOMAIN s : s[i].validatorID = v /\ s[i].nonce = n
  PROVE  /\ FirstMatch(s, v, n) \in 1 .. Len(s)
         /\ removeStakingRecordFromQueue(s, v, n) \in Seq(Records)
         /\ Decoded(removeStakingRecordFromQueue(s, v, n))
              = removeStakingRecordFromQueue(s, v, n)
         /\ Distinct(s) => Distinct(removeStakingRecordFromQueue(s, v, n))
<1> DEFINE k == FirstMatch(s, v, n)
           t == SubSeq(s, k + 1, Len(s))
<1>1. k \in 1 .. Len(s)
  BY FirstMatchFound
<1>2. removeStakingRecordFromQueue(s, v, n) = t
  BY <1>1 DEF removeStakingRecordFromQueue, RemoveTail
<1>3. /\ t \in Seq(Records)
      /\ Len(t) = Len(s) - k
      /\ \A i \in 1 .. Len(s) - k : t[i] = s[k + i]
  <2>1. \A i \in k + 1 .. Len(s) : s[i] \in Records
    BY <1>1, ElementOfSeq
  <2> QED
    BY <1>1, <2>1, SubSeqProperties
<1>4. Distinct(s) => Distinct(t)
  <2> SUFFICES ASSUME Distinct(s), NEW i \in DOMAIN t, NEW j \in DOMAIN t,
                      t[i] = t[j]
               PROVE  i = j
    BY DEF Distinct
  <2>1. i \in 1 .. Len(s) - k /\ j \in 1 .. Len(s) - k
    BY <1>3, LenProperties
  <2>2. s[k + i] = s[k + j] /\ k + i \in DOMAIN s /\ k + j \in DOMAIN s
    <3>1. DOMAIN s = 1 .. Len(s) /\ Len(s) \in Nat
      BY LenProperties
    <3>2. s[k + i] = s[k + j]
      BY <1>3, <2>1
    <3> QED
      BY <1>1, <2>1, <3>1, <3>2
  <2> QED
    BY <2>1, <2>2, <1>1 DEF Distinct
<1> QED
  BY <1>1, <1>2, <1>3, <1>4, AbsentAssumption DEF Decoded
-----------------------------------------------------------------------------
(***************************************************************************)
(* Any removal.  The dedup property holds whichever record a handler      *)
(* removes: the inductive invariant is the type invariant together with   *)
(* NoDuplicateTriple itself.                                              *)
(***************************************************************************)
QueueInv == TypeOK /\ NoDuplicateTriple

(* What an Enqueue step does to root r's list when it writes.             *)
LEMMA EnqueueWrites ==
  ASSUME TypeOK, NEW r \in Roots, NEW rec \in Records, Enqueue(r, rec),
         ~findStakingRecordFromQueue(stored[r], rec), ~DecodeFails(stored[r])
  PROVE  /\ stored' = [stored EXCEPT ![r] = Append(Decoded(stored[r]), rec)]
         /\ accepted' = [accepted EXCEPT ![r] = Append(accepted[r], rec)]
         /\ applied' = applied
         /\ \A i \in DOMAIN Decoded(stored[r]) : Decoded(stored[r])[i] # rec
<1>1. Decoded(stored[r]) \in Seq(Records)
  BY DecodedType DEF TypeOK
<1>2. \A i \in DOMAIN Decoded(stored[r]) : Decoded(stored[r])[i] # rec
  BY <1>1 DEF findStakingRecordFromQueue
<1> QED
  BY <1>2 DEF Enqueue, TypeOK

(* A step that replaces root r's stored list by a list t of records that  *)
(* repeats nothing, and appends a record to applied[r], keeps QueueInv.   *)
LEMMA ReplaceList ==
  ASSUME QueueInv, NEW r \in Roots, NEW t \in Seq(Records), Distinct(t),
         NEW a \in Records,
         stored' = [stored EXCEPT ![r] = t],
         applied' = [applied EXCEPT ![r] = Append(applied[r], a)],
         UNCHANGED <<accepted, detected, enqueues>>
  PROVE  QueueInv'
<1>1. Decoded(t) = t
  BY AbsentAssumption DEF Decoded
<1>2. TypeOK'
  BY DEF QueueInv, TypeOK
<1>3. ASSUME NEW q \in Roots
      PROVE  \A i, j \in DOMAIN Decoded(stored'[q]) :
                Decoded(stored'[q])[i] = Decoded(stored'[q])[j] => i = j
  <2>1. CASE q = r
    <3>1. Decoded(stored'[q]) = t
      BY <1>1, <2>1 DEF QueueInv, TypeOK
    <3> QED
      BY <3>1 DEF Distinct
  <2>2. CASE q # r
    BY <2>2 DEF QueueInv, TypeOK, NoDuplicateTriple
  <2> QED
    BY <2>1, <2>2
<1> QED
  BY <1>2, <1>3 DEF QueueInv, NoDuplicateTriple

(* Every step of the enqueueing caller, the applier and a handler that    *)
(* removes any record keeps QueueInv.                                      *)
LEMMA QueueStep ==
  ASSUME QueueInv, [Next]_vars
  PROVE  QueueInv'
<1> USE DEF QueueInv
<1>1. ASSUME NEW r \in Roots, NEW rec \in Records, Enqueue(r, rec)
      PROVE  QueueInv'
  <2>1. CASE findStakingRecordFromQueue(stored[r], rec) \/ DecodeFails(stored[r])
    <3>1. UNCHANGED <<stored, accepted, applied>>
          /\ enqueues' = [enqueues EXCEPT ![r] = @ + 1]
          /\ detected' = [detected EXCEPT ![r] = @ \cup {rec}]
      BY <1>1, <2>1 DEF Enqueue
    <3>2. TypeOK'
      BY <1>1, <3>1 DEF Enqueue, TypeOK
    <3> QED
      BY <3>1, <3>2 DEF NoDuplicateTriple
  <2>2. CASE ~findStakingRecordFromQueue(stored[r], rec) /\ ~DecodeFails(stored[r])
    <3> DEFINE d == Decoded(stored[r])
    <3> USE DEF d
    <3>1. /\ stored' = [stored EXCEPT ![r] = Append(d, rec)]
          /\ accepted' = [accepted EXCEPT ![r] = Append(accepted[r], rec)]
          /\ applied' = applied
          /\ \A i \in DOMAIN d : d[i] # rec
      BY <1>1, <2>2, EnqueueWrites
    <3>2. d \in Seq(Records)
      BY DecodedType DEF TypeOK
    <3>3. Append(d, rec) \in Seq(Records) /\ Decoded(Append(d, rec)) = Append(d, rec)
      <4>1. Append(d, rec) \in Seq(Records)
        BY <3>2, AppendProperties
      <4>2. Append(d, rec) # Absent
        BY <4>1, AbsentAssumption
      <4> QED
        BY <4>1, <4>2 DEF Decoded
    <3>4. TypeOK'
      BY <1>1, <3>1, <3>3 DEF Enqueue, TypeOK
    <3>5. Distinct(Append(d, rec))
      <4>1. Distinct(d)
        BY DEF NoDuplicateTriple, Distinct
      <4> QED
        BY <3>1, <3>2, <4>1, AppendProperties DEF Distinct
    <3>6. ASSUME NEW q \in Roots
          PROVE  \A i, j \in DOMAIN Decoded(stored'[q]) :
                    Decoded(stored'[q])[i] = Decoded(stored'[q])[j] => i = j
      <4>1. CASE q = r
        <5>1. stored'[q] = Append(d, rec)
          BY <3>1, <4>1 DEF TypeOK
        <5>2. Decoded(stored'[q]) = Append(d, rec)
          BY <3>3, <5>1
        <5> QED
          BY <3>5, <5>2 DEF Distinct
      <4>2. CASE q # r
        BY <3>1, <4>2 DEF TypeOK, NoDuplicateTriple
      <4> QED
        BY <4>1, <4>2
    <3> QED
      BY <3>4, <3>6 DEF NoDuplicateTriple
  <2> QED
    BY <2>1, <2>2
<1>2. ASSUME NEW r \in Roots, ApplyNext(r)
      PROVE  QueueInv'
  <2> DEFINE s == stored[r]
             t == removeStakingRecordFromQueue(s, Head(s).validatorID, Head(s).nonce)
  <2> USE DEF s
  <2>1. s \in Seq(Records) /\ s # <<>> /\ Decoded(s) = s
    BY <1>2, AbsentAssumption DEF ApplyNext, TypeOK, DecodeFails, Decoded
  <2>2. \E i \in DOMAIN s : s[i].validatorID = Head(s).validatorID
                            /\ s[i].nonce = Head(s).nonce
    BY <2>1, EmptySeq
  <2>3. t \in Seq(Records) /\ Distinct(t)
    <3>1. Distinct(s)
      BY <2>1 DEF NoDuplicateTriple, Distinct
    <3> QED
      BY <2>1, <2>2, <3>1, RemoveByKey
  <2>4. Head(s) \in Records
    BY <2>1, HeadTailProperties
  <2>5. /\ stored' = [stored EXCEPT ![r] = t]
        /\ applied' = [applied EXCEPT ![r] = Append(applied[r], Head(s))]
        /\ UNCHANGED <<accepted, detected, enqueues>>
    BY <1>2 DEF ApplyNext
  <2> QED
    BY <2>3, <2>4, <2>5, ReplaceList
<1>3. ASSUME NEW r \in Roots, NEW v \in ValidatorIDs, NEW n \in Nonces,
             RemoveRecord(r, v, n)
      PROVE  QueueInv'
  <2> DEFINE s == stored[r]
             t == removeStakingRecordFromQueue(s, v, n)
  <2> USE DEF s
  <2>1. s \in Seq(Records) /\ Decoded(s) = s
    BY <1>3, AbsentAssumption DEF RemoveRecord, TypeOK, Decoded
  <2>2. \E i \in DOMAIN s : s[i].validatorID = v /\ s[i].nonce = n
    BY <1>3 DEF RemoveRecord, FirstMatch
  <2>3. t \in Seq(Records) /\ Distinct(t) /\ FirstMatch(s, v, n) \in 1 .. Len(s)
    <3>1. Distinct(s)
      BY <2>1 DEF NoDuplicateTriple, Distinct
    <3> QED
      BY <2>1, <2>2, <3>1, RemoveByKey
  <2>4. s[FirstMatch(s, v, n)] \in Records
    BY <2>1, <2>3, ElementOfSeq
  <2>5. /\ stored' = [stored EXCEPT ![r] = t]
        /\ applied' = [applied EXCEPT ![r] = Append(applied[r], s[FirstMatch(s, v, n)])]
        /\ UNCHANGED <<accepted, detected, enqueues>>
    BY <1>3 DEF RemoveRecord
  <2> QED
    BY <2>3, <2>4, <2>5, ReplaceList
<1>4. CASE UNCHANGED vars
  BY <1>4 DEF vars, TypeOK, NoDuplicateTriple
<1> QED
  BY <1>1, <1>2, <1>3, <1>4 DEF Next

(* The initial state satisfies QueueInv.                                   *)
LEMMA QueueInit == Init => QueueInv
BY AbsentAssumption DEF Init, QueueInv, TypeOK, NoDuplicateTriple, Decoded

(* For every set of roots and records, and whichever record a handler     *)
(* removes by validator ID and nonce, the dedup check of the enqueueing   *)
(* caller (findStakingRecordFromQueue before AddStakingRecordToQueue)     *)
(* keeps every (validator ID, nonce, tx hash) triple at most once in a    *)
(* root's stored list.                                                     *)
THEOREM NoDuplicateTripleTheorem == Spec => []NoDuplicateTriple
<1>1. QueueInv /\ [Next]_vars => QueueInv'
  BY QueueStep
<1> QED
  BY <1>1, QueueInit, PTL DEF Spec, QueueInv
-----------------------------------------------------------------------------
(***************************************************************************)
(* The head-taking applier.  With ArbitraryRemoval FALSE the only removal *)
(* is the applier's, which removes the head by its own key, so the list   *)
(* loses exactly its head and Conservation is inductive given QueueInv.   *)
(***************************************************************************)
LEMMA ConservationStep ==
  ASSUME ~ArbitraryRemoval, QueueInv, Conservation, [Next]_vars
  PROVE  Conservation'
<1>1. ASSUME NEW r \in Roots, NEW rec \in Records, Enqueue(r, rec)
      PROVE  Conservation'
  <2>1. CASE findStakingRecordFromQueue(stored[r], rec) \/ DecodeFails(stored[r])
    <3>1. UNCHANGED <<stored, accepted, applied>>
      BY <1>1, <2>1 DEF Enqueue
    <3> QED
      BY <3>1 DEF Conservation
  <2>2. CASE ~findStakingRecordFromQueue(stored[r], rec) /\ ~DecodeFails(stored[r])
    <3> DEFINE d == Decoded(stored[r])
    <3> USE DEF d
    <3>1. /\ stored' = [stored EXCEPT ![r] = Append(d, rec)]
          /\ accepted' = [accepted EXCEPT ![r] = Append(accepted[r], rec)]
          /\ applied' = applied
      BY <1>1, <2>2, EnqueueWrites DEF QueueInv
    <3>2. d \in Seq(Records)
      BY DecodedType DEF QueueInv, TypeOK
    <3>3. Decoded(Append(d, rec)) = Append(d, rec)
      <4>1. Append(d, rec) \in Seq(Records)
        BY <3>2, AppendProperties
      <4> QED
        BY <4>1, AbsentAssumption DEF Decoded
    <3>4. applied[r] \o Append(d, rec) = Append(applied[r] \o d, rec)
      BY <3>2, ConcatAppend DEF QueueInv, TypeOK
    <3>5. applied[r] \o d = accepted[r]
      BY DEF Conservation
    <3> QED
      BY <3>1, <3>3, <3>4, <3>5 DEF Conservation, QueueInv, TypeOK
  <2> QED
    BY <2>1, <2>2
<1>2. ASSUME NEW r \in Roots, ApplyNext(r)
      PROVE  Conservation'
  <2> DEFINE s == stored[r]
  <2> USE DEF s
  <2>1. s \in Seq(Records) /\ s # <<>>
    BY <1>2 DEF ApplyNext, QueueInv, TypeOK, DecodeFails
  <2>2. /\ stored' = [stored EXCEPT ![r] = Tail(s)]
        /\ applied' = [applied EXCEPT ![r] = Append(applied[r], Head(s))]
        /\ accepted' = accepted
    <3>1. removeStakingRecordFromQueue(s, Head(s).validatorID, Head(s).nonce)
            = Tail(s)
      BY <2>1, RemoveHead
    <3> QED
      BY <1>2, <3>1 DEF ApplyNext
  <2>3. Tail(s) \in Seq(Records) /\ Decoded(Tail(s)) = Tail(s) /\ Decoded(s) = s
    BY <2>1, HeadTailProperties, AbsentAssumption DEF Decoded
  <2>4. Append(applied[r], Head(s)) \o Tail(s) = applied[r] \o s
    BY <2>1, ConcatHeadTail DEF QueueInv, TypeOK
  <2> QED
    BY <2>2, <2>3, <2>4 DEF Conservation, QueueInv, TypeOK
<1>3. ASSUME NEW r \in Roots, NEW v \in ValidatorIDs, NEW n \in Nonces,
             RemoveRecord(r, v, n)
      PROVE  FALSE
  BY <1>3 DEF RemoveRecord
<1>4. CASE UNCHANGED vars
  BY <1>4 DEF vars, Conservation
<1> QED
  BY <1>1, <1>2, <1>3, <1>4 DEF Next

(* For every set of roots and records, a head-taking applier neither loses *)
(* a record nor applies one twice: what was applied, followed by what is  *)
(* still queued, is exactly what AddStakingRecordToQueue appended, in     *)
(* order, through every enqueue, drain and decode failure.                 *)
THEOREM ConservationTheorem == ~ArbitraryRemoval => (Spec => []Conservation)
<1> SUFFICES ASSUME ~ArbitraryRemoval PROVE Spec => []Conservation
  OBVIOUS
<1>1. Init => QueueInv /\ Conservation
  BY QueueInit, AbsentAssumption DEF Init, Conservation, Decoded
<1>2. QueueInv /\ Conservation /\ [Next]_vars => (QueueInv /\ Conservation)'
  BY QueueStep, ConservationStep
<1> QED
  BY <1>1, <1>2, PTL DEF Spec
-----------------------------------------------------------------------------
(***************************************************************************)
(* The refinement of the FIFO.  A root's queue is its decoded list and    *)
(* the records taken are the applied ones.                                 *)
(***************************************************************************)
FifoQueue == [q \in Roots |-> Decoded(stored[q])]

(* Every step of the enqueueing caller and of the head-taking applier is  *)
(* a FIFO step or leaves the queues and the taken records alone.           *)
LEMMA FifoStep ==
  ASSUME ~ArbitraryRemoval, QueueInv, [Next]_vars
  PROVE  [Fifo!Next]_Fifo!fifoVars
<1> USE DEF QueueInv
<1>1. ASSUME NEW r \in Roots, NEW rec \in Records, Enqueue(r, rec)
      PROVE  [Fifo!Next]_Fifo!fifoVars
  <2>1. CASE findStakingRecordFromQueue(stored[r], rec) \/ DecodeFails(stored[r])
    <3>1. UNCHANGED <<stored, applied>>
      BY <1>1, <2>1 DEF Enqueue
    <3> QED
      BY <3>1 DEF Fifo!fifoVars
  <2>2. CASE ~findStakingRecordFromQueue(stored[r], rec) /\ ~DecodeFails(stored[r])
    <3> DEFINE d == Decoded(stored[r])
    <3> USE DEF d
    <3>1. /\ stored' = [stored EXCEPT ![r] = Append(d, rec)]
          /\ applied' = applied
          /\ \A i \in DOMAIN d : d[i] # rec
      BY <1>1, <2>2, EnqueueWrites
    <3>2. Decoded(Append(d, rec)) = Append(d, rec)
      <4>1. Append(d, rec) \in Seq(Records)
        BY DecodedType, AppendProperties DEF TypeOK
      <4> QED
        BY <4>1, AbsentAssumption DEF Decoded
    <3>3. FifoQueue' = [FifoQueue EXCEPT ![r] = Append(d, rec)]
      BY <3>1, <3>2 DEF FifoQueue, TypeOK
    <3>4. Fifo!Put(r, rec)
      BY <3>1, <3>3 DEF Fifo!Put, FifoQueue
    <3> QED
      BY <3>4 DEF Fifo!Next
  <2> QED
    BY <2>1, <2>2
<1>2. ASSUME NEW r \in Roots, ApplyNext(r)
      PROVE  [Fifo!Next]_Fifo!fifoVars
  <2> DEFINE s == stored[r]
  <2> USE DEF s
  <2>1. s \in Seq(Records) /\ s # <<>> /\ Decoded(s) = s
    BY <1>2, AbsentAssumption DEF ApplyNext, TypeOK, DecodeFails, Decoded
  <2>2. /\ stored' = [stored EXCEPT ![r] = Tail(s)]
        /\ applied' = [applied EXCEPT ![r] = Append(applied[r], Head(s))]
    <3>1. removeStakingRecordFromQueue(s, Head(s).validatorID, Head(s).nonce)
            = Tail(s)
      BY <2>1, RemoveHead
    <3> QED
      BY <1>2, <3>1 DEF ApplyNext
  <2>3. Decoded(Tail(s)) = Tail(s)
    BY <2>1, HeadTailProperties, AbsentAssumption DEF Decoded
  <2>4. FifoQueue' = [FifoQueue EXCEPT ![r] = Tail(FifoQueue[r])]
    BY <2>1, <2>2, <2>3 DEF FifoQueue, TypeOK
  <2>5. Fifo!Take(r)
    BY <2>1, <2>2, <2>4 DEF Fifo!Take, FifoQueue
  <2> QED
    BY <2>5 DEF Fifo!Next
<1>3. ASSUME NEW r \in Roots, NEW v \in ValidatorIDs, NEW n \in Nonces,
             RemoveRecord(r, v, n)
      PROVE  FALSE
  BY <1>3 DEF RemoveRecord
<1>4. CASE UNCHANGED vars
  BY <1>4 DEF vars, Fifo!fifoVars
<1> QED
  BY <1>1, <1>2, <1>3, <1>4 DEF Next

(* For every set of roots and records, the staking queue with the          *)
(* head-taking applier implements the FIFO of spec 4.6: through every     *)
(* enqueue, skipped duplicate, refused decode and apply, the decoded      *)
(* lists and the applied records behave as a first-in first-out queue     *)
(* holding each record at most once.                                       *)
THEOREM FifoRefinementTheorem == ~ArbitraryRemoval => (Spec => ImplementsFifo)
<1> SUFFICES ASSUME ~ArbitraryRemoval PROVE Spec => Fifo!Spec
  BY DEF ImplementsFifo
<1>1. Init => Fifo!Init
  BY AbsentAssumption DEF Init, Fifo!Init, Decoded
<1>2. QueueInv /\ [Next]_vars => [Fifo!Next]_Fifo!fifoVars
  BY FifoStep
<1>3. QueueInv /\ [Next]_vars => QueueInv'
  BY QueueStep
<1> QED
  BY <1>1, <1>2, <1>3, QueueInit, PTL DEF Spec, Fifo!Spec
====
