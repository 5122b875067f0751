---------------------------- MODULE StakingFifo ----------------------------
(***************************************************************************)
(* What the staking queue promises (spec 3 and 4.6), with no storage keys *)
(* and no encoding: each source chain has a first-in first-out queue of   *)
(* staking records that holds a record at most once; a record is put at   *)
(* the end, and the record taken for application is the first one.        *)
(***************************************************************************)
EXTENDS Sequences

CONSTANTS Roots, Records

VARIABLES
  queue,  \* queue[r]: the records waiting for root r, oldest first
  done    \* done[r]: the records taken from root r's queue, in order

fifoVars == <<queue, done>>

Init ==
  /\ queue = [r \in Roots |-> <<>>]
  /\ done = [r \in Roots |-> <<>>]

(* A record that is not waiting yet joins the end of the queue.           *)
Put(r, rec) ==
  /\ \A i \in DOMAIN queue[r] : queue[r][i] # rec
  /\ queue' = [queue EXCEPT ![r] = Append(@, rec)]
  /\ UNCHANGED done

(* The first record of a queue is taken.                                  *)
Take(r) ==
  /\ queue[r] # <<>>
  /\ queue' = [queue EXCEPT ![r] = Tail(@)]
  /\ done' = [done EXCEPT ![r] = Append(@, Head(queue[r]))]

Next ==
  \/ \E r \in Roots, rec \in Records : Put(r, rec)
  \/ \E r \in Roots : Take(r)

Spec == Init /\ [][Next]_fifoVars
====
