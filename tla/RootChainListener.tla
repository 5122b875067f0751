------------------------- MODULE RootChainListener -------------------------
(***************************************************************************)
(* The root-chain listener of bridge/setu/listener/rootchain.go.           *)
(*                                                                         *)
(* Two goroutines share one listener: the head-delivery goroutine          *)
(* (subscription or polling, started by Start) pushes chain heads into     *)
(* HeaderChannel, and the header-process goroutine takes them one at a     *)
(* time and runs ProcessHeader, which computes a confirmed scan range from *)
(* the head and the persisted watermark "rootchain-last-block", writes     *)
(* the watermark, and then queries the logs of the range and sends one     *)
(* task per dispatchable event to the task fabric                          *)
(* (queryAndBroadcastEvents).  The process can crash between any two       *)
(* steps; only the watermark (bridge storage) and the tasks already        *)
(* accepted by the task fabric survive a crash.                            *)
(***************************************************************************)
EXTENDS Naturals, Sequences, FiniteSets

CONSTANTS
  MaxHeight,         \* last block the modelled root chain reaches
  ConfirmationsSet,  \* values chain-manager MainchainTxConfirmations can take
  StartListenBlock,  \* GetStartListenBlock(rootChainType); 0 = not configured
  EventNames,        \* event names defined by the watched contracts, and others
  Logs,              \* Logs[b]: the events the watched contracts emit in block b
  Abis,              \* rl.abis: the ABIs, each given as the event names it defines
  Faults,            \* TRUE: RPC, storage and task-fabric calls may fail
  MaxCrashes,        \* bound on crashes of the listener process
  ChanCap,           \* bound on heads waiting in HeaderChannel
  NoBlock            \* the watermark key is absent from storage

Blocks == 0 .. MaxHeight

(* The events of the switch in queryAndBroadcastEvents (lines 186-201).   *)
DispatchEvents == {"NewHeaderBlock", "StateSynced", "StakeAck"}

ASSUME MaxHeightAssumption == MaxHeight \in Nat
ASSUME ConfirmationsAssumption ==
  ConfirmationsSet \subseteq Nat /\ ConfirmationsSet # {}
ASSUME StartListenBlockAssumption == StartListenBlock \in Nat
ASSUME LogsAssumption == Logs \in [Blocks -> SUBSET EventNames]
ASSUME AbisAssumption == Abis \in Seq(SUBSET EventNames)
ASSUME FaultsAssumption == Faults \in BOOLEAN
ASSUME MaxCrashesAssumption == MaxCrashes \in Nat
ASSUME ChanCapAssumption == ChanCap \in Nat \ {0}
ASSUME NoBlockAssumption == NoBlock \notin Nat

(* Counts of scans and tasks saturate: 2 already means "more than once".  *)
CountCap == 2
Sat(n) == IF n > CountCap THEN CountCap ELSE n

(* The outcomes of a call that can fail.                                  *)
Outcomes == IF Faults THEN BOOLEAN ELSE {TRUE}

VARIABLES
  height,     \* number of the latest block of the root chain
  mode,       \* head delivery: "stopped", "subscribed" or "polling"
  subHead,    \* last head the subscription has pushed
  channel,    \* rl.HeaderChannel: heads waiting for the header process
  watermark,  \* storage value under lastRootBlockKey, or NoBlock
  pc,         \* header process: "idle", or "query" between Put and FilterLogs
  rng,        \* [from, to] handed to queryAndBroadcastEvents
  crashes,    \* number of crashes so far
  claimed,    \* ghost: blocks of every range handed to queryAndBroadcastEvents
  origin,     \* ghost: first block the listener committed to scan
  queried,    \* ghost: queried[b] = successful FilterLogs calls covering b
  tasks       \* tasks[<<b, e>>] = tasks the task fabric accepted for event e of block b

vars == <<height, mode, subHead, channel, watermark, pc, rng, crashes,
          claimed, origin, queried, tasks>>

ScanRanges == [from : Blocks, to : Blocks]

-----------------------------------------------------------------------------
(***************************************************************************)
(* The scan range of ProcessHeader (lines 106-146).                        *)
(***************************************************************************)

(* Mutant: the depth check of line 112 is dropped.                        *)
SkipHeadNoDepth(h, conf, hasW, w) == hasW /\ w >= h - conf

(* Mutant: the watermark is compared with the raw head, as if line 107    *)
(* copied the number instead of aliasing it.                              *)
SkipHeadRaw(h, conf, hasW, w) == h <= conf \/ (hasW /\ w >= h)

(* Lines 112 and 131: the head is not deeper than the confirmations, or   *)
(* the stored watermark is at least the confirmed head.  Line 107 aliases *)
(* newHeader.Number and the in-place Sub of line 116 turns it into        *)
(* h - conf, so line 131 compares with the confirmed head.                *)
SkipHead(h, conf, hasW, w) == h <= conf \/ (hasW /\ w >= h - conf)

(* Mutant: the confirmations are not subtracted from the head.            *)
ToBlockUnconfirmed(h, conf) == h

(* Mutant: off by one below the confirmed head.                           *)
ToBlockShort(h, conf) == h - conf - 1

(* Lines 116 and 142: the confirmed head.                                 *)
ToBlock(h, conf) == h - conf

(* Mutant: the watermark is ignored and only the confirmed head scanned.  *)
FromBlockHeadOnly(h, conf, hasW, w) == ToBlock(h, conf)

(* Lines 119, 134-136 and 144-146: start after the watermark if that is   *)
(* below the confirmed head, else at the confirmed head; never past toBlock.*)
FromBlock(h, conf, hasW, w) ==
  LET latest == ToBlock(h, conf)
      from   == IF hasW /\ w + 1 < latest THEN w + 1 ELSE latest
  IN  IF latest < from THEN latest ELSE from

ScanRange(h, conf, hasW, w) ==
  [from |-> FromBlock(h, conf, hasW, w), to |-> ToBlock(h, conf)]

(* The dispatchable events of range r: logs of the range whose event the  *)
(* switch of lines 186-201 turns into a task.                             *)
Dispatchable(r) ==
  {be \in Blocks \X EventNames :
     /\ be[1] \in r.from .. r.to
     /\ be[2] \in Logs[be[1]]
     /\ be[2] \in DispatchEvents}

(* Lines 181-182: the loop over rl.abis does not stop at the first ABI    *)
(* that knows the topic, so an event is dispatched once per such ABI.     *)
Matches(e) == Cardinality({i \in DOMAIN Abis : e \in Abis[i]})

-----------------------------------------------------------------------------
Init ==
  /\ height = 0
  /\ mode = "stopped"
  /\ subHead = 0
  /\ channel = <<>>
  /\ watermark = NoBlock
  /\ pc = "idle"
  /\ rng = [from |-> 0, to |-> 0]
  /\ crashes = 0
  /\ claimed = {}
  /\ origin = NoBlock
  /\ queried = [b \in Blocks |-> 0]
  /\ tasks = [be \in Blocks \X EventNames |-> 0]

(* The root chain produces a block.                                       *)
NewBlock ==
  /\ height < MaxHeight
  /\ height' = height + 1
  /\ UNCHANGED <<mode, subHead, channel, watermark, pc, rng, crashes,
                 claimed, origin, queried, tasks>>

(* Start (lines 60-95): seed the watermark with the start listen block if *)
(* one is configured (its Put error is discarded), then subscribe to new  *)
(* heads, falling back to polling when SubscribeNewHead fails.            *)
Start ==
  /\ mode = "stopped"
  /\ \E putOk \in Outcomes :
       /\ watermark' = IF StartListenBlock # 0 /\ putOk
                         THEN StartListenBlock ELSE watermark
       /\ origin' = IF StartListenBlock # 0 /\ putOk /\ origin = NoBlock
                      THEN StartListenBlock + 1 ELSE origin
  /\ \E m \in {"subscribed", "polling"} : mode' = m
  /\ subHead' = height
  /\ UNCHANGED <<height, channel, pc, rng, crashes, claimed, queried, tasks>>

(* The subscription goroutine forwards the next new head.                 *)
SubscriptionDeliver ==
  /\ mode = "subscribed"
  /\ subHead < height
  /\ Len(channel) < ChanCap
  /\ subHead' = subHead + 1
  /\ channel' = Append(channel, subHead + 1)
  /\ UNCHANGED <<height, mode, watermark, pc, rng, crashes, claimed, origin,
                 queried, tasks>>

(* The polling goroutine sends the latest head on every tick, whether or  *)
(* not it changed since the last tick.                                    *)
Poll ==
  /\ mode = "polling"
  /\ Len(channel) < ChanCap
  /\ channel' = Append(channel, height)
  /\ UNCHANGED <<height, mode, subHead, watermark, pc, rng, crashes, claimed,
                 origin, queried, tasks>>

(* ProcessHeader (lines 98-155) up to the Put of the watermark.  Every    *)
(* failure and early return leaves the watermark and the range alone.     *)
ProcessHeader ==
  /\ mode # "stopped"
  /\ pc = "idle"
  /\ channel # <<>>
  /\ channel' = Tail(channel)
  /\ LET h == Head(channel) IN
     \E ctxOk \in Outcomes, conf \in ConfirmationsSet, hasOk \in Outcomes,
        getOk \in Outcomes, putOk \in Outcomes :
       LET hasW == hasOk /\ watermark # NoBlock   \* line 122 drops Has's error
           r    == ScanRange(h, conf, hasW, watermark)
       IN
       \/ /\ \/ ~ctxOk                             \* lines 102-105
             \/ hasW /\ ~getOk                     \* lines 124-128
             \/ SkipHead(h, conf, hasW, watermark) \* lines 112-115, 131-133
          /\ UNCHANGED <<watermark, pc, rng, claimed, origin>>
       \/ /\ ctxOk
          /\ hasW => getOk
          /\ ~SkipHead(h, conf, hasW, watermark)
          /\ watermark' = IF putOk THEN r.to ELSE watermark  \* lines 149-151
          /\ pc' = "query"
          /\ rng' = r
          /\ claimed' = claimed \cup (r.from .. r.to)
          /\ origin' = IF origin = NoBlock THEN r.from ELSE origin
  /\ UNCHANGED <<height, mode, subHead, crashes, queried, tasks>>

(* queryAndBroadcastEvents and sendTaskWithDelay (lines 157-235): filter  *)
(* the logs of the range; for each dispatchable event and each ABI that   *)
(* knows it, send a task if the local node is a current validator.  A     *)
(* FilterLogs error abandons the range; with faults a task is lost when   *)
(* the node is not a current validator or SendTask fails.                 *)
QueryAndBroadcast ==
  /\ mode # "stopped"
  /\ pc = "query"
  /\ pc' = "idle"
  /\ \E filterOk \in Outcomes :
       \/ /\ ~filterOk
          /\ UNCHANGED <<queried, tasks>>
       \/ /\ filterOk
          /\ queried' = [b \in Blocks |->
                           IF b \in rng.from .. rng.to
                             THEN Sat(queried[b] + 1) ELSE queried[b]]
          /\ \E sent \in IF Faults THEN SUBSET Dispatchable(rng)
                                   ELSE {Dispatchable(rng)} :
               tasks' = [be \in DOMAIN tasks |->
                           IF be \in sent THEN Sat(tasks[be] + Matches(be[2]))
                                          ELSE tasks[be]]
  /\ UNCHANGED <<height, mode, subHead, channel, watermark, rng, crashes,
                 claimed, origin>>

(* The listener process dies: the in-memory channel and the range being   *)
(* processed are lost; the watermark in storage survives.                 *)
Crash ==
  /\ mode # "stopped"
  /\ crashes < MaxCrashes
  /\ crashes' = crashes + 1
  /\ mode' = "stopped"
  /\ channel' = <<>>
  /\ pc' = "idle"
  /\ UNCHANGED <<height, subHead, watermark, rng, claimed, origin, queried,
                 tasks>>

Next ==
  \/ NewBlock
  \/ Start
  \/ SubscriptionDeliver
  \/ Poll
  \/ ProcessHeader
  \/ QueryAndBroadcast
  \/ Crash

(* The goroutines run when they can, and the chain keeps producing blocks; *)
(* a crash is never forced.                                               *)
Fairness ==
  /\ WF_vars(NewBlock)
  /\ WF_vars(Start)
  /\ WF_vars(SubscriptionDeliver)
  /\ WF_vars(Poll)
  /\ WF_vars(ProcessHeader)
  /\ WF_vars(QueryAndBroadcast)

Spec == Init /\ [][Next]_vars /\ Fairness

-----------------------------------------------------------------------------
(* Every variable has the type the code gives it; in particular the       *)
(* watermark and the range bounds are block numbers, never negative.      *)
TypeOK ==
  /\ height \in Blocks
  /\ mode \in {"stopped", "subscribed", "polling"}
  /\ subHead \in Blocks
  /\ channel \in Seq(Blocks)
  /\ watermark \in Nat \cup {NoBlock}
  /\ pc \in {"idle", "query"}
  /\ rng \in ScanRanges
  /\ crashes \in 0 .. MaxCrashes
  /\ claimed \subseteq Blocks
  /\ origin \in Nat \cup {NoBlock}
  /\ queried \in [Blocks -> 0 .. CountCap]
  /\ tasks \in [Blocks \X EventNames -> 0 .. CountCap]

MaxConfirmations ==
  CHOOSE c \in ConfirmationsSet : \A d \in ConfirmationsSet : d <= c

(* Confirmation depth: ProcessHeader never hands queryAndBroadcastEvents  *)
(* a block that is not buried under at least one of the confirmation      *)
(* depths the chain-manager parameters can require.                       *)
ConfirmedOnly ==
  \A b \in claimed : \E c \in ConfirmationsSet : b + c <= height

(* No skipped block: every block from the first one the listener          *)
(* committed to up to the stored watermark was handed to                  *)
(* queryAndBroadcastEvents, whatever heads polling or the subscription    *)
(* delivered and whatever crashes happened (spec 4.1: "no block is        *)
(* skipped"; the range lost to a FilterLogs error or a crash after the    *)
(* Put is the documented at-most-once trade-off, and counts as handed).   *)
NoGap ==
  (origin # NoBlock /\ watermark # NoBlock) =>
     \A b \in origin .. watermark : b \in claimed

(* No re-scan: the logs of a block are fetched and dispatched at most     *)
(* once, though polling re-sends an unchanged head, the confirmation      *)
(* depth can change between heads and the process can crash (spec 3: "a  *)
(* block number <= watermark is never re-scanned").  It rests on line 131 *)
(* comparing the watermark with the confirmed head h - conf.             *)
NoRescan ==
  \A b \in Blocks : queried[b] <= 1

(* The watermark ProcessHeader stores never moves down while the         *)
(* listener runs, whatever heads arrive and however the confirmation      *)
(* depth changes (spec 3: "watermark for a chain never regresses").       *)
WatermarkMonotone ==
  [][ (mode # "stopped" /\ watermark # NoBlock /\ watermark' # NoBlock)
        => watermark' >= watermark ]_vars

(* Progress: every head that reaches the header process above the        *)
(* confirmation depth eventually has its confirmed part behind the stored *)
(* watermark, whether it came from polling or the subscription.           *)
HeadsFollowed ==
  \A h \in Blocks :
     (h > MaxConfirmations /\ \E i \in DOMAIN channel : channel[i] = h)
        ~> (watermark # NoBlock /\ watermark + MaxConfirmations >= h)
====
