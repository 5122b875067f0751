--------------------- MODULE RootChainListenerProofs ---------------------
(***************************************************************************)
(* Proofs about RootChainListener, for every value of its constants.      *)
(***************************************************************************)
EXTENDS RootChainListener, FiniteSetTheorems, SequenceTheorems, TLAPS

(* An event is dispatched a natural number of times: the ABIs that know   *)
(* it are finitely many.                                                  *)
LEMMA MatchesType == \A e \in EventNames : Matches(e) \in Nat
<1> SUFFICES ASSUME NEW e \in EventNames PROVE Matches(e) \in Nat
  OBVIOUS
<1>1. IsFiniteSet(1 .. Len(Abis))
  BY AbisAssumption, FS_Interval
<1>2. {i \in DOMAIN Abis : e \in Abis[i]} \subseteq 1 .. Len(Abis)
  BY AbisAssumption
<1>3. IsFiniteSet({i \in DOMAIN Abis : e \in Abis[i]})
  BY <1>1, <1>2, FS_Subset
<1> QED
  BY <1>3, FS_CardinalityType DEF Matches

(* A scan range of a head that is not skipped lies within the blocks.     *)
LEMMA ScanRangeType ==
  ASSUME NEW h \in Blocks, NEW conf \in Nat, NEW hasW \in BOOLEAN,
         NEW w \in Nat \cup {NoBlock},
         hasW => w \in Nat,
         ~SkipHead(h, conf, hasW, w)
  PROVE  /\ ScanRange(h, conf, hasW, w) \in ScanRanges
         /\ ScanRange(h, conf, hasW, w).from <= ScanRange(h, conf, hasW, w).to
         /\ ScanRange(h, conf, hasW, w).to = h - conf
BY MaxHeightAssumption
   DEF SkipHead, ScanRange, FromBlock, ToBlock, ScanRanges, Blocks

(* Every step keeps the type invariant.                                    *)
LEMMA TypeStep == TypeOK /\ [Next]_vars => TypeOK'
  <2> SUFFICES ASSUME TypeOK, [Next]_vars PROVE TypeOK'
    OBVIOUS
  <2>1. CASE NewBlock
    BY <2>1, MaxHeightAssumption DEF NewBlock, TypeOK, Blocks
  <2>2. CASE Start
    BY <2>2, StartListenBlockAssumption DEF Start, TypeOK
  <2>3. CASE SubscriptionDeliver
    BY <2>3, MaxHeightAssumption DEF SubscriptionDeliver, TypeOK, Blocks
  <2>4. CASE Poll
    BY <2>4 DEF Poll, TypeOK
  <2>5. CASE ProcessHeader
    <3> USE DEF TypeOK
    <3>1. PICK ctxOk \in Outcomes, conf \in ConfirmationsSet, hasOk \in Outcomes,
               getOk \in Outcomes, putOk \in Outcomes :
            LET h == Head(channel)
                hasW == hasOk /\ watermark # NoBlock
                r == ScanRange(h, conf, hasW, watermark)
            IN
            \/ /\ \/ ~ctxOk
                  \/ hasW /\ ~getOk
                  \/ SkipHead(h, conf, hasW, watermark)
               /\ UNCHANGED <<watermark, pc, rng, claimed, origin>>
            \/ /\ ctxOk
               /\ hasW => getOk
               /\ ~SkipHead(h, conf, hasW, watermark)
               /\ watermark' = IF putOk THEN r.to ELSE watermark
               /\ pc' = "query"
               /\ rng' = r
               /\ claimed' = claimed \cup (r.from .. r.to)
               /\ origin' = IF origin = NoBlock THEN r.from ELSE origin
      BY <2>5 DEF ProcessHeader
    <3> DEFINE h == Head(channel)
               hasW == hasOk /\ watermark # NoBlock
               r == ScanRange(h, conf, hasW, watermark)
    <3>2. channel # <<>> /\ channel' = Tail(channel)
          /\ UNCHANGED <<height, mode, subHead, crashes, queried, tasks>>
      BY <2>5 DEF ProcessHeader
    <3>3. h \in Blocks /\ Tail(channel) \in Seq(Blocks)
      BY <3>2
    <3>4. conf \in Nat /\ hasW \in BOOLEAN /\ (hasW => watermark \in Nat)
      BY ConfirmationsAssumption, FaultsAssumption DEF Outcomes, hasW
    <3>5. CASE UNCHANGED <<watermark, pc, rng, claimed, origin>>
      BY <3>2, <3>3, <3>5
    <3>6. CASE /\ ~SkipHead(h, conf, hasW, watermark)
               /\ watermark' = IF putOk THEN r.to ELSE watermark
               /\ pc' = "query"
               /\ rng' = r
               /\ claimed' = claimed \cup (r.from .. r.to)
               /\ origin' = IF origin = NoBlock THEN r.from ELSE origin
      <4>1. r \in ScanRanges /\ r.from <= r.to
        BY <3>3, <3>4, <3>6, ScanRangeType DEF r
      <4>2. r.from \in Nat /\ r.to \in Nat /\ r.from .. r.to \subseteq Blocks
        BY <4>1, MaxHeightAssumption DEF ScanRanges, Blocks
      <4> QED
        BY <3>2, <3>3, <3>6, <4>1, <4>2
    <3> QED
      BY <3>1, <3>5, <3>6 DEF h, hasW, r
  <2>6. CASE QueryAndBroadcast
    <3>1. UNCHANGED <<height, mode, subHead, channel, watermark, rng, crashes,
                      claimed, origin>> /\ pc' = "idle"
      BY <2>6 DEF QueryAndBroadcast
    <3>2. \A be \in Blocks \X EventNames :
             Sat(tasks[be] + Matches(be[2])) \in 0 .. CountCap
      BY MatchesType DEF Sat, CountCap, TypeOK
    <3>3. \A b \in Blocks : Sat(queried[b] + 1) \in 0 .. CountCap
      BY DEF Sat, CountCap, TypeOK
    <3>4. queried' \in [Blocks -> 0 .. CountCap]
      BY <2>6, <3>3 DEF QueryAndBroadcast, TypeOK
    <3>5. tasks' \in [Blocks \X EventNames -> 0 .. CountCap]
      BY <2>6, <3>2 DEF QueryAndBroadcast, TypeOK
    <3> QED
      BY <3>1, <3>4, <3>5 DEF TypeOK
  <2>7. CASE Crash
    BY <2>7, MaxCrashesAssumption DEF Crash, TypeOK
  <2>8. CASE UNCHANGED vars
    BY <2>8 DEF vars, TypeOK
  <2> QED
    BY <2>1, <2>2, <2>3, <2>4, <2>5, <2>6, <2>7, <2>8 DEF Next

(* The type invariant holds in every reachable state.                     *)
LEMMA TypeCorrect == Spec => []TypeOK
<1>1. Init => TypeOK
  BY MaxHeightAssumption, MaxCrashesAssumption, NoBlockAssumption
  DEF Init, TypeOK, Blocks, ScanRanges, CountCap
<1> QED
  BY <1>1, TypeStep, PTL DEF Spec
-----------------------------------------------------------------------------
(***************************************************************************)
(* No gap.  NoGap alone is not inductive: a step of ProcessHeader keeps it *)
(* only if a committed origin comes with a stored watermark (else the      *)
(* range starts at the confirmed head), and a restart re-seeding the       *)
(* watermark keeps it only if the origin is the block after the seed.      *)
(***************************************************************************)
NoGapInv ==
  /\ TypeOK
  /\ origin # NoBlock => watermark # NoBlock
  /\ (StartListenBlock # 0 /\ mode # "stopped") => origin # NoBlock
  /\ (StartListenBlock # 0 /\ origin # NoBlock) => origin = StartListenBlock + 1
  /\ NoGap

(* Without faults, every block from the origin up to the watermark has     *)
(* been handed to queryAndBroadcastEvents.                                *)
THEOREM NoGapTheorem == ~Faults => (Spec => []NoGap)
<1> SUFFICES ASSUME ~Faults PROVE Spec => []NoGap
  OBVIOUS
<1> USE NoBlockAssumption DEF Outcomes
<1>1. Init => NoGapInv
  BY MaxHeightAssumption, MaxCrashesAssumption, NoBlockAssumption
  DEF Init, NoGapInv, TypeOK, Blocks, ScanRanges, CountCap, NoGap
<1>2. NoGapInv /\ [Next]_vars => NoGapInv'
  <2> SUFFICES ASSUME NoGapInv, [Next]_vars PROVE NoGapInv'
    OBVIOUS
  <2>0. TypeOK'
    BY TypeStep DEF NoGapInv
  <2>1. CASE ProcessHeader
    <3> DEFINE h == Head(channel)
    <3>1. PICK conf \in ConfirmationsSet :
            LET hasW == watermark # NoBlock
                r == ScanRange(h, conf, hasW, watermark)
            IN
            \/ /\ SkipHead(h, conf, hasW, watermark)
               /\ UNCHANGED <<watermark, pc, rng, claimed, origin>>
            \/ /\ ~SkipHead(h, conf, hasW, watermark)
               /\ watermark' = r.to
               /\ claimed' = claimed \cup (r.from .. r.to)
               /\ origin' = IF origin = NoBlock THEN r.from ELSE origin
      BY <2>1 DEF ProcessHeader, h
    <3>2. UNCHANGED mode /\ mode # "stopped" /\ channel # <<>>
      BY <2>1 DEF ProcessHeader
    <3> DEFINE hasW == watermark # NoBlock
               r == ScanRange(h, conf, hasW, watermark)
    <3>3. /\ h \in Blocks /\ conf \in Nat /\ hasW \in BOOLEAN
          /\ watermark \in Nat \cup {NoBlock} /\ (hasW => watermark \in Nat)
      BY <3>2, ConfirmationsAssumption DEF NoGapInv, TypeOK, h, hasW
    <3>4. CASE UNCHANGED <<watermark, pc, rng, claimed, origin>>
      BY <2>0, <3>2, <3>4 DEF NoGapInv, NoGap
    <3>5. CASE /\ ~SkipHead(h, conf, hasW, watermark)
               /\ watermark' = r.to
               /\ claimed' = claimed \cup (r.from .. r.to)
               /\ origin' = IF origin = NoBlock THEN r.from ELSE origin
      <4>1. r \in ScanRanges /\ r.from <= r.to
        BY <3>3, <3>5, ScanRangeType DEF r
      <4>2. r.from \in Nat /\ r.to \in Nat
        BY <4>1, MaxHeightAssumption DEF ScanRanges, Blocks
      <4>3. CASE origin = NoBlock
        <5>1. StartListenBlock = 0
          BY <3>2, <4>3 DEF NoGapInv
        <5>2. origin' = r.from /\ watermark' = r.to
          BY <3>5, <4>3
        <5>3. \A b \in r.from .. r.to : b \in claimed'
          BY <3>5
        <5> QED
          BY <2>0, <3>2, <4>2, <5>1, <5>2, <5>3 DEF NoGapInv, NoGap
      <4>4. CASE origin # NoBlock
        <5>1. watermark \in Nat /\ origin \in Nat
          BY <4>4 DEF NoGapInv, TypeOK
        <5>2. r.from <= watermark + 1
          <6>1. hasW /\ h > conf
            BY <3>3, <3>5, <5>1 DEF SkipHead, hasW, Blocks
          <6>2. FromBlock(h, conf, TRUE, watermark) <= watermark + 1
            BY <3>3, <5>1, <6>1, MaxHeightAssumption DEF Blocks, FromBlock, ToBlock
          <6> QED
            BY <6>1, <6>2 DEF r, ScanRange, hasW
        <5>3. \A b \in origin .. watermark : b \in claimed
          BY <4>4, <5>1 DEF NoGapInv, NoGap
        <5>4. \A b \in origin .. r.to : b \in claimed \cup (r.from .. r.to)
          BY <4>2, <5>1, <5>2, <5>3
        <5>5. origin' = origin /\ watermark' = r.to
          BY <3>5, <4>4
        <5>6. NoGap'
          BY <3>5, <5>4, <5>5, <4>2 DEF NoGap
        <5> QED
          BY <2>0, <3>2, <4>2, <4>4, <5>5, <5>6 DEF NoGapInv
      <4> QED
        BY <4>3, <4>4
    <3> QED
      BY <3>1, <3>4, <3>5 DEF hasW, r
  <2>2. CASE Start
    <3>1. /\ watermark' = IF StartListenBlock # 0 THEN StartListenBlock
                                              ELSE watermark
          /\ origin' = IF StartListenBlock # 0 /\ origin = NoBlock
                         THEN StartListenBlock + 1 ELSE origin
          /\ mode' # "stopped"
          /\ UNCHANGED claimed
      BY <2>2 DEF Start
    <3>2. CASE StartListenBlock = 0
      BY <2>0, <3>1, <3>2 DEF NoGapInv, NoGap
    <3>3. CASE StartListenBlock # 0
      <4>1. watermark' = StartListenBlock /\ origin' = StartListenBlock + 1
        BY <3>1, <3>3 DEF NoGapInv
      <4>2. NoGap'
        BY <4>1, StartListenBlockAssumption DEF NoGap
      <4>3. StartListenBlock + 1 \in Nat /\ StartListenBlock \in Nat
        BY StartListenBlockAssumption
      <4>4. origin' # NoBlock /\ watermark' # NoBlock
        BY <4>1, <4>3
      <4> QED
        BY <2>0, <4>1, <4>2, <4>4 DEF NoGapInv
    <3> QED
      BY <3>2, <3>3
  <2>3. CASE QueryAndBroadcast
    BY <2>0, <2>3 DEF QueryAndBroadcast, NoGapInv, NoGap
  <2>4. CASE Crash
    BY <2>0, <2>4 DEF Crash, NoGapInv, NoGap
  <2>5. CASE NewBlock \/ SubscriptionDeliver \/ Poll \/ UNCHANGED vars
    BY <2>0, <2>5 DEF NewBlock, SubscriptionDeliver, Poll, vars, NoGapInv, NoGap
  <2> QED
    BY <2>0, <2>1, <2>2, <2>3, <2>4, <2>5 DEF Next, NoGapInv
<1>3. NoGapInv => NoGap
  BY DEF NoGapInv
<1> QED
  BY <1>1, <1>2, <1>3, PTL DEF Spec
-----------------------------------------------------------------------------
(***************************************************************************)
(* Confirmation depth.  ConfirmedOnly is not inductive by itself: a range *)
(* is computed from a head taken from HeaderChannel, so every head waiting *)
(* there must already be a block of the chain.                             *)
(***************************************************************************)
ConfirmedInv ==
  /\ TypeOK
  /\ \A i \in DOMAIN channel : channel[i] <= height
  /\ ConfirmedOnly

(* Every step keeps ConfirmedInv: the chain only grows, both delivery     *)
(* goroutines push heads the chain has reached, and ProcessHeader claims  *)
(* only blocks up to head - conf for a head in the channel.               *)
LEMMA ConfirmedStep == ConfirmedInv /\ [Next]_vars => ConfirmedInv'
<1> SUFFICES ASSUME ConfirmedInv, [Next]_vars PROVE ConfirmedInv'
  OBVIOUS
<1>0. TypeOK'
  BY TypeStep DEF ConfirmedInv
<1> USE DEF ConfirmedInv, ConfirmedOnly
<1>1. CASE NewBlock
  BY <1>0, <1>1, MaxHeightAssumption, ConfirmationsAssumption
  DEF NewBlock, TypeOK, Blocks
<1>2. CASE Start
  BY <1>0, <1>2 DEF Start
<1>3. CASE SubscriptionDeliver
  BY <1>0, <1>3 DEF SubscriptionDeliver, TypeOK
<1>4. CASE Poll
  <2>1. channel' = Append(channel, height) /\ height' = height
        /\ claimed' = claimed
    BY <1>4 DEF Poll
  <2>2. \A i \in DOMAIN channel' : channel'[i] <= height'
    BY <2>1, MaxHeightAssumption DEF TypeOK, Blocks
  <2> QED
    BY <1>0, <2>1, <2>2
<1>5. CASE ProcessHeader
  <2>1. PICK ctxOk \in Outcomes, conf \in ConfirmationsSet, hasOk \in Outcomes,
             getOk \in Outcomes, putOk \in Outcomes :
          LET h == Head(channel)
              hasW == hasOk /\ watermark # NoBlock
              r == ScanRange(h, conf, hasW, watermark)
          IN
          \/ /\ \/ ~ctxOk
                \/ hasW /\ ~getOk
                \/ SkipHead(h, conf, hasW, watermark)
             /\ UNCHANGED <<watermark, pc, rng, claimed, origin>>
          \/ /\ ctxOk
             /\ hasW => getOk
             /\ ~SkipHead(h, conf, hasW, watermark)
             /\ watermark' = IF putOk THEN r.to ELSE watermark
             /\ pc' = "query"
             /\ rng' = r
             /\ claimed' = claimed \cup (r.from .. r.to)
             /\ origin' = IF origin = NoBlock THEN r.from ELSE origin
    BY <1>5 DEF ProcessHeader
  <2> DEFINE h == Head(channel)
             hasW == hasOk /\ watermark # NoBlock
             r == ScanRange(h, conf, hasW, watermark)
  <2>2. /\ channel # <<>> /\ channel' = Tail(channel) /\ height' = height
    BY <1>5 DEF ProcessHeader
  <2>3. h \in Blocks /\ h <= height
    BY <2>2 DEF TypeOK
  <2>4. \A i \in DOMAIN channel' : channel'[i] <= height'
    BY <2>2 DEF TypeOK
  <2>5. conf \in Nat /\ hasW \in BOOLEAN /\ (hasW => watermark \in Nat)
    BY ConfirmationsAssumption, FaultsAssumption DEF Outcomes, hasW, TypeOK
  <2>6. CASE UNCHANGED <<watermark, pc, rng, claimed, origin>>
    BY <1>0, <2>2, <2>4, <2>6
  <2>7. CASE /\ ~SkipHead(h, conf, hasW, watermark)
             /\ claimed' = claimed \cup (r.from .. r.to)
    <3>1. r.to = h - conf /\ r.from \in Nat
      BY <2>3, <2>5, <2>7 DEF ScanRange, FromBlock, ToBlock, SkipHead, Blocks, r
    <3>2. \A b \in r.from .. r.to : b + conf <= height'
      <4>1. h \in Nat /\ height \in Nat /\ height' = height
        BY <2>2, <2>3, MaxHeightAssumption DEF Blocks, TypeOK
      <4> QED
        BY <2>3, <2>5, <3>1, <4>1
    <3> QED
      BY <1>0, <2>2, <2>4, <2>7, <3>2 DEF TypeOK
  <2> QED
    BY <2>1, <2>6, <2>7 DEF h, hasW, r
<1>6. CASE QueryAndBroadcast
  BY <1>0, <1>6 DEF QueryAndBroadcast
<1>7. CASE Crash
  BY <1>0, <1>7 DEF Crash
<1>8. CASE UNCHANGED vars
  BY <1>0, <1>8 DEF vars
<1> QED
  BY <1>1, <1>2, <1>3, <1>4, <1>5, <1>6, <1>7, <1>8 DEF Next

(* For every chain length, confirmation set and fault setting, every       *)
(* block ProcessHeader hands to queryAndBroadcastEvents is buried under    *)
(* one of the confirmation depths the chain-manager parameters allow,      *)
(* whatever heads polling or the subscription delivered.                   *)
THEOREM ConfirmedOnlyTheorem == Spec => []ConfirmedOnly
<1>1. Init => ConfirmedInv
  BY MaxHeightAssumption, MaxCrashesAssumption, NoBlockAssumption
  DEF Init, ConfirmedInv, ConfirmedOnly, TypeOK, Blocks, ScanRanges, CountCap
<1> QED
  BY <1>1, ConfirmedStep, PTL DEF Spec, ConfirmedInv

-----------------------------------------------------------------------------
(***************************************************************************)
(* The watermark.  Line 131 compares the watermark with the confirmed head *)
(* h - conf (line 107 aliases the head number that line 116 decrements in  *)
(* place), so a cycle that gets past it stores h - conf above the old      *)
(* watermark.  Without faults Has reports a stored watermark truthfully,   *)
(* and the type invariant is all the argument needs.                       *)
(***************************************************************************)

(* A head not skipped against a stored watermark w scans from w + 1.      *)
LEMMA FromAfterWatermark ==
  ASSUME NEW h \in Nat, NEW conf \in Nat, NEW w \in Nat,
         ~SkipHead(h, conf, TRUE, w)
  PROVE  /\ FromBlock(h, conf, TRUE, w) = w + 1
         /\ w < ToBlock(h, conf)
BY DEF SkipHead, FromBlock, ToBlock

(* The two outcomes of ProcessHeader without faults: an early return that *)
(* leaves the watermark and the range alone, or a Put of the range's end. *)
LEMMA ProcessHeaderNoFaults ==
  ASSUME ~Faults, TypeOK, ProcessHeader
  PROVE  \E conf \in ConfirmationsSet :
           LET h == Head(channel)
               hasW == watermark # NoBlock
               r == ScanRange(h, conf, hasW, watermark)
           IN  /\ h \in Blocks /\ conf \in Nat
               /\ channel' = Tail(channel)
               /\ UNCHANGED <<height, mode, subHead, crashes, queried, tasks>>
               /\ pc = "idle" /\ mode # "stopped"
               /\ \/ UNCHANGED <<watermark, pc, rng, claimed, origin>>
                  \/ /\ ~SkipHead(h, conf, hasW, watermark)
                     /\ watermark' = r.to
                     /\ pc' = "query"
                     /\ rng' = r
<1>1. channel # <<>> /\ channel \in Seq(Blocks)
  BY DEF ProcessHeader, TypeOK
<1>2. Head(channel) \in Blocks
  BY <1>1
<1> QED
  BY <1>2, ConfirmationsAssumption DEF ProcessHeader, Outcomes

(* Without RPC and storage faults the watermark ProcessHeader stores      *)
(* never moves down while the listener runs, for every chain length, set *)
(* of confirmation depths and start listen block, across re-polled heads, *)
(* depth changes and crashes.  A regression needs a failed Has (line 122).*)
THEOREM WatermarkMonotoneTheorem == ~Faults => (Spec => WatermarkMonotone)
<1> SUFFICES ASSUME ~Faults PROVE Spec => WatermarkMonotone
  OBVIOUS
<1> DEFINE Up == (mode # "stopped" /\ watermark # NoBlock /\ watermark' # NoBlock)
                   => watermark' >= watermark
<1>1. TypeOK /\ [Next]_vars => [Up]_vars
  <2> SUFFICES ASSUME TypeOK, [Next]_vars, mode # "stopped",
                      watermark # NoBlock, watermark' # NoBlock
               PROVE  watermark' >= watermark
    OBVIOUS
  <2>0. watermark \in Nat
    BY DEF TypeOK
  <2>1. CASE ProcessHeader
    <3>1. PICK conf \in ConfirmationsSet :
            LET h == Head(channel)
                r == ScanRange(h, conf, TRUE, watermark)
            IN  /\ h \in Blocks /\ conf \in Nat
                /\ \/ UNCHANGED watermark
                   \/ /\ ~SkipHead(h, conf, TRUE, watermark)
                      /\ watermark' = r.to
      BY <2>1, ProcessHeaderNoFaults
    <3> DEFINE h == Head(channel)
    <3>2. h \in Nat
      BY <3>1, MaxHeightAssumption DEF Blocks
    <3>3. ~SkipHead(h, conf, TRUE, watermark) => watermark < ToBlock(h, conf)
      BY <2>0, <3>1, <3>2, FromAfterWatermark
    <3>4. CASE UNCHANGED watermark
      BY <2>0, <3>4
    <3>5. CASE /\ ~SkipHead(h, conf, TRUE, watermark)
               /\ watermark' = ScanRange(h, conf, TRUE, watermark).to
      <4>1. watermark' = ToBlock(h, conf)
        BY <3>5 DEF ScanRange
      <4>2. conf \in Nat
        BY ConfirmationsAssumption
      <4>3. watermark < h - conf /\ watermark' = h - conf
        BY <3>3, <3>5, <4>1 DEF ToBlock
      <4> QED
        BY <2>0, <3>2, <4>2, <4>3
    <3> QED
      BY <3>1, <3>4, <3>5
  <2>2. CASE Start
    BY <2>2 DEF Start
  <2>3. CASE NewBlock \/ SubscriptionDeliver \/ Poll \/ QueryAndBroadcast
             \/ Crash \/ UNCHANGED vars
    BY <2>0, <2>3 DEF NewBlock, SubscriptionDeliver, Poll, QueryAndBroadcast,
                      Crash, vars
  <2> QED
    BY <2>1, <2>2, <2>3 DEF Next
<1> QED
  BY <1>1, TypeCorrect, PTL DEF Spec, WatermarkMonotone
-----------------------------------------------------------------------------
(***************************************************************************)
(* No re-scan.  NoRescan is not inductive: a cycle that gets past line 131 *)
(* must scan blocks never queried, so every queried block lies at or      *)
(* below the stored watermark, and the range between the Put and          *)
(* FilterLogs holds only unqueried blocks up to the watermark.            *)
(***************************************************************************)
RescanInv ==
  /\ TypeOK
  /\ NoRescan
  /\ \A b \in Blocks : queried[b] > 0 => watermark # NoBlock /\ b <= watermark
  /\ pc = "query" =>
       /\ watermark # NoBlock
       /\ rng.to = watermark
       /\ \A b \in rng.from .. rng.to : queried[b] = 0

LEMMA RescanStep ==
  ASSUME ~Faults, StartListenBlock = 0, RescanInv, [Next]_vars
  PROVE  RescanInv'
<1> USE DEF RescanInv
<1>0. TypeOK'
  BY TypeStep
<1>1. CASE ProcessHeader
  <2>1. PICK conf \in ConfirmationsSet :
          LET h == Head(channel)
              hasW == watermark # NoBlock
              r == ScanRange(h, conf, hasW, watermark)
          IN  /\ h \in Blocks /\ conf \in Nat
              /\ UNCHANGED queried
              /\ pc = "idle"
              /\ \/ UNCHANGED <<watermark, pc, rng, claimed, origin>>
                 \/ /\ ~SkipHead(h, conf, hasW, watermark)
                    /\ watermark' = r.to
                    /\ pc' = "query"
                    /\ rng' = r
    BY <1>1, ProcessHeaderNoFaults
  <2> DEFINE h == Head(channel)
             hasW == watermark # NoBlock
             r == ScanRange(h, conf, hasW, watermark)
  <2>2. h \in Nat /\ conf \in Nat
    BY <2>1, MaxHeightAssumption DEF Blocks
  <2>3. CASE UNCHANGED <<watermark, pc, rng, claimed, origin>>
    BY <1>0, <2>1, <2>3 DEF NoRescan
  <2>4. CASE /\ ~SkipHead(h, conf, hasW, watermark)
             /\ watermark' = r.to
             /\ pc' = "query"
             /\ rng' = r
    <3>1. r.to = h - conf /\ h - conf \in Nat
      BY <2>2, <2>4 DEF r, ScanRange, ToBlock, SkipHead
    <3>2. \A b \in Blocks : queried[b] > 0 => b < r.from
      <4>1. CASE hasW
        <5>1. watermark \in Nat
          BY <4>1 DEF TypeOK, hasW
        <5>2. r.from = watermark + 1
          BY <2>2, <2>4, <4>1, <5>1, FromAfterWatermark DEF r, ScanRange, hasW
        <5> QED
          BY <5>1, <5>2, MaxHeightAssumption DEF Blocks
      <4>2. CASE ~hasW
        BY <4>2 DEF hasW
      <4> QED
        BY <4>1, <4>2
    <3>3. \A b \in Blocks : queried[b] > 0 => b <= r.to
      <4>1. CASE hasW
        <5>1. watermark \in Nat /\ watermark < h - conf
          BY <2>2, <2>4, <4>1, FromAfterWatermark DEF TypeOK, hasW, ToBlock
        <5> QED
          BY <3>1, <5>1, MaxHeightAssumption DEF Blocks
      <4>2. CASE ~hasW
        BY <4>2 DEF hasW
      <4> QED
        BY <4>1, <4>2
    <3>4. r \in ScanRanges /\ r.from <= r.to
      <4>1. /\ h \in Blocks /\ hasW \in BOOLEAN
            /\ watermark \in Nat \cup {NoBlock} /\ (hasW => watermark \in Nat)
        BY <2>1 DEF TypeOK, hasW
      <4> QED
        BY <2>2, <2>4, <4>1, ScanRangeType DEF r
    <3>5. \A b \in r.from .. r.to : queried[b] = 0
      <4> SUFFICES ASSUME NEW b \in r.from .. r.to PROVE queried[b] = 0
        OBVIOUS
      <4>1. b \in Blocks /\ b >= r.from
        BY <3>4, MaxHeightAssumption DEF ScanRanges, Blocks
      <4>2. queried[b] \in Nat
        BY <4>1 DEF TypeOK, CountCap
      <4>3. b \in Nat /\ r.from \in Nat
        BY <3>4, <4>1, MaxHeightAssumption DEF ScanRanges, Blocks
      <4>4. queried[b] > 0 => b < r.from
        BY <3>2, <4>1
      <4> QED
        BY <4>1, <4>2, <4>3, <4>4
    <3>6. watermark' # NoBlock
      BY <2>4, <3>1, NoBlockAssumption
    <3> QED
      BY <1>0, <2>1, <2>4, <3>1, <3>3, <3>5, <3>6 DEF NoRescan
  <2> QED
    BY <2>1, <2>3, <2>4 DEF h, hasW, r
<1>2. CASE QueryAndBroadcast
  <2>1. /\ pc = "query" /\ pc' = "idle"
        /\ queried' = [b \in Blocks |->
                         IF b \in rng.from .. rng.to
                           THEN Sat(queried[b] + 1) ELSE queried[b]]
        /\ UNCHANGED <<watermark, rng>>
    BY <1>2 DEF QueryAndBroadcast, Outcomes
  <2>2. \A b \in rng.from .. rng.to : queried'[b] = 1
    <3> SUFFICES ASSUME NEW b \in rng.from .. rng.to PROVE queried'[b] = 1
      OBVIOUS
    <3>1. b \in Blocks /\ queried[b] = 0
      BY <2>1, MaxHeightAssumption DEF TypeOK, ScanRanges, Blocks
    <3> QED
      BY <2>1, <3>1 DEF Sat, CountCap
  <2>3. \A b \in Blocks \ (rng.from .. rng.to) : queried'[b] = queried[b]
    BY <2>1
  <2>4. NoRescan'
    BY <2>2, <2>3 DEF NoRescan, TypeOK, ScanRanges, Blocks
  <2>5. \A b \in Blocks : queried'[b] > 0 => watermark' # NoBlock /\ b <= watermark'
    BY <2>1, <2>2, <2>3, MaxHeightAssumption DEF TypeOK, ScanRanges, Blocks
  <2> QED
    BY <1>0, <2>1, <2>4, <2>5
<1>3. CASE Start
  BY <1>0, <1>3 DEF Start, NoRescan
<1>4. CASE Crash
  BY <1>0, <1>4 DEF Crash, NoRescan
<1>5. CASE NewBlock \/ SubscriptionDeliver \/ Poll \/ UNCHANGED vars
  BY <1>0, <1>5 DEF NewBlock, SubscriptionDeliver, Poll, vars, NoRescan
<1> QED
  BY <1>1, <1>2, <1>3, <1>4, <1>5 DEF Next

(* Without RPC and storage faults and with no start listen block, the     *)
(* logs of every block are fetched and dispatched at most once, for every *)
(* chain length and set of confirmation depths, though polling re-sends   *)
(* an unchanged head, the depth changes between heads and the process     *)
(* crashes after the Put (the at-most-once trade-off of lines 149-154).   *)
THEOREM NoRescanTheorem ==
  (~Faults /\ StartListenBlock = 0) => (Spec => []NoRescan)
<1> SUFFICES ASSUME ~Faults, StartListenBlock = 0 PROVE Spec => []NoRescan
  OBVIOUS
<1>1. Init => RescanInv
  BY MaxHeightAssumption, MaxCrashesAssumption, NoBlockAssumption
  DEF Init, RescanInv, NoRescan, TypeOK, Blocks, ScanRanges, CountCap
<1>2. RescanInv /\ [Next]_vars => RescanInv'
  BY RescanStep
<1>3. RescanInv => NoRescan
  BY DEF RescanInv
<1> QED
  BY <1>1, <1>2, <1>3, PTL DEF Spec
====
