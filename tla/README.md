# TLA+ models of the delivery bridge and staking keeper

This directory holds TLA+ specifications of the Go code under `src/`.
TLC model-checks them on small instances. TLAPS proves selected properties for
every value of the constants.

## The system and its parts

| Part | Source | Module(s) | Status |
|---|---|---|---|
| Chain listener and confirmation tracker | `src/bridge/setu/listener/rootchain.go` | `RootChainListener`, `MCRootChainListener`, `RootChainListenerProofs` | modelled |
| Dispatch gate (event switch, task submission) | same file, lines 157-235 | `RootChainListener` (action `QueryAndBroadcast`) | partly: delays are not modelled |
| Staking sync queue | `src/staking/keep_sync.go` | `StakingQueue`, `StakingFifo`, `MCStakingQueue`, `StakingQueueProofs` | modelled |
| Validator set store | `src/unnamed/part_000` | `ValidatorStore`, `ValidatorRegistry`, `MCValidatorStore`, `ValidatorStoreProofs` | partly: records, index and rotation are modelled; the proposer accumulator is not yet |
| Tron gRPC client | `src/tron/tronclient.go` | none | not modelled: stateless I/O wrappers |

How the parts interact:

- The listener receives head numbers from a subscription or a poller of the
  root chain.
- For each head, `ProcessHeader` computes a confirmed range
  `[from, head - confirmations]` after the stored watermark.
- It stores the new watermark (`Put`) and then fetches the logs of the range.
- For every log whose event is `NewHeaderBlock`, `StateSynced` or `StakeAck`,
  and for every ABI that knows the event, it sends a delayed task to the task
  fabric. This happens only if the node is a current validator.
- Staking events detected elsewhere are buffered per source chain in the
  staking queue. An applier takes the head record, applies it to the validator
  store and removes it by (validator ID, nonce).
- The validator store keeps records keyed by signer address and an index from
  validator ID to signer. A signer rotation rewrites the old record with power
  0 and writes a copy with the old power under the new signer.

## Modules

### `RootChainListener`

State:

- `height` is the chain head.
- `mode` is stopped, subscribed or polling.
- `subHead` is the last head the subscription forwarded.
- `channel` is the header channel, bounded by `ChanCap`.
- `watermark` is the stored `rootchain-last-block`, or `NoBlock`.
- `pc` says whether `ProcessHeader` has handed a range `rng` to the query.
- `crashes` counts crashes.
- `queried` and `tasks` count log fetches per block and tasks per (block,
  event), saturated at 2.
- Two ghost variables support the properties:
  - `claimed` holds the blocks handed to the query;
  - `origin` is the first block the listener committed to.

Actions and the code they model:

- `Start` is `Start` (60-95). It seeds the watermark (its error is ignored),
  then subscribes, or polls when the subscription fails.
- `ProcessHeader` is `ProcessHeader` (98-155). Every early return is a
  disjunct that leaves the watermark alone:
  - the context error (102-105);
  - a head at or below the depth (112-115);
  - the `Get` error (124-128);
  - a stored watermark at or above the confirmed head (131-133). Line 107
    makes `latestNumber` an alias of `newHeader.Number`, and the in-place
    `Sub` of line 116 turns that number into `head - confirmations`. So line
    131 compares the watermark with the confirmed head, not the raw one
    (`SkipHead`).

  The `Has` error at 122 is discarded, as in the code. The range follows
  116-146, and the watermark is `Put` whether or not the query later
  succeeds.
- `QueryAndBroadcast` is `queryAndBroadcastEvents` and `sendTaskWithDelay`
  (157-235). A `FilterLogs` error abandons the range. Otherwise every block of
  the range is fetched, and every dispatchable event gets one task per matching
  ABI. With faults, a subset of tasks is lost; this covers a node that is not a
  current validator and `SendTask` errors. `Matches` counts one task per ABI
  that knows the event (the loop of 181-182 has no break). The ABIs of the
  shipped contracts share no event, and no run has an event in two ABIs.
- `NewBlock`, `SubscriptionDeliver`, `Poll` and `Crash` are the environment:
  - the chain;
  - the base listener's goroutines (not in `src/`, modelled from the spec). The
    poller re-sends the latest head on every tick.
  - a process crash, which loses the channel and the range in progress but
    keeps the stored watermark.

Faults (`Faults = TRUE`) make every RPC or storage call an input of TRUE or
FALSE.

### `StakingQueue`

State per root:

- `stored` is the blob under the queue key: `Absent`, or the record sequence
  it encodes.
- Ghost variables support the properties: `accepted` (appended records, in
  order), `applied` (applied records, in order) and `detected` (records handed
  to the enqueueing caller).

The empty sequence stands for the empty list that `removeStakingRecordFromQueue`
writes back. Its amino encoding has no bytes, and `UnmarshalBinaryBare` refuses
empty bytes (`DecodeFails`). `NilWritePanics` models a store that panics on the
nil value instead, which reverts the transaction.

Actions:

- `Enqueue` is the caller's `findStakingRecordFromQueue` check followed by
  `AddStakingRecordToQueue` (24-43).
- `ApplyNext` is `GetNextStakingRecordFromQueue` (46-60), then the removal of
  that head by (validator ID, nonce) (87-113).
- `RemoveRecord` (with `ArbitraryRemoval`) is a handler removing any record by
  (validator ID, nonce).

`StakingFifo` is what the queue promises (spec 3 and 4.6), with no keys and
no encoding. Each root has a first-in first-out queue that holds a record at
most once:

- `Put` adds a record that is not waiting yet at the end;
- `Take` moves the first record to `done`.

`StakingQueue` maps a root's queue to its decoded list and `done` to
`applied` (`Fifo`). `ImplementsFifo` is the FIFO's `Spec` under that mapping.

### `ValidatorStore`

State:

- `validators[s]` is the record under `GetValidatorKey(s)`: ID, power and end
  epoch.
- `idMap[id]` is the signer under `GetValidatorMapKey(id)`.
- `stake[id]` is a ghost: the power the handlers gave `id`.

Actions:

- `Join` and `UpdatePower` are handlers that call `AddValidator` (87-107).
  `UpdatePower` resolves the record with `GetValidatorFromValID` (284-307).
- `AddDeactivationEpoch` is lines 180-189.
- `UpdateSigner` is lines 192-214: two `AddValidator` calls whose errors are
  ignored.

`Faults` lets `MarshallValidator` fail. `FreshSigners` restricts the new signer
of a rotation to one that holds no other validator's record. The code does not
check this, so the restriction stands for a caller precondition.

`ValidatorRegistry` is what the store promises (spec 3 and 4.7), with no
storage keys: `signerOf`, `powerOf` and `endOf` per ID. Its actions are
`Register`, `SetPower`, `Deactivate` and `Rotate`. Rotation is one step that
moves an ID to a signer no other ID holds and keeps its power and end epoch.
`ValidatorStore` maps onto it through `Registry == INSTANCE ValidatorRegistry
WITH ...`. The mapping is: the signer is `idMap[id]`, and the power and end
epoch are those of the record under that signer (`RecordOfID`, as
`GetValidatorFromValID` resolves it). `ImplementsRegistry == Registry!Spec`.

Two behaviours were seen while modelling but are kept out of the runs:

- With `Faults`, TLC breaks `PowerFollowsIndex` within four calls. The first
  write of `UpdateSigner` succeeds, the second fails, and the error is
  ignored. Marshalling a validator struct fails only when the codec is
  misconfigured.
- The retired record keeps its activation window. Whether
  `GetCurrentValidators` returns it depends on `IsCurrentValidator`, which
  lives in the types package. Spec 4.7 describes only the window.

With `NilWritePanics` (a store that refuses nil values), the queue's last
record can never be removed. `EveryDetectedApplied` then fails the same way it
does in `MCQueueDrainDrops.cfg`.

## Runs

| Run (cfg) | Checks | Expect | What it shows |
|---|---|---|---|
| `MCRootChainListener.cfg` | TypeOK, ConfirmedOnly | pass | With every failure enabled, depth 1 or 2 and a crash, ranges stay within 0..head and only confirmed blocks are scanned |
| `MCListenerNoGap.cfg` | NoGap, WatermarkMonotone | pass | Without I/O faults, no block between the first committed one and the watermark is skipped, and the watermark never moves down while running, across re-seeding, a depth change, both delivery modes and a crash |
| `MCListenerProgress.cfg` | HeadsFollowed | pass | Under fairness, every delivered head above the depth is eventually behind the watermark |
| `MCListenerRescan.cfg` | NoRescan | pass | Without I/O faults and with no seed, no block is fetched twice, across re-polled heads, a depth change and a crash |
| `MCListenerHasError.cfg` | NoGap | violation | A failing `Has` skips blocks (`rootchain.go:122`) |
| `MCListenerRegress.cfg` | WatermarkMonotone | violation | Head 3 is scanned at depth 1 (watermark 2). It comes again at depth 2, `Has` fails, and the cycle Puts 1 (`rootchain.go:122`) |
| `MCStakingQueue.cfg` | Conservation, ImplementsFifo | pass | A head-taking applier loses no record and applies none twice, and the stored lists implement the FIFO |
| `MCQueueAnyRemoval.cfg` | NoDuplicateTriple | pass | The caller's dedup keeps triples unique under any removals |
| `MCQueueTailSlice.cfg` | Conservation | violation | `records[index+1:]` drops the records before the match (`keep_sync.go:103`) |
| `MCQueueDrainDrops.cfg` | EveryDetectedApplied | violation | After draining, the empty encoding makes every later enqueue return early |
| `MCValidatorStore.cfg` | PowerFollowsIndex, ImplementsRegistry | pass | The ID index always resolves to the record holding the validator's power; retired records hold 0; the two writes of a rotation refine one atomic registry step |
| `MCStoreSignerCollision.cfg` | PowerFollowsIndex | violation | Rotating to a used signer overwrites another validator |

Each property is stated, with the code it is about, in a comment above its
definition. `PROJECT.json` lists the findings behind the violation runs, and
each passing property has a mutant of the code that TLC catches.

### Bounds

- Listener: heads up to 4 or 5, confirmation depths {1, 2}, and a channel of
  two heads. The start listen block is 0 or 1, with at most one crash.
  These reach every early return of `ProcessHeader`:
  - a depth that is equal to the head, or larger;
  - a repeated head;
  - a stored watermark at or above the confirmed head (a re-polled head, or
    the seed);
  - a restart in the other delivery mode.
- Queue: one root, two validators, one nonce, two tx hashes and four enqueue
  calls. That is enough for two distinct records with the same (ID, nonce), a
  duplicate triple, removal of a non-head record and a full drain followed by
  an enqueue.
- Store: two IDs, three signers, power 0..2, end epoch 0..1 and six keeper
  calls (four in the violation run). Two rotations of one validator, a
  rotation back to a retired signer, and a rotation onto another validator are
  all reachable. IDs and signers are symmetric.

### Fairness

`HeadsFollowed` assumes weak fairness of the following, and nothing else:

- the header goroutine (`ProcessHeader`, `QueryAndBroadcast`);
- the subscription and polling goroutines;
- `Start`, since the process is restarted;
- block production.

Crashes and faults are never forced.

The queue's liveness property assumes weak fairness of the applier, which the
spec describes as draining each queue in order.

## Proofs (TLAPS)

`RootChainListenerProofs` proves four theorems for every value of the
constants, under the named `ASSUME`s of `RootChainListener`:

- `NoGapTheorem: ~Faults => (Spec => []NoGap)`. `NoGap` alone is not
  inductive. The strengthening `NoGapInv` adds three conjuncts:
  - a committed origin implies a stored watermark;
  - with a start listen block, a running listener has an origin;
  - that origin is the block after the seed.

  The key step is `ProcessHeader` with a stored watermark. A cycle that gets
  past line 131 has `watermark < head - depth`, so the new range starts at
  the block after the old watermark and `origin..watermark'` stays covered.
- `ConfirmedOnlyTheorem: Spec => []ConfirmedOnly`, under any fault setting.
  `ConfirmedOnly` alone is not inductive: a head taken from the channel could
  lie above the chain. The strengthening `ConfirmedInv` adds that every head
  in the header channel is at most `height`. With it, the range that
  `ProcessHeader` hands on ends at `head - depth <= height - depth`, so every
  claimed block is buried under one of the allowed depths. The chain only
  grows, so the fact survives `NewBlock`.
- `WatermarkMonotoneTheorem: ~Faults => (Spec => WatermarkMonotone)`. This
  is an action property, for any start listen block, any set of depths and
  any number of crashes. Only `ProcessHeader` writes the watermark while the
  listener runs (`Start` steps from a stopped listener). Without faults, `Has`
  reports the stored watermark, and a cycle past line 131 has
  `watermark < head - depth`, so the `Put` raises it (lemma
  `FromAfterWatermark`). The type invariant is the only invariant needed.
  The `listener_regress` run shows that a failed `Has` breaks the property.
- `NoRescanTheorem: (~Faults /\ StartListenBlock = 0) => (Spec => []NoRescan)`.
  The inductive invariant `RescanInv` adds two facts:
  - every queried block is at or below the stored watermark;
  - between the `Put` and `FilterLogs`, the range ends at the watermark and
    holds only unqueried blocks.

  A cycle past line 131 scans from the block after the watermark, so it
  covers no queried block. The query then marks exactly that range, once.
  The seed is excluded because `Start` re-writes it on every start: after a
  crash, the restart moves the watermark back and the blocks above the seed
  are fetched again. `setStartListenBLock` is not in this repository.

The lemmas they rest on:

- `TypeCorrect: Spec => []TypeOK`, with the step lemma `TypeStep`.
- `ScanRangeType`: the range computed after the depth check is a sub-range
  of `0..head`.
- `MatchesType`.
- `ProcessHeaderNoFaults`: the two fault-free outcomes of a cycle.

`StakingQueueProofs` proves three theorems for any sets of roots and
records:

- `NoDuplicateTripleTheorem: Spec => []NoDuplicateTriple`. It holds whichever
  record a handler removes (`ArbitraryRemoval` either way). The inductive
  invariant is `QueueInv` (type and no duplicate triple).
- `ConservationTheorem: ~ArbitraryRemoval => (Spec => []Conservation)`. It is
  inductive together with `QueueInv` (lemma `ConservationStep`).
- `FifoRefinementTheorem: ~ArbitraryRemoval => (Spec => ImplementsFifo)`.
  Lemma `FifoStep` maps each step, under `QueueInv`:
  - an enqueue that writes is `Put`, because the check did not find the
    record;
  - an apply is `Take`;
  - a skipped or refused enqueue is a stutter.

The lemmas they rest on:

- `ConcatAppend` and `ConcatHeadTail` are about concatenation.
- `HeadMatchFirst` says `FirstMatch` of the head's own key is 1.
- `FirstMatchFound` says that when some record has the key, `FirstMatch` is
  an index in the list whose record has that key. The least matching index
  exists by `WFMin` of the `WellFoundedInduction` library, applied to
  `NatLessThanWellFounded`. Both are closed statements, with no operator
  parameter to instantiate.
- `RemoveByKey` says that removal by a key some record has leaves a list of
  records that repeats nothing if the list did not. The rest after the match
  is a slice of the list.
- `ReplaceList` says that writing such a list back keeps `QueueInv`.
- `DecodedType`, `RemoveHead` and `EnqueueWrites` give the shape of a single
  step.

`Conservation` and the refinement need the head-taking applier. With
`ArbitraryRemoval` they are false: the removal keeps `records[index+1:]`
(`queue_tail_slice`).

`ValidatorStoreProofs` proves three theorems for any sets of IDs and signers:

- `TypeCorrect: Spec => []TypeOK`, by the step lemma `TypeStep`.
- `PowerFollowsIndexTheorem: (~Faults /\ FreshSigners) => (Spec => []PowerFollowsIndex)`.

  The inductive invariant `StoreInv` adds `Indexed`: every stored record's ID
  is mapped by the index. Without it a `Join` could not be shown safe, because
  a retired record of an unmapped ID could survive. The rotation step takes
  two facts:

  - `v.id = id` for the record the index resolves, which comes from the
    invariant;
  - the new signer holds no other validator's record, which comes from
    `FreshSigners`.

  The two writes then leave the power under the new signer even when it
  equals the old one: the retirement is written first and then overwritten.
- `RefinementTheorem: (~Faults /\ FreshSigners) => (Spec => ImplementsRegistry)`.
  Initial stores map to the empty registry. Lemma `RefinementStep` shows,
  under `StoreInv`, that each keeper call is a registry step:
  - `Join` is `Register`;
  - `UpdatePower` is `SetPower`;
  - `AddDeactivationEpoch` with a non-zero epoch is `Deactivate`, and with 0
    it is a stutter;
  - `UpdateSigner` is `Rotate`.

  Two lemmas carry the frame argument. `IndexInjective` says that no two IDs
  share a signer. `MappedUnchanged` says that an ID whose signer and record
  are untouched keeps its mapped power and end epoch. The new signer of a
  rotation belongs to no other ID, by `FreshSigners` and `PowerFollowsIndex`.
  So the rotation changes only the rotating ID's signer.

Only model-checked, never proved:

- the liveness properties (`HeadsFollowed`, `EveryDetectedApplied`). They need
  fairness and `ENABLED`, which are beyond TLAPS's backends.

Every safety property of a passing run is stated by a theorem.

## Not modelled

- The Tron client (`src/tron/tronclient.go`): stateless request/response
  wrappers over a gRPC wallet client. No caller of it is in this repository,
  and the spec treats it as an external collaborator. Its hazards are listed
  in `PROJECT.json` without a property:
  - at 115 and 178, an `Unpack` failure comes back as block 0 with no error;
  - at 83, an empty `ConstantResult` panics;
  - at 117, a zero `childBlockInterval` panics, and `Uint64()` truncates the
    answer.

  A model of these would be a model of a caller the repository does not
  have.
- The delay value of the dispatch gate: `util.CalculateTaskDelay` is outside
  this repository, and timing is abstracted away.
- The validator-set blob and the weighted proposer rotation
  (`UpdateValidatorSetInStore`, `GetValidatorSet`, `IncrementAccum`,
  `GetNextProposer`, lines 217-275). The accumulator arithmetic lives in the
  types package.
- Reorgs of the root chain: the code has no reorg handling beyond the
  confirmation depth.

## Plan

1. Proposer rotation module: the validator-set blob with the accumulator
   algorithm of spec 4.7. Properties:
   - the sum of accumulators is constant;
   - a validator's number of turns stays within one round of its share of the
     power;
   - `GetNextProposer` previews what `IncrementAccum(1)` makes current.
2. A recorded violation run for `UpdateSigner` (part_000:204), where the
   second write fails after the first has succeeded and `PowerFollowsIndex`
   breaks. TLC finds this with `Faults` on (see above). It is not yet a run
   of its own: the `store_rotation` run keeps `Faults` off.
3. The composition of queue and store: an applier popping staking records
   and applying them to the validator store.
