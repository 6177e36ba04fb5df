# TLA+ models of apibara's streaming, segment and ingestion code

This directory holds TLA+ models of the parts of this repository that have state and concurrency:
- the per-subscriber filtered data stream;
- the segment group builder;
- the block fetch with exponential backoff;
- the block fetch's conversion of gateway blocks, and the pending block fetch;
- the StarkNet node's builder and its lifecycle.

Each model has TLC configurations that check it on small instances. `FinalizedStream.tla` states abstractly what the stream promises about finalized data. The TLAPS proofs hold for every value of the constants:
- `FilteredDataStreamProofs.tla` proves the stream's type invariant and its main safety property;
- `FilteredDataStreamRefinement.tla` proves that the stream implements `FinalizedStream`;
- `FilteredDataStreamNoMissed.tla` proves that a finalized-only subscriber, or one on a chain that never reorganises, misses no finalized data;
- `SegmentGroupProofs.tla` proves that the group builder never writes a group name twice and puts groups in block order;
- `BlockFetchProofs.tla` proves the fetch's types and its time budget;
- `StarkNetNodeProofs.tla` proves the node's types.

Tools: `tlasany M.tla`, `tlc -workers 2 -config X.cfg M`, `tlapm M.tla`.

## 1. The system and its parts (inventory)

The repository (`src/`) is a slice of the apibara DNA server. The specification (`spec.md`) describes the pipeline as `ChainProvider → ChainTracker → SingleBlockIngestion → SegmentBuilder → IndexBuilder → SegmentGroupBuilder → BlobStore`. Subscribers read through a `StorageReader` and the ingestion message bus. Of that pipeline, `src/` contains the parts below.

| Part | Source | State | Operations | Interacts with |
|---|---|---|---|---|
| FilteredDataStream | `starknet/src/stream/filtered.rs` | `waker`, `inner` (batch size, finality, `previous_iter_cursor`, `finalized_cursor`, `accepted_cursor`, filter) | `new`, `reconfigure_data_stream`, `handle_ingestion_message`, `wake`, `poll_next` → `advance_to_next_batch` → `send_finalized_batch` / `send_accepted_batch`, `size_hint` | storage (canonical chain), ingestion messages, the consumer polling it |
| SegmentGroupBuilder | `dna/starknet/src/segment/group_builder.rs` | `first_block_number`, `segment_count`, flatbuffer builder | `new`, `handle_segment_event`, `flush` | the segment builder (events), blob storage (`writer`, `put`) |
| BlockBuilder fetch | `starknet/src/block_builder.rs` | the backoff policy | `new`, `latest_block_with_backoff`, `block_by_number_with_backoff`, `fetch_block`, `fetch_pending_block`, `TryFrom` conversions | the sequencer gateway, the cancellation token |
| StarkNetNode | `starknet/src/node.rs` | the builder's fields, the tasks' join handles | builder `new`, `with_*`, `build`; `start`, `ensure_tables` | block ingestion, healer and server tasks, database |
| Index | `starknet/src/segment/index.rs` | maps key → bitmap | `merge`, conversions | group index (spec 4.4) |
| Sink configuration | `sink-common/src/configuration.rs` | none | `to_configuration`, `to_finality`, `to_transformer`, `new_filter` | command line, files |
| Data types and generated code | `common/src/segment.rs`, `segment/conversion/model.rs`, `*_generated.rs`, `segment/mod.rs`, `evm/src/cli/common.rs`, `beaconchain/src/ingestion/mod.rs` | none | getters, constructors, (de)serialization | — |

The behaviours that make this code hard to test:
- **Interleavings in the stream.** Ingestion messages and `poll_next` interleave with each iteration of the finalized walk, and each iteration re-reads storage.
- **Reorganisations.** A reorganisation can replace a block that a subscriber has already received.
- **Waker protocol.** The waker is taken by `wake()`, and `poll_next` returns `Pending` without arranging a wake-up.
- **Group builder: partial failure.** The count is raised before the fallible put, so a failed put leaves it raised. If the event is then handed over again, the segment is counted twice.
- **Group builder: restart.** A restart loses the open group.
- **Fetch: retry classification.** Which gateway errors are retried, and whether the backoff always ends.
- **Node shutdown.** `start` returns on the first task to end, whatever that task's result was.
- **Stream progress.** An empty finalized batch rewinds the stream to block 0. Only the eventual handling of the `Finalized` message moves it on, so whether the stream ever sends every final block depends on the message branch being taken.
- **Block conversion.** A gateway block without a hash, number or state root is a permanent error for `fetch_block`, but `fetch_pending_block` accepts it and numbers it 0.

## 2. Modules

| Module | Models | Kind |
|---|---|---|
| `ChainIngestion` | the canonical chain in storage and the ordered channel of `IngestionMessage`s | environment, modelled from spec 4.1 and 4.5 (the chain tracker is not in `src/`) |
| `FilteredDataStream` | `filtered.rs`, composed with `ChainIngestion` | component |
| `MC_FilteredDataStream` | filters and starting cursors for TLC | model-checking instance |
| `FilteredDataStreamProofs` | TLAPS proofs about `FilteredDataStream` | proofs |
| `FinalizedStream` | what a stream promises about finalized data (spec 4.6, section 8) | abstract specification |
| `FilteredDataStreamRefinement` | TLAPS proof that `FilteredDataStream` implements `FinalizedStream` | proofs |
| `SegmentGroup` | `group_builder.rs`, with the segment builder and its checkpoint from spec 4.3 and 6 | component and environment |
| `FilteredDataStreamNoMissed` | TLAPS proof of `NoMissedData` for finalized-only subscribers or chains without reorganisations | proofs |
| `SegmentGroupProofs` | TLAPS proofs about `SegmentGroup` | proofs |
| `BlockFetch` | `fetch_block`, the backoff retry, `fetch_pending_block` and the two `TryFrom` block conversions of `block_builder.rs` | component |
| `BlockFetchProofs` | TLAPS proofs about `BlockFetch` | proofs |
| `StarkNetNode` | `StarkNetNodeBuilder` and `StarkNetNode::start` | component |
| `StarkNetNodeProofs` | TLAPS proof of the type invariant of `StarkNetNode` | proofs |

### FilteredDataStream

**State.** The variables map onto the Rust fields as follows:
- `configured` is `inner.is_some()`.
- `finality`, `batchSize`, `filter` and `prev` are the fields of `InnerDataStream`. `prev` is `previous_iter_cursor`, with `NoCursor` (number -1) standing for `None`.
- `finCur` and `accCur` are `finalized_cursor` and `accepted_cursor`.
- `waker` is `waker.is_some()`.
- `pollable` records that the consumer will poll again: the last poll returned `Ready`, or a wake-up came.

**Actions.** Each action corresponds to one operation in the code:
- `ReconfigureDataStream` covers the whole of `reconfigure_data_stream`. That includes its error when nothing is finalized yet and its trailing `wake()`.
- `HandleIngestionMessage` is `handle_ingestion_message`.
- `PollNext` is `poll_next`. It covers `advance_to_next_batch`, `send_accepted_batch` and the start of `send_finalized_batch`.
- `WalkStep` is one iteration of the `while` loop of `send_finalized_batch`. It includes the return that follows the last iteration.

`PollNext`'s start of a finalized batch has two branches. With a positive `batch_size` it starts the walk. With a `batch_size` of 0 the loop is never entered: the empty batch is sent and `previous_iter_cursor` becomes `None`. The stream copies `batch_size` from the configuration unchecked (`filtered.rs:94`).

The walk is split into iterations because each iteration reads storage again, so ingestion can change the chain between two of them. The variables `cur`, `bLen`, `bData` and `bEnd` are the loop's locals.

**Client and data.** The client is reduced to what it received:
- `received` counts, per cursor, the deliveries since the last reconfiguration, saturating at 2.
- `finalRecv` holds every cursor ever sent in a finalized batch.

A filter is a set of cursors, and `data_for_block(c)` is `c \in filter`. A block's hash is the number of the reorganisation that produced it.

**Environment.** `ChainIngestion` lets the chain do three things:
- accept a new block;
- finalize up to an accepted block;
- reorganise above the finalized block.

Each of these appends the matching message. The message type has only `Accepted` and `Finalized`, because the code has no `Invalidated` arm.

**Abstract specification and refinement.** `FinalizedStream` keeps the chain of `ChainIngestion` and adds two variables: `filter`, the client's current filter, and `delivered`, the blocks sent as finalized. Its steps are:
- a chain step;
- `Configure`, a new filter;
- `Consume`, the stream taking a message off the channel;
- `SendFinal`, which adds to `delivered` only blocks that are final, canonical and in `filter`, and removes nothing.

`FilteredDataStream` instantiates it with `delivered <- finalRecv`, and the chain, the channel and the filter map to themselves. Under this mapping:
- `ReconfigureDataStream` is `Configure`;
- `HandleIngestionMessage` is `Consume`;
- the `WalkStep` that returns a finalized batch is `SendFinal`;
- `PollNext` and the other iterations are stutters.

The property `ImplementsFinalizedStream == Abstract!Spec` is checked by TLC and proved by TLAPS.

### SegmentGroup

**State.** `segmentCount` and `firstBlockNumber` are the builder's fields. `written` is the sequence of group blobs put to storage, each abstracted to `[first, count]`.

**Actions.**
- `HandleSegmentEvent` is `handle_segment_event` together with `flush`. It covers:
  - the `segment_count == 0` test;
  - the raise of the count;
  - the early return below `group_size`;
  - the put and the resets.

  A failing `storage.writer` or `writer.put` is the disjunct in which the count stays raised and the event stays with the caller.
- `FlushSegment` and `Restart` are modelled from the spec:
  - The segment builder writes a segment, checkpoints it (`last_flushed_segment`) and emits `Flushed`.
  - On a restart the builder is new, and segments resume after the checkpoint.
  - The caller hands an event over again after an error, because spec section 7 says transient I/O is retried.

### BlockFetch

**Gateway blocks.** A gateway answer is either `[error |-> e]` or a block record. The record has an optional hash, an optional number, an optional state root and a status. These are the fields the conversions test or default. The conversions are:
- `Convertible` and `AsBlock` (`TryFrom ... for Block`): a missing hash, number or state root is `UnexpectedPendingBlock`.
- `AsPendingBlock` (`TryFrom ... for PendingBlock`): the number defaults to 0 and the root to empty bytes.

**State.** `phase` tracks where the fetch is: requesting, sleeping, or ended with a block or an error. `elapsed`, `interval` and `sleepFor` model the `ExponentialBackoff`, with time in units of 5 s:
- initial interval 10 s;
- multiplier 2;
- max interval 60 s, the crate's default;
- max elapsed time 300 s.

The randomization factor of 0.5 is abstracted to the two ends and the middle of its range.

**Actions.**
- `Request(ans, d)` is `fetch_block` applied to one gateway answer, followed by the retry's decision. `GotBlock` is its block branch: the converted block, or a permanent `UnexpectedPendingBlock`.
- `FetchPendingBlock(ans)` is `fetch_pending_block`. Its errors are ignored, a block whose status is not pending is `Ok(None)`, and a pending block is converted as `PendingBlock`. `pending` holds the result.
- `Sleep` is the retry future sleeping.
- `Cancel` triggers the token.

`TimeBound` is a named bound on the clock: max elapsed time, plus the longest randomized interval (`MaxSleep`), plus twice the longest request (`MaxRequestTime`). It appears in the guards and never blocks the real model. `RetryWithinBudget` says that no sleep ends, and no request starts, after max elapsed time plus `MaxSleep`. The theorem `ClockBoundNeverBinds` derives from this that the guards on `TimeBound` hold whenever the phase enables `Request` or `Sleep`. `FetchAssumption` requires a longest request duration to exist (the HTTP client's timeout), so that `MaxRequestTime` is defined.

### StarkNetNode

**State.** `pc` is the position in the builder and then in `start`. `builder` holds the builder's fields, each abstracted to whether it keeps its default. `result` is what the builder or `start` returned. `task[t]` is the state of each join handle: not spawned, running, or ended with `ok`, `err` or `panic`. `token[t]` records that the task holds a clone of the token.

**Actions.**
- `BuilderNew` is `StarkNetNodeBuilder::new`. It may panic (`expect("no datadir")`) or fail on the url.
- `WithDatadir`, `WithPollInterval` and `WithRequestObserver` each set one field.
- `Build` may fail with `CreateDatadir` or `DatabaseOpen`. Otherwise it wraps the database in `StarkNetNode::new`.
- `EnsureTables`: `ensure_tables` may fail and return early.
- Three spawn actions, one per `tokio::spawn`.
- `Select` is the `select!`.

The task bodies are not in `src/`. Following spec sections 5 and 7, a task may end with an error or a panic at any time, and ends Ok once it sees the token cancelled.

## 3. Runs

| Run | Module / cfg | Checks | Result |
|---|---|---|---|
| `stream_finalized` | `MC_FilteredDataStream` | `TypeOK`, `FinalizedDataIsFinal`, `NoMissedData`, `FinalizedWorkEventuallyPolled`, `ImplementsFinalizedStream` | pass (about 160k distinct states, under 1 min) |
| `stream_accepted` | `MC_FilteredDataStream` | `NoMissedData`, `FinalizedDataEventuallySent` for accepted and pending subscribers, whose streams also send finalized batches | pass (about 49k distinct states) |
| `stream_redelivery` | `MC_FilteredDataStream` | `NoRedelivery` | violation: an empty finalized batch rewinds the stream |
| `stream_reorg_missed` | `MC_FilteredDataStream` | `NoMissedData` with a reorganisation | violation: the replacement of a reorganised block is never sent |
| `group_faults` | `SegmentGroup` | `GroupTypeOK`, `NoGroupOverwrite`, `GroupsPutInOrder` (action property) with storage errors and a restart | pass |
| `group_retry` | `SegmentGroup` | `GroupsPartitionSegments` with a failed put | violation: a retried event is counted twice |
| `group_restart` | `SegmentGroup` | `GroupsAligned` with a restart | violation: groups off the group boundary |
| `fetch_backoff` | `BlockFetch` | `FetchTypeOK`, `RetryWithinBudget`, `FetchEnds` | pass |
| `fetch_transient` | `BlockFetch` | `TransientErrorsRetried` | violation: transport errors are permanent |
| `node_shutdown` | `StarkNetNode` | `ShutdownCompletes` | pass |
| `node_exit` | `StarkNetNode` | `OkMeansCleanShutdown` | violation: `start` returns Ok after a fatal error, with tasks still running |

The violations are listed, with what they show, under "findings" in `PROJECT.json`.

Every property of every passing run has a mutant in `PROJECT.json`. A mutant is an operator defined just before the definition it replaces, and it changes that definition the way a plausible bug would. TLC finds each mutant's property violated.

**Bounds.**
- **Stream runs.** Blocks 0..2, at most one reorganisation, two reconfigurations, batch sizes 1 and 2, and two filters:
  - a sparse filter with data in blocks 0 and 2;
  - a filter matching only post-reorganisation blocks.

  These bounds are enough for every case that matters to happen: a batch that fills up, a batch that stops at the finalized boundary, a batch with no match, a reorganisation above the finalized block, and a stale message after a reconfiguration. With three blocks the state space stays within a few minutes.

  The passing runs leave out a batch size of 0, as the server's configuration validation (outside `src/`) requires. With `BatchSizes = {0}`, TLC finds `FinalizedDataEventuallySent` violated: every batch is empty and rewinds the stream.

  `FinalizedDataEventuallySent` is checked in `stream_accepted` only. It quantifies over every cursor and reconfiguration count, and TLC checks each instance separately, which on `stream_finalized`'s reorganising chain takes more than four minutes. The livelock it guards against does not need a reorganisation: with weak instead of strong fairness on `HandleIngestionMessage`, `stream_accepted` already violates it.
- **Group run.** Segment size 2, group size 2, six segments, two storage errors and one restart. These give three groups, a failure on a flush and a restart both inside and between groups.
- **Fetch run.** Every gateway error, every shape of gateway block (hash, number and root each present or absent, status pending or accepted; one block number), and requests of 0 or 5 s. The time scale is the code's own.
- **Node runs.** The whole builder: each `with_*` call, and every builder error.

**Deadlock.** The stream runs, the group runs and the node runs say `CHECK_DEADLOCK FALSE`, because the modelled system really stops: the chain, the client, the segment supply and the task list are finite. The fetch ends with a block or an error, after which nothing happens.

## 4. Fairness

- **Stream.**
  - `PollNext`: the consumer polls again after a `Ready`, and after a wake-up.
  - `WalkStep`: the walk is a loop inside one poll.
  - `HandleIngestionMessage`: the server forwards every message.

  `PollNext` and `WalkStep` are weakly fair. `HandleIngestionMessage` is strongly fair. The server's `tokio::select!` picks at random among the ready branches, so a message that is ready again and again is eventually taken. Weak fairness would not be enough: while the consumer polls, the message branch is not continuously enabled, and a stream could re-walk from block 0 forever without taking the `Finalized` message that unblocks it. Ingestion and reconfiguration have no fairness, because they are the environment.
- **Fetch.** `Request` and `Sleep` are weakly fair, because the runtime polls a ready future.
- **Node.** The steps of `start` are weakly fair. A task that holds a cancelled token reaches a suspension point and ends (spec section 5).

## 5. Proofs

`FilteredDataStreamProofs.tla` assumes `ChainAssumption` and `StreamAssumption`: the bounds and the batch sizes are naturals, and the filters are sets of cursors. From these it proves two theorems.

- **`TypeCorrect`: `Spec => []TypeOK`.** The type invariant is inductive. `TypeStep` has one case per action, and under each a case per branch of the code.
- **`FinalizedFinal`: `Spec => []FinalizedDataIsFinal`.** Every block sent as finalized is still at or below the finalized head and still canonical.

`FinalizedDataIsFinal` is not inductive as it stands. It rests on `IInv`, which adds:
- `CurFinal`: the stream's `finalized_cursor` is itself final. This is needed because the walk stops at `finalized_cursor`, not at storage's finalized head.
- `MsgsFinal`: every `Finalized` message still queued names a final block. This is needed because such a message becomes `finalized_cursor`.
- `WalkFinal`: the walk's current block, and the data collected so far, are final.

The argument rests on two lemmas:
- `FinalStable`: finality is stable under ingestion, because reorganisations stay above the finalized head.
- `MsgsFinalIngestion`: a new `Finalized` message names the block just finalized.

`FilteredDataStreamRefinement.tla` proves **`Refinement`: `Spec => ImplementsFinalizedStream`**. The argument has these parts:
- `InitRefines`: the initial states map to initial states.
- `StepRefines`: every step maps to a step of `FinalizedStream` or to a stutter. There is one case per action, and the chain step is handled by `IngestionRefines`.
- The hard case is the last `WalkStep` of a batch. The blocks it adds must be final, and that comes from `IInv`'s `WalkFinal`. They must also be in the current filter, and that comes from a second invariant, `WalkFilter`: the batch being walked holds only blocks of the current filter. `WalkFilter` holds because reconfiguration needs `pc = "idle"` (lemma `WalkFilterStep`).
- The temporal steps combine these by PTL.

The assumptions are `ChainAssumption` and `StreamAssumption`. The batch sizes are naturals, 0 included.

`SegmentGroupProofs.tla` assumes `GroupAssumption`: the segment and group sizes are positive and the bounds are naturals. It proves two theorems:
- **`GroupTypeCorrect`: `Spec => []GroupTypeOK`.**
- **`NoOverwrite`: `Spec => []NoGroupOverwrite`.**

Both come from the inductive invariant `IInv` (theorem `GroupInvariant`). `IInv` says that the group blobs are written in strictly increasing order of first block (`WrittenIncreasing`), and that everything that can become the first block of the next group lies above them:
- the open group's first block, while `segment_count > 0` (`OpenGroupAbove`);
- the event in hand (`PendingAbove`);
- every segment still to be flushed (`WrittenBelowNext`).

Two facts make these hold across a restart and a failed put:
- `NextAfterCheckpoint`: the segment builder's next segment is always the one after its checkpoint, so a restart does not rewind it.
- `PendingIsCheckpoint`: the event in hand is the checkpointed segment.

`CountBound` (`segment_count <= group_size - 1 + failures`) gives the type of the count. There is one lemma per action. `HandleStep` has one case per outcome of `handle_segment_event`: raise, flush, and failed put.

It also proves the action property **`PutInOrder`: `Spec => GroupsPutInOrder`**. Every step either puts no group or appends one whose first block is above that of every earlier group. `HandleAppends` shows this for `handle_segment_event`: the appended group starts at the open group's first block, and `AcceptFirst` puts that block above every written group. The other actions leave `written` alone. The temporal step combines `[]IInv` with `AppendsStep` by PTL.

`FilteredDataStreamNoMissed.tla` proves **`NoMissedFinalized`: `FinalizedOrNoReorgs => (Spec => []NoMissedData)`**. `FinalizedOrNoReorgs` says that the subscriber may only ask for finalized data (`Finalities = {"finalized"}`), or that no reorganisation can happen (`MaxReorgs = 0`). The theorem needs this hypothesis: run `stream_reorg_missed` shows `NoMissedData` failing for an accepted subscriber across a reorganisation. The two passing stream runs are the two cases of the hypothesis.

The inductive invariant `NMInv` extends the `IInv` of `FilteredDataStreamProofs` with:
- `IdleCovered`: between two polls, every block from `startNum + 1` to `previous_iter_cursor` whose canonical version matches the filter has been sent. Those heights are `Stable`: at or below the finalized block, or, when no reorganisation can happen, ingested. So their canonical version never changes again. Unlike `NoMissedData`, `IdleCovered` has no `n <= finNum` guard: it covers every block the cursor passed, and `FinalizeBlock` cannot break it.
- `WalkCovered`: inside the loop of `send_finalized_batch`, every matching block before the current one was sent or is in the batch, and the batch end lies before the current block.

There is one lemma per action:
- `NMIngestion`: the chain changes only heights that are not stable.
- `NMReconfigure`: the new range is empty.
- `NMPoll`: a batch starts where the covered range ends. With a batch size of 0 the cursor rewinds to `None`, so the range is empty. `send_accepted_batch` moves the cursor to a block that is stable only because `MaxReorgs = 0`.
- `NMWalk`: the current block is final, so it is its height's canonical cursor, and it joins the batch when it matches.

`BlockFetchProofs.tla` assumes `FetchAssumption` and proves three theorems:
- **`FetchTypeCorrect`: `Spec => []FetchTypeOK`.** The type invariant is inductive, with the lemmas `RandomizedBound`, `NextIntervalBound` (the interval stays within its cap) and `ConversionType` (both `TryFrom` conversions build a `Blocks` record).
- **`WithinBudget`: `Spec => []RetryWithinBudget`.** Together with `FetchTypeOK` it is inductive (`BudgetStep`). A sleep starts only when the deadline check of `Request` passes, and lasts at most `MaxSleep` because the interval is capped.
- **`ClockBoundNeverBinds`: `Spec => []ClockGuardsOpen`.** This follows from the budget invariant. It shows that the runs of `BlockFetch` lose no behaviour to the model's clock bound.

`StarkNetNodeProofs.tla` proves **`NodeTypeCorrect`: `Spec => []NodeTypeOK`**. `NodeTypeOK` is not inductive: a `with_*` setter updates one field of the builder, and the result is a builder record only if `StarkNetNodeBuilder::new` made one. The strengthening `NodeIInv` adds that `pc = "configure"` implies a built builder. No run checks `NodeTypeOK`: every value it allows is one the Rust types allow, so no plausible bug of `node.rs` breaks it, and the theorem is its only check.

**What stays with TLC.** The following are checked by TLC only:
- liveness: `FinalizedWorkEventuallyPolled`, `FinalizedDataEventuallySent`, `FetchEnds`, `ShutdownCompletes`;
- `GroupsPartitionSegments`, `GroupsAligned`, `NoRedelivery`, `TransientErrorsRetried` and `OkMeansCleanShutdown`, which the code violates (their runs expect a violation);
- `NoMissedData` outside the hypothesis of `NoMissedFinalized`, where it is false.

Liveness and `ENABLED` are out of the prover's reach.

## 6. Not modelled

- **`size_hint`.** It has no state change and has no run. By reading the code: `head - current` is computed in u64, and it underflows once an accepted batch has moved `previous_iter_cursor` past an `accepted_cursor` whose message is still queued.
- **Accepted blocks after an empty one.** `send_accepted_batch` returns `Ok(None)` for a block with no data, and `poll_next` pends without waking itself. The blocks already ingested after it wait for the next ingestion message, which spec 4.6 prescribes ("pend for next message"). No property states that the next message comes: on the model's bounded chain the messages stop. The wake-up on each message is checked by `FinalizedWorkEventuallyPolled`.
- **Storage read errors.** `map_err(StreamError::internal)` makes `poll_next` return `Ready(Some(Err))`.
- **Exact wire layout.** The data and cursor bytes of responses.
- **Field-by-field conversions.** The `From` conversions of transactions, receipts, events and messages in `block_builder.rs` (lines 222-528) copy fields, and no control depends on them.
- **The pending block's number.** `AsPendingBlock` computes it, and it is 0 whenever the gateway reports none. What it should be, the head's successor, depends on the chain head, which `BlockFetch` does not hold. The callers that use it are outside `src/`. It is listed as a hazard with no property.
- **Generated flatbuffers code** and the plain data types.

## 7. Plan

Done so far:
- the four components, with their runs and mutants, and the two stream theorems;
- the stream's liveness for finalized data (`FinalizedDataEventuallySent`) and the `batch_size = 0` branch;
- the abstract `FinalizedStream`, with its refinement checked and proved;
- the block conversions and `fetch_pending_block`;
- the node's builder;
- the `NoGroupOverwrite` proof;
- proofs of `NoMissedData` (under its hypothesis), of `GroupsPutInOrder`, of the fetch's types and time budget, and of the node's types.

Next:
1. **Index merge** (`index.rs`). A pure operator checked against the spec's group index, which is keyed by group-absolute offsets. `merge` ORs segment-relative offsets.
2. **Sink configuration** (`configuration.rs`). `to_finality` and `to_configuration` checked against a reference over all flag combinations.
3. **An abstract specification of accepted data**, alongside `FinalizedStream`, refined by the accepted branch of the stream.
4. **Safety behind `ShutdownCompletes`.** Prove that every spawned task holds a clone of the token, the invariant the liveness argument uses.
5. **The chain tracker's reorganisation past finality (spec 4.1).** To be modelled once its code is available.
