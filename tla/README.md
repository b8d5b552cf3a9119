# TLA+ models of HailoRT's context-switch compiler and host runtime

This directory holds TLA+ models of parts of `src/hailort/libhailort/src`. Each model is checked with TLC. `PROJECT.json` records the following:

- every component of the source, modelled or not, with the reason;
- every TLC run, and one mutant per property of each passing run, which shows that the property can fail;
- the source lines each definition translates (`map`);
- the findings the violation runs show;
- the hazards of the code and the properties that cover them.

Run a model from this directory with `tlc -workers 2 -config <cfg> <module>`.

## 1. The system and the modules

The library compiles a HEF (the compiled network file) into context-switch action lists for the device firmware. It then drives inference through host-side streams and virtual streams (vstreams).

| Part | Source | Module(s) |
|---|---|---|
| Action-list rewrite passes | `hef.cpp` 1767-2196 | `ContextSwitchActions`, `ActionListCompiler`, `ActionListPasses` |
| Edge-layer wiring, multi-context assembler | `hef.cpp` 1211-1366, 1579-1873, 2243-2379 | `EdgeLayerWiring` (+ `MC_EdgeLayerWiring`) |
| Serialize-API action classes | `context_switch/context_switch_actions.cpp` | `SerializeActions` |
| HCP (single-context) configuration | `context_switch/hcp_config_manager.cpp`, the per-group checks of `hef.cpp` 2390-2514, 3461-3487 | `HcpConfigManager` (+ `MC_HcpConfigManager`) |
| Core-op activation | `vdma/vdma_config_core_op.cpp` | `VdmaConfigCoreOp` (+ `MC_VdmaConfigCoreOp`) |
| Thread-safe queues | `thread_safe_queue.hpp` | `SpscQueue`, `SafeQueue` (+ `MC_ThreadSafeQueues`) |
| Stream buffer pools | `vdma/circular_stream_buffer_pool.cpp`, `stream_common/queued_stream_buffer_pool.cpp` | `StreamBufferPool` (abstract), `CircularStreamBufferPool`, `QueuedStreamBufferPool`, `MC_StreamBufferPools` |
| Transfer buffers | `stream_common/transfer_common.cpp` | `TransferBuffer` |
| Vstreams and the multiplexer wrappers under them | `net_flow/pipeline/vstream.cpp`, `vdevice/vdevice_stream_multiplexer_wrapper.cpp` | `VStreams` (+ `MC_VStreams`) |

The parts interact as follows:

- The compiler: `EdgeLayerWiring` wires each context's edge layers to channels, then runs the context's operations. `ActionListCompiler` models those operations, which appear as one step of `EdgeLayerWiring`.
- `SerializeActions` is the newer action API that turns actions into firmware buffers.
- The runtime:
  - `VdmaConfigCoreOp` activates the core ops whose streams the pools feed.
  - `SpscQueue` connects the pipeline threads.
  - `VStreams` drives the multiplexed streams.

### How each module corresponds to the code

- **ContextSwitchActions / ActionListCompiler / ActionListPasses.**
  - An action is a record of its type, channel index, burst or member count, sub-type and repeated flag. Proto payloads that no pass reads are left out.
  - In `ActionListCompiler`, one step is one of the following:
    - one iteration of a pass's `for (action_index ...)` loop;
    - one CHECK failure;
    - the end of a pass.
  - After the passes, `ActionListCompiler` runs the execute loop, one action per step. It keeps only the config buffers' state:
    - `WriteDataCcwAction::execute`: with pre-fetch, the write that `is_last_ccw_write` finds last is preceded by `pad_with_nops` and followed by `program_descriptors`;
    - `CreateConfigDescAndFetchAction::execute`: `program_descriptors`.

    Each buffer's total comes from `get_config_buffer_info`, for a context of one operation. `ConfigBuffer` is not in this repository, so its `write` and `program_descriptors` are modelled from spec.md and marked `spec_modelled`. The other actions' `execute` writes firmware metadata through functions that are not in this repository.
  - `ActionListPasses` states each pass as one atomic step, given by a declarative result (`FetchResult`, `EdgeResult`, `RepeatResult`). The detailed module refines it through `INSTANCE ... WITH`; inside a pass, the refinement mapping clears the repeated flags that pass C is setting.
- **EdgeLayerWiring.**
  - One step is one iteration of `parse_and_fill_edge_layers_mapping`: one `fill_*_layer` call, or one round of freeing channels. A context's operations are one step that succeeds or fails.
  - The `ResourcesManager` allocator is not in this repository. It is modelled from spec.md section 6 and marked `spec_modelled` in the map.
- **SerializeActions.**
  - Covers every action class:
    - its firmware type;
    - `supports_repeated_block`;
    - where `serialize_params` takes each field from.
  - Also covers the following functions:
    - `serialize`;
    - `serialize_header`;
    - `pack_vdma_channel_id`;
    - the edge-layer lookups;
    - `RepeatedAction::create` and `RepeatedAction::serialize`.
  - The firmware's reading of the buffers (`Exec`) is the reference. It is modelled from spec.md.
- **HcpConfigManager.**
  - One step is one iteration of `add_hef`'s loop over the HEF's network groups. This includes the partial-layout choice for HAILO8L HEFs, the configure-params matching, the appends to `m_net_groups` and the wrappers, and every failure point between them.
  - The HEF, the device architecture and the layout bitmap are chosen in `Init` among the HEFs that `Hefs` admits.
  - Each network group of the HEF has a content from `NetworkGroups`: its contexts, boundary and inter-context layers, and the config actions of its one context. Per group, `GroupCheckStatuses` runs the CHECKs of the loop body in code order:
    - exactly one context;
    - no DDR layers (`contains_ddr_layers`);
    - unique boundary names of type INFO or MUX (`validate_net_group_unique_layer_names`);
    - the config buffers (`create_single_context_network_group_config`). This builds the writes of each `WRITE_DATA`, and `parse_ccw_buffer` checks each `WRITE_DATA_CCW` buffer's length against its words count. A trigger other than `NONE`, or any other action, fails it.
  - `MC_HcpConfigManager` gives seven contents: one valid group, and six that each fail one of these checks.
- **VdmaConfigCoreOp.**
  - `activate_impl`, `deactivate_impl` and `shutdown` are each one step. A step runs the function's calls in order, up to the first one that fails; there is no rollback.
  - The device has one cache-update callback, keyed by notification id. The notification thread runs that callback whenever it is set.
- **SpscQueue.**
  - There is one producer thread and one consumer thread. Each call is split at the points where the other thread can step in:
    - the semaphore wait;
    - the inner queue operation;
    - the callback-mutex block;
    - the final signal.
  - The pipeline signals and resets the shutdown event.
- **SafeQueue.**
  - Models `SafeQueueMaxSize`: any number of producer threads calling `push` and consumer threads calling `pop`, on one mutex and the two condition variables `m_queue_not_empty` and `m_queue_not_full`.
  - A call's locked section is one step. The threads interleave only at the waits: `notify_one` moves one waiter out of a wait set, and so may a spurious wakeup. The woken thread re-takes the mutex and re-tests the wait's predicate in a later step, racing threads that never waited.
  - The queued values are not told apart by any property, so the queue is its size.
  - `MC_ThreadSafeQueues` runs `SpscQueue` and `SafeQueue` side by side. Each step is a step of one queue.
- **StreamBufferPool and its two refinements.**
  - `StreamBufferPool` is what a pool promises: `max_queue_size` buffers, given back in the order they were handed out, and all of them free again after `reset_pointers`.
  - `CircularStreamBufferPool` is the head/tail ring, over every geometry `create` accepts. The `circbuf_t` macros are written out where they are used.
  - `QueuedStreamBufferPool` is the `std::queue` of buffers. Its producer gives back held buffers in any order.
  - `MC_StreamBufferPools` runs both pools side by side. It checks each pool against `StreamBufferPool` through `INSTANCE ... WITH`.
- **TransferBuffer.**
  - `get_continuous_parts`, `copy_to` and `copy_from` are operators.
  - `CircularStreamBufferPool` checks them against modular reference definitions on every buffer it hands out.
- **VStreams.** The model has the input vstreams `Inputs` and the output vstreams `Outputs` of a scheduled network group. `MC_VStreams` has two of each, with symmetry within each kind. Neither needs a transformation, so each pipeline is a single `HwWriteElement` or `HwReadElement`.
  - Three layers each keep their own abort state:
    - the vstream's `m_is_aborted`;
    - the wrapper's flag, together with the multiplexer's enable flag;
    - the abort of the VDevice stream.
  - The actions are:
    - `Create`: `create_inputs`/`create_outputs`, the elements' `create`, the Impl `create` and the constructor's `start_vstream`;
    - `Destroy`: the destructor's `stop_vstream`;
    - `start_vstream`, `abort`, `resume`, `stop_vstream` (`Stop`) and `stop_and_clear`;
    - the static `clear` of a vector of vstreams, all inputs or all outputs, in any order: `stop_vstream` of each one, then `start_vstream` of each one, stopping at the first failure (`StopAll`, `StartAll`);
    - `write`, `flush` and `read`.
  - The wrappers belong to the network group, so their state outlives the vstreams.
  - The multiplexer and the VDevice streams are not in this repository. Their calls either succeed with the effect their names state, or, when `Failures` is TRUE, fail with no effect.

## 2. Runs

| Run | Module / cfg | Expect | Properties |
|---|---|---|---|
| `action_list` | `MC_ActionListCompiler` / `ActionListCompiler.cfg` | pass | `TypeOK`, `BurstConservation`, `SingleActivationRun`, `RoundTrip`, `HeaderWellFormed`, `ConfigBuffersFetched`, `ImplementsPasses` |
| `stream_buffer_pools` | `MC_StreamBufferPools` / `StreamBufferPools.cfg` | pass | `TypeOK`, `HeldBuffersDisjoint`, `CopyToReadsWindow`, `CopyFromWritesWindow`, `EachBufferOnce`, `ImplementsStreamBufferPool` |
| `spsc_queue` | `MC_ThreadSafeQueues` / `ThreadSafeQueues.cfg` | pass | `QueuesTypeOK`, `InnerQueueOpsSucceed`, `CallbacksTrackFullness`, `SafeQueueWithinMaxSize`, `SafeQueueNoThreadWaitsForever`, `ItemsLeaveQueue` |
| `core_op_activation` | `MC_VdmaConfigCoreOp` / `VdmaConfigCoreOp.cfg` | pass | `HostResourcesLayered` |
| `serialize_actions` | `SerializeActions` / `SerializeActions.cfg` | pass | `SerializedAsMeant`, `FailsOnlyOnMissingLayer` |
| `edge_layer_wiring` | `MC_EdgeLayerWiring` / `EdgeLayerWiring.cfg` | pass | `ChannelsDistinctInContext`, `LeasesReturnedAtContextEnd` |
| `edge_layer_ddr_engine` | `MC_EdgeLayerWiring` / `EdgeLayerWiringDdrEngine.cfg` | violation | `ChannelsOnLayerEngine` |
| `vstream_lifecycle` | `MC_VStreams` / `VStreams.cfg` | pass | `TypeOK`, `StreamAbortStateConsistent`, `ShutdownWhileStopped` |
| `vstream_read_after_stop` | `MC_VStreams` / `VStreamsReadAfterStop.cfg` | violation | `ReadSucceedsWithFrame` |
| `vstream_clear_abort_failure` | `MC_VStreams` / `VStreamsClearAbortFailure.cfg` | violation | `ResumeLeavesStreamWritable` |
| `hcp_add_hef_stale_pointer` | `MC_HcpConfigManager` / `HcpConfigManagerStalePointer.cfg` | violation | `ConfiguresEachHefGroup` |

### What the passing runs show

- **`action_list`**: The run covers every HEF action list of up to 4 actions and every context kind.
  - The three passes refine their atomic specification (`ImplementsPasses`).
  - With pre-fetch, the bursts fetched per channel add up to that channel's CCW writes (`BurstConservation`).
  - An operation with edge layers gets exactly one activation marker, with `StartBurstCreditsTask` right after the trigger run (`SingleActivationRun`).
  - Removing the inserted actions gives back the HEF list (`RoundTrip`).
  - Every repeated header announces 2..MaxRepeatCount flagged members directly after it (`HeaderWellFormed`).
  - After the execute loop, every byte written into a config buffer lies under programmed descriptors, and with pre-fetch each buffer ends on a page boundary (`ConfigBuffersFetched`). This ties three pieces of code together:
    - the fetch pass's placement of `CreateConfigDescAndFetchAction`;
    - the totals of the parsing pre-pass;
    - the last-write test of `WriteDataCcwAction`.
- **`stream_buffer_pools`**: The circular pool is checked on every geometry `create` accepts.
  - Held buffers never overlap.
  - `copy_to` and `copy_from` move exactly the held window, in ring order.
  - In the queued pool, no buffer is ever in two places, whatever order the producer gives buffers back in.
  - Both pools refine `StreamBufferPool`.
- **`spsc_queue`**: The run has timeouts, shutdown signalled and reset, and `clear()` from the consumer.
  - The inner-queue asserts hold.
  - The can/cant-enqueue callbacks track fullness, although both threads update the count.
  - Every queued item leaves the queue unless shutdown intervenes (`ItemsLeaveQueue`, liveness).
  - In `SafeQueueMaxSize`, the queue never exceeds `m_max_size` and `pop` never takes from an empty queue. This holds although a woken waiter can lose the mutex to a new call (`SafeQueueWithinMaxSize`).
  - No thread is ever left in a wait set with every other thread done or waiting (`SafeQueueNoThreadWaitsForever`). The notifies of `push` and `pop` are enough for two producers and two consumers on one slot.
- **`core_op_activation`**: Any call of the three functions may fail at any point. A later call still starts from what the failed one left, and throughout the host resources stay layered: streams run only under the dispatcher and the launcher, and all of them only under an enabled state machine.
- **`serialize_actions`**: The firmware reads back exactly the actions that were meant (`SerializedAsMeant`). Serialize fails only when a stream has no edge layer (`FailsOnlyOnMissingLayer`).
- **`edge_layer_wiring`**: Each DDR pair sits either on the engine numbered like its context or on engine 0. The engine-0 placement is the one in which `hef.cpp:1705` asks for the pair's D2H channel on the wrong engine (see `edge_layer_ddr_engine`), so the run covers the code's behaviour there too.
  - No context's metadata gives one channel to two edges (`ChannelsDistinctInContext`).
  - When a context's free loops are done, the allocator holds exactly the boundary leases of the contexts wired so far, context 0's preliminary wiring under `preliminary_run_asap` included (`LeasesReturnedAtContextEnd`). Every inter-context and DDR lease was given back, whatever engine it was taken on, and no boundary lease was lost.
- **`vstream_lifecycle`**: Every sequence of these calls on two inputs and two outputs is checked: create, start, abort, resume, stop, stop_and_clear, clear of any vector, write, flush, read and destroy.
  - While the user holds a vstream, the vstream's abort state agrees with the wrapper's. At all times the wrapper, the multiplexer and the VDevice agree on it (`StreamAbortStateConsistent`). This relies on two things:
    - `stop_vstream`'s `should_clear_abort`;
    - the new vstream's `start_vstream` clearing the abort that a destroyed vstream left behind.
  - The output's shutdown event is signalled exactly while the output is stopped (`ShutdownWhileStopped`).

### Findings (violation runs)

Each finding is described in full in `PROJECT.json`.

- **`vstream_read_after_stop`** (`vstream.cpp:1506`): Stopping a scheduled output vstream signals its shutdown event. `read()` then answers `HAILO_SHUTDOWN_EVENT_SIGNALED` with the pipeline status, which is `HAILO_SUCCESS`. So a read on a stopped vstream returns success without a frame (trace: create, stop_vstream, read).
- **`hcp_add_hef_stale_pointer`** (`hcp_config_manager.cpp:65`): `network_group_ptr` is never reset between iterations. On a HAILO8L device, suppose a HAILO8L HEF's second network group has no partial group for the device's layout. `add_hef` then configures the first network group twice and returns success. The trace passes the second group's own CHECKs with the first group's pointer, even for a content (for instance two contexts) that the CHECKs would refuse.
- **`edge_layer_ddr_engine`** (`hef.cpp:1705`): `fill_ddr_output_layer` asks for the DDR pair's D2H channel on engine `dst_context_index`. In context 1, a pair on engine 0 gets a channel on engine 1.
- **`vstream_clear_abort_failure`** (wrapper `clear_abort`, `vdevice_stream_multiplexer_wrapper.cpp:59`): with `Failures = TRUE`, a successful create, resume, start or clear should leave every stream it was called on usable (`ResumeLeavesStreamWritable`). TLC violates this in three calls:
  1. create;
  2. `stop_vstream`: the wrapper's `abort` sets `m_is_aborted` and disables the stream, and its `run_once(ABORT)` fails. The `should_clear_abort` path's `clear_abort` then clears `m_is_aborted` before its `enable_stream`, and that call fails too. The flag now says "not aborted", but the multiplexer has the stream disabled.
  3. `start_vstream` returns `HAILO_SUCCESS`: `clear_abort`'s early return (line 56) sees the flag clear, so the stream stays disabled.

  Without failures the property follows from the single success outcome of each call, so no passing run checks it.

Some divergences are recorded but have no run:

- spec.md §8 asks the passes to be idempotent, and they are not: a second run adds a second fetch. The code runs the passes once per operation, so no run checks it.
- `VDeviceOutputStreamMultiplexerWrapper::create` (`vdevice_stream_multiplexer_wrapper.cpp:324`) ignores the status its constructor sets, so a wrapper whose constructor failed is returned as created. The multiplexer's failing constructor is not in this repository, so no run checks it.
- `HwWriteElement::run_push` (`vstream.cpp:1913`) only logs a failed or aborted stream flush and still signals the flush event. So `InputVStream::flush` returns `HAILO_SUCCESS` for a flush that never reached the device. `VStreams` models this (`Flush`), but no comment or test says what `flush` promises on an aborted stream, so no property claims it.
- `QueuedStreamBufferPool::enqueue` checks only the storage index, so a buffer given back twice is queued twice. This is a hazard in `PROJECT.json`. The model's producer gives back only buffers it holds, because that is the contract the pipeline keeps.

## 3. Bounds

- **`action_list`** (`MC_ActionListCompiler`):
  - lists of up to 4 actions over 5 kinds;
  - 2 config channels;
  - 0 to 2 DDR pairs;
  - all 16 context-flag combinations;
  - `MaxRepeatCount = 3`, which stands for uint8 255, so a run of 4 repeatable actions splits into 3 + 1;
  - `MaxCcwBursts = 2`, which stands for uint16 65535, so 3 writes to one channel reach the overflow CHECK;
  - writes of 16 bytes (a CCW header and two data words) into 32-byte pages, so a channel's total ends mid-page or on a page boundary depending on its number of writes. `pad_with_nops`'s residue CHECK cannot fail with whole CCWs, and its `uint8_t` loop index needs fewer than 256 NOPs per page (an `ASSUME`).

  About 695k states.
- **`stream_buffer_pools`**:
  - descriptor counts {1,2,4,8};
  - pages of 1 or 2 bytes;
  - transfers of up to 5 bytes, so windows wrap;
  - queued pools of up to 5 buffers.

  About 204k states.
- **`spsc_queue`**:
  - `SpscQueue`: 2 slots and 4 items, so the queue fills, drains and fills again.
  - `SafeQueueMaxSize`: 1 slot, and two producers and two consumers of two calls each. So both wait sets fill, and a thread can be woken for an item that a new call takes first. Two items per producer are the fewest at which a producer that never waited can refill the slot while a woken producer waits for the mutex.

  About 526k states, the product of the two queues' state spaces.
- **`core_op_activation`**: 2 core ops, so one core op's unregister can remove the other's callback.
- **`serialize_actions`**: 2 stream indexes, 3 engines (`ENGINE_SHIFT = 5`) and groups of up to 3. About 2.9M states.
- **`edge_layer_wiring`**: up to 3 contexts and 3 engines, with 2 channels per engine and direction, so two earlier contexts' boundary leases and a third edge exhaust an engine. DDR pairs on the context's engine or on engine 0. About 2.55M states.
- **`vstream_lifecycle`**: two input and two output vstreams, so `clear` of a vector of two meets one vstream stopped and one running, and symmetry within each kind (7,505 states). The violation runs use the smallest bounds that show the finding.

## 4. Fairness and deadlock

- Only `SpscQueue` states liveness. `SafeQueue` states safety only: a woken waiter must win a contended `std::mutex`, which needs strong fairness, and `std::mutex` promises none. Instead, `SafeQueueNoThreadWaitsForever` rules out the state in which every thread is done or waiting and one is waiting. It assumes weak fairness of the producer's steps after its semaphore wait, and of the consumer. A pipeline element's thread loops for ever, and the producer runs until it has enqueued every item. The producer's wait itself is not fair, because it may time out.
- The other modules check safety only:
  - The compilers are one-shot single-threaded loops, and their cfgs set `CHECK_DEADLOCK FALSE` because they end in `done` or `failed`.
  - The vstreams and core ops are driven by a user who may stop calling at any time. Deadlock is checked for them: some call is always possible.

## 5. Not modelled

- **Threads inside the multiplexer wrappers.** `abort` and `clear_abort` test and set `m_is_aborted` without a lock, so two user threads calling one vstream's `abort` and `resume` at once could leave the flag opposite to the multiplexer's state. `VStreams` has one user thread, with each call one step.
- **The unbounded base `SafeQueue`.** `SafeQueueMaxSize` overrides its `push` and `pop`. Its `pop` loops on `wait_for` with a timeout, so it cannot wait for ever. Nothing under `src/` uses either class.
- **Failures of the multiplexer and VDevice in the passing run.** `vstream_lifecycle` sets `Failures = FALSE`; the violation run `vstream_clear_abort_failure` sets it TRUE and shows the partial-failure state of `clear_abort`. With failures, TLC also finds `StreamAbortStateConsistent` violated once a wrapper call stops part-way, so it is checked failure-free only.
- **Mixed-class repeated groups.** `SerializeActions.cfg` sets `SameTypeGroups = TRUE`. `RepeatedAction::create` checks only the first action's type, and `serialize` only asserts the others (`context_switch_actions.cpp:316`, 360). But nothing under `src/` calls `create`, and the assert documents the precondition, so no reachable code builds a mixed group.
- **The cache-update firmware check.** `update_cache_offset` keeps the check that the core op is activated commented out (`vdma_config_core_op.cpp:322-339`, HRT-14287, for the scheduler). `VdmaConfigCoreOp` fires the notification whenever the callback is set, as the code does, and claims nothing about the state machine then.
- **The pipeline's other elements.** The transforming, queue, NMS and demux elements, and the builders that use them, run over `PipelineElement` and `BufferPool`, which are not in this repository.
- **The rest of HEF parsing.** The metadata queries in `hef.cpp` (name lookups, info conversion, parameter maps) are pure queries over the parsed protobuf.
- **HW padding checks.** `is_hw_padding_supported` (`hef.cpp` 577-712) multiplies uint32 sizes and relies on their wrap. TLC's integers are 32-bit signed, so the wrap cannot be stated faithfully. The same holds for the `words_count + 1` of `parse_ccw_buffer` at the uint32 maximum; the model keeps word counts small.
- **Formatting code.** This covers the `execute()` serialisation of the older action classes and the scheduler profiler's JSON log. Both are data formatting through functions that are not in this repository, or layout only.
- **Outside the library core.** The Windows OS layer, the CLI, RPC and example helpers are I/O or argument parsing.
- **Memory and driver code.** `allocate_buffer` and `map_buffer` are memory and driver mapping.
