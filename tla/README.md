# TLA+ models of the ReaLRLHF master scheduler, pipeline schedules and helpers

This directory holds TLA+ models of the parts of ReaLRLHF whose correctness
depends on ordering, concurrency or index arithmetic. Each model is checked
with TLC. Every definition is translated from the Python sources under `src/`.
`PROJECT.json` maps each definition to the lines it models. The two exceptions
are the sequence buffer and the model workers, which are not in the sources;
they are modelled from `spec.md` and marked `spec_modelled`.

## 1. The system

The master worker (`src/reallm/system/master_worker.py`) executes a dataflow
graph (DFG) of model RPCs, such as `gen -> inf -> train`. All of its
coroutines share a single asyncio event loop.

* **Data loader** (`load_data_func`, lines 624-686).
  * It fetches a whole epoch from the data workers and calls `put_batch` on the sequence buffer.
  * It then registers the source RPC's model as the owner of every fetched `(index, key)` in `data_owner`.
* **Sequence buffer** (`reallm/system/buffer.py`, not in `src/`; spec 4.2). This is where producers and consumers meet.
  * `get_batch_for_rpc(r)` blocks until `min_n_seqs` records hold all of `r`'s input keys. It then returns at most `max_n_seqs` of them.
  * `amend_batch` adds the produced keys to the records.
* **Request coroutine**, one per RPC (`model_rpc_request_func`, lines 435-557). It runs these steps in order:
  1. It acquires the RPC's semaphore (`max_concurrent_calls` permits).
  2. It sleeps while a child lags (`consumed >= (traversal[c]+1)*c.max_n_seqs`).
  3. It takes a batch from the buffer.
  4. If the RPC is the source, it adds the indices to `training_buffer_indices`.
  5. It records this RPC as the owner of its outputs and reads the owners of its inputs (KeyError or assert on failure).
  6. It posts the request to the workers (`scatter_tensor_to_mws`) and waits for the syn replies.
  7. It posts the acks.
  8. It puts the request ids into the next size-1 mailbox, round-robin.
* **Reply coroutines**, `max_concurrent_calls` per RPC (`model_rpc_reply_func`, lines 561-621). Each one:
  * takes a request from its mailbox;
  * waits for the replies;
  * releases the semaphore and bumps `rpc_traversal`;
  * then either puts an item into `train_count` (if the RPC is terminal) or amends the buffer.
* **Driver** (`_poll`, lines 1012-1158). Between event-loop ticks it counts `train_count` items. Once it has `n_dsts` of them, it runs the rest of `_poll` without yielding to the loop:
  1. It advances the global step.
  2. At `benchmark_steps` it sets `stop` and raises `ExperimentComplete`.
  3. Otherwise it waits for the previous clear, sends `clear_data_cache(training_buffer_indices)` to the workers, and empties the set.
* **Numeric helpers** (`src/base/datapack.py`):
  * first-fit-decreasing packing (`ffd_check`, `ffd_with_result`, `ffd_with_result_unsorted`);
  * the multipack allocator `allocate`;
  * the dp-balanced partition `min_abs_diff_partition`.
* **Paired reward-model dataset** (`src/impl/dataset/common/packed_rw_paired_dataset.py`). It is meant to give each rank a slice of the prompt groups and pack them into batches of at most `n_tokens_per_batch` tokens. `__init__` cannot get that far. At line 117 it passes `group_token_lengths`, a Python list, to `min_abs_diff_partition`. That function is `numba.njit`-compiled and starts with `arr.shape[0]` (`datapack.py:169`). A reflected list has no `shape`, so numba raises a `TypingError` on every construction.

* **Pipeline instruction schedules** (`src/impl/model/backend/ds_pipe_engine/schedule.py`). Inside a model worker, a pipeline-parallel model runs one of three schedules on each stage:
  * `InferenceSchedule`;
  * `GenerateSchedule`, which loops the last stage's next tokens back to the first stage;
  * `TrainSchedule`, which is 1F1B.

  A schedule yields, step by step, the instructions the stage executes. Send and recv instructions pair up between neighbouring stages.
* **Pipeline checkpoint conversion** (`src/scripts/transform_to_pipe_ckpt.py`). An offline script: it cuts a model's state dict by pipeline stage, splits each stage's dict into `num_shards` shards, and saves one file per stage, mp rank and shard.
* **PPO numerics** (`src/impl/model/utils/ppo_functional.py`). The reward and GAE helpers come in two versions: one for padded batches and one for packed 1-D batches, which are indexed through `cu_seqlens`.
* **Asyncio DFG prototype** (`src/scripts/minimal_asyncio.py`). This is a self-contained version of the scheduler. It has one asyncio task per RPC, per-round futures for the DFG edges, a shared `data_registry` dict, and one worker process per model behind a shared request/reply stream.

* **Hook resolver** (`scatter_tensor_to_mws`, `_attach_payloads_with_hooks` and `_request_parameter_sync` in `master_worker.py`). For one request it builds one payload per addressed worker. The payloads go to these workers:
  * the RPC's handlers;
  * the workers holding producing shards, which take part in the data transfer;
  * the side participants of every parameter reallocation.
* **Data-transfer groups** (`setup_data_transfer` in `src/reallm/impl/model/comm/data_transfer.py`). For every (producer, consumer) model pair and every pair of their dp ranks it builds one NCCL group: the worker of the producer's dp head, then the workers of the consumer's dp slice. The workers run the `data_transfer` pre-hook of a request collectively in that group.

Other parts:

* the initialisation handshake (`__lazy_init`): worker configuration, topology exchange and data-handler routing;
* experiment configurations.

Section 7 lists them and says which are planned for a later model.

## 2. Modules

| module | models | kind |
|---|---|---|
| `MasterScheduler.tla` | data loader, buffer, request and reply coroutines, workers (abstract), driver | state machine |
| `MCMasterScheduler.tla` | two DFG instances: a chain (one terminal RPC, used by `sched_clear`) and a PPO-like graph (two terminal RPCs), with dp sizes, `balanced_dp` flags and eval/save frequencies | TLC instances |
| `Datapack.tla` | `ffd_check`, `ffd_with_result(_unsorted)`, `allocate`, `min_abs_diff_partition` as RECURSIVE operators | pure operators |
| `PairedDataset.tla` | the `min_abs_diff_partition` call of `RewardModelingPackedPairedDataset.__init__`, which raises `TypingError` | pure operator |
| `PipeCkpt.tla` | `split_state_dict_by_stage`, `split_state_dict_into_shards` and the `num_pp > 1` loop of `transform_to_pipe_ckpt.py` | pure operators |
| `MCDatapack.tla` | every input of a bounded domain chosen in `Init`; reference definitions (brute-force optimal partition, sound packing, exactly-once placement of checkpoint keys) | TLC harness |
| `PipeSchedule.tla` | the three schedules as operators, and the stages executing them | operators and state machine |
| `MCPipeSchedule.tla` | the sets of pipeline configurations checked | TLC instances |
| `PpoFunctional.tla` | `compute_rewards`, `get_advantages_and_returns`, `get_packed_rewards`, `_pygae1d_nolp_misalign`, `get_packed_advantages_and_returns`, the per-token PPO actor loss gradient (autograd of `actor_loss_fn`, and the hand-written backward) | pure operators |
| `MCPpoLoss.tla` | every token (ratio, advantage, loss mask) of a bounded domain, checked against autograd of `actor_loss_fn` | TLC harness |
| `MCPpoFunctional.tla` | every packed batch of a bounded domain, checked against the padded helpers row by row | TLC harness |
| `HookResolver.tla` | payload assembly of `scatter_tensor_to_mws` with its pre/post hooks, and the handlers of `_request_parameter_sync` | pure operators |
| `DataTransfer.tla` | `setup_data_transfer` over `HookResolver`'s shards, with the topology's coordinates | pure operators |
| `MCHookResolver.tla` | every placement of three models on three workers, producer list and short hook lists; a reference of who must run which hook | TLC harness |
| `MinimalAsyncio.tla` | `main`, `model_rpc_func` and `model_worker` of the prototype | state machine |
| `DfgRound.tla` | the abstract per-round DFG semantics that `MinimalAsyncio` refines | abstract spec |
| `MCMinimalAsyncio.tla` | the prototype's PPO graph (six RPCs on four models) | TLC instance |

### MasterScheduler

State and the code it stands for:

* **Buffer.**
  * `attrs[i]` holds the keys of record `i`.
  * `taken[r]` holds the records already handed to RPC `r`.
  * `nextIdx` is the next fresh buffer index.
* **Owner registry.** `owner[i, k]` is `data_owner`. The dp index is abstracted away.
* **Request coroutine.**
  * `sem` is `can_do_rpc`.
  * `consumed` is `this_rpc_consumed_seqs`.
  * `reqPc` is the suspension point the coroutine is at.
  * `reqBatch` is the batch it holds.
  * `rrIdx` is `response_coroutine_idx`.
* **Mailboxes.** `mailbox[<<r, j>>]` is `request_queues[r][j]`.
* **Requests and reply coroutines.**
  * `acked` and `replied` are requests in the stream.
  * `repPc` and `repBatch` describe the reply coroutines.
* **Counters.**
  * `traversal` is `rpc_traversal`.
  * `trainCount` is the number of items in `train_count`.
  * `dstCnt` is the driver's `_rpc_dst_cnt`.
  * `trainIdx` is `training_buffer_indices`.
  * `clearReq` is the last clear request.
  * `globalStep` is `_global_step`.
  * `stop` is the stop event.
  * `err` records an exception raised inside a coroutine, which `_poll` re-raises, or `QueueFull` raised by `_poll` itself.
* **Epochs, eval and save.**
  * `epochSig` is the item in `fetch_master_ctl` that `load_data_func` puts when a new epoch starts.
  * `epoch` is `_epoch`.
  * `ctlCnt[c]` holds the epoch and step counts of `EpochStepTimeFreqCtl` for `eval` and `save` (the time frequency is None).
  * `cmdQ[c]` is the size of `eval_queue` or `save_queue`.
  * `cmdPc[c]` is where `model_eval_thread_func` or `model_save_thread_func` is suspended: in `get()` or awaiting the replies.
  * `cmdReq[c]` is that coroutine's `evaluate` or `save` request in the stream.
* **Configuration.** `MinN(r)` is `min_n_seqs` after `_configure` raises it to `dp_size * pp_size`; `BatchSize(r)` is the count `get_batch_for_rpc` returns, rounded down to a multiple of dp for a `balanced_dp` RPC.
* **History.** `completed[r]` holds the records whose reply `r` has collected. It is not program state: the properties use it.

Each action is the code between two suspension points of one coroutine:

* `LoadData`
* `ReqAcquire`, `ReqBackPressure`, `ReqGetBatch`, `ReqSynAck`, `ReqPut`
* `WorkerReply`
* `RepGet`, `RepCollect`, `RepPutCount`
* `DriverTake`, `DriverCloseStep`
* `CmdGet`, `CmdWorkerReply`, `CmdCollect`

Two actions deserve a note:

* `ReqGetBatch` covers everything from the return of `get_batch_for_rpc` to the first await in `scatter_tensor_to_mws`. That span has no suspension point, so the owner writes and reads happen in the same step as the batch is taken.
* `DriverCloseStep` is the whole of `_poll` after the last `get_nowait`. That code is synchronous, so no coroutine runs inside it. It takes the epoch signal, checks both controls, advances the counters, puts the commands with `put_nowait` (eval first: a full queue raises `QueueFull` and skips the later put), and then either exits (after the last epoch or at `benchmark_steps`) or sends the clear.
* `ReqGetBatch` also models the `balanced_dp` assert of line 508.
* A command put while its coroutine waits in `get()` is taken only at the next tick, so `DriverCloseStep` waits for `CmdGet` first; a `get()` on a non-empty queue does not suspend, so `CmdCollect` takes a waiting command at once.

Steps of different coroutines interleave freely. This over-approximates the set of tasks that one `_run_once` tick runs. Every violation reported below has a trace that one tick ordering can produce. After `stop`, or after an exception, the model stutters (`Terminated`).

### Datapack

The operators follow the loops of the code:

* `Dp` is the dp table. It starts at `np.iinfo(int64).max`, and column 1 holds the prefix sums.
* `Scan` is one pass of the backtracking `for x in range(i)`. The pass has **no break**, so after a match it continues with the new `i` and `j`.
* `Backtrack` is the `while j > 1` loop. A pass that matches nothing repeats forever; the result records this as `ok = FALSE`.
* `Col` gives numpy's negative column index.
* `Pack` is the first-fit loop.
* `ArgsortDesc` orders items by size, largest first. Equal sizes come in descending index order: numba's argsort is stable on short arrays, and the code reverses its result.
* `BinSearch` and `AllocLoop` are `allocate`'s loops.

### PairedDataset

`RankSlice` is line 117. `group_token_lengths` is a Python list, and the numba-compiled `min_abs_diff_partition` reads `arr.shape[0]` at its first line. The call therefore fails with a `TypingError` whatever the lengths and the world size. `_shuffle`, the FFD batching and `__iter__` come after it and never run, so the module stops at the call. No run uses this module.

### PipeCkpt

A key `f"{layer}.{name}"` is `<<layer, name>>`. `Dec` gives the decimal digits of the layer, so `StartsWithLayer` is the string prefix test `k.startswith(f"{i}.")` and not an equality of numbers.

* `StageDict` is `split_state_dict_by_stage` for one stage `(start, stop)`.
* `ShardSizes` and `SplitIntoShards` are `split_state_dict_into_shards`: one shard, a `ValueError` for fewer keys than shards, or consecutive runs with the remainder on the last shard.
* `PipeFiles` is the `num_pp > 1` loop of `main` for one mp rank.

`partition_layers` calls deepspeed's `partition_balanced`, which is not in the sources. The check therefore takes every contiguous stage boundary list.

### PipeSchedule

The schedules are pure operators.

* `InferenceCmds`, `GenerateCmds`, `TrainCmds` and `DataParallelCmds` give the commands that stage `s` yields at step `t`. They follow the `steps()` methods line by line. The helpers are:
  * `RecvBuf` and `SendBuf` for the alternating buffers;
  * `GenMb` and `GenTok` for generation;
  * `StepToMicroBatch`, `BufferIdx` and `TrainBuffers` for 1F1B.
* `Program` flattens a stage's steps into its instruction stream. This is the `for step_id, mb, cmds in schedule: for cmd in cmds` loop of the engine.

The schedule file defines only the instructions. What executing one does is taken from its class docstring:

* Loads and passes read and write the stage's buffers.
* `SendX`/`RecvX` is a blocking transfer that completes only together with its partner on the neighbouring stage. `Activation`, `Grad` and `NextTokens` are these paired steps.
* `ReduceTiedGrads` is a collective over all stages.
* `ReduceGrads` and `OptimizerStep` involve only data-parallel peers of one stage, so in the model they are local steps.

The state is as follows:

* `pc[s]` is the position in stage `s`'s stream.
* Buffer contents are tags `<<micro-batch, token round>>`.
* `cache` holds the next tokens that the first stage received.
* `fwdDone` and `bwdDone` are history, which the properties use.
* `barrier` chooses between two readings of the module docstring (lines 16-20):
  * with a barrier, no stage starts step `t` before all stages have finished step `t-1`;
  * without one, stages run ahead and only the transfers synchronise them.

Both readings are checked.

### PpoFunctional

Tensors are integer sequences, and the coefficients (`gamma`, `lam`, `kl_ctl`) are integers too. The checks concern which element each formula reads and writes, and integer coefficients keep a wrong index visible. The operators follow the code's loops:

* `GaeRow` is the reversed `for t` loop of the padded GAE.
* `PackedSeq` and `PackedLoop` are the two nested reversed loops of `_pygae1d_nolp_misalign`. They append to `advantages_reversed`, and the final reversal follows.
* `ValueOffsets` is the `cu_seqlens[1:] += ones.cumsum()` shift. It accounts for the one extra (bootstrapped) value per sequence.
* `PyIdx` is Python's negative indexing.
* `PgLosses`, `ActorLossGradRatio`, `MemoryEfficientGradRatio` and `GradNewLogp` model the per-token PPO actor loss.
  * A ratio is an integer on a scale where `One` stands for 1.0, so the clip bounds are exact.
  * `ActorLossGradRatio` is what autograd derives from `actor_loss_fn`'s forward. `torch.max` of two tensors passes the gradient to the larger argument, and half of it to each of two equal ones. `clamp` passes it only inside its bounds.
  * `MemoryEfficientGradRatio` is the mask of the hand-written backward (lines 276-283, and the same at 216-223).
  * Both return twice the gradient, so that the halves stay integers.
* `TargetMask`, `MaskedTarget`, `PartitionPredicted`, `VocabParallelPredicted` and `SoftmaxUpdate` model the label gather of `_VocabParallelMemoryEfficientPPOLoss` for one token:
  * each rank masks a label outside its vocabulary slice and reads its own column otherwise;
  * the all-reduce SUM adds the ranks' predicted logits;
  * the backward subtracts `1 - target_mask` at `masked_target`.
  * `VocabRange` is Megatron's `vocab_range_from_per_partition_vocab_size`, which is not in the sources.

### HookResolver

The payload dict is a function from shard ids, and a payload is a record `[handler, handle, pre, post]`. The hook data is reduced to what tells two hooks apart. The operators follow the code's loops:

* `AddProducer` is one iteration of the producer loop.
* `AddOther` is one iteration of the `for h in other_handlers` loop, with its three branches:
  * a new `empty` payload;
  * the hook appended to an already addressed non-primary worker;
  * nothing, for a primary handler.
* `ApplyHook` is one hook.
* `AttachPayloadsWithHooks` is the whole function.
* `ScatterPayloads` chains the main payloads, the producers, the pre pass and the post pass.

`msid2mwid` and the world sizes are `Mwid` and `WorldSize`. They are variables that `Init` chooses and no step changes.

### DataTransfer

`DataTransfer` extends `HookResolver` with `Dims[m]`, the `<<pipe, model, data>>` sizes of a model's topology. `Coord` is the topology's coordinate of a parallelism rank; the topology is not in the sources, so the spec's (pipe, model, data) order with the last axis fastest is used. `FilterMatchMwids` is `filter_match_mwids`: the workers of the matching shards in rank order. `MwDpHeadRank`, `MwDpRanks`, `GroupRanks` and `SetupDataTransfer` follow `setup_data_transfer` line by line. `MCHookResolver` instantiates it once per topology (`DT(d) == INSTANCE DataTransfer WITH Dims <- d`), so every topology of a placement is checked in one state.

### MinimalAsyncio and DfgRound

`main()`'s rounds are modelled as follows:

* `StartRound` creates fresh futures and tasks, and `data_registry` is cleared and refilled with the prompts.
* Each RPC's task is two actions:
  * `Post` awaits the parent futures, reads the inputs from `data_registry` (a `KeyError` is `err`) and posts on its model's stream;
  * `Poll` takes the next reply of that stream, writes the outputs and sets its future.
* `Serve` is the model worker handling its stream's requests in order.
* The parents are those of `api.dfg.build_graph`: the RPCs producing an input. That code is not in `src/`, so they are modelled from the spec.
* The stream of a model is shared by all RPCs of that model, and `poll_reply` returns whichever reply comes next.

`DfgRound` is the abstract specification: in each round every RPC runs once, after its parents. `MinimalAsyncio` maps onto it through `done <- {r : pc[r] = "done"}`. Posting and serving are stutter steps of the abstract spec.

## 3. Runs

| run | cfg | expect | what it shows |
|---|---|---|---|
| `sched_ppo` | `MCMasterSchedulerPpo.cfg` | pass | The DFG is PPO-shaped: `gen -> inf -> train`, `gen -> train` and `gen -> critic`, with two terminal RPCs and `gen` having two concurrent calls. These all hold: semaphore accounting, dataflow order, no owner-lookup or `balanced_dp` exception, no empty request, and termination at `benchmark_steps`. `gen` has `min_n_seqs = 1` on two dp ranks, so `_configure` raises it to 2; evaluation runs every second step and a save at every new epoch. The run also exercises the driver's partial count (`DriverTake`) and the wrap of `gen`'s mailboxes. |
| `sched_step_count` | `MCMasterSchedulerStep.cfg` | violation | The same DFG with `gen_bs = 2 * train_bs`, which `register_auto_ppo_experiment` accepts (no registered experiment uses it). The driver closes a step after two completions of `critic` while `train` has not fired (finding 1). |
| `sched_clear` | `MCMasterSchedulerClear.cfg` | violation | `clear_data_cache` names indices that the source RPC took for the *next* step, and those records have not been through `inf` and `train` (finding 2). |
| `datapack` | `MCDatapack.cfg` | pass | For arrays of up to 4 items of size 1..3 and k ≤ 3, `min_abs_diff_partition` returns k ordered ranges with the optimal largest sum. `ffd_check` agrees with `ffd_with_result`, both FFD packers are sound, and `allocate` serves every sequence once, in order, within capacity. The pipe checkpoint conversion writes every key to exactly one file of its stage, for every stage split and 1-3 shards, unless it stops with `ValueError`. |
| `partition_k4` | `MCDatapackK4.cfg` | violation | With k = 4 the backtrack returns overlapping and out-of-order ranges. For example, `[2,1,1,1]` gives `[(0,1),(1,3),(3,2),(2,4)]` (finding 3). |
| `partition_hang` | `MCDatapackHang.cfg` | violation | With n ≤ k-2 the backtracking loop never ends (finding 4). |
| `pipe_schedules` | `MCPipeSchedule.cfg` | pass | These configurations are checked with and without a barrier: train and inference with 1-3 micro-batches on 2-3 stages, generation with 1-2 tokens and at most as many micro-batches as stages, and the single-stage data-parallel schedule with 1-3 micro-batches. In all of them, every stage finishes its stream, every forward reads the micro-batch the schedule assigns, every backward pass uses the activations of the matching forward, and every micro-batch passes forward (and backward) on every stage. |
| `pipe_generate_wide` | `MCPipeScheduleGenWide.cfg` | violation | With 3 micro-batches on 2 stages, `GenerateSchedule` deadlocks (finding 5). |
| `ppo_loss_grad` | `MCPpoLoss.cfg` | violation | For a single token, the hand-written backward of the memory-efficient PPO actor loss returns 0. Autograd of `actor_loss_fn` returns `-advantage` there (finding 6). |
| `ppo_packed_numerics` | `MCPpoFunctional.cfg` | pass | For every batch of 1-2 sequences of 1-2 log-probs, the packed rewards, advantages and returns equal, sequence by sequence, those that the padded helpers compute on each sequence as a row. The vocab-parallel label gather, for every rank count dividing the vocabulary and every label, all-reduces to the label's logit and subtracts 1 in the backward at exactly the label's column of exactly one rank. |
| `hook_resolver` | `MCHookResolver.cfg` | pass | These cases are checked: every placement of models A, B and C, each with one or two shards, on three workers (with worker symmetry), four producer lists, up to two pre hooks and one post hook. In all of them each worker gets exactly one payload, and that payload lists in order every hook the worker must run: the data transfer, `param_realloc` for each sync hook whose models it holds, and `offload` on the handlers. Parameter sync from A to B reaches every worker of either model exactly once, through its A shard where it has one. For every topology of the placed models (pipe, model and data sizes whose product is the world size), the data-transfer groups of the RPC's (producer, A) pairs list each worker once, and every member of every group is sent the request with the `data_transfer` pre-hook, so no member of the collective is left out. |
| `minimal_asyncio` | `MCMinimalAsyncio.cfg` | pass | Over three rounds of the PPO graph these all hold: no task reads a missing key, every RPC polls its own reply although streams are shared, and the prototype refines `DfgRound`, so every round runs every RPC. |

**Properties.** Each property comment in the modules names the code it is about.

* `SemaphoreAccounting` says that the permits held equal the requests in flight. A request is in flight in these places:
  * in the request coroutine, from the acquire to the mailbox put;
  * in a mailbox;
  * in a reply coroutine, before it releases.
* `DataflowOrder` says that an RPC only ever holds records that every producer of its inputs has completed.
* `NoCoroutineError` covers the `data_owner` KeyError and the producer assertion.
* `StepClosesEachTerminal` says that every terminal RPC has fired once per global step.
* `ClearedIndicesRetired` says that a cleared index has been completed by every RPC.
* `BenchmarkCompletes` is `<>stop`.
* `ScheduleTerminates` says that every stage runs its whole stream, so every blocking transfer finds its partner.
* `ForwardReadsItsMicroBatch` and `BackwardMatchesForward` are action properties about buffer reuse:
  * a forward pass reads the micro-batch (and token) that the schedule assigns to it;
  * a backward pass finds the activations of the micro-batch it is for.
* `EveryMicroBatchDone` says that at the end every micro-batch has passed forward on every stage, and for training also backward.
* `PackedGaeMatchesPadded` and `PackedRewardsMatchPadded` compare the packed helpers with the padded ones.
* `MemoryEfficientGradMatchesAutograd` compares, token by token, the memory-efficient loss's backward with autograd of `actor_loss_fn`.
* `OnePayloadPerWorker`, `PayloadsListEveryHook` and `ParamSyncReachesBothSides` are spec 4.4 and scenario 5, checked against a reference that says who must run each hook.
* `NoMissingInput` and `RepliesMatch` cover the prototype's `data_registry` and its shared streams.
* `ImplementsDfgRound` is `DfgRound!Spec` under the refinement mapping. Its fairness makes it also say that every round ends.

**Mutants.** `PROJECT.json` gives each property of a passing run a mutant, and TLC finds every one of them. Each mutant is a plausible fault in the mapped code, defined next to it as a "Faulty variant". The faults are:

* the release is dropped;
* a record counts as ready with any one input key;
* the owners are not registered on load;
* non-terminal RPCs report to `train_count`;
* a completion is dropped when `train_count` is full;
* the round-robin index is not wrapped;
* `range(i-1)` replaces `range(i)` in the dp;
* the final reversal is missing;
* the FFD comparison becomes strict;
* the size is not subtracted when packing;
* the start offset is missing in `allocate`.
* a micro-batch id equal to `micro_batches` is accepted;
* the 1F1B step count is one short;
* all stages receive into the same buffer;
* the pipe buffer count is one short;
* the first stage receives next tokens in its first round;
* the value offsets are shifted one short;
* the no-EOS mask on the score is dropped;
* no RPC has parents;
* the reward model's inference is posted on the critic's stream;
* there is one round too many;
* a task posts without awaiting its parents;
* a producer's worker is not recorded in `mwids`;
* the hook is not appended for an already addressed side participant;
* every destination shard becomes a parameter-sync handler.

## 4. Bounds and why they suffice

**Scheduler.**

* Each RPC takes batches of 2 (`MinSeqs = MaxSeqs = 2`). Every configuration under `experiments/` sets min equal to max. In `sched_ppo`, `gen` asks for `min_n_seqs = 1` with dp 2, so the promotion happens; the data loader yields one record per fetch there, so a single ready record, which an unpromoted `gen` would take as an empty balanced batch, occurs.
* `total_train_epochs = 1`. One `LoadData` is one filling of the buffer, which `load_data_func` does for a whole epoch, and it leaves the new-epoch signal in `fetch_master_ctl` (a size-1 queue, so a second signal before `_poll` takes the first is merged with it; the buffer that puts it is not in the sources). The exit after the last epoch and the one at `benchmark_steps` are both reached.
* `sched_step_count` uses the split `register_auto_ppo_experiment` allows, where generation and inference take `gen_bs = 2` and the train RPCs take `train_bs = 1`. The experiments it registers all set `train_bs = gen_bs`.
* The loader puts 2 records per fetch (1 in `sched_ppo`). There are at most 4 records (6 for the violation runs), and `benchmark_steps = 2`.

With these bounds:

* the source can run one batch ahead of a child (the back-pressure window);
* a terminal RPC can complete twice before the driver takes its count, so `train_count` fills and `RepPutCount` fires;
* the driver closes a step and sends a clear before the run stops;
* `gen`'s two lanes make the round-robin mailbox wrap.

A larger batch size only scales the counters. More steps repeat the same window.

**Datapack.**

* The passing run covers every array of length 0..4 with items 1..3, k in 1..3, capacities {3, 4} and world sizes {1, 2}: 1452 inputs.
* Items are at most the capacity, as the packing's caller would have to ensure.
* The k = 4 run shows that k = 3 is the largest k for which the partition is correct on this domain.
* The checkpoint property takes `arr[i]` as the number of keys of layer `i - 1`, `k` as the number of stages, every boundary list in `Cuts` and 1..3 shards. With at most 4 layers, no layer number has two digits, so the prefix test is never tested on `1.` against `11.`.

**Pipeline schedules.**

* Two and three stages are enough to give a stage with two neighbours.
* One to three micro-batches cover these cases:
  * fewer micro-batches than stages;
  * as many as stages;
  * more than stages, which is where 1F1B reaches its steady state and buffers are reused.
* One or two tokens make generation loop the next tokens back once.
* All 25 configurations (22, plus data-parallel with 1-3 micro-batches) are checked with and without a barrier, which gives 1377 distinct states.

**PPO numerics.**

* Batches have one or two sequences, so both the first sequence's offsets and a later one's are checked.
* Sequences have one or two log-probs, so the bootstrapped last step and an inner step are both checked.
* Elements are 0 or 1. The scores are -3, 0 and 1, so a score is clipped at `clip = 2`.
* In total there are 7792 inputs.
* For the vocab-parallel gather a row of `lp` (1 to 4 logits of 0 or 1) is the vocabulary. Every rank count dividing it is checked, so a 4-logit row is checked on 1, 2 and 4 ranks, and every label, the slice boundaries included.
* Every generated sequence has at least one log-prob, so zero-length sequences are excluded. With them admitted, `get_packed_rewards` would put a score on the previous sequence.

**Hook resolver.**

* Three workers and three models are enough for these overlaps: a worker can hold shards of the RPC's model, of a producer, and of the other side of a hook at once.
* Two shards per model give a model on two workers.
* Two pre hooks and one post hook give a worker that is reached by two hooks, and one reached in both passes.
* With worker symmetry this is 19032 configurations.
* A model of two shards has three topologies (two pipe stages, two model ranks or two dp ranks), all checked. Two dp ranks on each side give groups for every dp pair, and two pipe stages put the dp head on a worker other than the slice's first.

**Prototype.**

* The run covers the graph of `minimal_asyncio.py` itself: six RPCs on four models, with the critic serving two of them.
* It runs 3 rounds, as `main()` does. Three rounds show that futures and the registry are renewed every round.

## 5. Fairness

`Spec` assumes weak fairness of every coroutine step, of each worker's reply, and of the driver. The reasons:

* the asyncio loop runs every ready task at some tick;
* the workers answer every acked request (the code has no timeouts);
* `_poll` calls `get_nowait` before every tick.

`CmdGet`, `CmdWorkerReply` and `CmdCollect` are weakly fair for the same reasons: the eval and save coroutines are tasks of the same loop, and the workers answer `evaluate` and `save`.

`LoadData` is weakly fair because the loader refills the buffer whenever it is asked to.

The other specifications use `WF_vars(Next)`:

* In `PipeSchedule`, each stage is a process of its own.
* In `MinimalAsyncio`, the tasks share one event loop that runs every ready task, and each worker is a process that serves its stream forever.

In both, some step is always enabled until the end, and weak fairness only rules out stopping while a step is enabled.

## 6. Findings

1. **Step count is not per RPC.** See `master_worker.py:613-614` and `1021-1025`. The driver counts `train_count` items, not distinct terminal RPCs.
   * `register_auto_ppo_experiment` gives the train RPCs `train_bs` and generation `gen_bs`, and accepts any pair. With `gen_bs = 2 * train_bs`, one generation batch feeds two calls of each train RPC. The experiments it registers all pass `train_bs = gen_bs` (`auto_ppo.py:253`, `261`), so the defect is latent there.
   * A fast `critic` that completes two batches therefore closes step 1 before `train` has fired.
   * Back-pressure does not prevent this. It only stops `gen` from starting its *next* batch.
   * With equal batch sizes the run passes, because `gen`'s back-pressure against both train RPCs allows only one batch each per generation batch. The spec says that the driver "waits for all terminal RPCs of the DFG to fire once".
2. **The clear includes next-step indices.** See `master_worker.py:487` and `1150-1156`. The source request coroutine adds each new batch to `training_buffer_indices` as soon as it takes the batch. The driver clears the whole set when the current step closes. So the workers are told to drop the side state of records that `inf` and `train` have not processed yet. The spec calls the set "the set of buffer indices that belong to the current training step".
3. **Invalid partitions for k ≥ 4.** See `datapack.py:186-190`. The backtracking `for` loop has no `break`. After a match it keeps comparing with the new `(i, j)` for `x > i` and can match again. The ranges it then returns overlap and are out of order. The docstring and spec 4.6 promise k ranges that cover `[0, n)`.
4. **Non-termination for n ≤ k-2.** See `datapack.py:185`. Once `i = 0` with `j > 1`, `range(0)` is empty and the `while` loop spins forever. No caller in the sources reaches it. The only caller of `src/base/datapack.py` is `packed_rw_paired_dataset.py:117`, which passes a Python list, so numba's typing of `arr.shape` fails before the loop runs. The master imports `reallm.base.datapack`, which is not in the sources.

5. **GenerateSchedule deadlocks with more micro-batches than stages.** See `schedule.py:268-271`. The last stage sends the next tokens of micro-batch 0 at step `stages`. The first stage skips `RecvNextTokens` while `step_id < micro_batches`. With 3 micro-batches and 2 stages, the last stage sends at steps 2, 3 and 4, but the first stage receives only at 3 and 4. The blocking send at step 2 therefore has no partner, with or without a barrier. The send/recv docstrings require every send to be paired.

6. **The memory-efficient PPO loss has no gradient.** See `ppo_functional.py:279-283`, and the same at `219-223` for the vocab-parallel loss.
   * The backward passes `g_` only where `pg_loss1 > pg_loss2` *and* the ratio is inside `[1 - eps, 1 + eps]`.
   * Inside that range `clamp` returns the ratio unchanged, so the two losses are bitwise equal and the strict comparison is false.
   * Outside the range `unclip_mask` is false.
   * So `grad_ratio` is always 0. The forward returns the loss of `actor_loss_fn`, and autograd of that loss gives `-advantage` wherever the unclipped term is the maximum.
   * TLC's counterexample is ratio 0.7, eps 0.2 and advantage 1. There `pg_loss1 = -0.7` is larger than `pg_loss2 = -0.8`, autograd gives -1 and the backward gives 0.

Behaviours that no run reports. The model reaches the first and the last; the second and third were found while modelling the dataset:

* **The last command is lost.** `_poll` puts the eval or save command of the step and, in the same call, `experiment_complete_exit` sets `stop` and stops the loop (`master_worker.py:1059-1066`, `1160-1166`). The command coroutine never runs again, so with `save_frequency_epochs` the checkpoint of the final epoch is not written. In `MasterScheduler` a state with `stop` and `cmdQ["save"] = 1` is reachable.
* **The paired dataset cannot be built.** `RewardModelingPackedPairedDataset.__init__` calls the `numba.njit` `min_abs_diff_partition` with a Python list (`packed_rw_paired_dataset.py:117`), and the function reads `arr.shape[0]` (`datapack.py:169`). numba raises a `TypingError` on every construction. A run for it would only restate that one call.
* **`prompt_lens` is built with a leaked loop variable** (`packed_rw_paired_dataset.py:173-174`). In `[x for _ in range(g) for x, g in zip(prompt_lens, group_sizes)]` the outer `range(g)` is evaluated before the inner loop binds `g`, so it uses the `g` left by the sanity-check loop at line 166: the size of the batch's last group. The tensor therefore repeats the whole list of prompt lengths `g_last` times instead of each prompt length `g` times. `group_factor` at line 173 has the same defect. With unequal group sizes the assert at line 177 usually fails. With equal sizes, as `packed_dpo_exp`'s `max_pairs_per_prompt = 2` makes them, it passes: groups A, B, C of two pairs give `[pA, pB, pC, pA, pB, pC]` for `[pA, pA, pB, pB, pC, pC]`, so pairs get other prompts' lengths. This code runs only once line 117 is fixed; no run checks it.
* **`QueueFull` needs timing.** With evaluation every step, the untimed model reaches `QueueFull` at the third step: an `evaluate` still awaiting replies when the next step closes leaves the next command queued. In the program only the step duration against the 10 ms reply polling prevents it.

## 7. Not modelled yet, and the plan

The next modules, in order of value:

1. **A configuration with `max_n_seqs < dp`** after the `min_n_seqs` promotion (auto_ppo with `gen_bs < dp * pp`): `get_batch_for_rpc` then rounds every batch to empty.
2. **The post/syn/ack exchange of `_request_parameter_sync` during `__lazy_init`.**

Not modelled, and why:

* In `ppo_functional.py`:
  * the KL controllers and `critic_loss_fn` are element-wise floating-point formulas with no indexing of interest;
  * the log-softmax and the max and exp-sum reductions around the actor loss are floating-point arithmetic (the gradient mask and the vocab-parallel label gather are modelled);
  * `build_leave_one_indices` is not in `src/`;
  * the `cugae` kernel is not in `src/`.
* In `packed_rw_paired_dataset.py`: file loading, answer validation and tokenisation are I/O and string processing; the tensors a batch yields are layout.
* `tensor_storage.py`: a cache with no concurrency.
* Experiment and profiler configurations, `auto_ppo_benchmark.py`: static configuration.
* In `transform_to_pipe_ckpt.py`: model loading, layer specs, the critic head and the file writes are I/O. A conversion that stops with `ValueError` leaves the files of the earlier stages on disk; the model keeps no disk state.
* Tests.
