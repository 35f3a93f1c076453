--------------------------- MODULE MasterScheduler ---------------------------
(***************************************************************************)
(* The master worker's DFG scheduler (src/reallm/system/master_worker.py):  *)
(* one request coroutine and MaxConcurrent[r] reply coroutines per model   *)
(* RPC r, the data-loading coroutine, the sequence buffer they meet in,    *)
(* the data-owner registry, and the driver loop (_poll) that closes a      *)
(* training step once the terminal RPCs have reported to train_count.      *)
(*                                                                         *)
(* All coroutines share one asyncio event loop: a step of a coroutine is  *)
(* the code between two suspension points, and steps of different         *)
(* coroutines interleave.  The sequence buffer (reallm/system/buffer.py)  *)
(* and the model workers are not in the sources; they are modelled from    *)
(* spec.md sections 4.1 and 4.2.                                           *)
(***************************************************************************)
EXTENDS Integers, FiniteSets

CONSTANTS
    RPCs,           \* the DFG nodes (model values)
    SrcRPC,         \* the RPC with no parents (rpc.is_src)
    Children,       \* [RPCs -> SUBSET RPCs]: rpc.children_rpcs
    ModelOf,        \* [RPCs -> Models]: rpc.model_name
    InputKeys,      \* [RPCs -> SUBSET Keys]: rpc.input_data
    OutputKeys,     \* [RPCs -> SUBSET Keys]: rpc.output_data after output_key_remap
    SrcKeys,        \* keys of every record the data loader fetches
    MinSeqs,        \* [RPCs -> Nat]: rpc.min_n_seqs
    MaxSeqs,        \* [RPCs -> Nat]: rpc.max_n_seqs
    MaxConcurrent,  \* [RPCs -> Nat]: rpc.max_concurrent_calls
    Dp,             \* [RPCs -> Nat]: the data-parallel size of the RPC's model
    Pp,             \* [RPCs -> Nat]: its pipeline-parallel size
    BalancedDp,     \* [RPCs -> BOOLEAN]: rpc.balanced_dp
    SeqsPerLoad,    \* records one fetch of the data workers yields
    MaxRecords,     \* bound: buffer indices are 0 .. MaxRecords-1
    BenchmarkSteps, \* exp_ctrl.benchmark_steps: the run stops at this global step
    TotalTrainEpochs, \* exp_ctrl.total_train_epochs
    FreqEpoch,      \* [Ctls -> Nat]: {eval,save}_frequency_epochs, 0 for None
    FreqStep,       \* [Ctls -> Nat]: {eval,save}_frequency_steps, 0 for None
    NoOwner         \* model value: no data_owner entry

ASSUME /\ SrcRPC \in RPCs
       /\ \A r \in RPCs : MinSeqs[r] >= 1 /\ MaxSeqs[r] >= 1 /\ MaxConcurrent[r] >= 1
       /\ \A r \in RPCs : Dp[r] >= 1 /\ Pp[r] >= 1
       /\ SeqsPerLoad >= 1 /\ BenchmarkSteps >= 1 /\ TotalTrainEpochs >= 1

DstRPCs == {r \in RPCs : Children[r] = {}}          \* rpc.is_dst
NDst    == Cardinality(DstRPCs)                     \* self.__n_rpc_dsts
Idx     == 0 .. MaxRecords - 1
\* <<r, j>>: the j-th request queue and reply coroutine of r
Lanes   == UNION {{r} \X (0 .. MaxConcurrent[r] - 1) : r \in RPCs}
\* the eval and save controls, their queues and coroutines
Ctls    == {"eval", "save"}

VARIABLES
    nextIdx,     \* buffer: next fresh buffer index
    attrs,       \* buffer: [Idx -> SUBSET Keys], the keys each record holds
    taken,       \* buffer: [RPCs -> SUBSET Idx], records already handed to r
    owner,       \* data_owner: [Idx \X Keys -> Models \cup {NoOwner}]
    sem,         \* ctrl.can_do_rpc: free permits per RPC
    consumed,    \* this_rpc_consumed_seqs of each request coroutine
    reqPc,       \* where each request coroutine is suspended
    reqBatch,    \* sample.indices held by the request coroutine
    rrIdx,       \* response_coroutine_idx
    mailbox,     \* ctrl.request_queues: [Lanes -> SUBSET Idx], {} = empty
    acked,       \* requests the workers may execute: <<r, batch>>
    replied,     \* requests whose replies are in the stream
    repPc,       \* where each reply coroutine is suspended
    repBatch,    \* the request a reply coroutine is collecting
    traversal,   \* ctrl.rpc_traversal
    completed,   \* history: [RPCs -> SUBSET Idx] whose reply r collected
    trainCount,  \* items in ctrl.train_count
    dstCnt,      \* _rpc_dst_cnt of the driver loop
    trainIdx,    \* ctrl.training_buffer_indices
    clearReq,    \* indices of the latest clear_data_cache request
    globalStep,  \* self._global_step
    stop,        \* ctrl.stop
    err,         \* an exception raised inside a coroutine or _poll
    epochSig,    \* fetch_master_ctl holds the new-epoch signal
    epoch,       \* self._epoch
    ctlCnt,      \* [Ctls -> [epochs, steps]]: counts of __eval_ctl, __save_ctl
    cmdQ,        \* [Ctls -> 0..1]: items in ctrl.eval_queue, ctrl.save_queue
    cmdPc,       \* [Ctls -> {"get", "wait"}]: model_{eval,save}_thread_func
    cmdReq       \* [Ctls -> {"none", "acked", "replied"}]: its evaluate/save request

vars == <<nextIdx, attrs, taken, owner, sem, consumed, reqPc, reqBatch, rrIdx,
          mailbox, acked, replied, repPc, repBatch, traversal, completed,
          trainCount, dstCnt, trainIdx, clearReq, globalStep, stop, err,
          epochSig, epoch, ctlCnt, cmdQ, cmdPc, cmdReq>>

ctlVars == <<epochSig, epoch, ctlCnt, cmdQ, cmdPc, cmdReq>>

Keys == SrcKeys \cup UNION {InputKeys[r] \cup OutputKeys[r] : r \in RPCs}

-----------------------------------------------------------------------------
(* The sequence buffer (spec.md 4.2).                                      *)

\* Faulty variant: a record holding any one input key counts as ready.
ReadyForAnyKey(r) ==
    {i \in 0 .. nextIdx - 1 : InputKeys[r] \cap attrs[i] # {} /\ i \notin taken[r]}

\* A record is ready for r when it holds every input key of r and has not
\* yet been handed to r.
ReadyFor(r) == {i \in 0 .. nextIdx - 1 : InputKeys[r] \subseteq attrs[i] /\ i \notin taken[r]}

\* FIFO selection: the n lowest indices of S.
FirstN(S, n) == {i \in S : Cardinality({j \in S : j < i}) < n}

\* Faulty variant: min_n_seqs is not raised.
MinNNoPromote(r) == MinSeqs[r]

\* _configure: an RPC whose min_n_seqs is below dp_size * pp_size is
\* raised to it; max_n_seqs is left as it is.
MinN(r) == IF MinSeqs[r] < Dp[r] * Pp[r] THEN Dp[r] * Pp[r] ELSE MinSeqs[r]

\* get_batch_for_rpc returns at most max_n_seqs ready records, their count
\* rounded down to a multiple of the dp size for a balanced_dp RPC.
BatchSize(r) ==
    LET n == IF Cardinality(ReadyFor(r)) < MaxSeqs[r] THEN Cardinality(ReadyFor(r)) ELSE MaxSeqs[r]
    IN  IF BalancedDp[r] THEN n - (n % Dp[r]) ELSE n

\* get_batch_for_rpc blocks until at least min_n_seqs records are ready.
CanGetBatch(r) == Cardinality(ReadyFor(r)) >= MinN(r)
GetBatch(r)    == FirstN(ReadyFor(r), BatchSize(r))

-----------------------------------------------------------------------------
Init ==
    /\ nextIdx = 0
    /\ attrs = [i \in Idx |-> {}]
    /\ taken = [r \in RPCs |-> {}]
    /\ owner = [p \in Idx \X Keys |-> NoOwner]
    /\ sem = [r \in RPCs |-> MaxConcurrent[r]]
    /\ consumed = [r \in RPCs |-> 0]
    /\ reqPc = [r \in RPCs |-> "acquire"]
    /\ reqBatch = [r \in RPCs |-> {}]
    /\ rrIdx = [r \in RPCs |-> 0]
    /\ mailbox = [l \in Lanes |-> {}]
    /\ acked = {}
    /\ replied = {}
    /\ repPc = [l \in Lanes |-> "get"]
    /\ repBatch = [l \in Lanes |-> {}]
    /\ traversal = [r \in RPCs |-> 0]
    /\ completed = [r \in RPCs |-> {}]
    /\ trainCount = 0
    /\ dstCnt = 0
    /\ trainIdx = {}
    /\ clearReq = {}
    /\ globalStep = 0
    /\ stop = FALSE
    /\ err = "none"
    /\ epochSig = FALSE
    /\ epoch = 0
    /\ ctlCnt = [c \in Ctls |-> [epochs |-> 0, steps |-> 0]]
    /\ cmdQ = [c \in Ctls |-> 0]
    /\ cmdPc = [c \in Ctls |-> "get"]
    /\ cmdReq = [c \in Ctls |-> "none"]

Running == ~stop /\ err = "none"

-----------------------------------------------------------------------------
\* Faulty variant: put_batch without the data_owner entries.
LoadDataNoOwner ==
    /\ Running
    /\ nextIdx + SeqsPerLoad <= MaxRecords
    /\ attrs' = [i \in Idx |-> IF i \in nextIdx .. nextIdx + SeqsPerLoad - 1 THEN SrcKeys ELSE attrs[i]]
    /\ nextIdx' = nextIdx + SeqsPerLoad
    /\ epochSig' = TRUE
    /\ UNCHANGED <<epoch, ctlCnt, cmdQ, cmdPc, cmdReq, taken, owner, sem, consumed, reqPc, reqBatch, rrIdx, mailbox, acked, replied,
                   repPc, repBatch, traversal, completed, trainCount, dstCnt, trainIdx,
                   clearReq, globalStep, stop, err>>

(* load_data_func: fetch from the data workers, put_batch, then register   *)
(* the source RPC's model as the owner of every fetched key.  A load is    *)
(* one epoch of data; the buffer (spec 4.5) signals the new epoch to the   *)
(* driver on fetch_master_ctl, a size-1 queue that keeps one signal.       *)
LoadData ==
    /\ Running
    /\ nextIdx + SeqsPerLoad <= MaxRecords
    /\ LET new == nextIdx .. nextIdx + SeqsPerLoad - 1 IN
         /\ attrs' = [i \in Idx |-> IF i \in new THEN SrcKeys ELSE attrs[i]]
         /\ owner' = [p \in Idx \X Keys |->
                        IF p[1] \in new /\ p[2] \in SrcKeys THEN ModelOf[SrcRPC] ELSE owner[p]]
    /\ nextIdx' = nextIdx + SeqsPerLoad
    /\ epochSig' = TRUE
    /\ UNCHANGED <<epoch, ctlCnt, cmdQ, cmdPc, cmdReq, taken, sem, consumed, reqPc, reqBatch, rrIdx, mailbox, acked, replied,
                   repPc, repBatch, traversal, completed, trainCount, dstCnt, trainIdx,
                   clearReq, globalStep, stop, err>>

-----------------------------------------------------------------------------
(* model_rpc_request_func                                                  *)

\* await can_do_rpc.acquire()
ReqAcquire(r) ==
    /\ Running
    /\ reqPc[r] = "acquire"
    /\ sem[r] > 0
    /\ sem' = [sem EXCEPT ![r] = @ - 1]
    /\ reqPc' = [reqPc EXCEPT ![r] = "backpressure"]
    /\ UNCHANGED <<ctlVars, nextIdx, attrs, taken, owner, consumed, reqBatch, rrIdx, mailbox, acked,
                   replied, repPc, repBatch, traversal, completed, trainCount, dstCnt,
                   trainIdx, clearReq, globalStep, stop, err>>

\* The child-lag rule: sleep while some child has not caught up.
ChildBlocks(r) ==
    \E c \in Children[r] : consumed[r] >= (traversal[c] + 1) * MaxSeqs[c]

ReqBackPressure(r) ==
    /\ Running
    /\ reqPc[r] = "backpressure"
    /\ ~ChildBlocks(r)
    /\ reqPc' = [reqPc EXCEPT ![r] = "get"]
    /\ UNCHANGED <<ctlVars, nextIdx, attrs, taken, owner, sem, consumed, reqBatch, rrIdx, mailbox,
                   acked, replied, repPc, repBatch, traversal, completed, trainCount,
                   dstCnt, trainIdx, clearReq, globalStep, stop, err>>

\* data_owner after this RPC claims its outputs for the batch.
OwnerAfterClaim(r, b) ==
    [p \in Idx \X Keys |-> IF p[1] \in b /\ p[2] \in OutputKeys[r] THEN ModelOf[r] ELSE owner[p]]

\* Reading the producer of each input key: a KeyError for a missing entry,
\* the assertion len(set(names)) == 1 for a batch with two producers.
OwnerReadError(r, b, own) ==
    IF \E k \in InputKeys[r], i \in b : own[<<i, k>>] = NoOwner THEN "KeyError"
    ELSE IF \E k \in InputKeys[r] : Cardinality({own[<<i, k>>] : i \in b}) > 1
         THEN "AssertionError"
         ELSE "none"

\* From the return of get_batch_for_rpc to the first await inside
\* scatter_tensor_to_mws: record source indices, count the batch, claim
\* ownership of the outputs, read the producers of the inputs, post payloads.
ReqGetBatch(r) ==
    /\ Running
    /\ reqPc[r] = "get"
    /\ CanGetBatch(r)
    /\ LET b == GetBatch(r)
           own == OwnerAfterClaim(r, b)
       IN /\ taken' = [taken EXCEPT ![r] = @ \cup b]
          /\ trainIdx' = IF r = SrcRPC THEN trainIdx \cup b ELSE trainIdx
          /\ consumed' = [consumed EXCEPT ![r] = @ + Cardinality(b)]
          /\ owner' = own
          /\ err' = IF BalancedDp[r] /\ Cardinality(b) % Dp[r] # 0
                       THEN "AssertionError" ELSE OwnerReadError(r, b, own)
          /\ reqBatch' = [reqBatch EXCEPT ![r] = b]
    /\ reqPc' = [reqPc EXCEPT ![r] = "syn"]
    /\ UNCHANGED <<ctlVars, nextIdx, attrs, sem, rrIdx, mailbox, acked, replied, repPc, repBatch,
                   traversal, completed, trainCount, dstCnt, clearReq, globalStep, stop>>

\* Every syn reply has arrived; the master posts the acks, after which the
\* workers may execute the request.
ReqSynAck(r) ==
    /\ Running
    /\ reqPc[r] = "syn"
    /\ acked' = acked \cup {<<r, reqBatch[r]>>}
    /\ reqPc' = [reqPc EXCEPT ![r] = "put"]
    /\ UNCHANGED <<ctlVars, nextIdx, attrs, taken, owner, sem, consumed, reqBatch, rrIdx, mailbox,
                   replied, repPc, repBatch, traversal, completed, trainCount, dstCnt,
                   trainIdx, clearReq, globalStep, stop, err>>

\* Faulty variant: the round-robin index is not wrapped.
NextLaneNoWrap(r) == rrIdx[r] + 1

\* (response_coroutine_idx + 1) % len(request_queues)
NextLane(r) == (rrIdx[r] + 1) % MaxConcurrent[r]

\* await request_queues[response_coroutine_idx].put(...): a size-1 queue.
ReqPut(r) ==
    /\ Running
    /\ reqPc[r] = "put"
    /\ mailbox[<<r, rrIdx[r]>>] = {}
    /\ mailbox' = [mailbox EXCEPT ![<<r, rrIdx[r]>>] = reqBatch[r]]
    /\ rrIdx' = [rrIdx EXCEPT ![r] = NextLane(r)]
    /\ reqBatch' = [reqBatch EXCEPT ![r] = {}]
    /\ reqPc' = [reqPc EXCEPT ![r] = "acquire"]
    /\ UNCHANGED <<ctlVars, nextIdx, attrs, taken, owner, sem, consumed, acked, replied, repPc,
                   repBatch, traversal, completed, trainCount, dstCnt, trainIdx, clearReq,
                   globalStep, stop, err>>

-----------------------------------------------------------------------------
(* The model workers (spec.md 4.1): an acked request is eventually        *)
(* executed and its replies posted; requests may finish in any order.     *)
WorkerReply(q) ==
    /\ Running
    /\ q \in acked
    /\ acked' = acked \ {q}
    /\ replied' = replied \cup {q}
    /\ UNCHANGED <<ctlVars, nextIdx, attrs, taken, owner, sem, consumed, reqPc, reqBatch, rrIdx,
                   mailbox, repPc, repBatch, traversal, completed, trainCount, dstCnt,
                   trainIdx, clearReq, globalStep, stop, err>>

-----------------------------------------------------------------------------
(* model_rpc_reply_func                                                    *)

\* await request_queue.get()
RepGet(l) ==
    /\ Running
    /\ repPc[l] = "get"
    /\ mailbox[l] # {}
    /\ repBatch' = [repBatch EXCEPT ![l] = mailbox[l]]
    /\ mailbox' = [mailbox EXCEPT ![l] = {}]
    /\ repPc' = [repPc EXCEPT ![l] = "wait"]
    /\ UNCHANGED <<ctlVars, nextIdx, attrs, taken, owner, sem, consumed, reqPc, reqBatch, rrIdx,
                   acked, replied, traversal, completed, trainCount, dstCnt, trainIdx,
                   clearReq, globalStep, stop, err>>

\* After the traversal counter: a terminal RPC reports to train_count (the
\* put suspends while the queue holds n_dsts items); any other RPC amends
\* the buffer with the keys it produced.
AmendBatch(b, r) ==
    attrs' = [i \in Idx |-> IF i \in b THEN attrs[i] \cup OutputKeys[r] ELSE attrs[i]]

\* Faulty variant: every RPC reports to train_count.
ReportDoneAlwaysCount(l, r, b) ==
    /\ trainCount' = IF trainCount < NDst THEN trainCount + 1 ELSE trainCount
    /\ repPc' = [repPc EXCEPT ![l] = IF trainCount < NDst THEN "get" ELSE "count"]
    /\ IF r \in DstRPCs THEN UNCHANGED attrs ELSE AmendBatch(b, r)

\* Faulty variant: a completion that finds train_count full is dropped.
ReportDoneDropWhenFull(l, r, b) ==
    IF r \in DstRPCs
      THEN /\ trainCount' = IF trainCount < NDst THEN trainCount + 1 ELSE trainCount
           /\ repPc' = [repPc EXCEPT ![l] = "get"]
           /\ UNCHANGED attrs
      ELSE /\ AmendBatch(b, r)
           /\ repPc' = [repPc EXCEPT ![l] = "get"]
           /\ UNCHANGED trainCount

ReportDone(l, r, b) ==
    IF r \in DstRPCs
      THEN /\ trainCount' = IF trainCount < NDst THEN trainCount + 1 ELSE trainCount
           /\ repPc' = [repPc EXCEPT ![l] = IF trainCount < NDst THEN "get" ELSE "count"]
           /\ UNCHANGED attrs
      ELSE /\ AmendBatch(b, r)
           /\ repPc' = [repPc EXCEPT ![l] = "get"]
           /\ UNCHANGED trainCount

\* Faulty variant: the permit is not given back.
ReleaseMissing(r) == sem' = sem

\* can_do_rpc.release()
Release(r) == sem' = [sem EXCEPT ![r] = @ + 1]

\* The replies of the request have arrived (other_req_ids, then req_ids):
\* release the semaphore, bump the traversal counter, report or amend.
RepCollect(l) ==
    LET r == l[1]
        b == repBatch[l]
    IN /\ Running
       /\ repPc[l] = "wait"
       /\ <<r, b>> \in replied
       /\ replied' = replied \ {<<r, b>>}
       /\ Release(r)
       /\ traversal' = [traversal EXCEPT ![r] = @ + 1]
       /\ completed' = [completed EXCEPT ![r] = @ \cup b]
       /\ ReportDone(l, r, b)
       /\ UNCHANGED <<ctlVars, nextIdx, taken, owner, consumed, reqPc, reqBatch, rrIdx, mailbox,
                      acked, repBatch, dstCnt, trainIdx, clearReq, globalStep, stop, err>>

\* await ctrl.train_count.put(1) resuming once the driver has made room.
RepPutCount(l) ==
    /\ Running
    /\ repPc[l] = "count"
    /\ trainCount < NDst
    /\ trainCount' = trainCount + 1
    /\ repPc' = [repPc EXCEPT ![l] = "get"]
    /\ UNCHANGED <<ctlVars, nextIdx, attrs, taken, owner, sem, consumed, reqPc, reqBatch, rrIdx,
                   mailbox, acked, replied, repBatch, traversal, completed, dstCnt,
                   trainIdx, clearReq, globalStep, stop, err>>

-----------------------------------------------------------------------------
(* The driver, _poll: between two event-loop ticks it takes completions   *)
(* from train_count with get_nowait; once it holds n_dsts of them the rest  *)
(* of _poll runs without yielding to the loop.                             *)

DriverTake ==
    /\ Running
    /\ trainCount > 0
    /\ dstCnt + 1 < NDst
    /\ trainCount' = trainCount - 1
    /\ dstCnt' = dstCnt + 1
    /\ UNCHANGED <<ctlVars, nextIdx, attrs, taken, owner, sem, consumed, reqPc, reqBatch, rrIdx,
                   mailbox, acked, replied, repPc, repBatch, traversal, completed,
                   trainIdx, clearReq, globalStep, stop, err>>

\* EpochStepTimeFreqCtl.check(epochs, steps) of control c (timeutil is not
\* in the sources; spec 4.5): count the epochs and steps since the last
\* fire, fire when a count reaches its frequency, and restart the counts.
\* A frequency of 0 is None and never fires; freq_sec is None.
CtlCount(cnt, c, e) ==
    [epochs |-> IF FreqEpoch[c] = 0 THEN 0 ELSE cnt.epochs + e,
     steps  |-> IF FreqStep[c] = 0 THEN 0 ELSE cnt.steps + 1]
CtlFires(cnt, c) ==
    \/ FreqEpoch[c] > 0 /\ cnt.epochs >= FreqEpoch[c]
    \/ FreqStep[c] > 0 /\ cnt.steps >= FreqStep[c]

\* The controls that fire at this step, given whether it starts an epoch.
Fired(e) == {c \in Ctls : CtlFires(CtlCount(ctlCnt[c], c, e), c)}

\* eval_queue.put_nowait, then save_queue.put_nowait: the first put that
\* finds its queue full raises QueueFull and the later one is not made.
QueueFullAt(e) == {c \in Fired(e) : cmdQ[c] = 1}
Puts(e) == IF "eval" \in QueueFullAt(e) THEN {}
           ELSE IF "save" \in QueueFullAt(e) THEN Fired(e) \cap {"eval"}
           ELSE Fired(e)

\* The last completion of the step: take the new-epoch signal
\* (fetch_master_ctl.get_nowait), check the eval and save controls, advance
\* epoch and global step, put the eval and save commands.  Then, if a put
\* raised, _poll fails; after the last epoch, or at benchmark_steps,
\* experiment_complete_exit sets stop and raises before the clear;
\* otherwise wait for the previous clear to be acknowledged, send
\* clear_data_cache(training_buffer_indices) and empty the set.
\* A command put while its coroutine waits in get() is taken at the first
\* tick of the next _poll, and the next step cannot close before that tick.
DriverCloseStep ==
    LET e == IF epochSig THEN 1 ELSE 0 IN
    /\ Running
    /\ trainCount > 0
    /\ dstCnt + 1 = NDst
    /\ \A c \in Ctls : ~(cmdPc[c] = "get" /\ cmdQ[c] = 1)
    /\ trainCount' = trainCount - 1
    /\ dstCnt' = 0
    /\ globalStep' = globalStep + 1
    /\ epochSig' = FALSE
    /\ epoch' = epoch + e
    /\ ctlCnt' = [c \in Ctls |-> IF c \in Fired(e) THEN [epochs |-> 0, steps |-> 0]
                                                     ELSE CtlCount(ctlCnt[c], c, e)]
    /\ cmdQ' = [c \in Ctls |-> IF c \in Puts(e) THEN 1 ELSE cmdQ[c]]
    /\ CASE QueueFullAt(e) # {} ->
              /\ err' = "QueueFull"
              /\ UNCHANGED <<stop, trainIdx, clearReq>>
         [] (e = 1 /\ epoch + e > TotalTrainEpochs) \/ globalStep + 1 >= BenchmarkSteps ->
              /\ stop' = TRUE
              /\ UNCHANGED <<err, trainIdx, clearReq>>
         [] OTHER ->
              /\ clearReq' = trainIdx
              /\ trainIdx' = {}
              /\ UNCHANGED <<stop, err>>
    /\ UNCHANGED <<nextIdx, attrs, taken, owner, sem, consumed, reqPc, reqBatch, rrIdx,
                   mailbox, acked, replied, repPc, repBatch, traversal, completed, cmdPc, cmdReq>>

-----------------------------------------------------------------------------
(* model_eval_thread_func and model_save_thread_func: take a command,     *)
(* request evaluate / save from the model handlers (request_all: post,    *)
(* syn, ack without yielding), and await the replies.                      *)

CmdGet(c) ==
    /\ Running
    /\ cmdPc[c] = "get"
    /\ cmdQ[c] = 1
    /\ cmdQ' = [cmdQ EXCEPT ![c] = 0]
    /\ cmdReq' = [cmdReq EXCEPT ![c] = "acked"]
    /\ cmdPc' = [cmdPc EXCEPT ![c] = "wait"]
    /\ UNCHANGED <<nextIdx, attrs, taken, owner, sem, consumed, reqPc, reqBatch, rrIdx, mailbox,
                   acked, replied, repPc, repBatch, traversal, completed, trainCount, dstCnt,
                   trainIdx, clearReq, globalStep, stop, err, epochSig, epoch, ctlCnt>>

\* The model workers execute the command (spec 4.1).
CmdWorkerReply(c) ==
    /\ Running
    /\ cmdReq[c] = "acked"
    /\ cmdReq' = [cmdReq EXCEPT ![c] = "replied"]
    /\ UNCHANGED <<nextIdx, attrs, taken, owner, sem, consumed, reqPc, reqBatch, rrIdx, mailbox,
                   acked, replied, repPc, repBatch, traversal, completed, trainCount, dstCnt,
                   trainIdx, clearReq, globalStep, stop, err, epochSig, epoch, ctlCnt, cmdQ, cmdPc>>

\* gather_all_replies returns; the loop's next get() does not suspend when
\* the queue already holds a command, which is then requested at once.
CmdCollect(c) ==
    /\ Running
    /\ cmdPc[c] = "wait"
    /\ cmdReq[c] = "replied"
    /\ IF cmdQ[c] = 1
         THEN /\ cmdQ' = [cmdQ EXCEPT ![c] = 0]
              /\ cmdReq' = [cmdReq EXCEPT ![c] = "acked"]
              /\ UNCHANGED cmdPc
         ELSE /\ cmdReq' = [cmdReq EXCEPT ![c] = "none"]
              /\ cmdPc' = [cmdPc EXCEPT ![c] = "get"]
              /\ UNCHANGED cmdQ
    /\ UNCHANGED <<nextIdx, attrs, taken, owner, sem, consumed, reqPc, reqBatch, rrIdx, mailbox,
                   acked, replied, repPc, repBatch, traversal, completed, trainCount, dstCnt,
                   trainIdx, clearReq, globalStep, stop, err, epochSig, epoch, ctlCnt>>

\* After experiment_complete_exit, or after an exception of a coroutine has
\* been re-raised by _poll, the master executes no further step.
Terminated ==
    /\ ~Running
    /\ UNCHANGED vars

-----------------------------------------------------------------------------
Next ==
    \/ LoadData
    \/ \E r \in RPCs : ReqAcquire(r) \/ ReqBackPressure(r) \/ ReqGetBatch(r)
                     \/ ReqSynAck(r) \/ ReqPut(r)
    \/ \E q \in acked : WorkerReply(q)
    \/ \E l \in Lanes : RepGet(l) \/ RepCollect(l) \/ RepPutCount(l)
    \/ DriverTake
    \/ DriverCloseStep
    \/ \E c \in Ctls : CmdGet(c) \/ CmdWorkerReply(c) \/ CmdCollect(c)
    \/ Terminated

\* The event loop runs every ready coroutine at some tick, and every acked
\* request is executed by the workers (there are no timeouts).
Fairness ==
    /\ WF_vars(LoadData)
    /\ \A r \in RPCs : /\ WF_vars(ReqAcquire(r)) /\ WF_vars(ReqBackPressure(r))
                      /\ WF_vars(ReqGetBatch(r)) /\ WF_vars(ReqSynAck(r)) /\ WF_vars(ReqPut(r))
    /\ \A r \in RPCs, b \in SUBSET Idx : WF_vars(WorkerReply(<<r, b>>))
    /\ \A l \in Lanes : WF_vars(RepGet(l)) /\ WF_vars(RepCollect(l)) /\ WF_vars(RepPutCount(l))
    /\ WF_vars(DriverTake) /\ WF_vars(DriverCloseStep)
    /\ \A c \in Ctls : WF_vars(CmdGet(c)) /\ WF_vars(CmdWorkerReply(c)) /\ WF_vars(CmdCollect(c))

Spec == Init /\ [][Next]_vars /\ Fairness

-----------------------------------------------------------------------------
(* Properties                                                              *)

TypeOK ==
    /\ nextIdx \in 0 .. MaxRecords
    /\ attrs \in [Idx -> SUBSET Keys]
    /\ taken \in [RPCs -> SUBSET Idx]
    /\ owner \in [Idx \X Keys -> {ModelOf[r] : r \in RPCs} \cup {NoOwner}]
    /\ sem \in [RPCs -> Nat]
    /\ consumed \in [RPCs -> Nat]
    /\ reqPc \in [RPCs -> {"acquire", "backpressure", "get", "syn", "put"}]
    /\ reqBatch \in [RPCs -> SUBSET Idx]
    /\ \A r \in RPCs : rrIdx[r] \in 0 .. MaxConcurrent[r] - 1
    /\ mailbox \in [Lanes -> SUBSET Idx]
    /\ acked \subseteq RPCs \X SUBSET Idx
    /\ replied \subseteq RPCs \X SUBSET Idx
    /\ repPc \in [Lanes -> {"get", "wait", "count"}]
    /\ repBatch \in [Lanes -> SUBSET Idx]
    /\ traversal \in [RPCs -> Nat]
    /\ completed \in [RPCs -> SUBSET Idx]
    /\ trainCount \in 0 .. NDst
    /\ dstCnt \in 0 .. NDst
    /\ trainIdx \subseteq Idx /\ clearReq \subseteq Idx
    /\ globalStep \in Nat
    /\ stop \in BOOLEAN
    /\ err \in {"none", "KeyError", "AssertionError", "QueueFull"}
    /\ epochSig \in BOOLEAN
    /\ epoch \in Nat
    /\ ctlCnt \in [Ctls -> [epochs : Nat, steps : Nat]]
    /\ cmdQ \in [Ctls -> 0 .. 1]
    /\ cmdPc \in [Ctls -> {"get", "wait"}]
    /\ cmdReq \in [Ctls -> {"none", "acked", "replied"}]

\* Requests of r that hold a permit of can_do_rpc: the request coroutine
\* between acquire and the mailbox put, a request waiting in a mailbox, and
\* a reply coroutine that has not yet released.
InFlight(r) ==
    (IF reqPc[r] = "acquire" THEN 0 ELSE 1)
      + Cardinality({l \in Lanes : l[1] = r /\ mailbox[l] # {}})
      + Cardinality({l \in Lanes : l[1] = r /\ repPc[l] = "wait"})

\* The semaphore acquired by the request coroutine and released by whichever
\* reply coroutine collects the request accounts exactly for the requests of
\* r in flight, so at most max_concurrent_calls of them ever are.
SemaphoreAccounting ==
    \A r \in RPCs : sem[r] >= 0 /\ sem[r] + InFlight(r) = MaxConcurrent[r]

\* DFG ordering (spec 4.3): an RPC is handed a record only after every RPC
\* producing one of its inputs collected its reply for that record, although
\* no coroutine waits on another explicitly.
Producers(r) == {p \in RPCs : OutputKeys[p] \cap InputKeys[r] # {}}
DataflowOrder ==
    \A r \in RPCs : \A p \in Producers(r) : taken[r] \subseteq completed[p]

\* The data-owner lookups of the request coroutine never raise: every input
\* key of a batch has an owner entry, and one producer per key.
NoCoroutineError == err \notin {"KeyError", "AssertionError"}

\* A global step is counted only after every terminal RPC (rpc.is_dst)
\* fired for it, as the driver's count of train_count items is meant to say.
StepClosesEachTerminal ==
    \A d \in DstRPCs : traversal[d] >= globalStep

\* clear_data_cache(training_buffer_indices) only names records that every
\* RPC of the DFG has finished with, so workers never drop the side state of
\* a record a later RPC still needs.
ClearedIndicesRetired ==
    \A r \in RPCs : clearReq \subseteq completed[r]

\* Every request model_rpc_request_func issues carries records: the
\* min_n_seqs raised to dp_size * pp_size by _configure, the max_n_seqs
\* cap and the balanced_dp round-down of get_batch_for_rpc never leave
\* an empty batch.
NonEmptyRequests ==
    \A r \in RPCs : reqPc[r] \in {"syn", "put"} => reqBatch[r] # {}

\* The benchmark run terminates: global step benchmark_steps is reached.
BenchmarkCompletes == <>stop

=============================================================================
