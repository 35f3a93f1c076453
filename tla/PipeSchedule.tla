---------------------------- MODULE PipeSchedule ----------------------------
(***************************************************************************)
(* The pipeline instruction schedules of                                   *)
(* src/impl/model/backend/ds_pipe_engine/schedule.py and the pipeline that *)
(* executes them.  Each schedule is a pure operator giving the commands a  *)
(* stage yields at a step; a stage runs the commands of its steps in       *)
(* order.  The execution of an instruction is what its class docstring     *)
(* says it roughly does: loads and passes read and write the stage's       *)
(* pipeline buffers, and every Send/Recv is blocking and completes only    *)
(* together with its partner on the neighbouring stage.                    *)
(*                                                                         *)
(* The data in a buffer is abstracted to a tag <<micro-batch, token>>: the *)
(* micro-batch it belongs to and, in generation, the token round.          *)
(***************************************************************************)
EXTENDS Integers, Sequences, SequencesExt

\* An instruction: its class name, buffer id, and the micro-batch and token
\* the schedule computed for it (the mb and tok fields annotate what the
\* schedule believes the instruction works on), and its step.
Instr(op, buf, mb, tok) == [op |-> op, buf |-> buf, mb |-> mb, tok |-> tok]

Opt(c, i) == IF c THEN <<i>> ELSE <<>>

\* _is_even
IsEven(x) == x % 2 = 0

\* Faulty variant: micro-batch ids up to and including micro_batches.
ValidMbInclusive(n, m) == 0 <= m /\ m <= n

\* PipeSchedule._valid_micro_batch and _valid_stage
ValidMb(n, m) == 0 <= m /\ m < n
ValidStage(nst, s) == 0 <= s /\ s < nst

Larger2(x, y) == IF x >= y THEN x ELSE y
Smaller2(x, y) == IF x <= y THEN x ELSE y

\* Alternating receive and send buffers of InferenceSchedule and
\* GenerateSchedule; the buffer id is global for all stages.
\* Faulty variant: every stage receives into buffer step_id % 2.
RecvBufSame(s, t) == t % 2

RecvBuf(s, t) == IF IsEven(s) THEN t % 2 ELSE (t + 1) % 2
SendBuf(s, t) == IF IsEven(s) THEN (t + 1) % 2 ELSE t % 2

-----------------------------------------------------------------------------
(* InferenceSchedule.steps                                                 *)

InferenceTotal(n, nst) == n + nst - 1

InferenceCmds(n, nst, s, t) ==
    LET mb == t - s
        send == Opt(ValidStage(nst, s + 1) /\ ValidMb(n, mb - 1),
                    Instr("SendActivation", SendBuf(s, t), mb - 1, 0))
        recv == Opt(ValidStage(nst, s - 1) /\ ValidMb(n, mb),
                    Instr("RecvActivation", RecvBuf(s, t), mb, 0))
    IN  Opt(s = 0 /\ ValidMb(n, mb), Instr("LoadMicroBatch", RecvBuf(s, t), mb, 0))
        \o (IF IsEven(s) THEN send \o recv ELSE recv \o send)
        \o Opt(ValidMb(n, mb), Instr("ForwardPass", RecvBuf(s, t), mb, 0))

-----------------------------------------------------------------------------
(* GenerateSchedule.steps                                                  *)

\* max(num_micro_batches, stages): the length of one generation round.
Round(n, nst) == Larger2(n, nst)

GenerateTotal(n, nst, ntok) == ntok * Round(n, nst) + n - 1

GenMb(n, nst, s, t) == IF t - s >= 0 THEN (t - s) % Round(n, nst) ELSE -1
GenTok(n, nst, s, t) == (t - s) \div Round(n, nst)

\* Faulty variant: the first stage also waits for next tokens during the
\* first round.
GenerateCmdsRecvFirstRound(n, nst, ntok, s, t) ==
    LET mb == GenMb(n, nst, s, t)
        tok == GenTok(n, nst, s, t)
        lastMb == IF t = 0 THEN -1 ELSE GenMb(n, nst, s, t - 1)
        lastTok == IF t = 0 THEN -1 ELSE GenTok(n, nst, s, t - 1)
        firstRound == t < n
        lastStageLastMb == (t - nst) % Round(n, nst)
        isFirst == s = 0
        isLast == s = nst - 1
        live == ValidMb(n, mb) /\ tok < ntok
        lastLive == ValidMb(n, lastMb) /\ lastTok < ntok
        send == Opt(lastLive /\ ~isLast, Instr("SendActivation", SendBuf(s, t), lastMb, lastTok))
    IN  (IF IsEven(s)
           THEN send \o Opt(live /\ ~isFirst, Instr("RecvActivation", RecvBuf(s, t), mb, tok))
           ELSE Opt(live, Instr("RecvActivation", RecvBuf(s, t), mb, tok)) \o send)
        \o Opt(isLast /\ lastLive, Instr("SendNextTokens", 0, lastMb, lastTok))
        \o Opt(isFirst /\ ValidMb(n, lastStageLastMb),
               Instr("RecvNextTokens", 0, lastStageLastMb, -1))
        \o (IF isFirst /\ firstRound
              THEN Opt(live, Instr("LoadMicroBatch", RecvBuf(s, t), mb, tok))
              ELSE Opt(live /\ isFirst, Instr("LoadNextTokens", RecvBuf(s, t), mb, tok)))
        \o Opt(live, Instr("ForwardPass", RecvBuf(s, t), mb, tok))

GenerateCmds(n, nst, ntok, s, t) ==
    LET mb == GenMb(n, nst, s, t)
        tok == GenTok(n, nst, s, t)
        lastMb == IF t = 0 THEN -1 ELSE GenMb(n, nst, s, t - 1)
        lastTok == IF t = 0 THEN -1 ELSE GenTok(n, nst, s, t - 1)
        firstRound == t < n
        lastStageLastMb == (t - nst) % Round(n, nst)
        isFirst == s = 0
        isLast == s = nst - 1
        live == ValidMb(n, mb) /\ tok < ntok
        lastLive == ValidMb(n, lastMb) /\ lastTok < ntok
        send == Opt(lastLive /\ ~isLast, Instr("SendActivation", SendBuf(s, t), lastMb, lastTok))
    IN  (IF IsEven(s)
           THEN send \o Opt(live /\ ~isFirst, Instr("RecvActivation", RecvBuf(s, t), mb, tok))
           ELSE Opt(live, Instr("RecvActivation", RecvBuf(s, t), mb, tok)) \o send)
        \o Opt(isLast /\ lastLive, Instr("SendNextTokens", 0, lastMb, lastTok))
        \o Opt(isFirst /\ ~firstRound /\ ValidMb(n, lastStageLastMb),
               Instr("RecvNextTokens", 0, lastStageLastMb, -1))
        \o (IF isFirst /\ firstRound
              THEN Opt(live, Instr("LoadMicroBatch", RecvBuf(s, t), mb, tok))
              ELSE Opt(live /\ isFirst, Instr("LoadNextTokens", RecvBuf(s, t), mb, tok)))
        \o Opt(live, Instr("ForwardPass", RecvBuf(s, t), mb, tok))

-----------------------------------------------------------------------------
(* TrainSchedule.steps: synchronous 1F1B                                   *)

\* Faulty variant: the schedule stops one forward/backward pair early.
TrainTotalShort(n, nst) == 2 * (n + nst - 1) - 2

TrainTotal(n, nst) == 2 * (n + nst - 1)

\* TrainSchedule.num_pipe_buffers
\* Faulty variant: one buffer fewer than the in-flight forward passes.
TrainBuffersOneShort(n, nst, s) == Larger2(2, Smaller2(nst - s - 1, n))

TrainBuffers(n, nst, s) == Larger2(2, Smaller2(nst - s, n))

\* PipeSchedule._buffer_idx
BufferIdx(n, nst, s, m) == m % TrainBuffers(n, nst, s)

\* _step_to_micro_batch and its four helpers: <<micro_batch_id, is_forward>>
StepToMicroBatch(nst, s, t) ==
    CASE IsEven(t) /\ IsEven(s)   -> <<t \div 2 - s \div 2, TRUE>>
      [] ~IsEven(t) /\ ~IsEven(s) -> <<(t - 1) \div 2 - s \div 2, TRUE>>
      [] IsEven(t) /\ ~IsEven(s)  -> <<t \div 2 - nst + (s + 1) \div 2, FALSE>>
      [] ~IsEven(t) /\ IsEven(s)  -> <<((t - 1) \div 2) - nst + 1 + s \div 2, FALSE>>

TrainCmds(n, nst, s, t) ==
    LET mb == StepToMicroBatch(nst, s, t)[1]
        fwd == StepToMicroBatch(nst, s, t)[2]
        prev == IF t = 0 THEN -1 ELSE StepToMicroBatch(nst, s, t - 1)[1]
        cur == BufferIdx(n, nst, s, mb)
        pbuf == BufferIdx(n, nst, s, prev)
        valid == ValidMb(n, mb)
        pvalid == ValidMb(n, prev)
    IN  Opt((s = 0 \/ s = nst - 1) /\ fwd /\ valid, Instr("LoadMicroBatch", cur, mb, 0))
        \o (IF fwd
              THEN Opt(pvalid /\ ValidStage(nst, s - 1), Instr("SendGrad", pbuf, prev, 0))
                   \o Opt(valid /\ ValidStage(nst, s - 1), Instr("RecvActivation", cur, mb, 0))
              ELSE Opt(valid /\ ValidStage(nst, s + 1), Instr("RecvGrad", cur, mb, 0))
                   \o Opt(pvalid /\ ValidStage(nst, s + 1), Instr("SendActivation", pbuf, prev, 0)))
        \o Opt(valid, Instr(IF fwd THEN "ForwardPass" ELSE "BackwardPass", cur, mb, 0))
        \o (IF t = TrainTotal(n, nst) - 1
              THEN <<Instr("ReduceTiedGrads", 0, -1, 0), Instr("ReduceGrads", 0, -1, 0),
                     Instr("OptimizerStep", 0, -1, 0)>>
              ELSE <<>>)

-----------------------------------------------------------------------------
(* DataParallelSchedule: one stage, one buffer, gradient accumulation.    *)

DataParallelTotal(n) == n

\* The step's load, forward and backward on buffer 0, and the gradient
\* reduction and optimizer step after the last micro-batch.
DataParallelCmds(n, t) ==
    <<Instr("LoadMicroBatch", 0, t, 0), Instr("ForwardPass", 0, t, 0),
      Instr("BackwardPass", 0, t, 0)>>
    \o (IF t = n - 1 THEN <<Instr("ReduceGrads", 0, -1, 0), Instr("OptimizerStep", 0, -1, 0)>>
                     ELSE <<>>)

-----------------------------------------------------------------------------
(* The program of a stage: the commands of all its steps, in order, each  *)
(* stamped with its step_id.                                               *)

\* Configs: the <<schedule, micro_batches, stages, max_new_tokens>> checked.
CONSTANT Configs

VARIABLES kind, n, nst, ntok, barrier,  \* the schedule and its arguments
          prog,     \* prog[s]: the instructions stage s executes
          pc,       \* pc[s]: the index of stage s's next instruction
          loaded,   \* loaded[s]: micro-batches taken from the data iterator
          inBuf,    \* buffers['inputs']
          outBuf,   \* buffers['outputs']
          gradBuf,  \* gradients received by RecvGrad
          latest,   \* the last stage's most recent forward output
          cache,    \* next tokens received by the first stage, per micro-batch
          fwdDone, bwdDone  \* history: tags each stage passed forward/backward

cfgVars == <<kind, n, nst, ntok, barrier, prog>>
vars == <<kind, n, nst, ntok, barrier, prog, pc, loaded, inBuf, outBuf, gradBuf,
          latest, cache, fwdDone, bwdDone>>

None == <<-1, -1>>

Total(k, m, p, q) ==
    CASE k = "train"    -> TrainTotal(m, p)
      [] k = "infer"    -> InferenceTotal(m, p)
      [] k = "generate" -> GenerateTotal(m, p, q)
      [] k = "dp"       -> DataParallelTotal(m)

Cmds(k, m, p, q, s, t) ==
    CASE k = "train"    -> TrainCmds(m, p, s, t)
      [] k = "infer"    -> InferenceCmds(m, p, s, t)
      [] k = "generate" -> GenerateCmds(m, p, q, s, t)
      [] k = "dp"       -> DataParallelCmds(m, t)

Stamp(c, t) == [x \in DOMAIN c |-> c[x] @@ ("step" :> t)]

\* `for step_id, micro_batch_id, cmds in schedule: for cmd in cmds: ...`
Program(k, m, p, q, s) ==
    FlattenSeq([t \in 1 .. Total(k, m, p, q) |-> Stamp(Cmds(k, m, p, q, s, t - 1), t - 1)])

Stages == 0 .. nst - 1
Bufs == 0 .. Larger2(2, n) - 1

Init ==
    /\ \E c \in Configs : kind = c[1] /\ n = c[2] /\ nst = c[3] /\ ntok = c[4]
    /\ barrier \in BOOLEAN
    /\ prog = [s \in Stages |-> Program(kind, n, nst, ntok, s)]
    /\ pc = [s \in Stages |-> 1]
    /\ loaded = [s \in Stages |-> 0]
    /\ inBuf = [s \in Stages |-> [b \in Bufs |-> None]]
    /\ outBuf = [s \in Stages |-> [b \in Bufs |-> None]]
    /\ gradBuf = [s \in Stages |-> [b \in Bufs |-> None]]
    /\ latest = None
    /\ cache = [m \in 0 .. n - 1 |-> None]
    /\ fwdDone = [s \in Stages |-> {}]
    /\ bwdDone = [s \in Stages |-> {}]

Finished(s) == pc[s] > Len(prog[s])
Cur(s) == prog[s][pc[s]]
StepOf(s) == IF Finished(s) THEN Total(kind, n, nst, ntok) ELSE Cur(s).step

\* Stage s's next instruction is op and may start: with a barrier between
\* the yielded steps, only once every stage has finished the earlier steps.
At(s, op) ==
    /\ ~Finished(s)
    /\ Cur(s).op = op
    /\ barrier => \A q \in Stages : StepOf(q) >= Cur(s).step

Advance(S) == pc' = [s \in Stages |-> IF s \in S THEN pc[s] + 1 ELSE pc[s]]

-----------------------------------------------------------------------------
(* Executing the instructions                                              *)

\* LoadMicroBatch: buffers['inputs'][buffer_id] = next(data_iter)
LoadMicroBatch(s) ==
    /\ At(s, "LoadMicroBatch")
    /\ inBuf' = [inBuf EXCEPT ![s][Cur(s).buf] = <<loaded[s], 0>>]
    /\ loaded' = [loaded EXCEPT ![s] = @ + 1]
    /\ Advance({s})
    /\ UNCHANGED <<cfgVars, outBuf, gradBuf, latest, cache, fwdDone, bwdDone>>

\* LoadNextTokens: the first stage feeds the tokens the last stage produced
\* for this micro-batch back in, as the input of the next token round.
LoadNextTokens(s) ==
    /\ At(s, "LoadNextTokens")
    /\ inBuf' = [inBuf EXCEPT ![s][Cur(s).buf] =
                    <<cache[Cur(s).mb][1], cache[Cur(s).mb][2] + 1>>]
    /\ Advance({s})
    /\ UNCHANGED <<cfgVars, loaded, outBuf, gradBuf, latest, cache, fwdDone, bwdDone>>

\* ForwardPass: buffers['outputs'][buffer_id] = forward(buffers['inputs'][buffer_id])
ForwardPass(s) ==
    LET x == inBuf[s][Cur(s).buf] IN
    /\ At(s, "ForwardPass")
    /\ outBuf' = [outBuf EXCEPT ![s][Cur(s).buf] = x]
    /\ latest' = IF s = nst - 1 THEN x ELSE latest
    /\ fwdDone' = [fwdDone EXCEPT ![s] = @ \cup {x}]
    /\ Advance({s})
    /\ UNCHANGED <<cfgVars, loaded, inBuf, gradBuf, cache, bwdDone>>

\* BackwardPass: backward(buffers['outputs'][buffer_id], gradients[buffer_id])
BackwardPass(s) ==
    /\ At(s, "BackwardPass")
    /\ bwdDone' = [bwdDone EXCEPT ![s] = @ \cup {outBuf[s][Cur(s).buf]}]
    /\ Advance({s})
    /\ UNCHANGED <<cfgVars, loaded, inBuf, outBuf, gradBuf, latest, cache, fwdDone>>

\* ReduceGrads and OptimizerStep synchronise only data-parallel ranks of one
\* stage; within the pipeline they are local steps.
ReduceLocal(s) ==
    /\ At(s, "ReduceGrads") \/ At(s, "OptimizerStep")
    /\ Advance({s})
    /\ UNCHANGED <<cfgVars, loaded, inBuf, outBuf, gradBuf, latest, cache, fwdDone, bwdDone>>

\* ReduceTiedGrads is a collective over the pipeline stages.
ReduceTiedGrads ==
    /\ \A s \in Stages : At(s, "ReduceTiedGrads")
    /\ Advance(Stages)
    /\ UNCHANGED <<cfgVars, loaded, inBuf, outBuf, gradBuf, latest, cache, fwdDone, bwdDone>>

\* SendActivation on s paired with RecvActivation on s + 1:
\* send(buffers['outputs'][b]) and buffers['inputs'][b'] = recv().
Activation(s) ==
    /\ At(s, "SendActivation")
    /\ At(s + 1, "RecvActivation")
    /\ inBuf' = [inBuf EXCEPT ![s + 1][Cur(s + 1).buf] = outBuf[s][Cur(s).buf]]
    /\ Advance({s, s + 1})
    /\ UNCHANGED <<cfgVars, loaded, outBuf, gradBuf, latest, cache, fwdDone, bwdDone>>

\* SendGrad on s paired with RecvGrad on s - 1: the gradient with respect
\* to the inputs held in s's buffer.
Grad(s) ==
    /\ At(s, "SendGrad")
    /\ At(s - 1, "RecvGrad")
    /\ gradBuf' = [gradBuf EXCEPT ![s - 1][Cur(s - 1).buf] = inBuf[s][Cur(s).buf]]
    /\ Advance({s, s - 1})
    /\ UNCHANGED <<cfgVars, loaded, inBuf, outBuf, latest, cache, fwdDone, bwdDone>>

\* SendNextTokens on the last stage paired with RecvNextTokens on the first.
NextTokens ==
    /\ At(nst - 1, "SendNextTokens")
    /\ At(0, "RecvNextTokens")
    /\ cache' = [cache EXCEPT ![Cur(0).mb] = latest]
    /\ Advance({0, nst - 1})
    /\ UNCHANGED <<cfgVars, loaded, inBuf, outBuf, gradBuf, latest, fwdDone, bwdDone>>

AllFinished == \A s \in Stages : Finished(s)

Terminated == AllFinished /\ UNCHANGED vars

Next ==
    \/ \E s \in Stages :
          \/ LoadMicroBatch(s) \/ LoadNextTokens(s) \/ ForwardPass(s)
          \/ BackwardPass(s) \/ ReduceLocal(s)
    \/ \E s \in 0 .. nst - 2 : Activation(s)
    \/ \E s \in 1 .. nst - 1 : Grad(s)
    \/ ReduceTiedGrads
    \/ NextTokens
    \/ Terminated

\* Every stage is a process of its own that runs its next instruction as
\* soon as it (and, for a transfer, its partner) can.
Spec == Init /\ [][Next]_vars /\ WF_vars(Next)

-----------------------------------------------------------------------------
(* Properties                                                              *)

Tags == ({-1} \cup 0 .. n - 1) \X ({-1} \cup 0 .. ntok - 1)

TypeOK ==
    /\ pc \in [Stages -> Nat]
    /\ \A s \in Stages : pc[s] \in 1 .. Len(prog[s]) + 1
    /\ inBuf \in [Stages -> [Bufs -> Tags]]
    /\ outBuf \in [Stages -> [Bufs -> Tags]]
    /\ gradBuf \in [Stages -> [Bufs -> Tags]]
    /\ cache \in [0 .. n - 1 -> Tags]

Runs(s, op) == ~Finished(s) /\ Cur(s).op = op /\ pc'[s] = pc[s] + 1

\* Every ForwardPass a stage runs reads, from the buffer the schedule names,
\* the micro-batch (and, in generation, the token round) the schedule
\* computed for that step: the alternating recv/send buffer ids and the
\* last-to-first token loop of GenerateSchedule deliver the right data.
ForwardReadsItsMicroBatch ==
    [][\A s \in Stages :
         Runs(s, "ForwardPass") => inBuf[s][Cur(s).buf] = <<Cur(s).mb, Cur(s).tok>>]_vars

\* Every BackwardPass of TrainSchedule differentiates the activations of the
\* micro-batch it is scheduled for, with the gradient the next stage sent
\* for that micro-batch: no buffer of _buffer_idx was reused by a later
\* forward pass before the backward pass it was kept for.
BackwardMatchesForward ==
    [][\A s \in Stages :
         Runs(s, "BackwardPass") =>
            /\ outBuf[s][Cur(s).buf] = <<Cur(s).mb, 0>>
            /\ s < nst - 1 => gradBuf[s][Cur(s).buf] = <<Cur(s).mb, 0>>]_vars

\* When every stage has run its whole schedule, each stage has passed every
\* micro-batch forward in every token round (and, in training, backward).
EveryMicroBatchDone ==
    AllFinished =>
        \A s \in Stages :
           /\ fwdDone[s] = (0 .. n - 1) \X (0 .. ntok - 1)
           /\ kind \in {"train", "dp"} => bwdDone[s] = fwdDone[s]

\* The blocking sends and receives of the stages always pair up: the
\* pipeline never waits forever and every stage reaches the end of its
\* schedule.
ScheduleTerminates == <>AllFinished

=============================================================================
