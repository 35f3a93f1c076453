--------------------------- MODULE MCPpoFunctional --------------------------
(* The packed reward and GAE helpers on every input of a bounded domain:   *)
(* Init picks a batch of sequences and its tensors, and each invariant     *)
(* compares the packed result with the padded helpers run on each row.     *)
EXTENDS PpoFunctional, FiniteSets

CONSTANTS MaxBs,    \* sequences per batch
          MaxLen,   \* short (log_probs) length of a sequence, 1 .. MaxLen
          Vals,     \* the values a tensor element takes
          Gamma, Lam, KlCtl, ClipValue

VARIABLES lens, r, v, boot, lp, ref, score
vars == <<lens, r, v, boot, lp, ref, score>>

\* Reward scores: one clipped below, one inside, one at 0.
Scores == {-3, 0, 1}

Tensors(len) == [1 .. len -> Vals]
Total == FoldSeq(LAMBDA x, y : x + y, 0, lens)
bs == Len(lens)

\* Either the GAE inputs vary and the reward inputs are 0, or the other way
\* round: the two helpers are checked separately.
Init ==
    /\ lens \in UNION {[1 .. b -> 1 .. MaxLen] : b \in 1 .. MaxBs}
    /\ boot \in [1 .. Len(lens) -> {0, 1}]
    /\ \/ /\ r \in Tensors(Total) /\ v \in Tensors(Total + Len(lens))
          /\ lp = [j \in 1 .. Total |-> 0] /\ ref = lp
          /\ score = [i \in 1 .. Len(lens) |-> 0]
       \/ /\ r = [j \in 1 .. Total |-> 0] /\ v = [j \in 1 .. Total + Len(lens) |-> 0]
          /\ lp \in Tensors(Total) /\ ref \in {[j \in 1 .. Total |-> 0]}
          /\ score \in [1 .. Len(lens) -> Scores]

\* The helpers are pure: nothing changes after the input is chosen.
Next == UNCHANGED vars
Spec == Init /\ [][Next]_vars

\* short1cu_seqlens of the batch, and row i of a packed tensor.
Cu == [i \in 1 .. bs + 1 |-> FoldSeq(LAMBDA x, y : x + y, 0, SubSeq(lens, 1, i - 1))]
Row(t, i) == SubSeq(t, Cu[i] + 1, Cu[i + 1])
\* A sequence of l log-probs has l + 1 values.
ValueRow(i) == SubSeq(v, Cu[i] + i, Cu[i + 1] + i)

Padded(f(_)) == FlattenSeq([i \in 1 .. bs |-> f(i)])

\* _pygae1d_nolp_misalign walks the packed rewards and the values, which
\* hold one bootstrapped element more per sequence, through two sets of
\* offsets; its advantages and returns are, sequence by sequence, those
\* get_advantages_and_returns computes on the sequence as a padded row
\* with seq_no_eos_mask = bootstrap.
PackedGaeMatchesPadded ==
    LET packed == PackedAdvantagesAndReturns(Gamma, Lam, v, r, Cu, boot)
        row(i) == AdvantagesAndReturns(Gamma, Lam, ValueRow(i), Row(r, i), boot[i])
    IN  /\ packed[1] = Padded(LAMBDA i : row(i)[1])
        /\ packed[2] = Padded(LAMBDA i : row(i)[2])

\* get_packed_rewards adds each sequence's clipped score on its last
\* log-prob, as compute_rewards does on the padded row with the EOS index
\* one past the row's last log-prob.
PackedRewardsMatchPadded ==
    LET packed == PackedRewards(KlCtl, ClipValue, lp, ref, score, Cu, boot)
        row(i) == ComputeRewards(KlCtl, ClipValue, Row(lp, i), Row(ref, i),
                                 score[i], lens[i], boot[i])
    IN  /\ packed[1] = Padded(LAMBDA i : row(i)[1])
        /\ packed[2] = Padded(LAMBDA i : row(i)[2])


\* _VocabParallelMemoryEfficientPPOLoss splits a token's logits over the
\* model-parallel ranks: for every rank count dividing the vocabulary (here
\* a row of lp) and every label, the all-reduced predicted logit is the
\* label's logit, and the backward subtracts 1 from exactly the label's
\* column of exactly one rank, as log_softmax over the whole row does.
VocabParallelGatherMatchesFull ==
    LET V == Len(lp)
    IN  \A w \in {d \in 1 .. V : V % d = 0}, t \in 0 .. V - 1 :
            LET size == V \div w
            IN  /\ VocabParallelPredicted(lp, w, t) = lp[t + 1]
                /\ \A rk \in 0 .. w - 1, c \in 0 .. size - 1 :
                       SoftmaxUpdate(size, rk, t, c) = IF rk * size + c = t THEN 1 ELSE 0

=============================================================================
