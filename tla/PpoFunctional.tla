--------------------------- MODULE PpoFunctional ---------------------------
(***************************************************************************)
(* The reward and GAE helpers of src/impl/model/utils/ppo_functional.py:   *)
(* the padded-batch versions (compute_rewards, get_advantages_and_returns) *)
(* and the packed versions (get_packed_rewards, _pygae1d_nolp_misalign)    *)
(* that walk a 1-D tensor of concatenated sequences through cu_seqlens.    *)
(* Tensors are sequences of integers: the checks are about which element   *)
(* each formula reads and writes, so gamma, lam and kl_ctl are integers    *)
(* too.  A Python index x is element x + 1 here.                           *)
(***************************************************************************)
EXTENDS Integers, Sequences, SequencesExt

Clip(x, lo, hi) == IF x < lo THEN lo ELSE IF x > hi THEN hi ELSE x

-----------------------------------------------------------------------------
(* Padded batch: one row                                                   *)

\* compute_rewards for one row: KL rewards set to 0 at and after the EOS
\* index, the clipped score added on the token before EOS unless the row
\* has no EOS.  Returns <<kl_rewards, total rewards>>.
ComputeRewards(klCtl, clipV, lp, ref, score, eos, noEos) ==
    LET kl == [j \in 1 .. Len(lp) |-> IF j - 1 >= eos THEN 0 ELSE -klCtl * (lp[j] - ref[j])]
        sc == [j \in 1 .. Len(lp) |->
                 IF j - 1 = eos - 1 THEN Clip(score, -clipV, clipV) * (1 - noEos) ELSE 0]
    IN  <<kl, [j \in 1 .. Len(lp) |-> kl[j] + sc[j]]>>

\* The reversed loop of get_advantages_and_returns over t = length-1 .. 0;
\* adv holds advantages_reversed.
RECURSIVE GaeRow(_, _, _, _, _, _, _, _)
GaeRow(gamma, lam, v, r, noEos, t, last, adv) ==
    IF t < 0 THEN adv
    ELSE LET nv == IF t = Len(r) - 1 THEN v[t + 2] * noEos ELSE v[t + 2]
             gae == r[t + 1] + gamma * nv - v[t + 1] + gamma * lam * last
         IN  GaeRow(gamma, lam, v, r, noEos, t - 1, gae, Append(adv, gae))

\* get_advantages_and_returns for one row: <<advantages, returns>>.
AdvantagesAndReturns(gamma, lam, v, r, noEos) ==
    LET adv == Reverse(GaeRow(gamma, lam, v, r, noEos, Len(r) - 1, 0, <<>>))
    IN  <<adv, [j \in 1 .. Len(adv) |-> adv[j] + v[j]]>>

-----------------------------------------------------------------------------
(* Packed batch                                                            *)

\* get_packed_rewards: the clipped score of sequence i is added at index
\* short1cu_seqlens[i + 1] - 1 unless the sequence has no EOS.
\* Python's negative index -1 is the last element.
PyIdx(a, x) == IF x < 0 THEN Len(a) + x + 1 ELSE x + 1

\* Faulty variant: the score is added whether or not the sequence has EOS.
PackedRewardsIgnoreMask(klCtl, clipV, lp, ref, score, cu, noEos) ==
    LET kl == [j \in 1 .. Len(lp) |-> -klCtl * (lp[j] - ref[j])]
        add(j) == FoldSeq(LAMBDA i, acc : acc + i, 0,
                          [i \in 1 .. Len(cu) - 1 |->
                             IF PyIdx(kl, cu[i + 1] - 1) = j
                               THEN Clip(score[i], -clipV, clipV) ELSE 0])
    IN  <<kl, [j \in 1 .. Len(lp) |-> kl[j] + add(j)]>>

PackedRewards(klCtl, clipV, lp, ref, score, cu, noEos) ==
    LET kl == [j \in 1 .. Len(lp) |-> -klCtl * (lp[j] - ref[j])]
        bs == Len(cu) - 1
        add(j) == FoldSeq(LAMBDA i, acc : acc + i, 0,
                          [i \in 1 .. bs |->
                             IF PyIdx(kl, cu[i + 1] - 1) = j /\ noEos[i] = 0
                               THEN Clip(score[i], -clipV, clipV) ELSE 0])
    IN  <<kl, [j \in 1 .. Len(lp) |-> kl[j] + add(j)]>>

\* Faulty variant: the cumulative shift one short from the second sequence on.
ValueOffsetsShortShift(cu) == [i \in 1 .. Len(cu) |-> cu[i] + (IF i = 1 THEN 0 ELSE i - 2)]

\* cu_seqlens[1:] += ones.cumsum(): the offsets into values, which hold
\* one more (bootstrapped) element per sequence.
ValueOffsets(cu) == [i \in 1 .. Len(cu) |-> cu[i] + (i - 1)]

\* The inner loop over t = r_end - r_offset - 1 .. 0 of sequence i (a
\* Python index): acc holds <<advantages_reversed, returns_reversed>>.
RECURSIVE PackedSeq(_, _, _, _, _, _, _, _, _, _)
PackedSeq(gamma, lam, r, v, boot, i, cu, t, last, acc) ==
    LET vOff == ValueOffsets(cu)[i + 1]
        rOff == cu[i + 1]
        rEnd == cu[i + 2]
    IN  IF t < 0 THEN acc
        ELSE LET nv  == IF t = rEnd - rOff - 1 THEN v[vOff + t + 2] * boot[i + 1]
                                              ELSE v[vOff + t + 2]
                 gae == r[rOff + t + 1] + gamma * nv - v[vOff + t + 1] + gamma * lam * last
             IN  PackedSeq(gamma, lam, r, v, boot, i, cu, t - 1, gae,
                           <<Append(acc[1], gae), Append(acc[2], gae + v[vOff + t + 1])>>)

\* The outer loop over i = bs - 1 .. 0.
RECURSIVE PackedLoop(_, _, _, _, _, _, _, _)
PackedLoop(gamma, lam, r, v, boot, cu, i, acc) ==
    IF i < 0 THEN acc
    ELSE PackedLoop(gamma, lam, r, v, boot, cu, i - 1,
                    PackedSeq(gamma, lam, r, v, boot, i, cu,
                              cu[i + 2] - cu[i + 1] - 1, 0, acc))

\* _pygae1d_nolp_misalign: <<advantages, returns>> of the packed batch.
PackedGae(r, v, cu, boot, gamma, lam) ==
    LET acc == PackedLoop(gamma, lam, r, v, boot, cu, Len(cu) - 2, <<<<>>, <<>>>>)
    IN  <<Reverse(acc[1]), Reverse(acc[2])>>

\* get_packed_advantages_and_returns without cugae: the fallback, with
\* seq_no_eos_mask as the bootstrap flags.
PackedAdvantagesAndReturns(gamma, lam, v, r, cu, noEos) ==
    PackedGae(r, v, cu, noEos, gamma, lam)

-----------------------------------------------------------------------------
(* PPO actor loss, one token.  A ratio is an integer on a scale where one  *)
(* is 1.0, so eps_clip and the clip bounds are exact; gradients are        *)
(* returned doubled, as autograd splits a tie of max in halves.            *)

\* pg_loss1 = -advantages * ratio, pg_loss2 = -advantages * clipped_ratio.
PgLosses(adv, ratio, eps, one) ==
    <<-adv * ratio, -adv * Clip(ratio, one - eps, one + eps)>>

\* Twice d loss / d ratio as autograd derives it from actor_loss_fn's
\* forward: maximum passes g to the larger argument and g / 2 to each of
\* two equal ones, clamp passes it only inside the bounds.
ActorLossGradRatio(g, adv, ratio, eps, one) ==
    LET pg  == PgLosses(adv, ratio, eps, one)
        w1  == IF pg[1] > pg[2] THEN 2 ELSE IF pg[1] = pg[2] THEN 1 ELSE 0
        inB == ratio >= one - eps /\ ratio <= one + eps
    IN  -g * adv * (w1 + (2 - w1) * (IF inB THEN 1 ELSE 0))

\* The hand-written backward of _MemoryEfficientPPOActorLossFn (and of
\* _VocabParallelMemoryEfficientPPOLoss, lines 216-223): g_ where pg_loss1
\* is larger and the ratio inside the clip range, else 0; doubled.
MemoryEfficientGradRatio(g, adv, ratio, eps, one) ==
    LET pg      == PgLosses(adv, ratio, eps, one)
        unclip  == ratio >= one - eps /\ ratio <= one + eps
    IN  2 * (IF pg[1] > pg[2] /\ unclip THEN -g * adv ELSE 0)

\* grad_new_logp = where(ppo_loss_mask, grad_ratio * ratio, 0): ratio is
\* exp(new - old), its own derivative in new_logprobs.
GradNewLogp(mask, gradRatio, ratio) == IF mask THEN gradRatio * ratio ELSE 0


-----------------------------------------------------------------------------
(* The label gather of _VocabParallelMemoryEfficientPPOLoss for one token: *)
(* each of w model-parallel ranks holds a slice of `size` logits; a Python *)
(* vocab id x is element x + 1 of the full row.                           *)

\* VocabUtility.vocab_range_from_per_partition_vocab_size (not in the
\* sources): rank r holds ids [r * size, (r + 1) * size).
VocabRange(size, rank) == <<rank * size, rank * size + size>>

\* Faulty variant: the first id of the slice counts as outside it.
TargetMaskOffByOne(t, start, end) == t <= start \/ t >= end

\* target_mask: the label is not in this rank's slice.
TargetMask(t, start, end) == t < start \/ t >= end

\* masked_target: the label's column in the slice, 0 where it is masked.
MaskedTarget(t, start, end) == IF TargetMask(t, start, end) THEN 0 ELSE t - start

\* Rank r's predicted logit: logits_2d[arange, masked_target], then
\* predicted_logits[target_mask] = 0.
PartitionPredicted(row, size, r, t) ==
    LET rg == VocabRange(size, r)
    IN  IF TargetMask(t, rg[1], rg[2]) THEN 0 ELSE row[r * size + MaskedTarget(t, rg[1], rg[2]) + 1]

\* The all_reduce SUM of the predicted logits over the w ranks.
VocabParallelPredicted(row, w, t) ==
    LET size == Len(row) \div w
    IN  FoldSeq(LAMBDA r, acc : acc + PartitionPredicted(row, size, r, t), 0,
                [k \in 1 .. w |-> k - 1])

\* The backward's grad_2d[arange, masked_target] -= 1 - target_mask on
\* rank r: the amount subtracted from column c of the slice.
SoftmaxUpdate(size, r, t, c) ==
    LET rg == VocabRange(size, r)
    IN  IF c = MaskedTarget(t, rg[1], rg[2]) /\ ~TargetMask(t, rg[1], rg[2]) THEN 1 ELSE 0

=============================================================================
