-------------------------- MODULE MCMinimalAsyncio --------------------------
(* The six RPCs of the PPO graph in minimal_asyncio.py (lines 55-126).     *)
EXTENDS MinimalAsyncio

CONSTANTS rollout, infRef, infReward, infValues, trainActor, trainCritic

PpoRPCs == {rollout, infRef, infReward, infValues, trainActor, trainCritic}

\* Faulty variant: the reward model is served by the critic's worker.
PpoModelSharedCritic ==
    [r \in PpoRPCs |->
        CASE r \in {rollout, trainActor}  -> "actor"
          [] r = infRef                   -> "ref"
          [] r \in {infReward, infValues, trainCritic} -> "critic"]

PpoModel ==
    [r \in PpoRPCs |->
        CASE r \in {rollout, trainActor}  -> "actor"
          [] r = infRef                   -> "ref"
          [] r = infReward                -> "reward"
          [] r \in {infValues, trainCritic} -> "critic"]

PpoInputs ==
    [r \in PpoRPCs |->
        CASE r = rollout     -> {"prompts", "prompt_att_mask"}
          [] r = infReward   -> {"packed_seq", "cu_seqlens"}
          [] r = infRef      -> {"packed_seq", "cu_seqlens", "packed_logits_mask"}
          [] r = infValues   -> {"packed_seq", "cu_seqlens", "seq_no_eos_mask"}
          [] r = trainActor  -> {"packed_seq", "cu_seqlens", "packed_logprobs",
                                 "packed_ref_logprobs", "rewards", "values",
                                 "seq_no_eos_mask", "packed_logits_mask"}
          [] r = trainCritic -> {"packed_seq", "cu_seqlens", "packed_logprobs",
                                 "packed_ref_logprobs", "rewards", "values",
                                 "seq_no_eos_mask"}]

\* output_data with output_key_remap applied.
PpoOutputs ==
    [r \in PpoRPCs |->
        CASE r = rollout     -> {"seq_no_eos_mask", "packed_seq", "cu_seqlens",
                                 "packed_logprobs", "packed_logits_mask"}
          [] r = infReward   -> {"rewards"}
          [] r = infRef      -> {"packed_ref_logprobs"}
          [] r = infValues   -> {"values"}
          [] r \in {trainActor, trainCritic} -> {}]

PpoRoundKeys == {"prompts", "prompt_att_mask"}

=============================================================================
