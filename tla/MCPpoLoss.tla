----------------------------- MODULE MCPpoLoss -----------------------------
(* The PPO actor loss gradient on every token of a bounded domain: Init    *)
(* picks the ratio, the advantage and the loss mask of one token.          *)
EXTENDS PpoFunctional

CONSTANTS One,      \* 1.0 on the ratio scale
          Eps,      \* eps_clip on that scale
          Ratios    \* the ratios exp(new - old) a token takes

\* Normalised advantages of either sign.
Advs == -1 .. 1

VARIABLES ratio, adv, mask
vars == <<ratio, adv, mask>>

Init == /\ ratio \in Ratios
        /\ adv \in Advs
        /\ mask \in BOOLEAN

Next == UNCHANGED vars
Spec == Init /\ [][Next]_vars

\* memory_efficient_ppo_loss_fn returns the loss actor_loss_fn computes, and
\* its hand-written backward is meant to give the gradient autograd gives
\* actor_loss_fn: for every token, the gradient in new_logprobs of the two
\* agree (grad_output 1).
MemoryEfficientGradMatchesAutograd ==
    GradNewLogp(mask, MemoryEfficientGradRatio(1, adv, ratio, Eps, One), ratio)
      = GradNewLogp(mask, ActorLossGradRatio(1, adv, ratio, Eps, One), ratio)

=============================================================================
