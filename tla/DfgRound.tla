------------------------------ MODULE DfgRound ------------------------------
(***************************************************************************)
(* What a round of the DFG promises, with no workers, streams or futures:  *)
(* in each of Rounds rounds every RPC runs exactly once, and only after    *)
(* every RPC it depends on has run in that round; a round starts when the  *)
(* previous one has finished.  MinimalAsyncio is shown to implement it.    *)
(***************************************************************************)
EXTENDS Naturals

CONSTANTS RPCs,        \* the RPCs of the graph
          Parents(_),  \* Parents(r): the RPCs r depends on
          Rounds       \* the number of rounds

VARIABLES round,  \* the current round
          done    \* the RPCs that have run in it

vars == <<round, done>>

Init == round = 0 /\ done = {}

\* model_rpc_func of r: it runs once its parents have run.
Exec(r) ==
    /\ r \notin done
    /\ Parents(r) \subseteq done
    /\ done' = done \cup {r}
    /\ UNCHANGED round

\* The next iteration of main()'s for loop, once every RPC has run.
EndRound ==
    /\ done = RPCs
    /\ round + 1 < Rounds
    /\ round' = round + 1
    /\ done' = {}

Finished == round = Rounds - 1 /\ done = RPCs

Next == (\E r \in RPCs : Exec(r)) \/ EndRound \/ (Finished /\ UNCHANGED vars)

\* Every round is run to its end.
Spec == Init /\ [][Next]_vars /\ WF_vars(Next)

=============================================================================
