------------------------- MODULE MCMasterScheduler -------------------------
(* Instances of the scheduler for TLC.                                     *)
EXTENDS MasterScheduler

CONSTANTS gen, inf, train, critic, actor, ref

\* Chain DFG of spec scenario 2 plus the gen -> train edge:
\* gen(actor) -> inf(ref) -> train(actor), gen -> train.  One terminal RPC.
ChainRPCs == {gen, inf, train}
ChainChildren == [r \in ChainRPCs |-> CASE r = gen -> {inf, train}
                                        [] r = inf -> {train}
                                        [] r = train -> {}]
ChainModel == [r \in ChainRPCs |-> IF r = inf THEN ref ELSE actor]
ChainIn  == [r \in ChainRPCs |-> CASE r = gen -> {"prompt"}
                                   [] r = inf -> {"seq"}
                                   [] r = train -> {"seq", "reflogp"}]
ChainOut == [r \in ChainRPCs |-> CASE r = gen -> {"seq"}
                                   [] r = inf -> {"reflogp"}
                                   [] r = train -> {}]
ChainSeqs == [r \in ChainRPCs |-> 2]
ChainConc == [r \in ChainRPCs |-> IF r = gen THEN 2 ELSE 1]

\* PPO-like DFG with two terminal RPCs: gen -> inf -> train, gen -> train,
\* gen -> critic (build_graph makes train a child of gen, whose "seq" it reads).
\* Generation runs two calls concurrently.
PpoRPCs == {gen, inf, train, critic}
PpoChildren == [r \in PpoRPCs |-> CASE r = gen -> {inf, critic, train}
                                    [] r = inf -> {train}
                                    [] r \in {train, critic} -> {}]
PpoModel == [r \in PpoRPCs |-> CASE r = inf -> ref [] r = critic -> critic [] OTHER -> actor]
PpoIn  == [r \in PpoRPCs |-> CASE r = gen -> {"prompt"}
                               [] r \in {inf, critic} -> {"seq"}
                               [] r = train -> {"seq", "reflogp"}]
PpoOut == [r \in PpoRPCs |-> CASE r = gen -> {"seq"}
                               [] r = inf -> {"reflogp"}
                               [] r \in {train, critic} -> {}]
PpoSeqs == [r \in PpoRPCs |-> 2]
\* auto_ppo's gen_bs for generation and inference, train_bs for the two
\* terminal train RPCs, here with gen_bs = 2 * train_bs.
PpoSplitSeqs == [r \in PpoRPCs |-> IF r \in {gen, inf} THEN 2 ELSE 1]
\* auto_ppo's balanced_dp RPCs; the actor generates on two dp ranks, and
\* generation asks for fewer records than dp_size * pp_size.
PpoMinSeqs == [r \in PpoRPCs |-> IF r = gen THEN 1 ELSE 2]
PpoDp == [r \in PpoRPCs |-> IF r = gen THEN 2 ELSE 1]
PpoBalanced == [r \in PpoRPCs |-> r # inf]
\* One data-parallel and pipeline rank everywhere, no balanced_dp.
Unit == [r \in PpoRPCs |-> 1]
NotBalanced == [r \in PpoRPCs |-> FALSE]
PpoConc == [r \in PpoRPCs |-> IF r = gen THEN 2 ELSE 1]

\* Evaluation every second step, a save at every new epoch.
EvalEverySecondStep == [c \in Ctls |-> IF c = "eval" THEN 2 ELSE 0]
SaveEveryEpoch == [c \in Ctls |-> IF c = "save" THEN 1 ELSE 0]
=============================================================================
