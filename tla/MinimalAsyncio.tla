--------------------------- MODULE MinimalAsyncio ---------------------------
(***************************************************************************)
(* The asyncio DFG prototype of src/scripts/minimal_asyncio.py.  Each      *)
(* round, main() creates one task per model RPC and one future per RPC; a  *)
(* task awaits its parents' futures, reads its inputs from the shared      *)
(* data_registry, posts one request on the stream of its model and polls   *)
(* that stream for a reply, writes its (remapped) outputs back and sets    *)
(* its future.  One model worker process per model serves the requests of  *)
(* its stream one at a time, in order.  The stream of a model is shared by *)
(* every RPC of that model, and poll_reply returns whatever reply is next. *)
(***************************************************************************)
EXTENDS Naturals, Sequences, FiniteSets

CONSTANTS RPCs,       \* model_rpcs
          Model,      \* Model[r]: rpc.model_name, the stream r uses
          Inputs,     \* Inputs[r]: rpc.input_data
          Outputs,    \* Outputs[r]: rpc.output_data after output_key_remap
          RoundKeys,  \* the keys main() puts into data_registry each round
          Rounds      \* the number of rounds main() runs

Models == {Model[r] : r \in RPCs}

\* Faulty variant: no RPC waits for another.
ParentsNone(r) == {}

\* api.dfg.build_graph: the parents of r are the RPCs producing its inputs.
Parents(r) == {p \in RPCs : Outputs[p] \cap Inputs[r] # {}}

VARIABLES round,     \* the round main() is in
          registry,  \* the keys held by data_registry
          pc,        \* pc[r]: where the task of r is
          future,    \* future[r]: rpc_futures[r] has its result
          requests,  \* requests[m]: requests posted on m's stream, unserved
          replies,   \* replies[m]: replies posted on m's stream, unpolled
          taken,     \* taken[r]: the request whose reply r's task polled
          err        \* an exception raised in a task

vars == <<round, registry, pc, future, requests, replies, taken, err>>

None == "none"

\* Round i of main(): fresh futures and tasks over the round's prompts.
StartRound(i) ==
    /\ round' = i
    /\ registry' = RoundKeys
    /\ pc' = [r \in RPCs |-> "await"]
    /\ future' = [r \in RPCs |-> FALSE]
    /\ taken' = [r \in RPCs |-> None]

Init ==
    /\ round = 0
    /\ registry = RoundKeys
    /\ pc = [r \in RPCs |-> "await"]
    /\ future = [r \in RPCs |-> FALSE]
    /\ taken = [r \in RPCs |-> None]
    /\ requests = [m \in Models |-> <<>>]
    /\ replies = [m \in Models |-> <<>>]
    /\ err = None

Running == err = None

\* Faulty variant: the request is posted without awaiting the parents.
PostSkipAwait(r) ==
    /\ Running
    /\ pc[r] = "await"
    /\ IF Inputs[r] \subseteq registry
         THEN /\ requests' = [requests EXCEPT ![Model[r]] = Append(@, r)]
              /\ pc' = [pc EXCEPT ![r] = "poll"]
              /\ UNCHANGED err
         ELSE /\ err' = "KeyError"
              /\ UNCHANGED <<requests, pc>>
    /\ UNCHANGED <<round, registry, future, replies, taken>>

\* model_rpc_func up to its first poll: the parents' futures are done; the
\* inputs are read from data_registry (a KeyError if one is missing) and
\* the request is posted on the model's stream.
Post(r) ==
    /\ Running
    /\ pc[r] = "await"
    /\ \A p \in Parents(r) : future[p]
    /\ IF Inputs[r] \subseteq registry
         THEN /\ requests' = [requests EXCEPT ![Model[r]] = Append(@, r)]
              /\ pc' = [pc EXCEPT ![r] = "poll"]
              /\ UNCHANGED err
         ELSE /\ err' = "KeyError"
              /\ UNCHANGED <<requests, pc>>
    /\ UNCHANGED <<round, registry, future, replies, taken>>

\* model_worker: poll_request, run the handler, post_reply.
Serve(m) ==
    /\ requests[m] # <<>>
    /\ requests' = [requests EXCEPT ![m] = Tail(@)]
    /\ replies' = [replies EXCEPT ![m] = Append(@, Head(requests[m]))]
    /\ UNCHANGED <<round, registry, pc, future, taken, err>>

\* The poll loop of model_rpc_func returns with the next reply of the
\* stream; the outputs are written to data_registry and the future is set.
Poll(r) ==
    /\ Running
    /\ pc[r] = "poll"
    /\ replies[Model[r]] # <<>>
    /\ taken' = [taken EXCEPT ![r] = Head(replies[Model[r]])]
    /\ replies' = [replies EXCEPT ![Model[r]] = Tail(@)]
    /\ registry' = registry \cup Outputs[r]
    /\ future' = [future EXCEPT ![r] = TRUE]
    /\ pc' = [pc EXCEPT ![r] = "done"]
    /\ UNCHANGED <<round, requests, err>>

\* Faulty variant: one round more than range(Rounds).
NextRoundOffByOne ==
    /\ Running
    /\ round < Rounds
    /\ \A r \in RPCs : pc[r] = "done"
    /\ StartRound(round + 1)
    /\ UNCHANGED <<requests, replies, err>>

\* run_until_complete returns once every task and future is done;
\* data_registry.clear() and the next round of the for loop.
NextRound ==
    /\ Running
    /\ round + 1 < Rounds
    /\ \A r \in RPCs : pc[r] = "done"
    /\ StartRound(round + 1)
    /\ UNCHANGED <<requests, replies, err>>

Finished == round = Rounds - 1 /\ \A r \in RPCs : pc[r] = "done"

Terminated == (Finished \/ ~Running) /\ UNCHANGED vars

Next ==
    \/ \E r \in RPCs : Post(r) \/ Poll(r)
    \/ \E m \in Models : Serve(m)
    \/ NextRound
    \/ Terminated

\* The event loop runs every ready task and the worker processes run on
\* their own: each keeps taking steps while it can.
Spec == Init /\ [][Next]_vars /\ WF_vars(Next)

-----------------------------------------------------------------------------

TypeOK ==
    /\ round \in 0 .. Rounds - 1
    /\ pc \in [RPCs -> {"await", "poll", "done"}]
    /\ future \in [RPCs -> BOOLEAN]
    /\ taken \in [RPCs -> RPCs \cup {None}]
    /\ err \in {None, "KeyError"}

\* Every task reads its inputs only after the RPCs producing them wrote
\* them: the parent futures of build_graph order the shared data_registry,
\* and no model_rpc_func raises a KeyError.
NoMissingInput == err = None

\* Every RPC polls the reply to its own request, although poll_reply takes
\* any reply of the model's stream: two RPCs of one model are never in
\* flight together.
RepliesMatch == \A r \in RPCs : taken[r] \in {None, r}

\* The refinement mapping: an RPC has run in the round once its task has
\* polled its reply and written its outputs.
DfgRound == INSTANCE DfgRound WITH done <- {r \in RPCs : pc[r] = "done"}

\* The prototype implements the DFG semantics: main()'s rounds follow one
\* another, and within a round each RPC's task completes exactly once and
\* only after the tasks of all the RPCs whose outputs it reads.
ImplementsDfgRound == DfgRound!Spec

=============================================================================
