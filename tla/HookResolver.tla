---------------------------- MODULE HookResolver ----------------------------
(***************************************************************************)
(* How the master assembles the payloads of one request in                 *)
(* src/reallm/system/master_worker.py: scatter_tensor_to_mws addresses the *)
(* RPC's handlers and the workers holding producing shards, and            *)
(* _attach_payloads_with_hooks adds the pre and post hooks, addressing the *)
(* side participants of a parameter reallocation; _request_parameter_sync  *)
(* addresses both sides of a reallocation at initialisation.               *)
(*                                                                         *)
(* A shard (ModelShardID) is <<model, parallelism rank>>; Mwid is          *)
(* msid2mwid.  A payload is a record with the handler, the handle name and *)
(* the pre and post hook lists; the hook data is reduced to what tells     *)
(* hooks apart: <<"data_transfer">>, <<"param_realloc", from, to>> and     *)
(* <<"offload", model>>.  The payload dict is a function from handlers.    *)
(***************************************************************************)
EXTENDS Naturals, Sequences, SequencesExt

CONSTANT Null  \* a hook's unset source or target

\* The master's configuration, fixed for a run: the model chooses it.
VARIABLES WorldSize,  \* WorldSize[m]: model_topos[m].world_size()
          Mwid        \* Mwid[<<m, j>>]: msid2mwid

\* [ModelShardID.from_parallelism_rank(m, topo, j) for j in range(world_size)]
ShardSeq(m) == [j \in 1 .. WorldSize[m] |-> <<m, j - 1>>]
Shards(m) == ToSet(ShardSeq(m))

Payload(h, name) == [handler |-> h, handle |-> name, pre |-> <<>>, post |-> <<>>]

DataTransfer == <<"data_transfer">>

\* getattr(payload, f"{hook_type}_hooks").append(...), hook data included.
AppendHook(p, t, d) == [p EXCEPT ![t] = Append(@, d)]

\* The worker holding the payload addressed to worker w, if one is.
PayloadOf(pl, w) == CHOOSE hh \in DOMAIN pl : Mwid[hh] = w

\* The endpoints of a SyncParamHook of an RPC on model m: the null side
\* is m.  <<from, to, other>>.
SyncEnds(m, hook) ==
    IF hook.source = Null THEN <<m, hook.target, hook.target>>
                          ELSE <<hook.source, m, hook.source>>

\* Faulty variant: a side participant already addressed gets nothing.
AddOtherNoAppend(st, h, mainW, t, d) ==
    IF Mwid[h] \notin st[2]
      THEN <<st[1] @@ (h :> [Payload(h, "empty") EXCEPT ![t] = <<d>>]), st[2] \cup {Mwid[h]}>>
      ELSE st

\* One iteration of `for h in other_handlers`: a new empty payload with
\* only the hook for a worker not yet addressed, or the hook appended to
\* the payload of an addressed worker that is not a primary handler.
AddOther(st, h, mainW, t, d) ==
    IF Mwid[h] \notin st[2]
      THEN <<st[1] @@ (h :> [Payload(h, "empty") EXCEPT ![t] = <<d>>]), st[2] \cup {Mwid[h]}>>
    ELSE IF Mwid[h] \notin mainW
      THEN <<[st[1] EXCEPT ![PayloadOf(st[1], Mwid[h])] = AppendHook(@, t, d)], st[2]>>
    ELSE st

\* One iteration of `for hook in rpc.{hook_type}_hooks`; st is
\* <<payloads, mwids>>.
ApplyHook(m, main, mainW, t, st, hook) ==
    IF hook.kind = "sync"
      THEN LET e == SyncEnds(m, hook)
               d == <<"param_realloc", e[1], e[2]>>
               pl == [h \in DOMAIN st[1] |->
                        IF h \in main THEN AppendHook(st[1][h], t, d) ELSE st[1][h]]
           IN  FoldLeft(LAMBDA s, h : AddOther(s, h, mainW, t, d), <<pl, st[2]>>, ShardSeq(e[3]))
      ELSE <<[h \in DOMAIN st[1] |->
                IF h \in main THEN AppendHook(st[1][h], t, <<"offload", h[1]>>) ELSE st[1][h]],
             st[2]>>

\* _attach_payloads_with_hooks(rpc, payloads, mwids, ..., main_handlers, hook_type)
AttachPayloadsWithHooks(m, hooks, st, main, t) ==
    LET mainW == {Mwid[h] : h \in main}
    IN  FoldLeft(LAMBDA s, hk : ApplyHook(m, main, mainW, t, s, hk), st, hooks)

\* Faulty variant: the producer's worker is not recorded in mwids.
AddProducerNoRecord(st, h) ==
    IF Mwid[h] \notin st[2]
      THEN <<st[1] @@ (h :> [Payload(h, "empty") EXCEPT !.pre = <<DataTransfer>>]), st[2]>>
      ELSE st

\* One producer handler of the `for producer_name in producer_names.values()`
\* loop: an empty payload carrying the data_transfer hook for a worker not
\* yet addressed.
AddProducer(st, h) ==
    IF Mwid[h] \notin st[2]
      THEN <<st[1] @@ (h :> [Payload(h, "empty") EXCEPT !.pre = <<DataTransfer>>]),
             st[2] \cup {Mwid[h]}>>
      ELSE st

\* The payloads scatter_tensor_to_mws posts for an RPC on model m with the
\* given producer model names (the values of producer_names, in order).
ScatterPayloads(m, producers, preHooks, postHooks) ==
    LET main == Shards(m)
        pl0 == [h \in main |-> [Payload(h, "rpc") EXCEPT !.pre = <<DataTransfer>>]]
        st0 == <<pl0, {Mwid[h] : h \in main}>>
        st1 == FoldLeft(LAMBDA s, pm : FoldLeft(AddProducer, s, ShardSeq(pm)), st0, producers)
        st2 == AttachPayloadsWithHooks(m, preHooks, st1, main, "pre")
    IN  AttachPayloadsWithHooks(m, postHooks, st2, main, "post")[1]

\* Faulty variant: every destination shard is added as a handler.
ParamSyncHandlersAll(from, to) == ShardSeq(from) \o ShardSeq(to)

\* The handlers of _request_parameter_sync: every shard of the source
\* model, then each destination shard on a worker not yet covered.
ParamSyncHandlers(from, to) ==
    FoldLeft(LAMBDA hs, h : IF Mwid[h] \in {Mwid[x] : x \in ToSet(hs)} THEN hs ELSE Append(hs, h),
             ShardSeq(from), ShardSeq(to))

\* The payloads _request_parameter_sync posts: empty, with the hook.
ParamSyncPayloads(from, to) ==
    [i \in DOMAIN ParamSyncHandlers(from, to) |->
        [Payload(ParamSyncHandlers(from, to)[i], "empty")
            EXCEPT !.pre = <<<<"param_realloc", from, to>>>>]]

=============================================================================
