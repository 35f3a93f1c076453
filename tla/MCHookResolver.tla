--------------------------- MODULE MCHookResolver ---------------------------
(* The payloads of one request of an RPC on model "A" for every placement  *)
(* of models "A", "B", "C" of one or two shards on three workers, every    *)
(* list of producer models and every short list of hooks; and the handlers *)
(* of a parameter reallocation from "A" to "B".                            *)
EXTENDS HookResolver, Functions, TLC

CONSTANTS Workers   \* the model workers

WorkerSymmetry == Permutations(Workers)

VARIABLES producers, preHooks, postHooks
vars == <<WorldSize, Mwid, producers, preHooks, postHooks>>

Models == {"A", "B", "C"}
M == "A"

SyncTo(x) == [kind |-> "sync", source |-> Null, target |-> x]
SyncFrom(x) == [kind |-> "sync", source |-> x, target |-> Null]
Offload == [kind |-> "offload", source |-> Null, target |-> Null]

Shards2(m, ws) == {<<m, j>> : j \in 0 .. ws[m] - 1}

\* The shards of one model sit on distinct workers.
Placements(ws) ==
    {f \in [UNION {Shards2(m, ws) : m \in Models} -> Workers] :
        \A m \in Models : \A a, b \in Shards2(m, ws) : f[a] = f[b] => a = b}

\* The <<pipe, model, data>> sizes whose product is n.
Factorings(n) == {d \in (1 .. n) \X (1 .. n) \X (1 .. n) : d[1] * d[2] * d[3] = n}

\* Every topology of the placed models.
Topologies == {d \in [Models -> (1 .. 2) \X (1 .. 2) \X (1 .. 2)] :
                  \A m \in Models : d[m] \in Factorings(WorldSize[m])}

DT(d) == INSTANCE DataTransfer WITH Dims <- d

Init ==
    /\ WorldSize \in [Models -> 1 .. 2]
    /\ Mwid \in Placements(WorldSize)
    /\ producers \in {<<>>, <<"A">>, <<"B">>, <<"B", "C">>}
    /\ preHooks \in UNION {[1 .. k -> {SyncTo("B"), SyncFrom("C"), Offload}] : k \in 0 .. 2}
    /\ postHooks \in {<<>>, <<SyncTo("B")>>, <<SyncFrom("C")>>}

\* The configuration and the request are fixed: nothing changes.
Next == UNCHANGED vars
Spec == Init /\ [][Next]_vars

P == ScatterPayloads(M, producers, preHooks, postHooks)
WorkersOf(m) == {Mwid[h] : h \in Shards(m)}
MainW == WorkersOf(M)
ProducerW == UNION {WorkersOf(producers[i]) : i \in DOMAIN producers}
Other(hook) == SyncEnds(M, hook)[3]

\* Reference (spec 4.4): who must run a hook, and what it runs.
Participates(w, hook) ==
    w \in MainW \/ (hook.kind = "sync" /\ w \in WorkersOf(Other(hook)))
Datum(hook) ==
    IF hook.kind = "sync" THEN <<"param_realloc", SyncEnds(M, hook)[1], SyncEnds(M, hook)[2]>>
                          ELSE <<"offload", M>>
HooksFor(w, hooks) ==
    FlattenSeq([i \in DOMAIN hooks |-> IF Participates(w, hooks[i]) THEN <<Datum(hooks[i])>> ELSE <<>>])
SideW == UNION {WorkersOf(Other(hk)) : hk \in {hk \in ToSet(preHooks \o postHooks) : hk.kind = "sync"}}

\* scatter_tensor_to_mws sends each worker id exactly one payload: the
\* RPC's handlers, the workers holding producing shards and the side
\* participants of every parameter reallocation, and no other worker.
OnePayloadPerWorker ==
    /\ IsInjective([h \in DOMAIN P |-> Mwid[h]])
    /\ {Mwid[h] : h \in DOMAIN P} = MainW \cup ProducerW \cup SideW

\* Each payload lists every hook its worker must run, in the RPC's hook
\* order, after the data transfer if it takes part in it (spec 4.4, and
\* scenario 5: a worker of the other model only gets `empty` with
\* `param_realloc`); only the handlers run the RPC itself.
PayloadsListEveryHook ==
    \A h \in DOMAIN P :
        /\ P[h].pre = (IF Mwid[h] \in MainW \cup ProducerW THEN <<DataTransfer>> ELSE <<>>)
                      \o HooksFor(Mwid[h], preHooks)
        /\ P[h].post = HooksFor(Mwid[h], postHooks)
        /\ P[h].handle = (IF Mwid[h] \in MainW THEN "rpc" ELSE "empty")

\* _request_parameter_sync reaches every worker holding a shard of either
\* model once, through its source shard where it has one, so the layers
\* are built in the source model.
ParamSyncReachesBothSides ==
    LET ps == ParamSyncPayloads("A", "B")
        w(i) == Mwid[ps[i].handler]
    IN  /\ IsInjective([i \in DOMAIN ps |-> w(i)])
        /\ {w(i) : i \in DOMAIN ps} = WorkersOf("A") \cup WorkersOf("B")
        /\ \A i \in DOMAIN ps : w(i) \in WorkersOf("A") => ps[i].handler[1] = "A"
\* The groups setup_data_transfer builds for the RPC's (producer, model)
\* pairs name each worker once and hold the source and every destination,
\* and every worker of every group is sent this request with the
\* data_transfer pre-hook first, so all members of the NCCL collective
\* enter it (scatter_tensor_to_mws, spec 4.5).
DataTransferGroupsAddressed ==
    LET pl  == P
        dtW == {Mwid[h] : h \in {h \in DOMAIN pl : pl[h].pre # <<>> /\ pl[h].pre[1] = DataTransfer}}
    IN  \A d \in Topologies :
        LET G == DT(d)!SetupDataTransfer({<<producers[i], M>> : i \in DOMAIN producers})
        IN  \A k \in DOMAIN G :
            /\ IsInjective(G[k].ranks)
            /\ ToSet(G[k].ranks) = {G[k].src} \cup ToSet(G[k].dst)
            /\ ToSet(G[k].ranks) \subseteq dtW

=============================================================================
