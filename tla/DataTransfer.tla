---------------------------- MODULE DataTransfer ----------------------------
(***************************************************************************)
(* setup_data_transfer of src/reallm/impl/model/comm/data_transfer.py: the *)
(* NCCL groups that move a producer's output to a consumer, one for every  *)
(* pair of a producer dp rank and a consumer dp rank.  A group's source is *)
(* the worker of the producer's dp head, its destinations the workers of   *)
(* the consumer's dp slice.  The shards and their workers are those of     *)
(* HookResolver; the topology (not in the sources) is spec 2's: a rank has *)
(* a (pipe, model, data) coordinate, the last axis varying fastest.        *)
(***************************************************************************)
EXTENDS HookResolver

VARIABLE Dims   \* Dims[m]: <<pipe, model, data>> sizes of model_topos[m]

\* ProcessTopology.get_coord of parallelism rank j of model m.
Coord(m, j) ==
    [pipe  |-> j \div (Dims[m][2] * Dims[m][3]),
     model |-> (j \div Dims[m][3]) % Dims[m][2],
     data  |-> j % Dims[m][3]]

DpSize(m) == Dims[m][3]

\* filter_match_mwids(m, topo, msid2mwid, **filters): the workers of the
\* shards of m whose coordinate agrees with every filtered axis, in rank
\* order; filters is a record of axis values.
FilterMatchMwids(m, filters) ==
    LET hs == SelectSeq(ShardSeq(m),
                        LAMBDA h : \A a \in DOMAIN filters : Coord(m, h[2])[a] = filters[a])
    IN  [i \in DOMAIN hs |-> Mwid[hs[i]]]

\* mw_dp_head_ranks[m][i]: the worker of the shard at pipe = last,
\* model = 0 of data slice i.
MwDpHeadRank(m, i) ==
    FilterMatchMwids(m, [pipe |-> Dims[m][1] - 1, model |-> 0])[i + 1]

\* mw_dp_ranks[m, i]: the workers of data slice i.
MwDpRanks(m, i) == FilterMatchMwids(m, [data |-> i])

\* Faulty variant: the source rank is put first even when it is already
\* a destination.
GroupRanksAlwaysPrepend(src, sdp, dst, ddp) == <<MwDpHeadRank(src, sdp)>> \o MwDpRanks(dst, ddp)

\* The ranks given to new_or_get_group for DataTransferPair(src, sdp,
\* dst, ddp): the source rank, unless it is a destination, then the
\* destinations.
GroupRanks(src, sdp, dst, ddp) ==
    IF MwDpHeadRank(src, sdp) \in ToSet(MwDpRanks(dst, ddp))
      THEN MwDpRanks(dst, ddp)
      ELSE <<MwDpHeadRank(src, sdp)>> \o MwDpRanks(dst, ddp)

\* The keys of data_transfer_groups for the given (src, dst) model pairs.
TransferPairs(pairs) ==
    UNION {{p[1]} \X (0 .. DpSize(p[1]) - 1) \X {p[2]} \X (0 .. DpSize(p[2]) - 1) : p \in pairs}

\* setup_data_transfer: for each pair, the group's ranks, its source rank
\* (data_transfer_src_ranks) and its destination ranks
\* (data_transfer_dst_ranks).
SetupDataTransfer(pairs) ==
    [k \in TransferPairs(pairs) |->
        [ranks |-> GroupRanks(k[1], k[2], k[3], k[4]),
         src   |-> MwDpHeadRank(k[1], k[2]),
         dst   |-> MwDpRanks(k[3], k[4])]]


=============================================================================
