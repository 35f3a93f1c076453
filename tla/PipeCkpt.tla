------------------------------ MODULE PipeCkpt ------------------------------
(***************************************************************************)
(* How src/scripts/transform_to_pipe_ckpt.py splits a pipe state dict into *)
(* files: the keys of each stage's layers, then each stage's dict cut into *)
(* num_shards shards, one file per (stage, mp rank, shard).  A key         *)
(* f"{layer}.{name}" is <<layer, name>>; its string form is built from the *)
(* decimal digits of the layer so that startswith is a prefix test.  A     *)
(* dict is a sequence of distinct keys in insertion order.                 *)
(***************************************************************************)
EXTENDS Integers, Sequences, SequencesExt

\* str(n) for n >= 0, as a sequence of digits.
RECURSIVE Dec(_)
Dec(x) == IF x < 10 THEN <<x>> ELSE Dec(x \div 10) \o <<x % 10>>

\* The key f"{layer}.{name}"; "." is -1 among the digits.
KeyStr(key) == Dec(key[1]) \o <<-1, key[2]>>

\* k.startswith(f"{i}.")
StartsWithLayer(key, i) == IsPrefix(Dec(i) \o <<-1>>, KeyStr(key))

\* split_state_dict_by_stage for one stage (start, stop): the keys, in
\* order, that start with "i." for some layer i in [start, stop).
StageDict(sd, start, stop) ==
    SelectSeq(sd, LAMBDA key : \E i \in start .. stop - 1 : StartsWithLayer(key, i))

\* Faulty variant: the remainder is not added to the last shard.
ShardSizesNoExtra(nkeys, nShards) == [i \in 1 .. nShards |-> nkeys \div nShards]

\* shard_size_list: len(keys) // n_shards each, the last one plus the
\* remainder.
ShardSizes(nkeys, nShards) ==
    [i \in 1 .. nShards |-> nkeys \div nShards + (IF i = nShards THEN nkeys % nShards ELSE 0)]

\* split_state_dict_into_shards: [sd] for one shard, a ValueError for
\* fewer keys than shards, else consecutive runs of keys of the sizes
\* above.  <<ok, shards>>.
SplitIntoShards(sd, nShards) ==
    IF nShards = 1 THEN <<TRUE, <<sd>>>>
    ELSE IF Len(sd) < nShards THEN <<FALSE, <<>>>>
    ELSE LET sz == ShardSizes(Len(sd), nShards)
             st(i) == FoldSeq(LAMBDA u, v : u + v, 0, SubSeq(sz, 1, i - 1))
         IN  <<TRUE, [i \in 1 .. nShards |-> SubSeq(sd, st(i) + 1, st(i) + sz[i])]>>

\* The num_pp > 1 branch of main for one mp rank: the stages' dicts split
\* into shards, each shard saved as file <<stage, shard_index>>.  parts is
\* the stage boundary list (parts[stage], parts[stage + 1]) of
\* partition_layers.  <<ok, [file |-> dict]>>; a ValueError ends the run.
PipeFiles(sd, parts, nStages, nShards) ==
    LET split(s) == SplitIntoShards(StageDict(sd, parts[s], parts[s + 1]), nShards)
    IN  IF \E s \in 0 .. nStages - 1 : ~split(s)[1] THEN <<FALSE, <<>>>>
        ELSE <<TRUE, [f \in UNION {{s} \X (0 .. Len(split(s)[2]) - 1) : s \in 0 .. nStages - 1} |->
                        split(f[1])[2][f[2] + 1]]>>

=============================================================================
