----------------------------- MODULE MCDatapack -----------------------------
(* The datapack helpers on every input of a bounded domain: Init picks the *)
(* input, and each invariant compares an operator of Datapack with a       *)
(* reference definition on it.                                             *)
EXTENDS Datapack, PipeCkpt, FiniteSets

CONSTANTS MaxLen,     \* longest array
          MaxItem,    \* item sizes are 1 .. MaxItem (token counts are positive)
          MaxK,       \* partitions / dp world sizes 1 .. MaxK
          Capacities, \* bin capacities c
          WorldSizes  \* allocate's world_size

VARIABLES arr, k, cap, ws
vars == <<arr, k, cap, ws>>

Arrays == UNION {[1 .. n -> 1 .. MaxItem] : n \in 0 .. MaxLen}

Init == /\ arr \in Arrays
        /\ k \in 1 .. MaxK
        /\ cap \in {c \in Capacities : \A x \in DOMAIN arr : arr[x] <= c}
        /\ ws \in WorldSizes

\* The helpers are pure: nothing changes after the input is chosen.
Next == UNCHANGED vars
Spec == Init /\ [][Next]_vars

n == Len(arr)
Result == MinAbsDiffPartition(arr, k)
RangeSum(r) == PrefixSum(arr, r[2]) - PrefixSum(arr, r[1])
MaxRangeSum(parts) == Max({RangeSum(parts[i]) : i \in DOMAIN parts})

\* Reference: the least largest range sum over all ways of cutting arr
\* into k contiguous, possibly empty ranges.
Cuts == {cs \in [0 .. k -> 0 .. n] : cs[0] = 0 /\ cs[k] = n /\ \A i \in 1 .. k : cs[i - 1] <= cs[i]}
BestMaxSum == Min({Max({PrefixSum(arr, cs[i]) - PrefixSum(arr, cs[i - 1]) : i \in 1 .. k}) : cs \in Cuts})

IsKRanges(parts) ==
    /\ Len(parts) = k
    /\ parts[1][1] = 0 /\ parts[k][2] = n
    /\ \A i \in 1 .. k : parts[i][1] <= parts[i][2]
    /\ \A i \in 1 .. k - 1 : parts[i][2] = parts[i + 1][1]

\* The docstring's promise for every array and k: min_abs_diff_partition
\* returns k (start, end) ranges that cover [0, n) in order.
PartitionReturnsK == Result.ok /\ IsKRanges(Result.parts)

\* For arrays of at least k - 1 elements the backtracking loop, which has no
\* break and so scans past the new i after a match, still ends and returns
\* k ordered ranges covering [0, n).
PartitionValid == n >= k - 1 => Result.ok /\ IsKRanges(Result.parts)

\* ... and the largest range sum is the least one achievable (spec 4.6).
PartitionOptimal == n >= k - 1 => Result.ok /\ MaxRangeSum(Result.parts) = BestMaxSum

\* ffd_check(a, c, m) answers whether the FFD packing that ffd_with_result
\* builds with unbounded bins needs at most m of them.
FfdCheckAgrees == \A m \in 1 .. MaxK : FfdCheck(arr, cap, m) <=> Len(FfdWithResult(arr, cap)) <= m

\* A packing puts every item into exactly one bin and overfills none.
Slots(bins) == UNION {{b} \X DOMAIN bins[b] : b \in DOMAIN bins}
Load(batch) == FoldSeq(LAMBDA u, v : u + v, 0, [t \in DOMAIN batch |-> arr[batch[t] + 1]])
SoundPacking(bins) ==
    /\ \A x \in 0 .. n - 1 : Cardinality({sl \in Slots(bins) : bins[sl[1]][sl[2]] = x}) = 1
    /\ \A b \in DOMAIN bins : Load(bins[b]) <= cap
    /\ \A b \in DOMAIN bins : Len(bins[b]) >= 1

\* Both ffd_with_result variants used by the paired dataset build sound packings.
FfdPackingSound == SoundPacking(FfdWithResult(arr, cap)) /\ SoundPacking(FfdWithResultUnsorted(arr, cap))

\* allocate, run once per data-parallel rank, gives every rank the same
\* number of batches; in each round the ranks' batches fit the capacity and
\* hold the next stretch of the array, so over all ranks no sequence is
\* served twice and none is skipped before the dropped tail.
Cum == [x \in 1 .. n |-> PrefixSum(arr, x)]
Rounds == [rk \in 0 .. ws - 1 |-> Allocate(arr, Cum, cap, rk, ws)]
NRounds == Len(Rounds[0])
RoundItems(i) == UNION {ToSet(Rounds[rk][i]) : rk \in 0 .. ws - 1}
RoundSize(i) == FoldSeq(LAMBDA u, v : u + v, 0, [rk \in 1 .. ws |-> Len(Rounds[rk - 1][i])])
AllocateSound ==
    /\ \A rk \in 0 .. ws - 1 : Len(Rounds[rk]) = NRounds
    /\ \A i \in 1 .. NRounds :
          /\ \A rk \in 0 .. ws - 1 : Load(Rounds[rk][i]) <= cap
          /\ Cardinality(RoundItems(i)) = RoundSize(i)
          /\ \A j \in 1 .. i - 1 : \A x \in RoundItems(j), y \in RoundItems(i) : x < y
    /\ UNION {RoundItems(i) : i \in 1 .. NRounds}
         = 0 .. FoldSeq(LAMBDA u, v : u + v, 0, [i \in 1 .. NRounds |-> RoundSize(i)]) - 1
\* transform_to_pipe_ckpt.py on a state dict whose layer i - 1 has arr[i]
\* parameter keys, cut into k pipeline stages: for every stage boundary
\* list partition_layers can return and every num_shards, the conversion
\* either stops with split_state_dict_into_shards' ValueError or writes
\* every key to exactly one (stage, shard) file, and each file only keys
\* of its stage's layers.
PipeCkptWritesEachKeyOnce ==
    LET sd == FlattenSeq([i \in 1 .. n |-> [j \in 1 .. arr[i] |-> <<i - 1, j>>]])
    IN  \A cs \in Cuts, ns \in 1 .. MaxK :
          LET r == PipeFiles(sd, cs, k, ns)
          IN  r[1] => /\ \A key \in ToSet(sd) : Cardinality({f \in DOMAIN r[2] : key \in ToSet(r[2][f])}) = 1
                      /\ \A f \in DOMAIN r[2] : \A key \in ToSet(r[2][f]) : cs[f[1]] <= key[1] /\ key[1] < cs[f[1] + 1]

=============================================================================
