------------------------------ MODULE Datapack ------------------------------
(***************************************************************************)
(* The packing and partitioning helpers of src/base/datapack.py, as pure   *)
(* operators.  Python arrays are 0-indexed: element x of the array a is    *)
(* a[x + 1] here, and a range (st, ed) is the TLA+ pair <<st, ed>>.        *)
(***************************************************************************)
EXTENDS Integers, Sequences, SequencesExt, TLC

\* np.iinfo(np.int64).max, the initial value of every cell of the dp table.
\* TLC's largest integer stands for it: a cell is only compared with other
\* cells and with prefix sums, which stay far below it on checked inputs.
Int64Max == 2147483647

Larger(x, y) == IF x >= y THEN x ELSE y

\* prefix_sum[i]: the sum of the first i elements.
PrefixSum(a, i) == FoldSeq(LAMBDA u, v : u + v, 0, SubSeq(a, 1, i))

\* Negative column indices of a numpy row count from its end.
Col(k, j) == IF j < 0 THEN k + 1 + j ELSE j

-----------------------------------------------------------------------------
(* min_abs_diff_partition                                                  *)

\* Faulty variant: the inner loop stops one split early (range(i - 1)).
RECURSIVE DpShortRange(_, _, _, _)
DpShortRange(a, k, i, j) ==
    IF j = 1 THEN PrefixSum(a, i)
    ELSE IF j = 0 \/ i = 0 THEN Int64Max
    ELSE Min({Int64Max} \cup {Larger(DpShortRange(a, k, x, j - 1), PrefixSum(a, i) - PrefixSum(a, x))
                               : x \in 0 .. i - 2})

\* dp[i, j]: column 1 holds the prefix sums; a cell with i >= 1 and j >= 2
\* is the least, over the last split x < i, of the larger of dp[x, j-1] and
\* the sum of a[x:i]; every other cell keeps its initial Int64Max.
RECURSIVE Dp(_, _, _, _)
Dp(a, k, i, j) ==
    IF j = 1 THEN PrefixSum(a, i)
    ELSE IF j = 0 \/ i = 0 THEN Int64Max
    ELSE Min({Int64Max} \cup {Larger(Dp(a, k, x, j - 1), PrefixSum(a, i) - PrefixSum(a, x))
                               : x \in 0 .. i - 1})

DpTable(a, k) == [p \in (0 .. Len(a)) \X (0 .. k) |-> Dp(a, k, p[1], p[2])]

\* One pass of `for x in range(i)` over x = lo .. hi-1.  The loop has no
\* break: after a match it goes on with the new i and j, so x keeps running
\* past the new i.  Returns <<i, j, partitions>>.
RECURSIVE Scan(_, _, _, _, _, _, _, _)
Scan(T, a, k, x, hi, i, j, parts) ==
    IF x >= hi THEN <<i, j, parts>>
    ELSE IF T[i, Col(k, j)] = Larger(T[x, Col(k, j - 1)], PrefixSum(a, i) - PrefixSum(a, x))
         THEN Scan(T, a, k, x + 1, hi, x, j - 1, Append(parts, <<x, i>>))
         ELSE Scan(T, a, k, x + 1, hi, i, j, parts)

\* Faulty variant: the ranges are returned last-first (no [::-1]).
RECURSIVE BacktrackNoReverse(_, _, _, _, _, _)
BacktrackNoReverse(T, a, k, i, j, parts) ==
    IF j <= 1 THEN [ok |-> TRUE, parts |-> Append(parts, <<0, i>>)]
    ELSE LET s == Scan(T, a, k, 0, i, i, j, parts) IN
         IF s[1] = i /\ s[2] = j THEN [ok |-> FALSE, parts |-> parts]
         ELSE BacktrackNoReverse(T, a, k, s[1], s[2], s[3])

\* `while j > 1`: a pass that matches nothing leaves i and j as they were,
\* and the loop then repeats forever; ok = FALSE records that.
RECURSIVE Backtrack(_, _, _, _, _, _)
Backtrack(T, a, k, i, j, parts) ==
    IF j <= 1 THEN [ok |-> TRUE, parts |-> Reverse(Append(parts, <<0, i>>))]
    ELSE LET s == Scan(T, a, k, 0, i, i, j, parts) IN
         IF s[1] = i /\ s[2] = j THEN [ok |-> FALSE, parts |-> parts]
         ELSE Backtrack(T, a, k, s[1], s[2], s[3])

MinAbsDiffPartition(a, k) == Backtrack(DpTable(a, k), a, k, Len(a), k, <<>>)

-----------------------------------------------------------------------------
(* First-fit-decreasing bin packing                                        *)

\* The first bin (1-based) with room for size, 0 when none has.
FirstFit(bins, size) ==
    LET fits == {b \in DOMAIN bins : bins[b] >= size}
    IN IF fits = {} THEN 0 ELSE Min(fits)

\* Faulty variant: a bin must have strictly more room than the item.
RECURSIVE CheckFromStrict(_, _)
CheckFromStrict(items, bins) ==
    LET fits == {b \in DOMAIN bins : bins[b] > Head(items)} IN
    IF items = <<>> THEN TRUE
    ELSE IF fits = {} THEN FALSE
    ELSE CheckFromStrict(Tail(items), [bins EXCEPT ![Min(fits)] = @ - Head(items)])

\* ffd_check's loop over the items, each into the first bin with room.
RECURSIVE CheckFrom(_, _)
CheckFrom(items, bins) ==
    IF items = <<>> THEN TRUE
    ELSE LET b == FirstFit(bins, Head(items)) IN
         IF b = 0 THEN FALSE
         ELSE CheckFrom(Tail(items), [bins EXCEPT ![b] = @ - Head(items)])

\* ffd_check(a, c, n): np.sort(a)[::-1] into n bins of capacity c.
FfdCheck(a, c, n) == CheckFrom(SortSeq(a, LAMBDA u, v : u > v), [b \in 1 .. n |-> c])

\* Faulty variant: the item is recorded but its size not taken from the bin.
RECURSIVE PackNoSubtract(_, _, _, _, _)
PackNoSubtract(order, a, c, bins, res) ==
    IF order = <<>> THEN res
    ELSE LET id == Head(order)
             b == FirstFit(bins, a[id + 1])
         IN IF b = 0
              THEN PackNoSubtract(Tail(order), a, c, Append(bins, c - a[id + 1]), Append(res, <<id>>))
              ELSE PackNoSubtract(Tail(order), a, c, bins, [res EXCEPT ![b] = Append(@, id)])

\* The loop shared by ffd_with_result and ffd_with_result_unsorted: item id
\* goes into the first open bin with room, or opens a bin of c - size.
RECURSIVE Pack(_, _, _, _, _)
Pack(order, a, c, bins, res) ==
    IF order = <<>> THEN res
    ELSE LET id == Head(order)
             b == FirstFit(bins, a[id + 1])
         IN IF b = 0
              THEN Pack(Tail(order), a, c, Append(bins, c - a[id + 1]), Append(res, <<id>>))
              ELSE Pack(Tail(order), a, c, [bins EXCEPT ![b] = @ - a[id + 1]],
                        [res EXCEPT ![b] = Append(@, id)])

Indices(a) == [x \in 1 .. Len(a) |-> x - 1]

\* np.argsort(a)[::-1]: sizes descending; numba's argsort sorts a short
\* array by insertion, which is stable, so after the reversal equal sizes
\* come in descending index order.
ArgsortDesc(a) ==
    SortSeq(Indices(a), LAMBDA x, y : a[x + 1] > a[y + 1] \/ (a[x + 1] = a[y + 1] /\ x > y))

FfdWithResult(a, c) == Pack(ArgsortDesc(a), a, c, <<>>, <<>>)

FfdWithResultUnsorted(a, c) == Pack(Indices(a), a, c, <<>>, <<>>)

-----------------------------------------------------------------------------
(* allocate: the multipack batch allocator                                 *)

\* a[st:ed] with Python's truncation at the end of the array.
PySlice(a, st, ed) == SubSeq(a, st + 1, IF ed < Len(a) THEN ed ELSE Len(a))

\* np.searchsorted(cumsum[start:], v, "right") on the non-decreasing cumsum.
SearchSortedRight(cum, start, v) ==
    Cardinality({t \in start .. Len(cum) - 1 : cum[t + 1] <= v})

\* Binary search on [l, r) for the longest prefix of lengths[start:] that
\* ffd_check fits into world_size bins.
RECURSIVE BinSearch(_, _, _, _, _, _)
BinSearch(lengths, c, ws, start, l, r) ==
    IF r - l > 1
      THEN LET m == (l + r) \div 2 IN
           IF FfdCheck(PySlice(lengths, start, start + m), c, ws)
             THEN BinSearch(lengths, c, ws, start, m, r)
             ELSE BinSearch(lengths, c, ws, start, l, m)
      ELSE l

\* Faulty variant: bin contents left relative to the slice.
OffsetMissing(batch, start) == batch

\* batch[i] = [start_index + x for x in batch[i]]
Offset(batch, start) == [b \in DOMAIN batch |-> [t \in DOMAIN batch[b] |-> start + batch[b][t]]]

\* The `while True` loop of allocate; it stops at the first round whose
\* FFD packing opens fewer than world_size bins.
RECURSIVE AllocLoop(_, _, _, _, _, _, _, _)
AllocLoop(lengths, cum, c, rank, ws, s, start, result) ==
    LET r == 1 + SearchSortedRight(cum, start, s + c * ws)
        l == BinSearch(lengths, c, ws, start, 1, r)
        batch == Offset(FfdWithResult(PySlice(lengths, start, start + l), c), start)
    IN IF Len(batch) < ws THEN result
       ELSE AllocLoop(lengths, cum, c, rank, ws, cum[start + l], start + l,
                      Append(result, batch[rank + 1]))

Allocate(lengths, cum, c, rank, ws) == AllocLoop(lengths, cum, c, rank, ws, 0, 0, <<>>)

=============================================================================
