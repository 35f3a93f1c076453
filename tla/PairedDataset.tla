--------------------------- MODULE PairedDataset ---------------------------
(***************************************************************************)
(* RewardModelingPackedPairedDataset of                                    *)
(* src/impl/dataset/common/packed_rw_paired_dataset.py after tokenisation. *)
(* __init__ hands group_token_lengths, a Python list, to                   *)
(* min_abs_diff_partition, which src/base/datapack.py compiles with        *)
(* numba.njit and which starts with arr.shape[0].  numba types the list as *)
(* a reflected list, which has no shape, so the call raises a TypingError  *)
(* whatever the lengths and the world size: no rank ever gets a slice, and *)
(* _shuffle, the FFD batching and __iter__ behind it never run.  A group's *)
(* tokens are abstracted to their count.                                   *)
(***************************************************************************)

\* The slice (start, end) of rank's groups, min_abs_diff_partition over the
\* list of group token lengths at util.ddp_rank: the typing error instead.
RankSlice(lens, ws, rank) == "TypingError"

=============================================================================
