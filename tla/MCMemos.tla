------------------------------ MODULE MCMemos ------------------------------
(***************************************************************************)
(* A small device for Memos.tla: ids up to IntMax, two or three texts.     *)
(***************************************************************************)
EXTENDS Memos, SequencesExt, TLC

(* MemoDao.Sorted against the library's sort, on every set of ids. *)
ASSUME SortedIsSort ==
    \A S \in SUBSET (0 .. 5) :
        Sorted(S) = SetToSortSeq(S, LAMBDA i, j : i < j)
=============================================================================
