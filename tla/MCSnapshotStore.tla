--------------------------- MODULE MCSnapshotStore ---------------------------
(***************************************************************************)
(* An instance of SnapshotStore for TLC: on the second date one stock is    *)
(* strong for the second day and one for the first; the third has none.    *)
(***************************************************************************)
EXTENDS SnapshotStore, TLC

CONSTANTS a, b

MCStocks == {a, b}
MCStrong ==
  [d \in 1..LastDate |-> CASE d = 1 -> {a} [] d = 2 -> {a, b} [] OTHER -> {}]

\* The closing job and the requests do the same to the store.
MCSymmetry == Permutations(Takers)
===============================================================================
