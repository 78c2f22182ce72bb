--------------------------- MODULE MCFilterPartHtm ---------------------------
(***************************************************************************)
(* Small instances of FilterPartHtm for TLC.                               *)
(***************************************************************************)
EXTENDS FilterPartHtm, TLC

\* Transfers that do and that do not overlap, one of them of an element to itself.
Overlapping == {[from |-> 0, to |-> 1], [from |-> 2, to |-> 0], [from |-> 2, to |-> 2]}

AnyLocs == [1 .. TxLen -> Pairs]

Symmetry == Permutations(Threads)
=============================================================================
