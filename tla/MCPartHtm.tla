------------------------------ MODULE MCPartHtm ------------------------------
(***************************************************************************)
(* Small instances of PartHtm for TLC.                                     *)
(***************************************************************************)
EXTENDS PartHtm, TLC

\* A transfer between two elements, and one of an element to itself, whose two
\* log entries are for one address.  With two words element 2 has the lock of 0.
IntoOne == {[from |-> 2, to |-> 1], [from |-> 1, to |-> 1]}

\* The pair that is passed over makes no difference: one choice for it is enough.
PairsOfTwo == {l \in [1 .. TxLen -> Pairs] : l[3] = l[1]}

Symmetry == Permutations(Threads)
=============================================================================
