--------------------------- MODULE MCSuperPartHtm ---------------------------
(***************************************************************************)
(* Small instances of SuperPartHtm for TLC.                                *)
(***************************************************************************)
EXTENDS SuperPartHtm, TLC

Cycle == {p \in [from : Addresses, to : Addresses] : p.to = (p.from + 1) % ArraySize}

\* There and back, with an element that changes twice, and twice the same
\* way; the third pair is passed over.
TwoLocs == {l \in [1 .. TxLen -> Cycle] : l[2].from = 1 /\ l[3].from = 0}

Symmetry == Permutations(Threads)
=============================================================================
