------------------------------ MODULE UndoLog ------------------------------
(***************************************************************************)
(* The undo log of a transaction (undo_log_t): the elements it has written *)
(* with the values they had, oldest first.  An abort replays it from the   *)
(* end, so that every element ends with the value of its first entry.      *)
(***************************************************************************)
EXTENDS Integers, Sequences

Entries(A) == [addr : A, val : Int]

Addrs(log) == {log[k].addr : k \in DOMAIN log}

\* The first entry of a log for element a: undoing ends with its value.
First(log, a, k) == /\ k \in DOMAIN log /\ log[k].addr = a
                    /\ \A j \in 1 .. k - 1 : log[j].addr # a

Oldest(log, a) == log[CHOOSE k \in DOMAIN log : First(log, a, k)].val
=============================================================================
