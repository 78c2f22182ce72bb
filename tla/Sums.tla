-------------------------------- MODULE Sums --------------------------------
(***************************************************************************)
(* The sum that the programs print of the balances, before the threads run *)
(* and after they have been joined (main of htm_sched.cpp and of the bank  *)
(* programs): the loop adds one element after the other.                   *)
(***************************************************************************)
EXTENDS Integers

Total(f, n) == LET count[o \in 0 .. n] == IF o = 0 THEN 0 ELSE count[o - 1] + f[o - 1]
             IN  count[n]
=============================================================================
