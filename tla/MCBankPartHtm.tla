---------------------------- MODULE MCBankPartHtm ----------------------------
(***************************************************************************)
(* A small instance of BankPartHtm for TLC.                                *)
(***************************************************************************)
EXTENDS BankPartHtm

\* Two transfers that meet in element 1, and one of them alone;
\* with two words element 2 has the lock of element 0.
Into1   == [from |-> 2, to |-> 1]
OutOf1  == [from |-> 1, to |-> 0]
Meeting == {<<Into1, OutOf1>>, <<OutOf1>>}
=============================================================================
