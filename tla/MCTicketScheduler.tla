------------------------ MODULE MCTicketScheduler ------------------------
(***************************************************************************)
(* Small instances of TicketScheduler for TLC.                             *)
(***************************************************************************)
EXTENDS TicketScheduler, TLC

Symmetry == Permutations(Threads)
=============================================================================
