--------------------------- MODULE SerialHistory ---------------------------
(***************************************************************************)
(* What Part-HTM promises (htm.cpp), without partitions, locks, undo logs  *)
(* or rings: transactions take effect one after the other.  Every          *)
(* committed writer appends a version of the memory, the effect of its     *)
(* transfers together on the version before; a transaction that writes     *)
(* nothing does so on a version that was the last one at some moment since *)
(* it started.                                                             *)
(*                                                                         *)
(* The transfers of a transaction are here those that the code runs: it    *)
(* passes over all but the first partition (PartHtm).                      *)
(***************************************************************************)
EXTENDS Integers, SequencesExt

CONSTANTS Threads,  \* the worker threads
          Memory,   \* the array main sets up
          Pairs,    \* the pairs of array elements a transfer may draw
          Parts     \* the transfers of a transaction that run

\* loc, the elements a transaction uses, a pair for every transfer.
Jobs  == [1 .. Parts -> Pairs]
NoJob == <<>>

Limit  == 50
Amount == 50

\* Both writes of a transfer; its second read sees its first write.
Transfer(m, p) ==
  LET credited == [m EXCEPT ![p.to] = @ + Amount]
  IN  IF m[p.from] > Limit THEN [credited EXCEPT ![p.from] = @ - Amount] ELSE m

\* What the first n transfers of a transaction make of m.
After(j, m) == LET after[n \in 0 .. Parts] == IF n = 0 THEN m ELSE Transfer(after[n - 1], j[n])
               IN  after

Run(j, m) == After(j, m)[Parts]

VARIABLES versions, \* the versions of the memory, the initial one first
          job,      \* the transaction a thread runs
          since     \* the number of versions when it started

vars == <<versions, job, since>>

Init == /\ versions = <<Memory>>
        /\ job = [t \in Threads |-> NoJob]
        /\ since = [t \in Threads |-> 1]

Start(t) ==
  /\ job[t] = NoJob
  /\ \E j \in Jobs : job' = [job EXCEPT ![t] = j]
  /\ since' = [since EXCEPT ![t] = Len(versions)]
  /\ UNCHANGED versions

Commit(t) ==
  /\ job[t] # NoJob
  /\ versions' = Append(versions, Run(job[t], Last(versions)))
  /\ job' = [job EXCEPT ![t] = NoJob]
  /\ UNCHANGED since

Observe(t) ==
  /\ job[t] # NoJob
  /\ \E k \in since[t] .. Len(versions) : Run(job[t], versions[k]) = versions[k]
  /\ job' = [job EXCEPT ![t] = NoJob]
  /\ UNCHANGED <<versions, since>>

Next == \E t \in Threads : Start(t) \/ Commit(t) \/ Observe(t)

\* Two transactions may make each other abort for ever: nothing is promised
\* about when they commit.
Spec == Init /\ [][Next]_vars
=============================================================================
