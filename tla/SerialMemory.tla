---------------------------- MODULE SerialMemory ----------------------------
(***************************************************************************)
(* What every loop around a hardware transaction promises: jobs take       *)
(* effect whole, one after the other, each on the memory the ones before   *)
(* have left, and a job sees that memory and no other.                     *)
(***************************************************************************)
EXTENDS Integers, SequencesExt

CONSTANTS Threads, Jobs, Initial

VARIABLES memory, \* the memory between jobs
          seen    \* what each of a thread's jobs has seen

New(access, old) == CASE access.op \in {"read", "test"} -> old
                      [] access.op = "add"  -> old + access.by
                      [] access.op = "next" -> (old % access.by) + 1
                      [] access.op = "put"  -> access.by

\* One access: the memory it leaves, what the job has looked at so far, and
\* how many accesses a test that fails skips.
After(s, access) ==
  IF s.skip > 0 THEN [s EXCEPT !.skip = @ - 1]
  ELSE [memory |-> [s.memory EXCEPT ![access.at] = New(access, @)],
        looked |-> s.looked \cup (IF access.op = "put" THEN {} ELSE {access.at}),
        skip   |-> IF access.op = "test" /\ s.memory[access.at] <= access.by THEN 2 ELSE 0]

Init == memory = Initial /\ seen = [t \in Threads |-> <<>>]

Execute(t, job) ==
  LET end == FoldLeft(After, [memory |-> memory, looked |-> {}, skip |-> 0], job)
  IN /\ seen' = [seen EXCEPT ![t] = Append(@, [l \in end.looked |-> memory[l]])]
     /\ memory' = end.memory

Next == \E t \in Threads : /\ Len(seen'[t]) > Len(seen[t])
                           /\ \E job \in Jobs : Execute(t, job)

Spec == Init /\ [][Next]_<<memory, seen>>
=============================================================================
