---------------------------- MODULE FilterPartHtm ----------------------------
(***************************************************************************)
(* Part-HTM (PartHtm) with BitFilter::differencewith as it is: the locks   *)
(* of a transaction are dropped by a hardware transaction that looks at    *)
(* diff_lock, or, when that has aborted, under diff_lock by a plain load   *)
(* and store of each word of the filter.                                   *)
(*                                                                         *)
(* All lock bits are bits of one word here, as those of neighbouring       *)
(* elements are.  A hardware transaction commits as one step; another      *)
(* thread's store to what it has read makes it abort before.               *)
(***************************************************************************)
EXTENDS PartHtm

VARIABLES
  diff_lock, \* write_locks.diff_lock
  diff,      \* where a thread is in differencewith
  loaded     \* the word it has loaded in the fallback

base == <<ring, memory, plan, versions>>
difference == <<diff_lock, diff, loaded>>
filterVars == <<base, difference>>

At(t, place) == diff' = [diff EXCEPT ![t] = place]

FilterInit ==
  /\ Init
  /\ diff_lock = FALSE
  /\ diff = [t \in Threads |-> "try"]
  /\ loaded = [t \in Threads |-> {}]

\* tm_commit and tm_abort call differencewith; a read-only transaction does not.
Drops(t) == \/ pc[t] = "release"
            \/ pc[t] = "abort" /\ undo_log[t] = <<>> /\ ~Ring!ReadOnly(t)

\* What follows it, with the write locks as it leaves them.
AfterDrop(t, locks) ==
  /\ write_locks' = locks
  /\ \/ /\ pc[t] = "release"
        /\ Ring!Release(t)
        /\ loc' = [loc EXCEPT ![t] = NoLoc]
     \/ /\ pc[t] = "abort"
        /\ Ring!Abort(t)
        /\ UNCHANGED loc
  /\ UNCHANGED <<array, undo_log, initial, more, since, versions>>

HardwareDrop(t) ==
  /\ Drops(t) /\ diff[t] = "try"
  /\ ~diff_lock
  /\ AfterDrop(t, write_locks \ wf[t])
  /\ UNCHANGED difference

HardwareAborts(t) ==
  /\ Drops(t) /\ diff[t] = "try"
  /\ At(t, "lock")
  /\ UNCHANGED <<base, diff_lock, loaded>>

LockFilter(t) ==
  /\ diff[t] = "lock" /\ ~diff_lock
  /\ diff_lock' = TRUE
  /\ At(t, "load")
  /\ UNCHANGED <<base, loaded>>

LoadWord(t) ==
  /\ diff[t] = "load"
  /\ loaded' = [loaded EXCEPT ![t] = write_locks]
  /\ At(t, "store")
  /\ UNCHANGED <<base, diff_lock>>

StoreWord(t) ==
  /\ diff[t] = "store"
  /\ AfterDrop(t, loaded[t] \ wf[t])
  /\ At(t, "unlock")
  /\ UNCHANGED <<diff_lock, loaded>>

UnlockFilter(t) ==
  /\ diff[t] = "unlock"
  /\ diff_lock' = FALSE
  /\ At(t, "try")
  /\ UNCHANGED <<base, loaded>>

\* The steps of PartHtm other than those that drop locks.
Other(t) ==
  /\ diff[t] = "try"
  /\ \/ Draw(t) \/ TmBegin(t) \/ Partition(t) \/ PartConflict(t)
     \/ SkipPartition(t) \/ CheckPartition(t) \/ Undo(t)
     \/ CommitReadOnly(t) \/ CommitWriter(t) \/ ValidateCommit(t)
     \/ CasSucceeds(t) \/ Publish(t)
     \/ Ring!ReadOnly(t) /\ TmAbort(t)
  /\ UNCHANGED difference

FilterStep(t) == \/ Other(t) \/ HardwareDrop(t) \/ HardwareAborts(t)
                 \/ LockFilter(t) \/ LoadWord(t) \/ StoreWord(t) \/ UnlockFilter(t)

FilterJoined == /\ \A t \in Threads : pc[t] = "done" /\ diff[t] = "try"
                /\ UNCHANGED filterVars

FilterNext == (\E t \in Threads : FilterStep(t)) \/ FilterJoined

FilterSpec == FilterInit /\ [][FilterNext]_filterVars

----------------------------------------------------------------------------
(* main prints the sum of the elements before and after: transfers keep it.*)
FinalSum ==
  (\A t \in Threads : pc[t] = "done")
    => FoldFunction(LAMBDA x, y : x + y, 0, array) = ArraySize * Opening
=============================================================================
