----------------------------- MODULE SuperLock -----------------------------
(***************************************************************************)
(* The super global lock of Part-HTM (htm.cpp, the SUPER_GL_* macros).  A  *)
(* transaction enters by counting itself in active_tx when it has seen     *)
(* tm_super_glock free.  One whose partition the hardware has aborted more *)
(* than SUPER_GL_LIMIT times for no stated reason, as it does whenever the *)
(* partition makes a system call, starts again with the lock: it takes it, *)
(* waits until nobody is active and runs without hardware transactions.    *)
(*                                                                         *)
(* A partition is one step, with one of the Outcomes the hardware and the  *)
(* locks of other transactions may give it.  One that is aborted for       *)
(* conflict or capacity is tried again and changes nothing.                *)
(***************************************************************************)
EXTENDS Integers, FiniteSets

CONSTANTS Threads,        \* the worker threads
          SUPER_GL_LIMIT, \* the aborts without a reason a partition puts up with
          Parts,          \* the partitions of a transaction
          NO_TX,          \* the transactions of a thread
          Outcomes        \* what may become of a partition

ASSUME ThreadsAssumption == IsFiniteSet(Threads)
ASSUME LimitAssumption == SUPER_GL_LIMIT \in Nat
ASSUME PartsAssumption == Parts \in Nat \ {0}
ASSUME NoTxAssumption == NO_TX \in Nat \ {0}
ASSUME OutcomesAssumption == Outcomes \subseteq {"commit", "other", "conflict"}

VARIABLES
  tm_super_glock,  \* whether the lock is taken
  active_tx,       \* the number of transactions that have entered
  pc,              \* where a thread is
  go_super_gl,     \* whether it is to take the lock
  other_abort_num, \* the aborts without a reason of its partition
  part,            \* its partitions that are done
  tx_limit,        \* its transactions that are done
  late             \* history: those between their test and their entry when the lock's owner entered

shared == <<tm_super_glock, active_tx>>
attempt == <<other_abort_num, part>>
vars == <<shared, pc, go_super_gl, attempt, tx_limit, late>>

Goto(t, label) == pc' = [pc EXCEPT ![t] = label]

Init ==
  /\ tm_super_glock = FALSE
  /\ active_tx = 0
  /\ pc = [t \in Threads |-> "begin"]
  /\ go_super_gl = [t \in Threads |-> FALSE]
  /\ other_abort_num = [t \in Threads |-> 0]
  /\ part = [t \in Threads |-> 0]
  /\ tx_limit = [t \in Threads |-> 0]
  /\ late = {}

----------------------------------------------------------------------------
(* TM_BEGIN: SUPER_GL_ACQUIRE, which tm_abort jumps back to. *)
Begin(t) ==
  /\ pc[t] = "begin"
  /\ go_super_gl' = [go_super_gl EXCEPT ![t] = FALSE]
  /\ Goto(t, "test")
  /\ UNCHANGED <<shared, attempt, tx_limit, late>>

SeeFree(t) ==
  /\ pc[t] = "test" /\ ~tm_super_glock
  /\ Goto(t, IF go_super_gl[t] THEN "await" ELSE "enter")
  /\ UNCHANGED <<shared, go_super_gl, attempt, tx_limit, late>>

AwaitFree(t) ==
  /\ pc[t] = "await" /\ ~tm_super_glock
  /\ Goto(t, "cas")
  /\ UNCHANGED <<shared, go_super_gl, attempt, tx_limit, late>>

\* Mutant: the lock is stored into, not compared and swapped.
TakeBlindly(t) ==
  /\ pc[t] = "cas"
  /\ tm_super_glock' = TRUE
  /\ Goto(t, "drain")
  /\ UNCHANGED <<active_tx, go_super_gl, attempt, tx_limit, late>>

TakeLock(t) ==
  /\ pc[t] = "cas"
  /\ tm_super_glock' = TRUE
  /\ Goto(t, IF tm_super_glock THEN "await" ELSE "drain")
  /\ UNCHANGED <<active_tx, go_super_gl, attempt, tx_limit, late>>

\* Mutant: the owner does not wait for those who are active.
EnterAtOnce(t) ==
  /\ pc[t] = "drain"
  /\ Goto(t, "enter")
  /\ late' = {u \in Threads \ {t} : pc[u] = "enter"}
  /\ UNCHANGED <<shared, go_super_gl, attempt, tx_limit>>

Drain(t) ==
  /\ pc[t] = "drain" /\ active_tx = 0
  /\ Goto(t, "enter")
  /\ late' = {u \in Threads \ {t} : pc[u] = "enter"}
  /\ UNCHANGED <<shared, go_super_gl, attempt, tx_limit>>

Enter(t) ==
  /\ pc[t] = "enter"
  /\ active_tx' = active_tx + 1
  /\ part' = [part EXCEPT ![t] = 0]
  /\ other_abort_num' = [other_abort_num EXCEPT ![t] = 0]
  /\ Goto(t, "part")
  /\ UNCHANGED <<tm_super_glock, go_super_gl, tx_limit, late>>

----------------------------------------------------------------------------
(* TM_PART_BEGIN .. TM_PART_END. *)
NextPart(t) ==
  /\ part' = [part EXCEPT ![t] = @ + 1]
  /\ other_abort_num' = [other_abort_num EXCEPT ![t] = 0]
  /\ Goto(t, IF part[t] + 1 < Parts THEN "part" ELSE "commit")
  /\ UNCHANGED <<shared, go_super_gl, tx_limit, late>>

PartCommits(t) ==
  /\ pc[t] = "part" /\ ~go_super_gl[t] /\ "commit" \in Outcomes
  /\ NextPart(t)

OwnerPart(t) ==
  /\ pc[t] = "part" /\ go_super_gl[t]
  /\ NextPart(t)

\* SUPER_GL_COND, after an abort with status 0.
PartAborts(t) ==
  /\ pc[t] = "part" /\ ~go_super_gl[t] /\ "other" \in Outcomes
  /\ other_abort_num' = [other_abort_num EXCEPT ![t] = @ + 1]
  /\ IF other_abort_num[t] + 1 > SUPER_GL_LIMIT
       THEN go_super_gl' = [go_super_gl EXCEPT ![t] = TRUE] /\ Goto(t, "abort")
       ELSE UNCHANGED <<go_super_gl, pc>>
  /\ UNCHANGED <<shared, part, tx_limit, late>>

\* _xabort(X_CONFLICT), or tm_check_partition or tm_commit finds a conflict.
Conflict(t) ==
  /\ pc[t] \in {"part", "commit"} /\ ~go_super_gl[t] /\ "conflict" \in Outcomes
  /\ Goto(t, "abort")
  /\ UNCHANGED <<shared, go_super_gl, attempt, tx_limit, late>>

----------------------------------------------------------------------------
(* tm_abort and TM_END: SUPER_GL_UNLOCK, SUPER_GL_TX_EXIST. *)
Leave(t) ==
  /\ active_tx' = active_tx - 1
  /\ late' = late \ {t}

\* Mutant: tm_abort jumps back without leaving.
AbortStays(t) ==
  /\ pc[t] = "abort"
  /\ Goto(t, "test")
  /\ UNCHANGED <<shared, go_super_gl, attempt, tx_limit, late>>

\* Mutant: longjmp gives go_super_gl the value it had at _setjmp.
AbortForgets(t) ==
  /\ pc[t] = "abort"
  /\ Leave(t)
  /\ go_super_gl' = [go_super_gl EXCEPT ![t] = FALSE]
  /\ Goto(t, "test")
  /\ UNCHANGED <<tm_super_glock, attempt, tx_limit>>

Abort(t) ==
  /\ pc[t] = "abort"
  /\ Leave(t)
  /\ Goto(t, "test")
  /\ UNCHANGED <<tm_super_glock, go_super_gl, attempt, tx_limit>>

\* Mutant: tm_commit leaves, and TM_END once more.
CommitLeaves(t) ==
  /\ pc[t] = "commit" /\ ~go_super_gl[t]
  /\ Leave(t)
  /\ Goto(t, "exit")
  /\ UNCHANGED <<tm_super_glock, go_super_gl, attempt, tx_limit>>

Commit(t) ==
  /\ pc[t] = "commit" /\ ~go_super_gl[t]
  /\ Goto(t, "exit")
  /\ UNCHANGED <<shared, go_super_gl, attempt, tx_limit, late>>

Unlock(t) ==
  /\ pc[t] = "commit" /\ go_super_gl[t]
  /\ go_super_gl' = [go_super_gl EXCEPT ![t] = FALSE]
  /\ tm_super_glock' = FALSE
  /\ Goto(t, "exit")
  /\ UNCHANGED <<active_tx, attempt, tx_limit, late>>

Exit(t) ==
  /\ pc[t] = "exit"
  /\ Leave(t)
  /\ tx_limit' = [tx_limit EXCEPT ![t] = @ + 1]
  /\ Goto(t, IF tx_limit[t] + 1 < NO_TX THEN "begin" ELSE "done")
  /\ UNCHANGED <<tm_super_glock, go_super_gl, attempt>>

Step(t) == \/ Begin(t) \/ SeeFree(t) \/ AwaitFree(t) \/ TakeLock(t) \/ Drain(t) \/ Enter(t)
           \/ PartCommits(t) \/ OwnerPart(t) \/ PartAborts(t) \/ Conflict(t)
           \/ Abort(t) \/ Commit(t) \/ Unlock(t) \/ Exit(t)

Joined == /\ \A t \in Threads : pc[t] = "done"
          /\ UNCHANGED vars

Next == (\E t \in Threads : Step(t)) \/ Joined

Spec == Init /\ [][Next]_vars
FairSpec == Spec /\ \A t \in Threads : WF_vars(Step(t))

----------------------------------------------------------------------------
Active == {t \in Threads : pc[t] \in {"part", "commit", "abort", "exit"}}
Owner(t) == go_super_gl[t] /\ pc[t] \in {"drain", "enter", "part", "commit"}
Owners == {t \in Threads : Owner(t)}

TypeOK ==
  /\ tm_super_glock \in BOOLEAN
  /\ active_tx \in Nat
  /\ pc \in [Threads -> {"begin", "test", "await", "cas", "drain", "enter", "part",
                         "commit", "abort", "exit", "done"}]
  /\ go_super_gl \in [Threads -> BOOLEAN]
  /\ other_abort_num \in [Threads -> 0 .. SUPER_GL_LIMIT + 1]
  /\ part \in [Threads -> 0 .. Parts]
  /\ tx_limit \in [Threads -> 0 .. NO_TX]
  /\ late \subseteq Threads

(* Whatever way a transaction ends, by TM_END, by tm_abort for a conflict  *)
(* or by tm_abort to take the lock, it leaves active_tx as often as it has *)
(* entered; the lock has one owner and is taken exactly while it has one.  *)
EntriesBalance ==
  /\ active_tx = Cardinality(Active)
  /\ Cardinality(Owners) = IF tm_super_glock THEN 1 ELSE 0

(* An owner that has entered is alone but for threads that had seen the    *)
(* lock free before it was taken and had not yet counted themselves in     *)
(* when the owner saw active_tx at 0: the two tests leave this window, and *)
(* nobody else comes through it, nor one of these a second time.           *)
AloneButForLate ==
  \A o \in Owners : pc[o] \in {"part", "commit"} => Active \subseteq {o} \cup late

(* However often the hardware aborts partitions without a reason, every    *)
(* thread finishes: the lock takes over where the hardware does not let a  *)
(* transaction through, and waiting for it comes to an end.  Conflicts are *)
(* another matter: nothing but a random back-off ends a run of them.       *)
Termination ==
  <>[][\A t \in Threads : ~Conflict(t)]_vars => <>(\A t \in Threads : pc[t] = "done")

----------------------------------------------------------------------------
(* The inductive invariant behind EntriesBalance and AloneButForLate. *)
ControlInv ==
  \A t \in Threads :
    /\ pc[t] \in {"await", "cas", "drain"} => go_super_gl[t]
    /\ pc[t] = "exit" => ~go_super_gl[t]
    /\ pc[t] = "part" => part[t] < Parts /\ other_abort_num[t] <= SUPER_GL_LIMIT
    /\ pc[t] # "done" => tx_limit[t] < NO_TX

OwnerInv ==
  /\ tm_super_glock <=> \E t \in Threads : Owner(t)
  /\ \A t, u \in Threads : Owner(t) /\ Owner(u) => t = u

ActiveInv == active_tx = Cardinality(Active)

\* Also those who are about to enter beside the owner were late.
LateInv ==
  \A o, u \in Threads :
    /\ o # u /\ Owner(o) /\ pc[o] # "drain"
    /\ pc[u] \in {"enter", "part", "commit", "abort", "exit"}
    => u \in late

IInv == TypeOK /\ ControlInv /\ OwnerInv /\ ActiveInv /\ LateInv
=============================================================================
