------------------------------ MODULE QueueTop ------------------------------
(***************************************************************************)
(* The queue-top scheduler (htm_sched_q_top.cpp, tx_fn).  A thread puts    *)
(* its id into the queues of its two accounts, holding both enqueue locks  *)
(* while it does, waits until it is first in one of them, executes, and    *)
(* advances the heads of both.  The heads have no lock: the one of         *)
(* lock_q_dl is never taken.                                               *)
(*                                                                         *)
(* The hardware transaction is one step here: it is retried until it       *)
(* commits, and an attempt that aborts leaves nothing.  A thread looks at  *)
(* a queue in one step: its own entries are in place when it begins to.    *)
(***************************************************************************)
EXTENDS Integers, FiniteSets

CONSTANTS Threads,     \* ids, from 1: an empty slot holds 0
          Accounts,
          Size,        \* Q_MAX_SIZE
          TxPerThread  \* 1000

VARIABLES queue, queue_s, queue_e, queue_el,
          pc, kk, acc,   \* acc: the accounts, in the order drawn
          n,             \* the account at hand: 1 or 2
          loaded         \* what ++ has loaded of a head or tail

locals == <<kk, acc>>
heads  == <<queue_s>>
tails  == <<queue, queue_e>>
vars   == <<queue, queue_s, queue_e, queue_el, pc, kk, acc, n, loaded>>

Init ==
  /\ queue = [a \in Accounts |-> [s \in 0 .. Size - 1 |-> 0]]
  /\ queue_s = [a \in Accounts |-> 0]
  /\ queue_e = [a \in Accounts |-> 0]
  /\ queue_el = [a \in Accounts |-> FALSE]
  /\ pc = [t \in Threads |-> "draw"]
  /\ kk = [t \in Threads |-> 0]
  /\ acc = [t \in Threads |-> <<>>]
  /\ n = [t \in Threads |-> 1]
  /\ loaded = [t \in Threads |-> 0]

Goto(t, label) == pc' = [pc EXCEPT ![t] = label]

Draw(t) ==
  /\ pc[t] = "draw"
  /\ \E p \in Accounts \X Accounts : p[1] # p[2] /\ acc' = [acc EXCEPT ![t] = p]
  /\ Goto(t, "lock")
  /\ UNCHANGED <<tails, heads, queue_el, kk, n, loaded>>

\* The lower account comes first.
Low(t)  == IF acc[t][1] < acc[t][2] THEN acc[t][1] ELSE acc[t][2]
High(t) == IF acc[t][1] < acc[t][2] THEN acc[t][2] ELSE acc[t][1]
This(t) == IF n[t] = 1 THEN Low(t) ELSE High(t)

\* The same for the second account, then on.
Twice(t, first, then) ==
  /\ n' = [n EXCEPT ![t] = 3 - @]
  /\ Goto(t, IF n[t] = 1 THEN first ELSE then)

Lock(t) ==
  /\ pc[t] = "lock"
  /\ ~queue_el[This(t)]
  /\ queue_el' = [queue_el EXCEPT ![This(t)] = TRUE]
  /\ Goto(t, "fill")
  /\ UNCHANGED <<tails, heads, locals, n, loaded>>

Fill(t) ==
  /\ pc[t] = "fill"
  /\ queue' = [queue EXCEPT ![This(t)][queue_e[This(t)] % Size] = t]
  /\ Goto(t, "count")
  /\ UNCHANGED <<queue_e, heads, queue_el, locals, n, loaded>>

Count(t) ==
  /\ pc[t] = "count"
  /\ queue_e' = [queue_e EXCEPT ![This(t)] = @ + 1]
  /\ Twice(t, "lock", "unlock")
  /\ UNCHANGED <<queue, heads, queue_el, locals, loaded>>

Unlock(t) ==
  /\ pc[t] = "unlock"
  /\ queue_el' = [queue_el EXCEPT ![This(t)] = FALSE]
  /\ Twice(t, "unlock", "wait")
  /\ UNCHANGED <<tails, heads, locals, loaded>>

check_q_top(a) == queue[a][queue_s[a] % Size]

FirstInOne(t) ==
  /\ pc[t] = "wait"
  /\ \E a \in {acc[t][1], acc[t][2]} : check_q_top(a) = t
  /\ Goto(t, "execute")
  /\ UNCHANGED <<tails, heads, queue_el, locals, n, loaded>>

Execute(t) ==
  /\ pc[t] = "execute"
  /\ Goto(t, "load")
  /\ UNCHANGED <<tails, heads, queue_el, locals, n, loaded>>

LoadHead(t) ==
  /\ pc[t] = "load"
  /\ loaded' = [loaded EXCEPT ![t] = queue_s[acc[t][n[t]]]]
  /\ Goto(t, "store")
  /\ UNCHANGED <<tails, heads, queue_el, locals, n>>

StoreHead(t) ==
  /\ pc[t] = "store"
  /\ queue_s' = [queue_s EXCEPT ![acc[t][n[t]]] = loaded[t] + 1]
  /\ loaded' = [loaded EXCEPT ![t] = 0]
  /\ Twice(t, "load", "next")
  /\ UNCHANGED <<tails, queue_el, locals>>

Iterate(t) ==
  /\ pc[t] = "next"
  /\ kk' = [kk EXCEPT ![t] = @ + 1]
  /\ acc' = [acc EXCEPT ![t] = <<>>]
  /\ Goto(t, IF kk[t] + 1 < TxPerThread THEN "draw" ELSE "done")
  /\ UNCHANGED <<tails, heads, queue_el, n, loaded>>

Step(t) == \/ Draw(t) \/ Lock(t) \/ Fill(t) \/ Count(t) \/ Unlock(t) \/ FirstInOne(t)
           \/ Execute(t) \/ LoadHead(t) \/ StoreHead(t) \/ Iterate(t)

AllDone == \A t \in Threads : pc[t] = "done"
Joined  == AllDone /\ UNCHANGED vars

Next == (\E t \in Threads : Step(t)) \/ Joined

Spec == Init /\ [][Next]_vars
FairSpec == Spec /\ \A t \in Threads : WF_vars(Step(t))

----------------------------------------------------------------------------
(* Every thread gets its turn and finishes.                                *)
Termination == <>AllDone
=============================================================================
