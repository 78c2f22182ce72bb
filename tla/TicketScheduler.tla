-------------------------- MODULE TicketScheduler --------------------------
(***************************************************************************)
(* The two-account ticket scheduler of htm_sched.cpp (tx_fn_full_q, and    *)
(* tx_fn, which is the case Percentage = 100).  Every account has a spin   *)
(* lock, two enqueue counters and two dequeue counters, one for writers    *)
(* (val) and one for readers (val2).  A thread locks both its accounts,    *)
(* the higher first, takes a ticket of each, unlocks, spins until the      *)
(* dequeue counters reach its tickets, runs the hardware transaction until *)
(* it commits, and advances the dequeue counters.                          *)
(*                                                                         *)
(* The hardware transaction is the weakest one the loop could run on: its  *)
(* loads are separate steps, its stores appear at _xend, it may abort at   *)
(* any moment, and nothing detects a conflict.  What the scheduler         *)
(* guarantees is therefore the scheduler's own doing.                      *)
(***************************************************************************)
EXTENDS Sums, FiniteSets

CONSTANTS Threads,     \* the worker threads
          NumAccounts, \* ACCOUT_NUM
          Percentage,  \* of writers, as given on the command line
          Opening,     \* the balance main gives every account
          TxPerThread  \* iterations of the thread's loop

ASSUME ThreadsAssumption     == IsFiniteSet(Threads)
ASSUME NumAccountsAssumption == NumAccounts \in Nat /\ NumAccounts >= 2
ASSUME PercentageAssumption  == Percentage \in Int
ASSUME OpeningAssumption     == Opening \in Int
ASSUME TxPerThreadAssumption == TxPerThread \in Nat \ {0}

Accounts == 0 .. NumAccounts - 1

\* The first and the second account of a transaction: acc1/ticket1/ticket1_w
\* and acc2/ticket2/ticket2_w.
Slots == 1 .. 2

Kinds == {w \in BOOLEAN : \E draw \in 0 .. 99 : w <=> draw < Percentage}

Amount == 50
Delta == <<Amount, -Amount>>

VARIABLES
  order_lock, \* order_lock[a].val: 0 free, 1 held
  enqW, enqR, \* enq_counter[a].val and .val2: tickets given to writers, readers
  deqW, deqR, \* deq_counter[a].val and .val2: writers, readers that finished
  accounts,   \* accounts[a].val
  pc, slot,   \* the next statement of the thread, and the account it is about
  acc, writer,      \* the thread's acc1, acc2 and type
  ticketW, ticketR, \* its ticket1, ticket2 and ticket1_w, ticket2_w
  loaded,     \* what its hardware transaction has read
  kk          \* its loop counter

counters == <<enqW, enqR, deqW, deqR>>
locals == <<acc, writer, ticketW, ticketR>>
vars == <<order_lock, counters, accounts, pc, slot, locals, loaded, kk>>

Labels == {"choose", "lockHigh", "lockLow", "read", "bump", "unlock", "checkW",
           "checkR", "begin", "load", "end", "deq", "done"}

NoTicket == [i \in Slots |-> 0]
NoAccounts == [i \in Slots |-> 0]

Init ==
  /\ order_lock = [a \in Accounts |-> 0]
  /\ enqW = [a \in Accounts |-> 0] /\ enqR = [a \in Accounts |-> 0]
  /\ deqW = [a \in Accounts |-> 0] /\ deqR = [a \in Accounts |-> 0]
  /\ accounts = [a \in Accounts |-> Opening]
  /\ pc = [t \in Threads |-> "choose"]
  /\ slot = [t \in Threads |-> 1]
  /\ acc = [t \in Threads |-> NoAccounts]
  /\ writer = [t \in Threads |-> FALSE]
  /\ ticketW = [t \in Threads |-> NoTicket]
  /\ ticketR = [t \in Threads |-> NoTicket]
  /\ loaded = [t \in Threads |-> [i \in Slots |-> 0]]
  /\ kk = [t \in Threads |-> 0]

Goto(t, label, i) == /\ pc' = [pc EXCEPT ![t] = label]
                     /\ slot' = [slot EXCEPT ![t] = i]

\* A step that the thread repeats for its second account.
Continue(t, here, next) == IF slot[t] = 1 THEN Goto(t, here, 2) ELSE Goto(t, next, 1)

Current(t) == acc[t][slot[t]]

----------------------------------------------------------------------------
(* The draw of acc1, acc2 and type; equal accounts are told apart. *)
Choose(t) ==
  /\ pc[t] = "choose"
  /\ \E a1, a2 \in Accounts, w \in Kinds :
       /\ acc' = [acc EXCEPT ![t] =
            [i \in Slots |-> IF i = 1 THEN a1
                             ELSE IF a1 = a2 THEN (a1 + 1) % NumAccounts ELSE a2]]
       /\ writer' = [writer EXCEPT ![t] = w]
  /\ Goto(t, "lockHigh", 1)
  /\ UNCHANGED <<order_lock, counters, accounts, ticketW, ticketR, loaded, kk>>

High(t) == IF acc[t][1] > acc[t][2] THEN 1 ELSE 2

\* Mutant: the lock is set without a look at its value.
BlindAcquire(t, a) == order_lock' = [order_lock EXCEPT ![a] = 1]

\* The compare-and-swap of acquire_lock that succeeds (one that fails spins).
Acquire(t, a) == /\ order_lock[a] = 0
                 /\ order_lock' = [order_lock EXCEPT ![a] = 1]

LockHigh(t) ==
  /\ pc[t] = "lockHigh"
  /\ Acquire(t, acc[t][High(t)])
  /\ Goto(t, "lockLow", 1)
  /\ UNCHANGED <<counters, accounts, locals, loaded, kk>>

\* Mutant: the lower account is not locked.
UnlockedLow(t) ==
  /\ pc[t] = "lockLow"
  /\ Goto(t, "read", 1)
  /\ UNCHANGED <<order_lock, counters, accounts, locals, loaded, kk>>

LockLow(t) ==
  /\ pc[t] = "lockLow"
  /\ Acquire(t, acc[t][3 - High(t)])
  /\ Goto(t, "read", 1)
  /\ UNCHANGED <<counters, accounts, locals, loaded, kk>>

ReadTickets(t) ==
  /\ pc[t] = "read"
  /\ ticketW' = [ticketW EXCEPT ![t][slot[t]] = enqW[Current(t)]]
  /\ ticketR' = [ticketR EXCEPT ![t][slot[t]] = enqR[Current(t)]]
  /\ Goto(t, "bump", slot[t])
  /\ UNCHANGED <<order_lock, counters, accounts, acc, writer, loaded, kk>>

Enqueue(t) ==
  /\ pc[t] = "bump"
  /\ IF writer[t]
     THEN enqW' = [enqW EXCEPT ![Current(t)] = @ + 1] /\ enqR' = enqR
     ELSE enqR' = [enqR EXCEPT ![Current(t)] = @ + 1] /\ enqW' = enqW
  /\ IF slot[t] = 1 THEN Goto(t, "read", 2) ELSE Goto(t, "unlock", 1)
  /\ UNCHANGED <<order_lock, deqW, deqR, accounts, locals, loaded, kk>>

Release(t) ==
  /\ pc[t] = "unlock"
  /\ order_lock' = [order_lock EXCEPT ![Current(t)] = 0]
  /\ Continue(t, "unlock", "checkW")
  /\ UNCHANGED <<counters, accounts, locals, loaded, kk>>

----------------------------------------------------------------------------
(* The wait.  Its condition reads one counter after the other: the writers'*)
(* counters of both accounts, then, for a writer only, the readers'        *)
(* counters; the first that differs from the ticket starts it again.       *)
\* Mutant: the wait is over when the first account is ready.
CheckFirstWriter(t) ==
  /\ pc[t] = "checkW"
  /\ IF ticketW[t][slot[t]] = deqW[Current(t)]
     THEN Goto(t, IF writer[t] THEN "checkR" ELSE "begin", 1)
     ELSE Goto(t, "checkW", 1)
  /\ UNCHANGED <<order_lock, counters, accounts, locals, loaded, kk>>

CheckWriters(t) ==
  /\ pc[t] = "checkW"
  /\ IF ticketW[t][slot[t]] = deqW[Current(t)]
     THEN Continue(t, "checkW", IF writer[t] THEN "checkR" ELSE "begin")
     ELSE Goto(t, "checkW", 1)
  /\ UNCHANGED <<order_lock, counters, accounts, locals, loaded, kk>>

\* Mutant: a writer does not wait for the readers before it.
IgnoreReaders(t) ==
  /\ pc[t] = "checkR"
  /\ Continue(t, "checkR", "begin")
  /\ UNCHANGED <<order_lock, counters, accounts, locals, loaded, kk>>

CheckReaders(t) ==
  /\ pc[t] = "checkR"
  /\ IF ticketR[t][slot[t]] = deqR[Current(t)]
     THEN Continue(t, "checkR", "begin")
     ELSE Goto(t, "checkW", 1)
  /\ UNCHANGED <<order_lock, counters, accounts, locals, loaded, kk>>

----------------------------------------------------------------------------
(* The hardware transaction, retried until it commits. *)
XBegin(t) ==
  /\ pc[t] = "begin"
  /\ Goto(t, "load", 1)
  /\ UNCHANGED <<order_lock, counters, accounts, locals, loaded, kk>>

Load(t) ==
  /\ pc[t] = "load"
  /\ loaded' = [loaded EXCEPT ![t][slot[t]] = accounts[Current(t)]]
  /\ Continue(t, "load", "end")
  /\ UNCHANGED <<order_lock, counters, accounts, locals, kk>>

\* Mutant: an aborted transaction is not retried.
XAbortGivesUp(t) ==
  /\ pc[t] \in {"load", "end"}
  /\ Goto(t, "deq", 1)
  /\ UNCHANGED <<order_lock, counters, accounts, locals, loaded, kk>>

XAbort(t) ==
  /\ pc[t] \in {"load", "end"}
  /\ Goto(t, "begin", 1)
  /\ UNCHANGED <<order_lock, counters, accounts, locals, loaded, kk>>

XEnd(t) ==
  /\ pc[t] = "end"
  /\ accounts' = IF writer[t]
                 THEN [accounts EXCEPT ![acc[t][1]] = loaded[t][1] + Delta[1],
                                       ![acc[t][2]] = loaded[t][2] + Delta[2]]
                 ELSE accounts
  /\ Goto(t, "deq", 1)
  /\ UNCHANGED <<order_lock, counters, locals, loaded, kk>>

----------------------------------------------------------------------------
\* Mutants: a reader leaves no trace; a reader counts as a writer.
AdvanceWriters(t) ==
  /\ deqR' = deqR
  /\ deqW' = IF writer[t] THEN [deqW EXCEPT ![Current(t)] = @ + 1] ELSE deqW

AdvanceAsWriter(t) ==
  deqW' = [deqW EXCEPT ![Current(t)] = @ + 1] /\ deqR' = deqR

Advance(t) ==
  IF writer[t]
  THEN deqW' = [deqW EXCEPT ![Current(t)] = @ + 1] /\ deqR' = deqR
  ELSE deqR' = [deqR EXCEPT ![Current(t)] = @ + 1] /\ deqW' = deqW

DequeueFirst(t) ==
  /\ pc[t] = "deq" /\ slot[t] = 1
  /\ Advance(t)
  /\ Goto(t, "deq", 2)
  /\ UNCHANGED <<order_lock, enqW, enqR, accounts, locals, loaded, kk>>

\* The end of the iteration, where the loop's local variables die.
DequeueSecond(t) ==
  /\ pc[t] = "deq" /\ slot[t] = 2
  /\ Advance(t)
  /\ kk' = [kk EXCEPT ![t] = @ + 1]
  /\ Goto(t, IF kk[t] + 1 < TxPerThread THEN "choose" ELSE "done", 1)
  /\ acc' = [acc EXCEPT ![t] = NoAccounts]
  /\ writer' = [writer EXCEPT ![t] = FALSE]
  /\ ticketW' = [ticketW EXCEPT ![t] = NoTicket]
  /\ ticketR' = [ticketR EXCEPT ![t] = NoTicket]
  /\ loaded' = [loaded EXCEPT ![t] = [i \in Slots |-> 0]]
  /\ UNCHANGED <<order_lock, enqW, enqR, accounts>>

Step(t) == \/ Choose(t)
           \/ LockHigh(t) \/ LockLow(t)
           \/ ReadTickets(t) \/ Enqueue(t) \/ Release(t)
           \/ CheckWriters(t) \/ CheckReaders(t)
           \/ XBegin(t) \/ Load(t) \/ XAbort(t) \/ XEnd(t)
           \/ DequeueFirst(t) \/ DequeueSecond(t)

\* main joins its threads when all have finished.
Joined == /\ \A t \in Threads : pc[t] = "done"
          /\ UNCHANGED vars

Next == (\E t \in Threads : Step(t)) \/ Joined

\* Every thread keeps running, and a hardware transaction that is retried for
\* ever gets past each of its statements: the retry loop has no other way out.
Fairness == \A t \in Threads :
              /\ WF_vars(Step(t))
              /\ \A i \in Slots : SF_vars(slot[t] = i /\ Load(t))
              /\ SF_vars(XEnd(t))

Spec == Init /\ [][Next]_vars
FairSpec == Spec /\ Fairness

----------------------------------------------------------------------------
(* Who is where.  A thread is active on a slot from the moment it has      *)
(* advanced the enqueue counter of that account until it advances the      *)
(* dequeue counter.                                                        *)
Active(t, i) == \/ pc[t] \in {"unlock", "checkW", "checkR", "begin", "load", "end"}
                \/ pc[t] \in {"read", "bump"} /\ i < slot[t]
                \/ pc[t] = "deq" /\ i >= slot[t]

Holds(t, i) == \/ pc[t] = "lockLow" /\ i = High(t)
               \/ pc[t] \in {"read", "bump"}
               \/ pc[t] = "unlock" /\ i >= slot[t]

\* Slots whose writers' (readers') counter the thread has seen at its ticket.
SawWriters(t, i) == \/ pc[t] \in {"checkR", "begin", "load", "end"}
                    \/ pc[t] = "checkW" /\ i < slot[t]
                    \/ pc[t] = "deq" /\ i >= slot[t]

SawReaders(t, i) == \/ pc[t] \in {"begin", "load", "end"}
                    \/ pc[t] = "checkR" /\ i < slot[t]
                    \/ pc[t] = "deq" /\ i >= slot[t]

Executing(t) == pc[t] \in {"load", "end"}

\* Active pairs of slots of two threads on one account.
Meet(t, i, u, j) == t # u /\ Active(t, i) /\ Active(u, j) /\ acc[t][i] = acc[u][j]

\* u, at slot j, conflicts with t, at slot i of the same account, and took its
\* ticket first.
Before(u, j, t, i) ==
  /\ Meet(t, i, u, j)
  /\ \/ writer[u] /\ ticketW[u][j] < ticketW[t][i]
     \/ ~writer[u] /\ writer[t] /\ ticketR[u][j] < ticketR[t][i]

\* The readers active on t's account i that took their ticket before t.
ReadersBefore(t, i) ==
  {u \in Threads : \E j \in Slots : ~writer[u] /\ Meet(t, i, u, j)
                                     /\ ticketR[u][j] < ticketR[t][i]}

ActiveReaders(a) ==
  {u \in Threads : ~writer[u] /\ \E j \in Slots : Active(u, j) /\ acc[u][j] = a}
ActiveWriters(a) ==
  {u \in Threads : writer[u] /\ \E j \in Slots : Active(u, j) /\ acc[u][j] = a}

----------------------------------------------------------------------------
TypeShared ==
  /\ order_lock \in [Accounts -> 0 .. 1]
  /\ enqW \in [Accounts -> Nat] /\ enqR \in [Accounts -> Nat]
  /\ deqW \in [Accounts -> Nat] /\ deqR \in [Accounts -> Nat]
  /\ accounts \in [Accounts -> Int]

TypeControl ==
  /\ pc \in [Threads -> Labels]
  /\ slot \in [Threads -> Slots]
  /\ kk \in [Threads -> 0 .. TxPerThread]
  /\ \A t \in Threads : pc[t] # "done" => kk[t] < TxPerThread

TypeLocals ==
  /\ acc \in [Threads -> [Slots -> Accounts]]
  /\ writer \in [Threads -> BOOLEAN]
  /\ ticketW \in [Threads -> [Slots -> Nat]]
  /\ ticketR \in [Threads -> [Slots -> Nat]]
  /\ loaded \in [Threads -> [Slots -> Int]]

TypeOK == TypeShared /\ TypeControl /\ TypeLocals

(* Transactions that are inside their hardware transaction at the same     *)
(* time and share an account only read it: the reason the scheduler exists *)
(* is that the hardware never has to abort one for the other.              *)
Isolation ==
  \A t, u \in Threads : \A i, j \in Slots :
    t # u /\ Executing(t) /\ Executing(u) /\ acc[t][i] = acc[u][j]
      => ~writer[t] /\ ~writer[u]

(* What a hardware transaction has read is still in memory when it         *)
(* commits, although nothing but the tickets protects it: no update of an  *)
(* account is lost and no audit sees half of a transfer.                   *)
StableReads ==
  \A t \in Threads : \A i \in Slots :
    Executing(t) /\ (pc[t] = "end" \/ i < slot[t])
      => loaded[t][i] = accounts[acc[t][i]]

(* No set of waiting transactions waits only for its own members, over all *)
(* the accounts they share: the order of the tickets has no cycle, which   *)
(* is what the FIXME above the locks, "this idea is not working and has    *)
(* dead lock", says of an earlier version.                                 *)
NoWaitCycle ==
  \A S \in SUBSET Threads : S # {} =>
    \E t \in S : \A u \in S : \A i, j \in Slots : ~Before(u, j, t, i)

(* Transfers neither create nor destroy money: the sum that main prints at *)
(* the end, and every sum in between, is the one it prints at the start.   *)
SumConserved == Total(accounts, NumAccounts) = NumAccounts * Opening

(* The counters account for the transactions in between: as many writers   *)
(* (readers) have a ticket and have not finished as the enqueue counter is *)
(* ahead of the dequeue counter.                                           *)
CountersBalance ==
  \A a \in Accounts :
    /\ enqW[a] = deqW[a] + Cardinality(ActiveWriters(a))
    /\ enqR[a] = deqR[a] + Cardinality(ActiveReaders(a))

(* Every thread finishes its loop. *)
Termination == <>(\A t \in Threads : pc[t] = "done")

----------------------------------------------------------------------------
(* The inductive invariant behind Isolation. *)
DistinctAccounts ==
  \A t \in Threads : pc[t] \notin {"choose", "done"} => acc[t][1] # acc[t][2]

LockInv ==
  \A t \in Threads : \A i \in Slots : Holds(t, i) =>
    /\ order_lock[acc[t][i]] = 1
    /\ \A u \in Threads : \A j \in Slots :
         u # t /\ Holds(u, j) => acc[t][i] # acc[u][j]

\* A ticket that has been read is still the next one when it is taken.
ReadInv ==
  \A t \in Threads : pc[t] = "bump" =>
    /\ ticketW[t][slot[t]] = enqW[Current(t)]
    /\ ticketR[t][slot[t]] = enqR[Current(t)]

BoundsInv ==
  /\ \A a \in Accounts : deqW[a] <= enqW[a]
  /\ \A t \in Threads : \A i \in Slots : Active(t, i) =>
       LET a == acc[t][i] IN
       /\ deqW[a] <= ticketW[t][i]
       /\ ticketW[t][i] <= enqW[a] /\ ticketR[t][i] <= enqR[a]
       /\ writer[t] => ticketW[t][i] < enqW[a]
       /\ ~writer[t] => ticketR[t][i] < enqR[a]

\* Tickets of one account are totally ordered where it matters: writers have
\* different tickets, and a reader's two tickets place it on the same side of a
\* writer.
OrderInv ==
  \A t, u \in Threads : \A i, j \in Slots : writer[t] /\ Meet(t, i, u, j) =>
    IF writer[u]
    THEN ticketW[t][i] # ticketW[u][j]
    ELSE ticketR[u][j] < ticketR[t][i] <=> ticketW[u][j] <= ticketW[t][i]

\* The readers a writer has to wait for are those still active before it.
ReadersInv ==
  \A t \in Threads : \A i \in Slots : writer[t] /\ Active(t, i) =>
    deqR[acc[t][i]] + Cardinality(ReadersBefore(t, i)) = ticketR[t][i]

SeenInv ==
  \A t \in Threads : \A i \in Slots :
    /\ SawWriters(t, i) => ticketW[t][i] = deqW[acc[t][i]]
    /\ writer[t] /\ SawReaders(t, i) => ticketR[t][i] = deqR[acc[t][i]]

\* Only a writer looks at the readers' counters.
CheckInv == \A t \in Threads : pc[t] = "checkR" => writer[t]

RBalance ==
  \A a \in Accounts : enqR[a] = deqR[a] + Cardinality(ActiveReaders(a))

IInv == /\ TypeOK /\ DistinctAccounts /\ LockInv /\ ReadInv /\ BoundsInv
        /\ OrderInv /\ ReadersInv /\ SeenInv /\ CheckInv /\ RBalance

----------------------------------------------------------------------------
(* The scheduler implements TransferOrder.  A transaction is admitted when *)
(* it takes its second ticket, and executed when its hardware transaction  *)
(* commits.                                                                *)
Admitted(t) == pc[t] \in {"unlock", "checkW", "checkR", "begin", "load", "end"}

Request(t) == IF Admitted(t)
              THEN [acc |-> acc[t], writer |-> writer[t]]
              ELSE [acc |-> <<0, 0>>, writer |-> FALSE]

AheadOf(t) == IF Admitted(t)
              THEN {u \in Threads : Admitted(u) /\ \E i, j \in Slots : Before(u, j, t, i)}
              ELSE {}

Order == INSTANCE TransferOrder WITH
  req <- [t \in Threads |-> Request(t)], ahead <- [t \in Threads |-> AheadOf(t)]

(* Conflicting transactions execute in the order they were admitted, each  *)
(* atomically on the balances it finds.                                    *)
KeepsTransferOrder == Order!Init /\ [][Order!Next]_(Order!vars)

(* The same, and every admitted transaction executes.                      *)
ImplementsTransferOrder == Order!Spec
=============================================================================
