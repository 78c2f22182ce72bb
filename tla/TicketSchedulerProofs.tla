----------------------- MODULE TicketSchedulerProofs -----------------------
(***************************************************************************)
(* Proofs about TicketScheduler for any finite set of threads, any number  *)
(* of accounts, any percentage of writers and any loop bound.  First the   *)
(* types, group by group; then the inductive invariant, conjunct by        *)
(* conjunct; then what follows from it: isolation, reads that stay, no     *)
(* circle of waiting threads although the tickets of overlapping pairs of  *)
(* accounts interleave, execution in the order of the tickets, counters    *)
(* that account for every transaction between them, and a sum of the       *)
(* balances that stays what it was.                                        *)
(***************************************************************************)
EXTENDS TicketScheduler, Lemmas, FiniteSetTheorems, TLAPS

----------------------------------------------------------------------------
(* Types. *)

LEMMA KindsAreBoolean == Kinds \subseteq BOOLEAN
  BY DEF Kinds

LEMMA SuccessorAccount ==
  \A a \in Accounts : (a + 1) % NumAccounts \in Accounts /\ (a + 1) % NumAccounts # a
  BY NumAccountsAssumption DEF Accounts

LEMMA CurrentAccount ==
  ASSUME TypeOK, NEW t \in Threads
  PROVE  /\ Current(t) \in Accounts
         /\ acc[t][High(t)] \in Accounts /\ acc[t][3 - High(t)] \in Accounts
  BY DEF TypeOK, TypeControl, TypeLocals, Current, High, Slots

LEMMA InitTypeOK == Init => TypeOK
<1> SUFFICES ASSUME Init PROVE TypeOK
  OBVIOUS
<1>1. TypeShared
  BY OpeningAssumption DEF Init, TypeShared
<1>2. TypeControl
  BY TxPerThreadAssumption DEF Init, TypeControl, Labels, Slots
<1>3. TypeLocals
  BY NumAccountsAssumption DEF Init, TypeLocals, NoAccounts, NoTicket, Accounts
<1> QED
  BY <1>1, <1>2, <1>3 DEF TypeOK

LEMMA NextTypeControl == TypeControl /\ [Next]_vars => TypeControl'
<1> USE DEF TypeControl, Labels, Slots, Goto
<1> SUFFICES ASSUME TypeControl, [Next]_vars PROVE TypeControl'
  OBVIOUS
<1>1. ASSUME NEW t \in Threads, Choose(t) PROVE TypeControl'
  BY <1>1 DEF Choose
<1>2. ASSUME NEW t \in Threads, LockHigh(t) PROVE TypeControl'
  BY <1>2 DEF LockHigh
<1>3. ASSUME NEW t \in Threads, LockLow(t) PROVE TypeControl'
  BY <1>3 DEF LockLow
<1>4. ASSUME NEW t \in Threads, ReadTickets(t) PROVE TypeControl'
  BY <1>4 DEF ReadTickets
<1>5. ASSUME NEW t \in Threads, Enqueue(t) PROVE TypeControl'
  BY <1>5 DEF Enqueue
<1>6. ASSUME NEW t \in Threads, Release(t) PROVE TypeControl'
  BY <1>6 DEF Release, Continue
<1>7. ASSUME NEW t \in Threads, CheckWriters(t) PROVE TypeControl'
  BY <1>7 DEF CheckWriters, Continue
<1>8. ASSUME NEW t \in Threads, CheckReaders(t) PROVE TypeControl'
  BY <1>8 DEF CheckReaders, Continue
<1>9. ASSUME NEW t \in Threads, XBegin(t) PROVE TypeControl'
  BY <1>9 DEF XBegin
<1>10. ASSUME NEW t \in Threads, Load(t) PROVE TypeControl'
  BY <1>10 DEF Load, Continue
<1>11. ASSUME NEW t \in Threads, XAbort(t) PROVE TypeControl'
  BY <1>11 DEF XAbort
<1>12. ASSUME NEW t \in Threads, XEnd(t) PROVE TypeControl'
  BY <1>12 DEF XEnd
<1>13. ASSUME NEW t \in Threads, DequeueFirst(t) PROVE TypeControl'
  BY <1>13 DEF DequeueFirst
<1>14. ASSUME NEW t \in Threads, DequeueSecond(t) PROVE TypeControl'
  <2>1. kk' \in [Threads -> 0 .. TxPerThread]
    <3>1. pc[t] = "deq" /\ kk[t] < TxPerThread
      BY <1>14 DEF DequeueSecond
    <3> QED
      BY <1>14, <3>1, TxPerThreadAssumption DEF DequeueSecond
  <2>2. pc' \in [Threads -> Labels] /\ slot' \in [Threads -> Slots]
    BY <1>14 DEF DequeueSecond
  <2>3. \A u \in Threads : pc'[u] # "done" => kk'[u] < TxPerThread
    BY <1>14, <2>1, TxPerThreadAssumption DEF DequeueSecond
  <2> QED
    BY <2>1, <2>2, <2>3
<1>15. CASE UNCHANGED vars
  BY <1>15 DEF vars
<1> QED
  BY <1>1, <1>2, <1>3, <1>4, <1>5, <1>6, <1>7, <1>8, <1>9, <1>10, <1>11, <1>12,
     <1>13, <1>14, <1>15 DEF Next, Step, Joined

LEMMA NextTypeShared == TypeOK /\ [Next]_vars => TypeShared'
<1> USE DEF TypeShared, counters
<1> SUFFICES ASSUME TypeOK, [Next]_vars PROVE TypeShared'
  OBVIOUS
<1>0. TypeShared
  BY DEF TypeOK
<1>1. ASSUME NEW t \in Threads, LockHigh(t) \/ LockLow(t) \/ Release(t) PROVE TypeShared'
  BY <1>0, <1>1, CurrentAccount DEF LockHigh, LockLow, Acquire, Release
<1>2. ASSUME NEW t \in Threads, Enqueue(t) PROVE TypeShared'
  BY <1>0, <1>2, CurrentAccount DEF Enqueue
<1>3. ASSUME NEW t \in Threads, DequeueFirst(t) PROVE TypeShared'
  BY <1>0, <1>3, CurrentAccount DEF DequeueFirst, Advance
<1>4. ASSUME NEW t \in Threads, DequeueSecond(t) PROVE TypeShared'
  BY <1>0, <1>4, CurrentAccount DEF DequeueSecond, Advance
<1>5. ASSUME NEW t \in Threads, XEnd(t) PROVE TypeShared'
  <2>1. loaded[t][1] + Delta[1] \in Int /\ loaded[t][2] + Delta[2] \in Int
    BY DEF TypeOK, TypeLocals, Slots, Delta, Amount
  <2>2. accounts' \in [Accounts -> Int]
    BY <1>0, <1>5, <2>1 DEF XEnd
  <2> QED
    BY <1>0, <1>5, <2>2 DEF XEnd
<1>6. ASSUME UNCHANGED <<order_lock, counters, accounts>> PROVE TypeShared'
  BY <1>0, <1>6
<1> QED
  BY <1>1, <1>2, <1>3, <1>4, <1>5, <1>6
     DEF Next, Step, Joined, vars, Choose, ReadTickets, CheckWriters, CheckReaders,
         XBegin, Load, XAbort

LEMMA NextTypeLocals == TypeOK /\ [Next]_vars => TypeLocals'
<1> USE DEF TypeLocals, locals
<1> SUFFICES ASSUME TypeOK, [Next]_vars PROVE TypeLocals'
  OBVIOUS
<1>0. TypeLocals /\ slot \in [Threads -> Slots]
  BY DEF TypeOK, TypeControl
<1>1. ASSUME NEW t \in Threads, Choose(t) PROVE TypeLocals'
  <2>1. acc' \in [Threads -> [Slots -> Accounts]]
    BY <1>0, <1>1, SuccessorAccount DEF Choose
  <2>2. writer' \in [Threads -> BOOLEAN]
    BY <1>0, <1>1, KindsAreBoolean DEF Choose
  <2> QED
    BY <1>0, <1>1, <2>1, <2>2 DEF Choose
<1>2. ASSUME NEW t \in Threads, ReadTickets(t) PROVE TypeLocals'
  <2>1. enqW[Current(t)] \in Nat /\ enqR[Current(t)] \in Nat
    BY CurrentAccount DEF TypeOK, TypeShared
  <2> QED
    BY <1>0, <1>2, <2>1 DEF ReadTickets
<1>3. ASSUME NEW t \in Threads, Load(t) PROVE TypeLocals'
  <2>1. accounts[Current(t)] \in Int
    BY CurrentAccount DEF TypeOK, TypeShared
  <2> QED
    BY <1>0, <1>3, <2>1 DEF Load
<1>4. ASSUME NEW t \in Threads, DequeueSecond(t) PROVE TypeLocals'
  <2>1. NoAccounts \in [Slots -> Accounts] /\ NoTicket \in [Slots -> Nat]
    BY NumAccountsAssumption DEF NoAccounts, NoTicket, Accounts
  <2> QED
    BY <1>0, <1>4, <2>1 DEF DequeueSecond
<1>5. ASSUME UNCHANGED <<locals, loaded>> PROVE TypeLocals'
  BY <1>0, <1>5
<1> QED
  BY <1>1, <1>2, <1>3, <1>4, <1>5
     DEF Next, Step, Joined, vars, LockHigh, LockLow, Enqueue, Release, CheckWriters,
         CheckReaders, XBegin, XAbort, XEnd, DequeueFirst

LEMMA NextTypeOK == TypeOK /\ [Next]_vars => TypeOK'
  BY NextTypeControl, NextTypeShared, NextTypeLocals DEF TypeOK

(* Every variable of the scheduler keeps its type; in particular no thread *)
(* starts more transactions than its loop allows.                          *)
THEOREM TypeCorrect == Spec => []TypeOK
  BY InitTypeOK, NextTypeOK, PTL DEF Spec

----------------------------------------------------------------------------
(* Which slots a step makes active, and which locks it takes.  Every step  *)
(* but Enqueue and the two Dequeue steps is silent: it changes no counter, *)
(* nor anything of an active slot.                                         *)

Unmoved(u, i) == /\ acc'[u][i] = acc[u][i] /\ writer'[u] = writer[u]
                 /\ ticketW'[u][i] = ticketW[u][i] /\ ticketR'[u][i] = ticketR[u][i]

Silent ==
  /\ UNCHANGED counters
  /\ \A u \in Threads : \A i \in Slots :
       /\ Active(u, i)' <=> Active(u, i)
       /\ Active(u, i) => Unmoved(u, i)

Enqueues(t) ==
  /\ pc[t] = "bump" /\ ~Active(t, slot[t]) /\ UNCHANGED locals
  /\ \A u \in Threads : \A i \in Slots :
       Active(u, i)' <=> Active(u, i) \/ (u = t /\ i = slot[t])

Dequeues(t) ==
  /\ pc[t] = "deq" /\ Active(t, slot[t])
  /\ \A u \in Threads : \A i \in Slots :
       /\ Active(u, i)' <=> Active(u, i) /\ ~(u = t /\ i = slot[t])
       /\ Active(u, i)' => Unmoved(u, i)

LEMMA SilentSteps ==
  ASSUME TypeOK, [Next]_vars
  PROVE  \/ Silent
         \/ \E t \in Threads : Enqueue(t)
         \/ \E t \in Threads : DequeueFirst(t) \/ DequeueSecond(t)
<1> USE DEF TypeControl, Goto, Slots, Silent, Unmoved, counters, locals
<1>0. TypeControl /\ TypeLocals
  BY DEF TypeOK
<1>1. ASSUME NEW t \in Threads, Choose(t) PROVE Silent
  <2>1. \A u \in Threads : \A i \in Slots : Active(u, i)' <=> Active(u, i)
    BY <1>0, <1>1 DEF Choose, Active
  <2>2. \A i \in Slots : ~Active(t, i)
    BY <1>1 DEF Choose, Active
  <2>3. \A u \in Threads : u # t => acc'[u] = acc[u] /\ writer'[u] = writer[u]
    BY <1>0, <1>1 DEF Choose, TypeLocals
  <2> QED
    BY <1>1, <2>1, <2>2, <2>3 DEF Choose
<1>2. ASSUME NEW t \in Threads, ReadTickets(t) PROVE Silent
  <2>1. \A u \in Threads : \A i \in Slots : Active(u, i)' <=> Active(u, i)
    BY <1>0, <1>2 DEF ReadTickets, Active
  <2>2. ~Active(t, slot[t])
    BY <1>0, <1>2 DEF ReadTickets, Active
  <2>3. \A u \in Threads : \A i \in Slots : ~(u = t /\ i = slot[t]) =>
          ticketW'[u][i] = ticketW[u][i] /\ ticketR'[u][i] = ticketR[u][i]
    BY <1>0, <1>2 DEF ReadTickets, TypeLocals
  <2> QED
    BY <1>2, <2>1, <2>2, <2>3 DEF ReadTickets
<1>3. ASSUME NEW t \in Threads, LockHigh(t) \/ LockLow(t) PROVE Silent
  BY <1>0, <1>3 DEF LockHigh, LockLow, Active
<1>4. ASSUME NEW t \in Threads, Release(t) PROVE Silent
  BY <1>0, <1>4 DEF Release, Continue, Active
<1>5. ASSUME NEW t \in Threads, CheckWriters(t) PROVE Silent
  BY <1>0, <1>5 DEF CheckWriters, Continue, Active
<1>6. ASSUME NEW t \in Threads, CheckReaders(t) PROVE Silent
  BY <1>0, <1>6 DEF CheckReaders, Continue, Active
<1>7. ASSUME NEW t \in Threads, XBegin(t) \/ XAbort(t) PROVE Silent
  BY <1>0, <1>7 DEF XBegin, XAbort, Active
<1>8. ASSUME NEW t \in Threads, Load(t) PROVE Silent
  BY <1>0, <1>8 DEF Load, Continue, Active
<1>9. ASSUME NEW t \in Threads, XEnd(t) PROVE Silent
  BY <1>0, <1>9 DEF XEnd, Active
<1>10. CASE UNCHANGED vars
  BY <1>10 DEF vars, Active
<1> QED
  BY <1>1, <1>2, <1>3, <1>4, <1>5, <1>6, <1>7, <1>8, <1>9, <1>10
     DEF Next, Step, Joined

LEMMA EnqueueEnqueues ==
  ASSUME TypeOK, NEW t \in Threads, Enqueue(t)
  PROVE  Enqueues(t)
  BY DEF TypeOK, TypeControl, Goto, Slots, Enqueues, Enqueue, Active, locals

LEMMA DequeueDequeues ==
  ASSUME TypeOK, NEW t \in Threads, DequeueFirst(t) \/ DequeueSecond(t)
  PROVE  Dequeues(t)
<1> USE DEF TypeControl, Goto, Slots, Dequeues, Unmoved, locals
<1>0. TypeControl /\ TypeLocals
  BY DEF TypeOK
<1>1. CASE DequeueFirst(t)
  BY <1>0, <1>1 DEF DequeueFirst, Active
<1>2. CASE DequeueSecond(t)
  <2>1. /\ pc[t] = "deq" /\ Active(t, slot[t])
        /\ \A u \in Threads : \A i \in Slots :
             Active(u, i)' <=> Active(u, i) /\ ~(u = t /\ i = slot[t])
    BY <1>0, <1>2, TxPerThreadAssumption DEF DequeueSecond, Active
  <2>2. \A i \in Slots : ~Active(t, i)'
    BY <1>0, <1>2, <2>1 DEF DequeueSecond, Active
  <2>3. \A u \in Threads : u # t =>
          /\ acc'[u] = acc[u] /\ writer'[u] = writer[u]
          /\ ticketW'[u] = ticketW[u] /\ ticketR'[u] = ticketR[u]
    BY <1>0, <1>2 DEF DequeueSecond, TypeLocals
  <2> QED
    BY <2>1, <2>2, <2>3
<1> QED
  BY <1>1, <1>2

----------------------------------------------------------------------------
(* The locks. *)

LEMMA BothSlots == \A t : {High(t), 3 - High(t)} = Slots
  BY DEF High, Slots

LEMMA NextDistinctAccounts ==
  ASSUME TypeOK, DistinctAccounts, [Next]_vars
  PROVE  DistinctAccounts'
<1> USE DEF DistinctAccounts, TypeControl, Goto, locals
<1>0. TypeControl /\ acc \in [Threads -> [Slots -> Accounts]]
  BY DEF TypeOK, TypeLocals
<1>1. ASSUME NEW t \in Threads, Choose(t) PROVE DistinctAccounts'
  <2>1. acc'[t][1] # acc'[t][2]
    BY <1>0, <1>1, SuccessorAccount DEF Choose, Slots
  <2>2. \A u \in Threads : u # t => acc'[u] = acc[u] /\ pc'[u] = pc[u]
    BY <1>0, <1>1 DEF Choose
  <2> QED
    BY <2>1, <2>2
<1>2. ASSUME NEW t \in Threads, DequeueSecond(t) PROVE DistinctAccounts'
  <2>1. pc'[t] \in {"choose", "done"}
    BY <1>0, <1>2 DEF DequeueSecond
  <2>2. \A u \in Threads : u # t => acc'[u] = acc[u] /\ pc'[u] = pc[u]
    BY <1>0, <1>2 DEF DequeueSecond
  <2> QED
    BY <2>1, <2>2
<1>3. ASSUME NEW t \in Threads, acc' = acc, pc[t] \notin {"choose", "done"},
             \A u \in Threads : u # t => pc'[u] = pc[u]
      PROVE  DistinctAccounts'
  BY <1>3
<1>4. ASSUME NEW t \in Threads, LockHigh(t) \/ LockLow(t) \/ ReadTickets(t)
      PROVE  DistinctAccounts'
  BY <1>0, <1>4 DEF LockHigh, LockLow, ReadTickets
<1>5. ASSUME NEW t \in Threads, Enqueue(t) PROVE DistinctAccounts'
  BY <1>0, <1>5 DEF Enqueue
<1>6. ASSUME NEW t \in Threads, Release(t) \/ CheckWriters(t) \/ CheckReaders(t)
      PROVE  DistinctAccounts'
  BY <1>0, <1>6 DEF Release, CheckWriters, CheckReaders, Continue
<1>7. ASSUME NEW t \in Threads, XBegin(t) \/ XAbort(t) \/ XEnd(t) \/ DequeueFirst(t)
      PROVE  DistinctAccounts'
  BY <1>0, <1>7 DEF XBegin, XAbort, XEnd, DequeueFirst
<1>8. ASSUME NEW t \in Threads, Load(t) PROVE DistinctAccounts'
  BY <1>0, <1>8 DEF Load, Continue
<1>9. CASE UNCHANGED vars
  BY <1>9 DEF vars
<1> QED
  BY <1>1, <1>2, <1>4, <1>5, <1>6, <1>7, <1>8, <1>9 DEF Next, Step, Joined

\* A step that takes no lock: it can only give some back.
Unlocked ==
  \A u \in Threads : \A i \in Slots : Holds(u, i)' =>
    /\ Holds(u, i) /\ acc'[u][i] = acc[u][i]
    /\ order_lock[acc[u][i]] = 1 => order_lock'[acc[u][i]] = 1

LEMMA KeepLockInv ==
  ASSUME LockInv, Unlocked
  PROVE  LockInv'
  BY DEF LockInv, Unlocked

LEMMA NextLockInv ==
  ASSUME TypeOK, DistinctAccounts, LockInv, [Next]_vars
  PROVE  LockInv'
<1> USE DEF TypeControl, Goto, Slots, Unlocked, locals
<1>0. TypeControl /\ TypeLocals /\ order_lock \in [Accounts -> 0 .. 1]
  BY DEF TypeOK, TypeShared
<1>1. ASSUME NEW t \in Threads, Choose(t) PROVE LockInv'
  <2>1. \A i \in Slots : ~Holds(t, i)'
    BY <1>0, <1>1 DEF Choose, Holds
  <2>2. \A u \in Threads : u # t => acc'[u] = acc[u] /\ pc'[u] = pc[u] /\ slot'[u] = slot[u]
    BY <1>0, <1>1 DEF Choose, TypeLocals
  <2>3. \A u \in Threads : \A i \in Slots : u # t => (Holds(u, i)' <=> Holds(u, i))
    BY <2>2 DEF Holds, High
  <2> QED
    BY <1>1, <2>1, <2>2, <2>3, KeepLockInv DEF Choose
<1>2. ASSUME NEW t \in Threads, DequeueSecond(t) PROVE LockInv'
  <2>1. \A i \in Slots : ~Holds(t, i)'
    BY <1>0, <1>2 DEF DequeueSecond, Holds
  <2>2. \A u \in Threads : u # t => acc'[u] = acc[u] /\ pc'[u] = pc[u] /\ slot'[u] = slot[u]
    BY <1>0, <1>2 DEF DequeueSecond, TypeLocals
  <2>3. \A u \in Threads : \A i \in Slots : u # t => (Holds(u, i)' <=> Holds(u, i))
    BY <2>2 DEF Holds, High
  <2> QED
    BY <1>2, <2>1, <2>2, <2>3, KeepLockInv DEF DequeueSecond
<1>3. ASSUME NEW t \in Threads, LockHigh(t) PROVE LockInv'
  <2> DEFINE a == acc[t][High(t)]
  <2>1. order_lock[a] = 0 /\ a \in Accounts /\ acc' = acc
    BY <1>3, CurrentAccount DEF LockHigh, Acquire
  <2>2. \A u \in Threads : \A i \in Slots :
          Holds(u, i)' <=> Holds(u, i) \/ (u = t /\ i = High(t))
    BY <1>0, <1>3 DEF LockHigh, Holds, High
  <2>3. order_lock'[a] = 1 /\ \A b \in Accounts : order_lock[b] = 1 => order_lock'[b] = 1
    BY <1>0, <1>3, <2>1 DEF LockHigh, Acquire
  <2>4. \A u \in Threads : \A i \in Slots : Holds(u, i) => acc[u][i] # a
    BY <2>1 DEF LockInv
  <2>5. \A i \in Slots : ~Holds(t, i)
    BY <1>3 DEF LockHigh, Holds
  <2>6. \A u \in Threads : \A i \in Slots : acc[u][i] \in Accounts
    BY <1>0 DEF TypeLocals
  <2> HIDE DEF a
  <2> QED
    BY <2>1, <2>2, <2>3, <2>4, <2>5, <2>6 DEF LockInv, a
<1>4. ASSUME NEW t \in Threads, LockLow(t) PROVE LockInv'
  <2> DEFINE a == acc[t][3 - High(t)]
  <2>1. order_lock[a] = 0 /\ a \in Accounts /\ acc' = acc
    BY <1>4, CurrentAccount DEF LockLow, Acquire, locals
  <2>2. \A u \in Threads : \A i \in Slots :
          Holds(u, i)' <=> Holds(u, i) \/ (u = t /\ i = 3 - High(t))
    <3>1. \A i \in Slots : Holds(t, i)' /\ (Holds(t, i) \/ i = 3 - High(t))
      BY <1>0, <1>4, BothSlots DEF LockLow, Holds
    <3>2. \A u \in Threads : \A i \in Slots : u # t => (Holds(u, i)' <=> Holds(u, i))
      BY <1>0, <1>4 DEF LockLow, Holds, High
    <3> QED
      BY <3>1, <3>2
  <2>3. order_lock'[a] = 1 /\ \A b \in Accounts : order_lock[b] = 1 => order_lock'[b] = 1
    BY <1>0, <1>4, <2>1 DEF LockLow, Acquire
  <2>4. \A u \in Threads : \A i \in Slots : Holds(u, i) => acc[u][i] # a
    BY <2>1 DEF LockInv
  <2>6. \A u \in Threads : \A i \in Slots : acc[u][i] \in Accounts
    BY <1>0 DEF TypeLocals
  <2> HIDE DEF a
  <2> QED
    BY <2>1, <2>2, <2>3, <2>4, <2>6 DEF LockInv, a
<1>5. ASSUME NEW t \in Threads, Release(t) PROVE LockInv'
  <2>1. \A u \in Threads : \A i \in Slots :
          Holds(u, i)' <=> Holds(u, i) /\ ~(u = t /\ i = slot[t])
    BY <1>0, <1>5 DEF Release, Continue, Holds, High
  <2>2. Holds(t, slot[t]) /\ slot[t] \in Slots
    BY <1>0, <1>5 DEF Release, Holds
  <2>3. acc[t][1] # acc[t][2]
    BY <1>5 DEF Release, DistinctAccounts
  <2>4. \A u \in Threads : \A i \in Slots :
          Holds(u, i) /\ ~(u = t /\ i = slot[t]) => acc[u][i] # acc[t][slot[t]]
    BY <2>2, <2>3 DEF LockInv
  <2>5. acc' = acc /\ order_lock' = [order_lock EXCEPT ![acc[t][slot[t]]] = 0]
    BY <1>5 DEF Release, Current
  <2>6. \A u \in Threads : \A i \in Slots : acc[u][i] \in Accounts
    BY <1>0 DEF TypeLocals
  <2> QED
    BY <1>0, <2>1, <2>4, <2>5, <2>6, KeepLockInv
<1>6. ASSUME NEW t \in Threads, ReadTickets(t) PROVE LockInv'
  BY <1>0, <1>6, KeepLockInv DEF ReadTickets, Holds, High
<1>7. ASSUME NEW t \in Threads, Enqueue(t) PROVE LockInv'
  BY <1>0, <1>7, KeepLockInv DEF Enqueue, Holds, High
<1>8. ASSUME NEW t \in Threads, CheckWriters(t) PROVE LockInv'
  BY <1>0, <1>8, KeepLockInv DEF CheckWriters, Continue, Holds, High
<1>9. ASSUME NEW t \in Threads, CheckReaders(t) PROVE LockInv'
  BY <1>0, <1>9, KeepLockInv DEF CheckReaders, Continue, Holds, High
<1>10. ASSUME NEW t \in Threads, XBegin(t) \/ XAbort(t) \/ XEnd(t) PROVE LockInv'
  BY <1>0, <1>10, KeepLockInv DEF XBegin, XAbort, XEnd, Holds, High
<1>11. ASSUME NEW t \in Threads, Load(t) PROVE LockInv'
  BY <1>0, <1>11, KeepLockInv DEF Load, Continue, Holds, High
<1>12. ASSUME NEW t \in Threads, DequeueFirst(t) PROVE LockInv'
  BY <1>0, <1>12, KeepLockInv DEF DequeueFirst, Holds, High
<1>13. CASE UNCHANGED vars
  BY <1>13, KeepLockInv DEF vars, Holds, High
<1> QED
  BY <1>1, <1>2, <1>3, <1>4, <1>5, <1>6, <1>7, <1>8, <1>9, <1>10, <1>11, <1>12,
     <1>13 DEF Next, Step, Joined

----------------------------------------------------------------------------
(* The tickets that are read and taken under the locks. *)

LEMMA NextReadInv ==
  ASSUME TypeOK, LockInv, ReadInv, [Next]_vars
  PROVE  ReadInv'
<1> USE DEF TypeControl, Goto, locals, counters
<1>0. TypeControl /\ TypeLocals
  BY DEF TypeOK
<1>1. ASSUME NEW t \in Threads, ReadTickets(t) PROVE ReadInv'
  <2>1. Current(t)' = Current(t) /\ slot'[t] = slot[t]
    BY <1>0, <1>1 DEF ReadTickets, Current
  <2>2. ticketW'[t][slot[t]] = enqW[Current(t)] /\ ticketR'[t][slot[t]] = enqR[Current(t)]
    BY <1>0, <1>1 DEF ReadTickets, TypeLocals
  <2>3. \A u \in Threads : u # t =>
          /\ pc'[u] = pc[u] /\ slot'[u] = slot[u] /\ Current(u)' = Current(u)
          /\ ticketW'[u] = ticketW[u] /\ ticketR'[u] = ticketR[u]
    BY <1>0, <1>1 DEF ReadTickets, TypeLocals, Current
  <2>4. enqW' = enqW /\ enqR' = enqR
    BY <1>1 DEF ReadTickets
  <2> QED
    BY <2>1, <2>2, <2>3, <2>4 DEF ReadInv
<1>2. ASSUME NEW t \in Threads, Enqueue(t) PROVE ReadInv'
  <2>1. pc'[t] # "bump" /\ \A u \in Threads : u # t => pc'[u] = pc[u] /\ slot'[u] = slot[u]
    BY <1>0, <1>2 DEF Enqueue
  <2>2. \A u \in Threads : u # t /\ pc[u] = "bump" => Current(u) # Current(t)
    BY <1>0, <1>2 DEF Enqueue, LockInv, Holds, Current
  <2>3. \A u \in Threads : u # t => Current(u)' = Current(u)
    BY <1>2, <2>1 DEF Enqueue, Current
  <2>4. \A a \in Accounts : a # Current(t) => enqW'[a] = enqW[a] /\ enqR'[a] = enqR[a]
    <3>1. enqW \in [Accounts -> Nat] /\ enqR \in [Accounts -> Nat]
      BY DEF TypeOK, TypeShared
    <3> QED
      BY <1>2, <3>1 DEF Enqueue
  <2>5. ticketW' = ticketW /\ ticketR' = ticketR
    BY <1>2 DEF Enqueue
  <2>6. \A u \in Threads : Current(u) \in Accounts
    BY CurrentAccount
  <2> QED
    BY <2>1, <2>2, <2>3, <2>4, <2>5, <2>6 DEF ReadInv
<1>3. ASSUME enqW' = enqW, enqR' = enqR,
             \A u \in Threads : pc'[u] = "bump" =>
               /\ pc[u] = "bump" /\ slot'[u] = slot[u] /\ acc'[u] = acc[u]
               /\ ticketW'[u] = ticketW[u] /\ ticketR'[u] = ticketR[u]
      PROVE  ReadInv'
  BY <1>3 DEF ReadInv, Current
<1>4. ASSUME NEW t \in Threads, Choose(t) PROVE ReadInv'
  BY <1>0, <1>3, <1>4 DEF Choose, TypeLocals
<1>5. ASSUME NEW t \in Threads, LockHigh(t) \/ LockLow(t) PROVE ReadInv'
  BY <1>0, <1>3, <1>5 DEF LockHigh, LockLow
<1>6. ASSUME NEW t \in Threads, Release(t) PROVE ReadInv'
  BY <1>0, <1>3, <1>6 DEF Release, Continue
<1>7. ASSUME NEW t \in Threads, CheckWriters(t) \/ CheckReaders(t) PROVE ReadInv'
  BY <1>0, <1>3, <1>7 DEF CheckWriters, CheckReaders, Continue
<1>8. ASSUME NEW t \in Threads, XBegin(t) \/ XAbort(t) \/ XEnd(t) PROVE ReadInv'
  BY <1>0, <1>3, <1>8 DEF XBegin, XAbort, XEnd
<1>9. ASSUME NEW t \in Threads, Load(t) PROVE ReadInv'
  BY <1>0, <1>3, <1>9 DEF Load, Continue
<1>10. ASSUME NEW t \in Threads, DequeueFirst(t) PROVE ReadInv'
  BY <1>0, <1>3, <1>10 DEF DequeueFirst
<1>11. ASSUME NEW t \in Threads, DequeueSecond(t) PROVE ReadInv'
  <2>1. pc'[t] # "bump" /\ enqW' = enqW /\ enqR' = enqR
    BY <1>0, <1>11 DEF DequeueSecond
  <2>2. \A u \in Threads : u # t =>
          /\ pc'[u] = pc[u] /\ slot'[u] = slot[u] /\ acc'[u] = acc[u]
          /\ ticketW'[u] = ticketW[u] /\ ticketR'[u] = ticketR[u]
    BY <1>0, <1>11 DEF DequeueSecond, TypeLocals
  <2> QED
    BY <1>3, <2>1, <2>2
<1>12. CASE UNCHANGED vars
  BY <1>3, <1>12 DEF vars
<1> QED
  BY <1>1, <1>2, <1>4, <1>5, <1>6, <1>7, <1>8, <1>9, <1>10, <1>11, <1>12
     DEF Next, Step, Joined

LEMMA NextCheckInv ==
  ASSUME TypeOK, CheckInv, [Next]_vars
  PROVE  CheckInv'
<1> USE DEF TypeControl, Goto, locals, CheckInv
<1>0. TypeControl /\ TypeLocals
  BY DEF TypeOK
<1>1. ASSUME NEW t \in Threads, Choose(t) PROVE CheckInv'
  BY <1>0, <1>1 DEF Choose, TypeLocals
<1>2. ASSUME NEW t \in Threads, DequeueSecond(t) PROVE CheckInv'
  BY <1>0, <1>2 DEF DequeueSecond, TypeLocals
<1>3. ASSUME NEW t \in Threads, CheckWriters(t) PROVE CheckInv'
  BY <1>0, <1>3 DEF CheckWriters, Continue
<1>4. ASSUME NEW t \in Threads, CheckReaders(t) PROVE CheckInv'
  BY <1>0, <1>4 DEF CheckReaders, Continue
<1>5. ASSUME writer' = writer,
             \A u \in Threads : pc'[u] = "checkR" => pc[u] = "checkR"
      PROVE  CheckInv'
  BY <1>5
<1>6. ASSUME NEW t \in Threads, LockHigh(t) \/ LockLow(t) \/ ReadTickets(t) PROVE CheckInv'
  BY <1>0, <1>5, <1>6 DEF LockHigh, LockLow, ReadTickets
<1>7. ASSUME NEW t \in Threads, Enqueue(t) PROVE CheckInv'
  BY <1>0, <1>5, <1>7 DEF Enqueue
<1>8. ASSUME NEW t \in Threads, Release(t) \/ Load(t) PROVE CheckInv'
  BY <1>0, <1>5, <1>8 DEF Release, Load, Continue
<1>9. ASSUME NEW t \in Threads, XBegin(t) \/ XAbort(t) \/ XEnd(t) \/ DequeueFirst(t)
      PROVE  CheckInv'
  BY <1>0, <1>5, <1>9 DEF XBegin, XAbort, XEnd, DequeueFirst
<1>10. CASE UNCHANGED vars
  BY <1>5, <1>10 DEF vars
<1> QED
  BY <1>1, <1>2, <1>3, <1>4, <1>6, <1>7, <1>8, <1>9, <1>10 DEF Next, Step, Joined

----------------------------------------------------------------------------
(* Silent steps keep everything that is said about active slots. *)

LEMMA SilentKeeps ==
  ASSUME Silent, BoundsInv, OrderInv, ReadersInv, RBalance
  PROVE  BoundsInv' /\ OrderInv' /\ ReadersInv' /\ RBalance'
<1> USE DEF Silent, Unmoved, counters
<1>1. BoundsInv'
  BY DEF BoundsInv
<1>2. OrderInv'
  BY DEF OrderInv, Meet
<1>3. ReadersInv'
  <2>1. \A t \in Threads : \A i \in Slots :
          Active(t, i) => ReadersBefore(t, i)' = ReadersBefore(t, i)
    BY DEF ReadersBefore, Meet
  <2> QED
    BY <2>1 DEF ReadersInv
<1>4. RBalance'
  <2>1. \A a \in Accounts : ActiveReaders(a)' = ActiveReaders(a)
    BY DEF ActiveReaders
  <2> QED
    BY <2>1 DEF RBalance
<1> QED
  BY <1>1, <1>2, <1>3, <1>4

----------------------------------------------------------------------------
(* Taking a ticket. *)

\* What Enqueue(t) knows and does, in terms of the ticket it takes.
Takes(t) ==
  /\ Enqueues(t)
  /\ ticketW[t][slot[t]] = enqW[Current(t)] /\ ticketR[t][slot[t]] = enqR[Current(t)]
  /\ deqW' = deqW /\ deqR' = deqR
  /\ IF writer[t]
     THEN enqW' = [enqW EXCEPT ![Current(t)] = @ + 1] /\ enqR' = enqR
     ELSE enqR' = [enqR EXCEPT ![Current(t)] = @ + 1] /\ enqW' = enqW
  /\ \A i \in Slots : Active(t, i) => acc[t][i] # Current(t)

LEMMA EnqueueTakes ==
  ASSUME TypeOK, DistinctAccounts, ReadInv, NEW t \in Threads, Enqueue(t)
  PROVE  Takes(t)
<1>1. Enqueues(t)
  BY EnqueueEnqueues
<1>2. ticketW[t][slot[t]] = enqW[Current(t)] /\ ticketR[t][slot[t]] = enqR[Current(t)]
  BY DEF Enqueue, ReadInv
<1>3. \A i \in Slots : Active(t, i) => acc[t][i] # Current(t)
  <2>1. acc[t][1] # acc[t][2] /\ slot[t] \in Slots
    BY DEF Enqueue, DistinctAccounts, TypeOK, TypeControl
  <2>2. ~Active(t, slot[t])
    BY <1>1 DEF Enqueues
  <2> QED
    BY <2>1, <2>2 DEF Slots, Current
<1> QED
  BY <1>1, <1>2, <1>3 DEF Takes, Enqueue

LEMMA TakeBounds ==
  ASSUME TypeOK, BoundsInv, NEW t \in Threads, Takes(t)
  PROVE  BoundsInv'
<1>0. /\ TypeShared /\ TypeLocals /\ slot[t] \in Slots /\ Current(t) \in Accounts
  BY CurrentAccount DEF TypeOK, TypeControl
<1>1. \A a \in Accounts : enqW[a] <= enqW'[a] /\ enqR[a] <= enqR'[a]
  BY <1>0 DEF Takes, TypeShared
<1>2. \A a \in Accounts : deqW'[a] <= enqW'[a]
  BY <1>0, <1>1 DEF BoundsInv, Takes, TypeShared
<1>3. ASSUME NEW u \in Threads, NEW i \in Slots, Active(u, i)'
      PROVE  /\ deqW'[acc'[u][i]] <= ticketW'[u][i]
             /\ ticketW'[u][i] <= enqW'[acc'[u][i]] /\ ticketR'[u][i] <= enqR'[acc'[u][i]]
             /\ writer'[u] => ticketW'[u][i] < enqW'[acc'[u][i]]
             /\ ~writer'[u] => ticketR'[u][i] < enqR'[acc'[u][i]]
  <2>0. /\ acc[u][i] \in Accounts /\ ticketW[u][i] \in Nat /\ ticketR[u][i] \in Nat
        /\ acc' = acc /\ ticketW' = ticketW /\ ticketR' = ticketR /\ writer' = writer
    BY <1>0 DEF TypeLocals, Takes, Enqueues, locals
  <2>1. CASE Active(u, i)
    BY <1>0, <1>1, <2>0, <2>1 DEF BoundsInv, Takes, TypeShared
  <2>2. CASE u = t /\ i = slot[t]
    <3>1. acc[u][i] = Current(t)
      BY <2>2 DEF Current
    <3>2. deqW[Current(t)] <= enqW[Current(t)]
      BY <1>0 DEF BoundsInv
    <3> QED
      BY <1>0, <2>0, <2>2, <3>1, <3>2 DEF Takes, TypeShared
  <2> QED
    BY <1>3, <2>1, <2>2 DEF Takes, Enqueues
<1> QED
  BY <1>2, <1>3 DEF BoundsInv

LEMMA TakeOrder ==
  ASSUME TypeOK, BoundsInv, OrderInv, NEW t \in Threads, Takes(t)
  PROVE  OrderInv'
<1>0. TypeShared /\ TypeLocals /\ slot[t] \in Slots /\ Current(t) \in Accounts
  BY CurrentAccount DEF TypeOK, TypeControl
<1>1. acc' = acc /\ ticketW' = ticketW /\ ticketR' = ticketR /\ writer' = writer
  BY DEF Takes, Enqueues, locals
<1>2. ASSUME NEW u \in Threads, NEW v \in Threads, NEW i \in Slots, NEW j \in Slots,
             writer[u], Meet(u, i, v, j)'
      PROVE  IF writer[v]
             THEN ticketW[u][i] # ticketW[v][j]
             ELSE ticketR[v][j] < ticketR[u][i] <=> ticketW[v][j] <= ticketW[u][i]
  <2>0. /\ u # v /\ acc[u][i] = acc[v][j] /\ acc[u][i] \in Accounts
        /\ ticketW[u][i] \in Nat /\ ticketW[v][j] \in Nat
        /\ ticketR[u][i] \in Nat /\ ticketR[v][j] \in Nat
    BY <1>0, <1>1, <1>2 DEF Meet, TypeLocals
  <2>1. CASE Meet(u, i, v, j)
    BY <1>2, <2>1 DEF OrderInv
  <2>2. CASE u = t /\ i = slot[t] /\ Active(v, j)
    <3>1. /\ acc[v][j] = Current(t) /\ ticketW[v][j] <= enqW[Current(t)]
          /\ writer[v] => ticketW[v][j] < enqW[Current(t)]
          /\ ~writer[v] => ticketR[v][j] < enqR[Current(t)]
      BY <2>0, <2>2 DEF BoundsInv, Current
    <3>2. enqW[Current(t)] \in Nat /\ enqR[Current(t)] \in Nat
      BY <1>0 DEF TypeShared
    <3> QED
      BY <2>0, <2>2, <3>1, <3>2 DEF Takes
  <2>3. CASE v = t /\ j = slot[t] /\ Active(u, i)
    <3>1. /\ acc[u][i] = Current(t) /\ ticketR[u][i] <= enqR[Current(t)]
          /\ ticketW[u][i] < enqW[Current(t)]
      BY <1>2, <2>0, <2>3 DEF BoundsInv, Current
    <3>2. enqW[Current(t)] \in Nat /\ enqR[Current(t)] \in Nat
      BY <1>0 DEF TypeShared
    <3> QED
      BY <2>0, <2>3, <3>1, <3>2 DEF Takes
  <2> QED
    BY <1>1, <1>2, <2>1, <2>2, <2>3 DEF Meet, Takes, Enqueues
<1> QED
  BY <1>1, <1>2 DEF OrderInv

LEMMA FiniteReaders ==
  /\ \A t : \A i : IsFiniteSet(ReadersBefore(t, i))
  /\ \A a : IsFiniteSet(ActiveReaders(a))
  BY ThreadsAssumption, FS_Subset DEF ReadersBefore, ActiveReaders

LEMMA TakeReaders ==
  ASSUME TypeOK, BoundsInv, OrderInv, ReadersInv, RBalance, NEW t \in Threads, Takes(t)
  PROVE  ReadersInv'
<1>0. TypeShared /\ TypeLocals /\ slot[t] \in Slots /\ Current(t) \in Accounts
  BY CurrentAccount DEF TypeOK, TypeControl
<1>1. acc' = acc /\ ticketR' = ticketR /\ writer' = writer /\ deqR' = deqR
  BY DEF Takes, Enqueues, locals
<1>2. \A u \in Threads : \A i \in Slots :
        Active(u, i)' <=> Active(u, i) \/ (u = t /\ i = slot[t])
  BY DEF Takes, Enqueues
<1>3. ASSUME NEW u \in Threads, NEW i \in Slots, writer[u], Active(u, i)
      PROVE  ReadersBefore(u, i)' = ReadersBefore(u, i)
  <2>1. ASSUME acc[u][i] = Current(t), ~writer[t]
        PROVE  ~(ticketR[t][slot[t]] < ticketR[u][i])
    <3>1. ticketR[u][i] <= enqR[Current(t)] /\ ticketR[t][slot[t]] = enqR[Current(t)]
      BY <1>3, <2>1 DEF BoundsInv, Takes
    <3>2. enqR[Current(t)] \in Nat /\ ticketR[u][i] \in Nat
      BY <1>0 DEF TypeShared, TypeLocals
    <3> QED
      BY <3>1, <3>2
  <2> QED
    BY <1>1, <1>2, <1>3, <2>1 DEF ReadersBefore, Meet, Current
<1>4. ASSUME NEW s \in Slots, NEW a \in Accounts, s = slot[t], a = Current(t), writer[t]
      PROVE  ReadersBefore(t, s)' = ActiveReaders(a)
  <2>1. \A u \in Threads : \A j \in Slots :
          ~writer[u] /\ Active(u, j) /\ acc[u][j] = a
            => u # t /\ ticketR[u][j] < ticketR[t][s]
    BY <1>4 DEF BoundsInv, Takes
  <2> QED
    BY <1>0, <1>1, <1>2, <1>4, <2>1 DEF ReadersBefore, ActiveReaders, Meet, Current
<1>5. ASSUME NEW u \in Threads, NEW i \in Slots, writer[u], Active(u, i)'
      PROVE  deqR[acc[u][i]] + Cardinality(ReadersBefore(u, i)') = ticketR[u][i]
  <2>1. CASE Active(u, i)
    BY <1>3, <1>5, <2>1 DEF ReadersInv
  <2>2. CASE u = t /\ i = slot[t]
    <3>1. ReadersBefore(u, i)' = ActiveReaders(Current(t))
      BY <1>0, <1>4, <1>5, <2>2
    <3>2. acc[u][i] = Current(t) /\ ticketR[u][i] = enqR[Current(t)]
      BY <2>2 DEF Takes, Current
    <3> QED
      BY <1>0, <3>1, <3>2 DEF RBalance
  <2> QED
    BY <1>2, <1>5, <2>1, <2>2
<1> QED
  BY <1>1, <1>5 DEF ReadersInv

LEMMA TakeBalance ==
  ASSUME TypeOK, RBalance, NEW t \in Threads, Takes(t)
  PROVE  RBalance'
<1>0. TypeShared /\ slot[t] \in Slots /\ Current(t) \in Accounts
  BY CurrentAccount DEF TypeOK, TypeControl
<1>1. acc' = acc /\ writer' = writer /\ deqR' = deqR
  BY DEF Takes, Enqueues, locals
<1>2. \A u \in Threads : \A i \in Slots :
        Active(u, i)' <=> Active(u, i) \/ (u = t /\ i = slot[t])
  BY DEF Takes, Enqueues
<1>3. ASSUME NEW a \in Accounts, writer[t] \/ a # Current(t)
      PROVE  ActiveReaders(a)' = ActiveReaders(a) /\ enqR'[a] = enqR[a]
  <2>1. ActiveReaders(a)' = ActiveReaders(a)
    BY <1>1, <1>2, <1>3 DEF ActiveReaders, Current
  <2>2. enqR'[a] = enqR[a]
    BY <1>0, <1>3 DEF Takes, TypeShared
  <2> QED
    BY <2>1, <2>2
<1>4. ASSUME NEW a \in Accounts, a = Current(t), ~writer[t]
      PROVE  /\ ActiveReaders(a)' = ActiveReaders(a) \union {t}
             /\ t \notin ActiveReaders(a)
             /\ enqR'[a] = enqR[a] + 1
  <2>1. ActiveReaders(a)' = ActiveReaders(a) \union {t}
    BY <1>0, <1>1, <1>2, <1>4 DEF ActiveReaders, Current
  <2>2. t \notin ActiveReaders(a)
    BY <1>4 DEF ActiveReaders, Takes
  <2>3. enqR'[a] = enqR[a] + 1
    BY <1>0, <1>4 DEF Takes, TypeShared
  <2> QED
    BY <2>1, <2>2, <2>3
<1>5. ASSUME NEW a \in Accounts
      PROVE  enqR'[a] = deqR[a] + Cardinality(ActiveReaders(a)')
  <2>1. CASE writer[t] \/ a # Current(t)
    BY <1>3, <2>1 DEF RBalance
  <2>2. CASE ~writer[t] /\ a = Current(t)
    <3>1. /\ IsFiniteSet(ActiveReaders(a)) /\ Cardinality(ActiveReaders(a)) \in Nat
          /\ Cardinality(ActiveReaders(a) \union {t}) = Cardinality(ActiveReaders(a)) + 1
      BY <1>4, <2>2, FiniteReaders, FS_AddElement, FS_CardinalityType
    <3>2. enqR[a] = deqR[a] + Cardinality(ActiveReaders(a)) /\ deqR[a] \in Nat
      BY <1>0 DEF RBalance, TypeShared
    <3> QED
      BY <1>4, <2>2, <3>1, <3>2
  <2> QED
    BY <2>1, <2>2
<1> QED
  BY <1>1, <1>5 DEF RBalance

----------------------------------------------------------------------------
(* Giving a ticket back. *)

\* What DequeueFirst(t) and DequeueSecond(t) know and do.
Leaves(t) ==
  /\ Dequeues(t)
  /\ ticketW[t][slot[t]] = deqW[Current(t)]
  /\ writer[t] => ticketR[t][slot[t]] = deqR[Current(t)]
  /\ enqW' = enqW /\ enqR' = enqR
  /\ IF writer[t]
     THEN deqW' = [deqW EXCEPT ![Current(t)] = @ + 1] /\ deqR' = deqR
     ELSE deqR' = [deqR EXCEPT ![Current(t)] = @ + 1] /\ deqW' = deqW
  /\ \A i \in Slots : i # slot[t] => acc[t][i] # Current(t)

LEMMA DequeueLeaves ==
  ASSUME TypeOK, DistinctAccounts, SeenInv, NEW t \in Threads,
         DequeueFirst(t) \/ DequeueSecond(t)
  PROVE  Leaves(t)
<1>1. Dequeues(t)
  BY DequeueDequeues
<1>2. slot[t] \in Slots /\ pc[t] = "deq"
  BY <1>1 DEF TypeOK, TypeControl, Dequeues
<1>3. ticketW[t][slot[t]] = deqW[Current(t)]
  BY <1>2 DEF SeenInv, SawWriters, Current, Slots
<1>4. writer[t] => ticketR[t][slot[t]] = deqR[Current(t)]
  BY <1>2 DEF SeenInv, SawReaders, Current, Slots
<1>5. \A i \in Slots : i # slot[t] => acc[t][i] # Current(t)
  BY <1>2 DEF DistinctAccounts, Current, Slots
<1> QED
  BY <1>1, <1>3, <1>4, <1>5 DEF Leaves, DequeueFirst, DequeueSecond, Advance

\* A writer that has seen the readers' counter at its ticket has no reader
\* before it left.
LEMMA NoReadersBefore ==
  ASSUME TypeOK, ReadersInv, NEW t \in Threads, NEW i \in Slots,
         writer[t], Active(t, i), ticketR[t][i] = deqR[acc[t][i]]
  PROVE  ReadersBefore(t, i) = {}
<1> DEFINE n == Cardinality(ReadersBefore(t, i))
<1>1. deqR[acc[t][i]] + n = deqR[acc[t][i]]
  BY DEF ReadersInv
<1>2. IsFiniteSet(ReadersBefore(t, i)) /\ n \in Nat
  BY FiniteReaders, FS_CardinalityType
<1>3. deqR[acc[t][i]] \in Nat
  BY DEF TypeOK, TypeShared, TypeLocals
<1>4. n = 0
  <2> HIDE DEF n
  <2> QED
    BY <1>1, <1>2, <1>3
<1> QED
  BY <1>2, <1>4, FS_EmptySet

\* Nobody else on the account of a writer that is next has the same ticket.
LEMMA WriterIsAlone ==
  ASSUME TypeOK, OrderInv, ReadersInv, NEW t \in Threads, NEW i \in Slots,
         NEW u \in Threads, NEW j \in Slots, Meet(t, i, u, j),
         writer[t], ticketR[t][i] = deqR[acc[t][i]]
  PROVE  ticketW[u][j] # ticketW[t][i]
<1>1. CASE writer[u]
  BY <1>1 DEF OrderInv
<1>2. CASE ~writer[u]
  <2>1. ReadersBefore(t, i) = {}
    BY NoReadersBefore DEF Meet
  <2>2. ~(ticketR[u][j] < ticketR[t][i])
    BY <1>2, <2>1 DEF ReadersBefore
  <2>3. ticketW[u][j] \in Nat /\ ticketW[t][i] \in Nat
    BY DEF TypeOK, TypeLocals
  <2> QED
    BY <1>2, <2>2, <2>3 DEF OrderInv
<1> QED
  BY <1>1, <1>2

LEMMA LeaveBounds ==
  ASSUME TypeOK, BoundsInv, OrderInv, ReadersInv, NEW t \in Threads, Leaves(t)
  PROVE  BoundsInv'
<1>0. TypeShared /\ TypeLocals /\ slot[t] \in Slots /\ Current(t) \in Accounts
  BY CurrentAccount DEF TypeOK, TypeControl
<1>1. writer[t] => ticketW[t][slot[t]] < enqW[Current(t)]
  BY <1>0 DEF BoundsInv, Leaves, Dequeues, Current
<1>2. \A a \in Accounts : deqW'[a] <= enqW'[a]
  BY <1>0, <1>1 DEF BoundsInv, Leaves, TypeShared
<1>3. ASSUME NEW u \in Threads, NEW i \in Slots, Active(u, i)'
      PROVE  /\ deqW'[acc'[u][i]] <= ticketW'[u][i]
             /\ ticketW'[u][i] <= enqW'[acc'[u][i]] /\ ticketR'[u][i] <= enqR'[acc'[u][i]]
             /\ writer'[u] => ticketW'[u][i] < enqW'[acc'[u][i]]
             /\ ~writer'[u] => ticketR'[u][i] < enqR'[acc'[u][i]]
  <2>1. /\ Active(u, i) /\ Unmoved(u, i) /\ ~(u = t /\ i = slot[t])
        /\ enqW' = enqW /\ enqR' = enqR
    BY <1>3 DEF Leaves, Dequeues
  <2>2. /\ deqW[acc[u][i]] <= ticketW[u][i]
        /\ ticketW[u][i] <= enqW[acc[u][i]] /\ ticketR[u][i] <= enqR[acc[u][i]]
        /\ writer[u] => ticketW[u][i] < enqW[acc[u][i]]
        /\ ~writer[u] => ticketR[u][i] < enqR[acc[u][i]]
    BY <2>1 DEF BoundsInv
  <2>3. deqW'[acc[u][i]] <= ticketW[u][i]
    <3>0. acc[u][i] \in Accounts /\ ticketW[u][i] \in Nat
      BY <1>0 DEF TypeLocals
    <3>1. CASE ~writer[t] \/ acc[u][i] # Current(t)
      BY <1>0, <2>2, <3>0, <3>1 DEF Leaves, TypeShared
    <3>2. CASE writer[t] /\ acc[u][i] = Current(t)
      <4>1. Meet(t, slot[t], u, i)
        BY <1>0, <2>1, <3>2 DEF Meet, Leaves, Dequeues, Current
      <4>2. ticketW[u][i] # deqW[Current(t)]
        BY <1>0, <3>2, <4>1, WriterIsAlone DEF Leaves, Current
      <4>3. deqW'[Current(t)] = deqW[Current(t)] + 1 /\ deqW[Current(t)] \in Nat
        BY <1>0, <3>2 DEF Leaves, TypeShared
      <4> QED
        BY <2>2, <3>0, <3>2, <4>2, <4>3
    <3> QED
      BY <3>1, <3>2
  <2> QED
    BY <2>1, <2>2, <2>3 DEF Unmoved
<1> QED
  BY <1>2, <1>3 DEF BoundsInv

LEMMA LeaveOrder ==
  ASSUME OrderInv, NEW t \in Threads, Leaves(t)
  PROVE  OrderInv'
  BY DEF OrderInv, Meet, Leaves, Dequeues, Unmoved

\* A reader that gives its ticket back stood before every writer still there.
LEMMA ReaderWasBefore ==
  ASSUME TypeOK, BoundsInv, OrderInv, NEW t \in Threads, Leaves(t), ~writer[t],
         NEW u \in Threads, NEW i \in Slots,
         writer[u], Active(u, i), acc[u][i] = Current(t)
  PROVE  t \in ReadersBefore(u, i)
<1>0. slot[t] \in Slots
  BY DEF TypeOK, TypeControl
<1>1. Meet(u, i, t, slot[t])
  BY <1>0 DEF Meet, Leaves, Dequeues, Current
<1>2. ticketW[t][slot[t]] <= ticketW[u][i]
  BY DEF BoundsInv, Leaves
<1>3. ticketR[t][slot[t]] < ticketR[u][i]
  BY <1>0, <1>1, <1>2 DEF OrderInv
<1> QED
  BY <1>0, <1>1, <1>3 DEF ReadersBefore

LEMMA LeaveReaders ==
  ASSUME TypeOK, BoundsInv, OrderInv, ReadersInv, NEW t \in Threads, Leaves(t)
  PROVE  ReadersInv'
<1>0. TypeShared /\ TypeLocals /\ slot[t] \in Slots /\ Current(t) \in Accounts
  BY CurrentAccount DEF TypeOK, TypeControl
<1>1. \A v \in Threads : \A j \in Slots :
        /\ Active(v, j)' <=> Active(v, j) /\ ~(v = t /\ j = slot[t])
        /\ Active(v, j)' => Unmoved(v, j)
  BY DEF Leaves, Dequeues
<1>2. ASSUME NEW u \in Threads, NEW i \in Slots, writer'[u], Active(u, i)'
      PROVE  deqR'[acc'[u][i]] + Cardinality(ReadersBefore(u, i)') = ticketR'[u][i]
  <2>1. writer[u] /\ Active(u, i) /\ Unmoved(u, i) /\ acc[u][i] \in Accounts
    <3>1. Active(u, i) /\ Unmoved(u, i)
      BY <1>1, <1>2
    <3>2. writer[u]
      BY <1>2, <3>1 DEF Unmoved
    <3>3. acc[u][i] \in Accounts
      BY <1>0 DEF TypeLocals
    <3> QED
      BY <3>1, <3>2, <3>3
  <2>2. deqR[acc[u][i]] + Cardinality(ReadersBefore(u, i)) = ticketR[u][i]
    BY <2>1 DEF ReadersInv
  <2>3. CASE ~writer[t] /\ acc[u][i] = Current(t)
    <3>1. u # t
      BY <2>1, <2>3
    <3>2. ReadersBefore(u, i)' = ReadersBefore(u, i) \ {t}
      BY <1>0, <1>1, <1>2, <2>1, <2>3 DEF ReadersBefore, Meet, Unmoved, Leaves, Current
    <3>3. t \in ReadersBefore(u, i)
      BY <2>1, <2>3, ReaderWasBefore
    <3>4. /\ Cardinality(ReadersBefore(u, i)) \in Nat
          /\ Cardinality(ReadersBefore(u, i) \ {t}) = Cardinality(ReadersBefore(u, i)) - 1
      BY <3>3, FiniteReaders, FS_RemoveElement, FS_CardinalityType
    <3>5. deqR'[acc[u][i]] = deqR[acc[u][i]] + 1 /\ deqR[acc[u][i]] \in Nat
      BY <1>0, <2>3 DEF Leaves, TypeShared
    <3> QED
      BY <2>1, <2>2, <3>2, <3>4, <3>5 DEF Unmoved
  <2>4. CASE writer[t] \/ acc[u][i] # Current(t)
    <3>1. ReadersBefore(u, i)' = ReadersBefore(u, i)
      BY <1>0, <1>1, <1>2, <2>1, <2>4 DEF ReadersBefore, Meet, Unmoved, Current
    <3>2. deqR'[acc[u][i]] = deqR[acc[u][i]]
      BY <1>0, <2>1, <2>4 DEF Leaves, TypeShared
    <3> QED
      BY <2>1, <2>2, <3>1, <3>2 DEF Unmoved
  <2> QED
    BY <2>3, <2>4
<1> QED
  BY <1>2 DEF ReadersInv

LEMMA LeaveBalance ==
  ASSUME TypeOK, RBalance, NEW t \in Threads, Leaves(t)
  PROVE  RBalance'
<1>0. TypeShared /\ slot[t] \in Slots /\ Current(t) \in Accounts
  BY CurrentAccount DEF TypeOK, TypeControl
<1>1. \A v \in Threads : \A j \in Slots :
        /\ Active(v, j)' <=> Active(v, j) /\ ~(v = t /\ j = slot[t])
        /\ Active(v, j)' => Unmoved(v, j)
  BY DEF Leaves, Dequeues
<1>2. ASSUME NEW a \in Accounts
      PROVE  enqR'[a] = deqR'[a] + Cardinality(ActiveReaders(a)')
  <2>1. enqR'[a] = deqR[a] + Cardinality(ActiveReaders(a))
    BY DEF RBalance, Leaves
  <2>2. CASE ~writer[t] /\ a = Current(t)
    <3>1. ActiveReaders(a)' = ActiveReaders(a) \ {t}
      BY <1>0, <1>1, <2>2 DEF ActiveReaders, Unmoved, Leaves, Current
    <3>2. t \in ActiveReaders(a)
      BY <1>0, <2>2 DEF ActiveReaders, Leaves, Dequeues, Current
    <3>3. /\ Cardinality(ActiveReaders(a)) \in Nat
          /\ Cardinality(ActiveReaders(a) \ {t}) = Cardinality(ActiveReaders(a)) - 1
      BY <3>2, FiniteReaders, FS_RemoveElement, FS_CardinalityType
    <3>4. deqR'[a] = deqR[a] + 1 /\ deqR[a] \in Nat
      BY <1>0, <2>2 DEF Leaves, TypeShared
    <3> QED
      BY <2>1, <3>1, <3>3, <3>4
  <2>3. CASE writer[t] \/ a # Current(t)
    <3>1. ActiveReaders(a)' = ActiveReaders(a)
      BY <1>0, <1>1, <2>3 DEF ActiveReaders, Unmoved, Current
    <3>2. deqR'[a] = deqR[a]
      BY <1>0, <2>3 DEF Leaves, TypeShared
    <3> QED
      BY <2>1, <3>1, <3>2
  <2> QED
    BY <2>2, <2>3
<1> QED
  BY <1>2 DEF RBalance

----------------------------------------------------------------------------
(* What a thread has seen of the dequeue counters stays true. *)

LEMMA SeenIsActive ==
  ASSUME TypeOK, NEW t \in Threads, NEW i \in Slots
  PROVE  (SawWriters(t, i) => Active(t, i)) /\ (SawReaders(t, i) => Active(t, i))
  BY DEF SawWriters, SawReaders, Active

\* A step after which nobody has seen more, and the counters it has seen stand.
KeepSeen ==
  \A u \in Threads : \A i \in Slots :
    /\ SawWriters(u, i)' =>
         /\ SawWriters(u, i) /\ Unmoved(u, i) /\ deqW'[acc[u][i]] = deqW[acc[u][i]]
    /\ SawReaders(u, i)' =>
         /\ SawReaders(u, i) /\ Unmoved(u, i)
         /\ writer[u] => deqR'[acc[u][i]] = deqR[acc[u][i]]

LEMMA KeepSeenInv ==
  ASSUME SeenInv, KeepSeen
  PROVE  SeenInv'
  BY DEF SeenInv, KeepSeen, Unmoved

LEMMA LeaveSeen ==
  ASSUME TypeOK, BoundsInv, OrderInv, ReadersInv, SeenInv, NEW t \in Threads, Leaves(t),
         NEW u \in Threads, NEW i \in Slots, Active(u, i), ~(u = t /\ i = slot[t])
  PROVE  /\ SawWriters(u, i) => deqW'[acc[u][i]] = deqW[acc[u][i]]
         /\ SawReaders(u, i) /\ writer[u] => deqR'[acc[u][i]] = deqR[acc[u][i]]
<1>0. /\ TypeShared /\ TypeLocals /\ slot[t] \in Slots /\ Current(t) \in Accounts
      /\ acc[u][i] \in Accounts
  BY CurrentAccount DEF TypeOK, TypeControl, TypeLocals
<1>1. CASE acc[u][i] # Current(t)
  BY <1>0, <1>1 DEF Leaves, TypeShared
<1>2. CASE acc[u][i] = Current(t)
  <2>1. Meet(t, slot[t], u, i)
    BY <1>0, <1>2 DEF Meet, Leaves, Dequeues, Current
  <2>2. ASSUME SawWriters(u, i), writer[t] PROVE FALSE
    <3>1. ticketW[u][i] = deqW[Current(t)]
      BY <1>2, <2>2 DEF SeenInv
    <3>2. ticketW[u][i] # ticketW[t][slot[t]]
      BY <1>0, <2>1, <2>2, WriterIsAlone DEF Leaves, Current
    <3> QED
      BY <3>1, <3>2 DEF Leaves
  <2>3. ASSUME SawReaders(u, i), writer[u], ~writer[t] PROVE FALSE
    <3>1. t \in ReadersBefore(u, i)
      BY <1>2, <2>3, ReaderWasBefore
    <3>2. ticketR[u][i] = deqR[acc[u][i]]
      BY <2>3 DEF SeenInv
    <3> QED
      BY <2>3, <3>1, <3>2, NoReadersBefore
  <2> QED
    BY <2>2, <2>3 DEF Leaves
<1> QED
  BY <1>1, <1>2

LEMMA NextSeenInv ==
  ASSUME TypeOK, DistinctAccounts, BoundsInv, OrderInv, ReadersInv, SeenInv, CheckInv,
         [Next]_vars
  PROVE  SeenInv'
<1> USE DEF TypeControl, Goto, Slots, locals, counters
<1>0. TypeControl /\ TypeLocals
  BY DEF TypeOK
<1>1. ASSUME NEW t \in Threads, CheckWriters(t) PROVE SeenInv'
  <2>1. \A u \in Threads : u # t => pc'[u] = pc[u] /\ slot'[u] = slot[u]
    BY <1>0, <1>1 DEF CheckWriters, Continue
  <2>2. UNCHANGED <<deqW, deqR, locals>>
    BY <1>1 DEF CheckWriters
  <2>3. ASSUME NEW i \in Slots, SawWriters(t, i)'
        PROVE  ticketW[t][i] = deqW[acc[t][i]]
    <3>1. SawWriters(t, i) \/ (i = slot[t] /\ ticketW[t][i] = deqW[acc[t][i]])
      BY <1>0, <1>1, <2>3 DEF CheckWriters, Continue, SawWriters, Current
    <3> QED
      BY <3>1 DEF SeenInv
  <2>4. ASSUME NEW i \in Slots PROVE ~(writer[t] /\ SawReaders(t, i)')
    BY <1>0, <1>1 DEF CheckWriters, Continue, SawReaders
  <2>5. \A u \in Threads : \A i \in Slots : u # t =>
          (SawWriters(u, i)' <=> SawWriters(u, i)) /\ (SawReaders(u, i)' <=> SawReaders(u, i))
    BY <2>1 DEF SawWriters, SawReaders
  <2> QED
    BY <2>2, <2>3, <2>4, <2>5 DEF SeenInv
<1>2. ASSUME NEW t \in Threads, CheckReaders(t) PROVE SeenInv'
  <2>1. \A u \in Threads : u # t => pc'[u] = pc[u] /\ slot'[u] = slot[u]
    BY <1>0, <1>2 DEF CheckReaders, Continue
  <2>2. UNCHANGED <<deqW, deqR, locals>>
    BY <1>2 DEF CheckReaders
  <2>3. \A i \in Slots : SawWriters(t, i)
    BY <1>2 DEF CheckReaders, SawWriters
  <2>4. ASSUME NEW i \in Slots, SawReaders(t, i)'
        PROVE  ticketR[t][i] = deqR[acc[t][i]]
    <3>1. SawReaders(t, i) \/ (i = slot[t] /\ ticketR[t][i] = deqR[acc[t][i]])
      BY <1>0, <1>2, <2>4 DEF CheckReaders, Continue, SawReaders, Current
    <3>2. writer[t]
      BY <1>2 DEF CheckReaders, CheckInv
    <3> QED
      BY <3>1, <3>2 DEF SeenInv
  <2>5. \A u \in Threads : \A i \in Slots : u # t =>
          (SawWriters(u, i)' <=> SawWriters(u, i)) /\ (SawReaders(u, i)' <=> SawReaders(u, i))
    BY <2>1 DEF SawWriters, SawReaders
  <2> QED
    BY <2>2, <2>3, <2>4, <2>5 DEF SeenInv
<1>3. ASSUME NEW t \in Threads, DequeueFirst(t) \/ DequeueSecond(t) PROVE SeenInv'
  <2>1. Leaves(t)
    BY <1>3, DequeueLeaves
  <2>2. \A u \in Threads : \A i \in Slots :
          /\ SawWriters(u, i)' => SawWriters(u, i) /\ Active(u, i)'
          /\ SawReaders(u, i)' => SawReaders(u, i) /\ Active(u, i)'
    <3>1. CASE DequeueFirst(t)
      BY <1>0, <3>1 DEF DequeueFirst, SawWriters, SawReaders, Active
    <3>2. CASE DequeueSecond(t)
      BY <1>0, <3>2 DEF DequeueSecond, SawWriters, SawReaders, Active
    <3> QED
      BY <1>3, <3>1, <3>2
  <2>3. \A u \in Threads : \A i \in Slots : Active(u, i)' =>
          Active(u, i) /\ Unmoved(u, i) /\ ~(u = t /\ i = slot[t])
    BY <2>1 DEF Leaves, Dequeues
  <2>4. KeepSeen
    BY <2>1, <2>2, <2>3, LeaveSeen DEF KeepSeen
  <2> QED
    BY <2>4, KeepSeenInv
<1>4. ASSUME UNCHANGED <<deqW, deqR>>,
             \A u \in Threads : \A i \in Slots :
               /\ SawWriters(u, i)' => SawWriters(u, i) /\ Unmoved(u, i)
               /\ SawReaders(u, i)' => SawReaders(u, i) /\ Unmoved(u, i)
      PROVE  SeenInv'
  BY <1>4, KeepSeenInv DEF KeepSeen
<1>5. ASSUME NEW t \in Threads, Choose(t) PROVE SeenInv'
  <2>1. \A i \in Slots : ~SawWriters(t, i)' /\ ~SawReaders(t, i)'
    BY <1>0, <1>5 DEF Choose, SawWriters, SawReaders
  <2>2. \A u \in Threads : u # t =>
          /\ pc'[u] = pc[u] /\ slot'[u] = slot[u] /\ acc'[u] = acc[u] /\ writer'[u] = writer[u]
          /\ ticketW'[u] = ticketW[u] /\ ticketR'[u] = ticketR[u]
    BY <1>0, <1>5 DEF Choose, TypeLocals
  <2>3. UNCHANGED <<deqW, deqR>>
    BY <1>5 DEF Choose
  <2> QED
    BY <1>4, <2>1, <2>2, <2>3 DEF SawWriters, SawReaders, Unmoved
<1>6. ASSUME NEW t \in Threads, ReadTickets(t) PROVE SeenInv'
  <2>1. \A i \in Slots : ~SawWriters(t, i)' /\ ~SawReaders(t, i)'
    BY <1>0, <1>6 DEF ReadTickets, SawWriters, SawReaders
  <2>2. \A u \in Threads : u # t =>
          /\ pc'[u] = pc[u] /\ slot'[u] = slot[u] /\ acc'[u] = acc[u] /\ writer'[u] = writer[u]
          /\ ticketW'[u] = ticketW[u] /\ ticketR'[u] = ticketR[u]
    BY <1>0, <1>6 DEF ReadTickets, TypeLocals
  <2>3. UNCHANGED <<deqW, deqR>>
    BY <1>6 DEF ReadTickets
  <2> QED
    BY <1>4, <2>1, <2>2, <2>3 DEF SawWriters, SawReaders, Unmoved
<1>7. ASSUME NEW t \in Threads, LockHigh(t) \/ LockLow(t) PROVE SeenInv'
  BY <1>0, <1>4, <1>7 DEF LockHigh, LockLow, SawWriters, SawReaders, Unmoved
<1>8. ASSUME NEW t \in Threads, Enqueue(t) PROVE SeenInv'
  BY <1>0, <1>4, <1>8 DEF Enqueue, SawWriters, SawReaders, Unmoved
<1>9. ASSUME NEW t \in Threads, Release(t) PROVE SeenInv'
  BY <1>0, <1>4, <1>9 DEF Release, Continue, SawWriters, SawReaders, Unmoved
<1>10. ASSUME NEW t \in Threads, XBegin(t) \/ XAbort(t) \/ XEnd(t) PROVE SeenInv'
  BY <1>0, <1>4, <1>10 DEF XBegin, XAbort, XEnd, SawWriters, SawReaders, Unmoved
<1>11. ASSUME NEW t \in Threads, Load(t) PROVE SeenInv'
  BY <1>0, <1>4, <1>11 DEF Load, Continue, SawWriters, SawReaders, Unmoved
<1>12. CASE UNCHANGED vars
  BY <1>4, <1>12 DEF vars, SawWriters, SawReaders, Unmoved
<1> QED
  BY <1>1, <1>2, <1>3, <1>5, <1>6, <1>7, <1>8, <1>9, <1>10, <1>11, <1>12
     DEF Next, Step, Joined

----------------------------------------------------------------------------
(* The inductive invariant. *)

LEMMA InitIInv == Init => IInv
<1> SUFFICES ASSUME Init PROVE IInv
  OBVIOUS
<1>1. TypeOK
  BY InitTypeOK
<1>2. \A t \in Threads : pc[t] = "choose"
  BY DEF Init
<1>3. \A t \in Threads : \A i \in Slots :
        ~Active(t, i) /\ ~Holds(t, i) /\ ~SawWriters(t, i) /\ ~SawReaders(t, i)
  BY <1>2 DEF Active, Holds, SawWriters, SawReaders
<1>4. DistinctAccounts /\ LockInv /\ ReadInv /\ CheckInv /\ SeenInv
  BY <1>2, <1>3 DEF DistinctAccounts, LockInv, ReadInv, CheckInv, SeenInv
<1>5. BoundsInv
  BY <1>3 DEF Init, BoundsInv
<1>6. OrderInv /\ ReadersInv
  BY <1>3 DEF OrderInv, Meet, ReadersInv
<1>7. RBalance
  <2>1. \A a \in Accounts : ActiveReaders(a) = {}
    BY <1>3 DEF ActiveReaders
  <2> QED
    BY <2>1, FS_EmptySet DEF Init, RBalance
<1> QED
  BY <1>1, <1>4, <1>5, <1>6, <1>7 DEF IInv

LEMMA NextIInv == IInv /\ [Next]_vars => IInv'
<1> SUFFICES ASSUME IInv, [Next]_vars PROVE IInv'
  OBVIOUS
<1> USE DEF IInv
<1>1. TypeOK'
  BY NextTypeOK
<1>2. DistinctAccounts' /\ LockInv' /\ ReadInv' /\ CheckInv'
  BY NextDistinctAccounts, NextLockInv, NextReadInv, NextCheckInv
<1>3. SeenInv'
  BY NextSeenInv
<1>4. BoundsInv' /\ OrderInv' /\ ReadersInv' /\ RBalance'
  <2>1. CASE Silent
    BY <2>1, SilentKeeps
  <2>2. ASSUME NEW t \in Threads, Enqueue(t)
        PROVE  BoundsInv' /\ OrderInv' /\ ReadersInv' /\ RBalance'
    <3>1. Takes(t)
      BY <2>2, EnqueueTakes
    <3> QED
      BY <3>1, TakeBounds, TakeOrder, TakeReaders, TakeBalance
  <2>3. ASSUME NEW t \in Threads, DequeueFirst(t) \/ DequeueSecond(t)
        PROVE  BoundsInv' /\ OrderInv' /\ ReadersInv' /\ RBalance'
    <3>1. Leaves(t)
      BY <2>3, DequeueLeaves
    <3> QED
      BY <3>1, LeaveBounds, LeaveOrder, LeaveReaders, LeaveBalance
  <2> QED
    BY <2>1, <2>2, <2>3, SilentSteps
<1> QED
  BY <1>1, <1>2, <1>3, <1>4

(* The inductive invariant holds in every reachable state. *)
THEOREM IInvHolds == Spec => []IInv
  BY InitIInv, NextIInv, PTL DEF Spec

----------------------------------------------------------------------------
(* What follows. *)

LEMMA IInvIsolation == IInv => Isolation
<1> USE DEF IInv
<1> SUFFICES ASSUME IInv PROVE Isolation
  OBVIOUS
<1>1. ASSUME NEW t \in Threads, NEW u \in Threads, NEW i \in Slots, NEW j \in Slots,
             t # u, Executing(t), Executing(u), acc[t][i] = acc[u][j], writer[t]
      PROVE  FALSE
  <2>1. Meet(t, i, u, j)
    BY <1>1 DEF Meet, Active, Executing
  <2>2. /\ ticketW[t][i] = deqW[acc[t][i]] /\ ticketW[u][j] = deqW[acc[u][j]]
        /\ ticketR[t][i] = deqR[acc[t][i]]
    BY <1>1 DEF SeenInv, SawWriters, SawReaders, Executing
  <2>3. ticketW[u][j] # ticketW[t][i]
    BY <1>1, <2>1, <2>2, WriterIsAlone
  <2> QED
    BY <1>1, <2>2, <2>3
<1> QED
  BY <1>1 DEF Isolation

(* Transactions that run at the same time and share an account only read   *)
(* it: for every number of threads, accounts and transactions, whatever    *)
(* the interleaving of the locks, the tickets and the waits.               *)
THEOREM SchedulerIsolates == Spec => []Isolation
  BY IInvHolds, IInvIsolation, PTL

LEMMA NextStableReads ==
  ASSUME IInv, IInv', StableReads, [Next]_vars
  PROVE  StableReads'
<1> USE DEF TypeControl, Goto, Slots, locals, StableReads, Executing
<1>0. TypeControl /\ TypeLocals /\ TypeShared
  BY DEF IInv, TypeOK
<1>1. ASSUME NEW t \in Threads, Load(t) PROVE StableReads'
  <2>1. \A u \in Threads : u # t =>
          pc'[u] = pc[u] /\ slot'[u] = slot[u] /\ loaded'[u] = loaded[u]
    BY <1>0, <1>1 DEF Load, Continue, TypeLocals
  <2>2. UNCHANGED <<accounts, acc>>
    BY <1>1 DEF Load
  <2>3. \A i \in Slots : pc'[t] = "end" \/ i < slot'[t] => i < slot[t] \/ i = slot[t]
    BY <1>0, <1>1 DEF Load, Continue
  <2>4. loaded'[t][slot[t]] = accounts[acc[t][slot[t]]]
    BY <1>0, <1>1 DEF Load, TypeLocals, Current
  <2>5. \A i \in Slots : i # slot[t] => loaded'[t][i] = loaded[t][i]
    BY <1>0, <1>1 DEF Load, TypeLocals
  <2>6. pc[t] = "load"
    BY <1>1 DEF Load
  <2> QED
    BY <1>0, <2>1, <2>2, <2>3, <2>4, <2>5, <2>6
<1>2. ASSUME NEW t \in Threads, XEnd(t) PROVE StableReads'
  <2>1. Isolation
    BY IInvIsolation DEF IInv
  <2>2. /\ UNCHANGED <<acc, loaded>> /\ pc[t] = "end"
        /\ pc'[t] = "deq" /\ \A u \in Threads : u # t => pc'[u] = pc[u] /\ slot'[u] = slot[u]
    BY <1>0, <1>2 DEF XEnd
  <2>3. ASSUME NEW u \in Threads, NEW i \in Slots, u # t, Executing(u)
        PROVE  accounts'[acc[u][i]] = accounts[acc[u][i]]
    <3>1. writer[t] => acc[u][i] # acc[t][1] /\ acc[u][i] # acc[t][2]
      BY <2>1, <2>2, <2>3 DEF Isolation
    <3>2. acc[u][i] \in Accounts
      BY <1>0 DEF TypeLocals
    <3> QED
      BY <1>0, <1>2, <3>1, <3>2 DEF XEnd, TypeShared
  <2> QED
    BY <2>2, <2>3
<1>3. ASSUME UNCHANGED accounts,
             \A u \in Threads : Executing(u)' =>
               /\ \/ Executing(u) /\ pc'[u] = pc[u] /\ slot'[u] = slot[u]
                  \/ pc'[u] = "load" /\ slot'[u] = 1
               /\ acc'[u] = acc[u] /\ loaded'[u] = loaded[u]
      PROVE  StableReads'
  BY <1>3
<1>4. ASSUME NEW t \in Threads, Choose(t) PROVE StableReads'
  BY <1>0, <1>3, <1>4 DEF Choose, TypeLocals
<1>5. ASSUME NEW t \in Threads, LockHigh(t) \/ LockLow(t) \/ ReadTickets(t) PROVE StableReads'
  BY <1>0, <1>3, <1>5 DEF LockHigh, LockLow, ReadTickets
<1>6. ASSUME NEW t \in Threads, Enqueue(t) PROVE StableReads'
  BY <1>0, <1>3, <1>6 DEF Enqueue
<1>7. ASSUME NEW t \in Threads, Release(t) PROVE StableReads'
  BY <1>0, <1>3, <1>7 DEF Release, Continue
<1>8. ASSUME NEW t \in Threads, CheckWriters(t) \/ CheckReaders(t) PROVE StableReads'
  BY <1>0, <1>3, <1>8 DEF CheckWriters, CheckReaders, Continue
<1>9. ASSUME NEW t \in Threads, XBegin(t) \/ XAbort(t) \/ DequeueFirst(t) PROVE StableReads'
  BY <1>0, <1>3, <1>9 DEF XBegin, XAbort, DequeueFirst
<1>10. ASSUME NEW t \in Threads, DequeueSecond(t) PROVE StableReads'
  <2>1. pc'[t] \in {"choose", "done"} /\ UNCHANGED accounts
    BY <1>0, <1>10 DEF DequeueSecond
  <2>2. \A u \in Threads : u # t =>
          pc'[u] = pc[u] /\ slot'[u] = slot[u] /\ acc'[u] = acc[u] /\ loaded'[u] = loaded[u]
    BY <1>0, <1>10 DEF DequeueSecond, TypeLocals
  <2> QED
    BY <1>3, <2>1, <2>2
<1>11. CASE UNCHANGED vars
  BY <1>3, <1>11 DEF vars
<1> QED
  BY <1>1, <1>2, <1>4, <1>5, <1>6, <1>7, <1>8, <1>9, <1>10, <1>11
     DEF Next, Step, Joined

(* What a hardware transaction has read is unchanged until it commits, so  *)
(* no update is lost even on a hardware that detects no conflict.          *)
THEOREM ReadsAreStable == Spec => []StableReads
<1>1. Init => StableReads
  BY DEF Init, StableReads, Executing
<1> QED
  BY <1>1, IInvHolds, NextStableReads, PTL DEF Spec

----------------------------------------------------------------------------
(* Nobody is behind a thread that has not all its tickets yet: it holds    *)
(* the locks of both its accounts.                                         *)

LastInv ==
  \A t, u \in Threads : \A i, j \in Slots :
    pc[t] \in {"read", "bump"} /\ i < slot[t] => ~Before(t, i, u, j)

\* Steps after which nobody is behind a thread who was not before.
Shrinks ==
  \A t, u \in Threads : \A i, j \in Slots : Before(u, j, t, i)' => Before(u, j, t, i)

LEMMA SilentShrinks == Silent => Shrinks
  BY DEF Silent, Shrinks, Before, Meet, Unmoved

LEMMA LeavesShrinks ==
  ASSUME NEW t \in Threads, Leaves(t)
  PROVE  Shrinks
  BY DEF Leaves, Dequeues, Shrinks, Before, Meet, Unmoved

\* Who takes a ticket is behind all the others of that account.
LEMMA TakerIsLast ==
  ASSUME TypeOK, BoundsInv, LastInv, NEW t \in Threads, Takes(t),
         NEW u \in Threads, NEW i \in Slots, NEW j \in Slots
  PROVE  ~Before(t, i, u, j)'
<1>0. TypeShared /\ TypeLocals /\ slot[t] \in Slots /\ Current(t) \in Accounts
  BY CurrentAccount DEF TypeOK, TypeControl
<1>1. UNCHANGED locals /\ pc[t] = "bump"
  BY DEF Takes, Enqueues
<1>2. \A v \in Threads : \A k \in Slots :
        Active(v, k)' <=> Active(v, k) \/ (v = t /\ k = slot[t])
  BY DEF Takes, Enqueues
<1>3. CASE i = slot[t]
  <2> SUFFICES ASSUME Meet(t, i, u, j)' PROVE ~Before(t, i, u, j)'
    BY DEF Before, Meet
  <2>1. Active(u, j) /\ u # t /\ acc[u][j] = Current(t)
    BY <1>1, <1>2, <1>3 DEF Meet, Current, locals
  <2>2. /\ ticketW[u][j] <= ticketW[t][i]
        /\ writer[u] => ticketR[u][j] <= ticketR[t][i]
    BY <1>3, <2>1 DEF BoundsInv, Takes
  <2>3. /\ ticketW[u][j] \in Nat /\ ticketW[t][i] \in Nat
        /\ ticketR[u][j] \in Nat /\ ticketR[t][i] \in Nat
    BY <1>0 DEF TypeLocals
  <2>4. ~(ticketW[t][i] < ticketW[u][j]) /\ (writer[u] => ~(ticketR[t][i] < ticketR[u][j]))
    BY <2>2, <2>3
  <2> QED
    BY <1>1, <2>4 DEF Before, locals
<1>4. CASE i # slot[t]
  <2>1. Before(t, i, u, j)' => Active(t, i) /\ Before(t, i, u, j)
    BY <1>1, <1>2, <1>4 DEF Before, Meet, locals
  <2>2. Active(t, i) => i < slot[t]
    BY <1>1 DEF Active
  <2> QED
    BY <1>1, <2>1, <2>2 DEF LastInv
<1> QED
  BY <1>3, <1>4

\* Beside Enqueue no step brings a thread between its tickets.
LEMMA BetweenTickets ==
  ASSUME TypeOK, [Next]_vars, NEW u \in Threads, NEW i \in Slots,
         \A t \in Threads : ~Enqueue(t),
         pc'[u] \in {"read", "bump"}, i < slot'[u]
  PROVE  pc[u] \in {"read", "bump"} /\ i < slot[u]
<1> USE DEF TypeControl, Goto, Slots
<1>0. TypeControl
  BY DEF TypeOK
<1>1. ASSUME NEW t \in Threads, Choose(t) \/ LockHigh(t) \/ LockLow(t) \/ ReadTickets(t)
      PROVE  pc[u] \in {"read", "bump"} /\ i < slot[u]
  BY <1>0, <1>1 DEF Choose, LockHigh, LockLow, ReadTickets
<1>2. ASSUME NEW t \in Threads, Release(t) \/ CheckWriters(t) \/ CheckReaders(t) \/ Load(t)
      PROVE  pc[u] \in {"read", "bump"} /\ i < slot[u]
  BY <1>0, <1>2 DEF Release, CheckWriters, CheckReaders, Load, Continue
<1>3. ASSUME NEW t \in Threads, XBegin(t) \/ XAbort(t) \/ XEnd(t)
      PROVE  pc[u] \in {"read", "bump"} /\ i < slot[u]
  BY <1>0, <1>3 DEF XBegin, XAbort, XEnd
<1>4. ASSUME NEW t \in Threads, DequeueFirst(t) \/ DequeueSecond(t)
      PROVE  pc[u] \in {"read", "bump"} /\ i < slot[u]
  BY <1>0, <1>4 DEF DequeueFirst, DequeueSecond
<1>5. CASE UNCHANGED vars
  BY <1>5 DEF vars
<1> QED
  BY <1>1, <1>2, <1>3, <1>4, <1>5 DEF Next, Step, Joined

LEMMA TakeLast ==
  ASSUME TypeOK, BoundsInv, LockInv, LastInv, NEW t \in Threads, Enqueue(t), Takes(t)
  PROVE  LastInv'
<1>0. TypeControl
  BY DEF TypeOK
<1>1. \A u \in Threads : u # t => pc'[u] = pc[u] /\ slot'[u] = slot[u]
  BY <1>0 DEF Enqueue, Goto, TypeControl
<1>2. ASSUME NEW v \in Threads, NEW u \in Threads, NEW i \in Slots, NEW j \in Slots,
             v # t, pc[v] \in {"read", "bump"}, i < slot[v], Before(v, i, u, j)'
      PROVE  FALSE
  <2>1. UNCHANGED locals /\ pc[t] = "bump"
    BY DEF Takes, Enqueues
  <2>2. \A w \in Threads : \A k \in Slots :
          Active(w, k)' <=> Active(w, k) \/ (w = t /\ k = slot[t])
    BY DEF Takes, Enqueues
  <2>3. CASE u = t /\ j = slot[t]
    <3>1. acc[v][i] = acc[t][j]
      BY <1>2, <2>1, <2>3 DEF Before, Meet, locals
    <3>2. Holds(v, i) /\ Holds(t, j)
      BY <1>2, <2>1 DEF Holds
    <3> QED
      BY <1>2, <3>1, <3>2 DEF LockInv
  <2>4. CASE ~(u = t /\ j = slot[t])
    <3>1. Before(v, i, u, j)
      BY <1>2, <2>1, <2>2, <2>4 DEF Before, Meet, locals
    <3> QED
      BY <1>2, <3>1 DEF LastInv
  <2> QED
    BY <2>3, <2>4
<1> QED
  BY <1>1, <1>2, TakerIsLast DEF LastInv

LEMMA NextLastInv ==
  ASSUME IInv, LastInv, [Next]_vars
  PROVE  LastInv'
<1> USE DEF IInv
<1>1. ASSUME Shrinks, \A t \in Threads : ~Enqueue(t)
      PROVE  LastInv'
  BY <1>1, BetweenTickets DEF LastInv, Shrinks
<1>2. ASSUME NEW t \in Threads, Enqueue(t)
      PROVE  LastInv'
  BY <1>2, EnqueueTakes, TakeLast
<1>3. Silent => Shrinks
  BY SilentShrinks
<1>4. ASSUME NEW t \in Threads, DequeueFirst(t) \/ DequeueSecond(t)
      PROVE  Shrinks
  BY <1>4, DequeueLeaves, LeavesShrinks
<1> QED
  BY <1>1, <1>2, <1>3, <1>4, SilentSteps

----------------------------------------------------------------------------
(* No set of transactions waits only for its own members. *)

LEMMA ShrinksKeeps ==
  ASSUME NoWaitCycle, Shrinks
  PROVE  NoWaitCycle'
<1> SUFFICES ASSUME NEW S \in SUBSET Threads, S # {}
             PROVE  \E t \in S : \A u \in S : \A i, j \in Slots : ~Before(u, j, t, i)'
  BY DEF NoWaitCycle
<1>1. PICK t \in S : \A u \in S : \A i, j \in Slots : ~Before(u, j, t, i)
  BY DEF NoWaitCycle
<1> QED
  BY <1>1 DEF Shrinks

\* The last to come is last in every set; the others stand as they stood.
LEMMA TakeKeeps ==
  ASSUME TypeOK, BoundsInv, LastInv, NoWaitCycle, NEW t \in Threads, Takes(t)
  PROVE  NoWaitCycle'
<1> SUFFICES ASSUME NEW S \in SUBSET Threads, S # {}
             PROVE  \E v \in S : \A u \in S : \A i, j \in Slots : ~Before(u, j, v, i)'
  BY DEF NoWaitCycle
<1>1. CASE S \ {t} = {}
  <2>1. S = {t}
    BY <1>1
  <2>2. \A i, j \in Slots : ~Before(t, j, t, i)'
    BY DEF Before, Meet
  <2> QED
    BY <2>1, <2>2
<1>2. CASE S \ {t} # {}
  <2>1. PICK v \in S \ {t} :
          \A u \in S \ {t} : \A i, j \in Slots : ~Before(u, j, v, i)
    BY <1>2 DEF NoWaitCycle
  <2>2. ASSUME NEW u \in S \ {t}, NEW i \in Slots, NEW j \in Slots
        PROVE  ~Before(u, j, v, i)'
    BY <2>1 DEF Takes, Enqueues, Before, Meet, locals
  <2>3. \A i, j \in Slots : ~Before(t, j, v, i)'
    BY TakerIsLast
  <2> QED
    BY <2>2, <2>3
<1> QED
  BY <1>1, <1>2

LEMMA NextNoWaitCycle ==
  ASSUME IInv, LastInv, NoWaitCycle, [Next]_vars
  PROVE  NoWaitCycle'
<1> USE DEF IInv
<1>1. ASSUME NEW t \in Threads, Enqueue(t)
      PROVE  NoWaitCycle'
  BY <1>1, EnqueueTakes, TakeKeeps
<1>2. ASSUME NEW t \in Threads, DequeueFirst(t) \/ DequeueSecond(t)
      PROVE  NoWaitCycle'
  BY <1>2, DequeueLeaves, LeavesShrinks, ShrinksKeeps
<1> QED
  BY <1>1, <1>2, SilentShrinks, ShrinksKeeps, SilentSteps

(* The transactions that wait never wait in a circle, over any number of   *)
(* accounts and threads: both accounts are locked while the two tickets    *)
(* are taken, and nobody gets behind a thread that has only one of them.   *)
THEOREM WaitsHaveNoCycle == Spec => []NoWaitCycle
<1>1. Init => LastInv /\ NoWaitCycle
  <2> SUFFICES ASSUME Init PROVE LastInv /\ NoWaitCycle
    OBVIOUS
  <2>1. \A t \in Threads : \A i \in Slots : ~Active(t, i)
    BY DEF Init, Active
  <2>2. \A t, u \in Threads : \A i, j \in Slots : ~Before(t, i, u, j)
    BY <2>1 DEF Before, Meet
  <2> QED
    BY <2>2 DEF LastInv, NoWaitCycle
<1>2. IInv /\ (LastInv /\ NoWaitCycle) /\ [Next]_vars => (LastInv /\ NoWaitCycle)'
  BY NextLastInv, NextNoWaitCycle
<1> QED
  BY <1>1, <1>2, IInvHolds, PTL DEF Spec

----------------------------------------------------------------------------
(* The writers between the counters; the readers are in IInv. *)

WBalance ==
  \A a \in Accounts : enqW[a] = deqW[a] + Cardinality(ActiveWriters(a))

LEMMA FiniteWriters == \A a : IsFiniteSet(ActiveWriters(a))
  BY ThreadsAssumption, FS_Subset DEF ActiveWriters

LEMMA TakeWBalance ==
  ASSUME TypeOK, WBalance, NEW t \in Threads, Takes(t)
  PROVE  WBalance'
<1>0. TypeShared /\ slot[t] \in Slots /\ Current(t) \in Accounts
  BY CurrentAccount DEF TypeOK, TypeControl
<1>1. acc' = acc /\ writer' = writer /\ deqW' = deqW
  BY DEF Takes, Enqueues, locals
<1>2. \A u \in Threads : \A i \in Slots :
        Active(u, i)' <=> Active(u, i) \/ (u = t /\ i = slot[t])
  BY DEF Takes, Enqueues
<1>3. ASSUME NEW a \in Accounts
      PROVE  enqW'[a] = deqW[a] + Cardinality(ActiveWriters(a)')
  <2>1. CASE ~writer[t] \/ a # Current(t)
    <3>1. ActiveWriters(a)' = ActiveWriters(a)
      BY <1>1, <1>2, <2>1 DEF ActiveWriters, Current
    <3>2. enqW'[a] = enqW[a]
      BY <1>0, <2>1 DEF Takes, TypeShared
    <3> QED
      BY <3>1, <3>2 DEF WBalance
  <2>2. CASE writer[t] /\ a = Current(t)
    <3>1. ActiveWriters(a)' = ActiveWriters(a) \union {t}
      BY <1>0, <1>1, <1>2, <2>2 DEF ActiveWriters, Current
    <3>2. t \notin ActiveWriters(a)
      BY <2>2 DEF ActiveWriters, Takes
    <3>3. /\ Cardinality(ActiveWriters(a)) \in Nat
          /\ Cardinality(ActiveWriters(a) \union {t}) = Cardinality(ActiveWriters(a)) + 1
      BY <3>2, FiniteWriters, FS_AddElement, FS_CardinalityType
    <3>4. enqW'[a] = enqW[a] + 1 /\ deqW[a] \in Nat
      BY <1>0, <2>2 DEF Takes, TypeShared
    <3>5. enqW[a] = deqW[a] + Cardinality(ActiveWriters(a))
      BY DEF WBalance
    <3> QED
      BY <3>1, <3>3, <3>4, <3>5
  <2> QED
    BY <2>1, <2>2
<1> QED
  BY <1>1, <1>3 DEF WBalance

LEMMA LeaveWBalance ==
  ASSUME TypeOK, WBalance, NEW t \in Threads, Leaves(t)
  PROVE  WBalance'
<1>0. TypeShared /\ slot[t] \in Slots /\ Current(t) \in Accounts
  BY CurrentAccount DEF TypeOK, TypeControl
<1>1. \A v \in Threads : \A j \in Slots :
        /\ Active(v, j)' <=> Active(v, j) /\ ~(v = t /\ j = slot[t])
        /\ Active(v, j)' => Unmoved(v, j)
  BY DEF Leaves, Dequeues
<1>2. ASSUME NEW a \in Accounts
      PROVE  enqW'[a] = deqW'[a] + Cardinality(ActiveWriters(a)')
  <2>1. enqW'[a] = deqW[a] + Cardinality(ActiveWriters(a))
    BY DEF WBalance, Leaves
  <2>2. CASE writer[t] /\ a = Current(t)
    <3>1. ActiveWriters(a)' = ActiveWriters(a) \ {t}
      BY <1>0, <1>1, <2>2 DEF ActiveWriters, Unmoved, Leaves, Current
    <3>2. t \in ActiveWriters(a)
      BY <1>0, <2>2 DEF ActiveWriters, Leaves, Dequeues, Current
    <3>3. /\ Cardinality(ActiveWriters(a)) \in Nat
          /\ Cardinality(ActiveWriters(a) \ {t}) = Cardinality(ActiveWriters(a)) - 1
      BY <3>2, FiniteWriters, FS_RemoveElement, FS_CardinalityType
    <3>4. deqW'[a] = deqW[a] + 1 /\ deqW[a] \in Nat
      BY <1>0, <2>2 DEF Leaves, TypeShared
    <3> QED
      BY <2>1, <3>1, <3>3, <3>4
  <2>3. CASE ~writer[t] \/ a # Current(t)
    <3>1. ActiveWriters(a)' = ActiveWriters(a)
      BY <1>0, <1>1, <2>3 DEF ActiveWriters, Unmoved, Current
    <3>2. deqW'[a] = deqW[a]
      BY <1>0, <2>3 DEF Leaves, TypeShared
    <3> QED
      BY <2>1, <3>1, <3>2
  <2> QED
    BY <2>2, <2>3
<1> QED
  BY <1>2 DEF WBalance

LEMMA NextWBalance ==
  ASSUME IInv, WBalance, [Next]_vars
  PROVE  WBalance'
<1> USE DEF IInv
<1>1. CASE Silent
  <2>1. \A a \in Accounts : ActiveWriters(a)' = ActiveWriters(a)
    BY <1>1 DEF Silent, Unmoved, ActiveWriters
  <2> QED
    BY <1>1, <2>1 DEF Silent, counters, WBalance
<1>2. ASSUME NEW t \in Threads, Enqueue(t)
      PROVE  WBalance'
  BY <1>2, EnqueueTakes, TakeWBalance
<1>3. ASSUME NEW t \in Threads, DequeueFirst(t) \/ DequeueSecond(t)
      PROVE  WBalance'
  BY <1>3, DequeueLeaves, LeaveWBalance
<1> QED
  BY <1>1, <1>2, <1>3, SilentSteps

(* As many writers, and as many readers, are between taking a ticket of an *)
(* account and giving it back as its counters are apart.                   *)
THEOREM CountersAccount == Spec => []CountersBalance
<1>1. Init => WBalance
  <2> SUFFICES ASSUME Init PROVE WBalance
    OBVIOUS
  <2>1. \A a \in Accounts : ActiveWriters(a) = {}
    BY DEF Init, Active, ActiveWriters
  <2> QED
    BY <2>1, FS_EmptySet DEF Init, WBalance
<1>2. IInv /\ WBalance /\ [Next]_vars => WBalance'
  BY NextWBalance
<1>3. IInv /\ WBalance => CountersBalance
  BY DEF IInv, RBalance, WBalance, CountersBalance
<1> QED
  BY <1>1, <1>2, <1>3, IInvHolds, PTL DEF Spec

----------------------------------------------------------------------------
(* The ticket scheduler implements TransferOrder: taking the second ticket *)
(* admits a transaction behind all the admitted ones it conflicts with,    *)
(* the commit of the hardware transaction executes it when all of those    *)
(* have executed, and every other step is none of TransferOrder's.         *)

\* A transaction is of a kind that the percentage allows.
KindsInv == \A t \in Threads : pc[t] \notin {"choose", "done"} => writer[t] \in Kinds

LEMMA NextKindsInv ==
  ASSUME TypeOK, KindsInv, [Next]_vars
  PROVE  KindsInv'
<1> USE DEF TypeControl, Goto, locals, KindsInv
<1>0. TypeControl /\ TypeLocals
  BY DEF TypeOK
<1>1. ASSUME NEW t \in Threads, Choose(t) PROVE KindsInv'
  BY <1>0, <1>1 DEF Choose, TypeLocals
<1>2. ASSUME NEW t \in Threads, DequeueSecond(t) PROVE KindsInv'
  <2>1. pc'[t] \in {"choose", "done"}
    BY <1>0, <1>2 DEF DequeueSecond
  <2>2. \A u \in Threads : u # t => pc'[u] = pc[u] /\ writer'[u] = writer[u]
    BY <1>0, <1>2 DEF DequeueSecond, TypeLocals
  <2> QED
    BY <2>1, <2>2
<1>3. ASSUME writer' = writer,
             \A u \in Threads : pc'[u] # pc[u] => pc[u] \notin {"choose", "done"}
      PROVE  KindsInv'
  BY <1>3
<1>4. ASSUME NEW t \in Threads, LockHigh(t) \/ LockLow(t) \/ ReadTickets(t) \/ Enqueue(t)
      PROVE  KindsInv'
  BY <1>0, <1>3, <1>4 DEF LockHigh, LockLow, ReadTickets, Enqueue
<1>5. ASSUME NEW t \in Threads, Release(t) \/ CheckWriters(t) \/ CheckReaders(t) \/ Load(t)
      PROVE  KindsInv'
  BY <1>0, <1>3, <1>5 DEF Release, CheckWriters, CheckReaders, Load, Continue
<1>6. ASSUME NEW t \in Threads, XBegin(t) \/ XAbort(t) \/ XEnd(t) \/ DequeueFirst(t)
      PROVE  KindsInv'
  BY <1>0, <1>3, <1>6 DEF XBegin, XAbort, XEnd, DequeueFirst
<1>7. CASE UNCHANGED vars
  BY <1>3, <1>7 DEF vars
<1> QED
  BY <1>1, <1>2, <1>4, <1>5, <1>6, <1>7 DEF Next, Step, Joined

----------------------------------------------------------------------------
(* Steps that TransferOrder does not see. *)

Quiet ==
  /\ UNCHANGED accounts
  /\ \A u \in Threads :
       /\ Admitted(u)' <=> Admitted(u)
       /\ Admitted(u) => acc'[u] = acc[u] /\ writer'[u] = writer[u]
                         /\ ticketW'[u] = ticketW[u] /\ ticketR'[u] = ticketR[u]

\* An admitted transaction stands in both its queues.
LEMMA AdmittedIsActive == \A t \in Threads : \A i \in Slots : Admitted(t) => Active(t, i)
  BY DEF Admitted, Active

LEMMA QuietStutters ==
  ASSUME Quiet
  PROVE  UNCHANGED Order!vars
<1>1. \A u, v \in Threads : \A i, j \in Slots :
        Admitted(u) /\ Admitted(v) => (Before(u, j, v, i)' <=> Before(u, j, v, i))
  <2> SUFFICES ASSUME NEW u \in Threads, NEW v \in Threads, NEW i \in Slots, NEW j \in Slots,
                      Admitted(u), Admitted(v)
               PROVE  Before(u, j, v, i)' <=> Before(u, j, v, i)
    OBVIOUS
  <2>1. Active(u, j) /\ Active(v, i) /\ Active(u, j)' /\ Active(v, i)'
    BY DEF Quiet, Admitted, Active
  <2> QED
    BY <2>1 DEF Quiet, Before, Meet
<1>2. \A t \in Threads : Request(t)' = Request(t)
  BY DEF Quiet, Request
<1>3. \A t \in Threads : AheadOf(t)' = AheadOf(t)
  BY <1>1 DEF Quiet, AheadOf
<1> QED
  BY <1>2, <1>3 DEF Quiet, Order!vars

LEMMA QuietSteps ==
  ASSUME TypeOK, [Next]_vars
  PROVE  \/ Quiet
         \/ \E t \in Threads : Enqueue(t) /\ slot[t] = 2
         \/ \E t \in Threads : XEnd(t)
<1> USE DEF TypeControl, Goto, Slots, Quiet, Admitted, locals
<1>0. TypeControl /\ TypeLocals
  BY DEF TypeOK
<1>1. ASSUME NEW t \in Threads, Choose(t) PROVE Quiet
  BY <1>0, <1>1 DEF Choose, TypeLocals
<1>2. ASSUME NEW t \in Threads, ReadTickets(t) PROVE Quiet
  BY <1>0, <1>2 DEF ReadTickets, TypeLocals
<1>3. ASSUME NEW t \in Threads, DequeueSecond(t) PROVE Quiet
  <2>1. pc'[t] \in {"choose", "done"} /\ pc[t] = "deq" /\ UNCHANGED accounts
    BY <1>0, <1>3 DEF DequeueSecond
  <2>2. \A u \in Threads : u # t =>
          /\ pc'[u] = pc[u] /\ acc'[u] = acc[u] /\ writer'[u] = writer[u]
          /\ ticketW'[u] = ticketW[u] /\ ticketR'[u] = ticketR[u]
    BY <1>0, <1>3 DEF DequeueSecond, TypeLocals
  <2> QED
    BY <2>1, <2>2
<1>4. ASSUME NEW t \in Threads, LockHigh(t) \/ LockLow(t) \/ DequeueFirst(t) PROVE Quiet
  BY <1>0, <1>4 DEF LockHigh, LockLow, DequeueFirst
<1>5. ASSUME NEW t \in Threads, Enqueue(t), slot[t] = 1 PROVE Quiet
  BY <1>0, <1>5 DEF Enqueue
<1>6. ASSUME NEW t \in Threads, Release(t) \/ CheckWriters(t) \/ CheckReaders(t) \/ Load(t)
      PROVE  Quiet
  BY <1>0, <1>6 DEF Release, CheckWriters, CheckReaders, Load, Continue
<1>7. ASSUME NEW t \in Threads, XBegin(t) \/ XAbort(t) PROVE Quiet
  BY <1>0, <1>7 DEF XBegin, XAbort
<1>8. CASE UNCHANGED vars
  BY <1>8 DEF vars
<1> QED
  BY <1>0, <1>1, <1>2, <1>3, <1>4, <1>5, <1>6, <1>7, <1>8 DEF Next, Step, Joined

----------------------------------------------------------------------------
(* The requests of TransferOrder. *)

LEMMA AdmittedRequest ==
  ASSUME IInv, KindsInv, NEW t \in Threads
  PROVE  /\ pc[t] = "bump" \/ Admitted(t) =>
              [acc |-> acc[t], writer |-> writer[t]] \in Order!Requests \ {Order!NoRequest}
         /\ Request(t) # Order!NoRequest <=> Admitted(t)
<1>1. acc[t] \in [Slots -> Accounts] /\ writer[t] \in BOOLEAN
  BY DEF IInv, TypeOK, TypeLocals
<1>2. ASSUME pc[t] = "bump" \/ Admitted(t)
      PROVE  [acc |-> acc[t], writer |-> writer[t]] \in Order!Requests \ {Order!NoRequest}
  <2>1. acc[t][1] # acc[t][2] /\ writer[t] \in Kinds
    BY <1>2 DEF Admitted, IInv, DistinctAccounts, KindsInv
  <2>2. acc[t] \in Order!AccountPairs /\ writer[t] \in Order!Kinds
    BY <1>1, <2>1 DEF Order!AccountPairs, Order!Slots, Slots, Order!Accounts, Accounts,
       Order!Kinds, Kinds
  <2>3. acc[t] # <<0, 0>>
    BY <2>1
  <2> QED
    BY <2>2, <2>3 DEF Order!Requests, Order!NoRequest
<1> QED
  BY <1>2 DEF Request, Order!NoRequest

\* Who conflicts and meets is ahead or behind.
OrderIsTotal ==
  \A t, u \in Threads : \A i, j \in Slots :
    Meet(t, i, u, j) /\ (writer[t] \/ writer[u]) => Before(t, i, u, j) \/ Before(u, j, t, i)

LEMMA TicketsOrder == TypeOK /\ OrderInv => OrderIsTotal
<1> SUFFICES ASSUME TypeOK, OrderInv, NEW t \in Threads, NEW u \in Threads,
                    NEW i \in Slots, NEW j \in Slots,
                    Meet(t, i, u, j), writer[t] \/ writer[u]
             PROVE  Before(t, i, u, j) \/ Before(u, j, t, i)
  BY DEF OrderIsTotal
<1>0. Meet(u, j, t, i)
  BY DEF Meet
<1>1. /\ ticketW[t][i] \in Nat /\ ticketR[t][i] \in Nat
      /\ ticketW[u][j] \in Nat /\ ticketR[u][j] \in Nat
  BY DEF TypeOK, TypeLocals
<1>2. CASE writer[t]
  BY <1>0, <1>1, <1>2 DEF OrderInv, Before
<1>3. CASE ~writer[t]
  BY <1>0, <1>1, <1>3 DEF OrderInv, Before
<1> QED
  BY <1>2, <1>3

----------------------------------------------------------------------------
(* The second ticket. *)

LEMMA SecondTicketAdmits ==
  ASSUME IInv, IInv', LastInv, KindsInv, NEW t \in Threads, Enqueue(t), slot[t] = 2
  PROVE  Order!Admit(t)
<1> DEFINE r == [acc |-> acc[t], writer |-> writer[t]]
<1>1. /\ pc[t] = "bump" /\ pc'[t] = "unlock" /\ \A u \in Threads : u # t => pc'[u] = pc[u]
      /\ UNCHANGED <<locals, accounts>>
  BY DEF Enqueue, Goto, IInv, TypeOK, TypeControl
<1>2. Takes(t)
  BY EnqueueTakes DEF IInv
<1>3. \A u \in Threads : Admitted(u)' <=> Admitted(u) \/ u = t
  BY <1>1 DEF Admitted
<1>4. ~Admitted(t) /\ Request(t) = Order!NoRequest
  BY <1>1 DEF Admitted, Request, Order!NoRequest
<1>5. \A u \in Threads : u # t => Request(u)' = Request(u)
  BY <1>1, <1>3 DEF Request, locals
<1>6. Request(t)' = r
  BY <1>1, <1>3 DEF Request, locals
<1>7. r \in Order!Requests
  BY <1>1, AdmittedRequest
<1>8. \A u \in Threads : \A i, j \in Slots : ~Before(t, i, u, j)'
  BY <1>2, TakerIsLast DEF IInv
<1>9. ASSUME NEW u \in Threads, u # t PROVE AheadOf(u)' = AheadOf(u)
  <2>1. ASSUME NEW v \in Threads, NEW i \in Slots, NEW j \in Slots,
               v # t, Admitted(v), Admitted(u)
        PROVE  Before(v, j, u, i)' <=> Before(v, j, u, i)
    <3>1. Active(v, j) /\ Active(u, i) /\ Active(v, j)' /\ Active(u, i)'
      BY <1>3, <2>1 DEF Admitted, Active
    <3> QED
      BY <1>1, <3>1 DEF Before, Meet, locals
  <2> QED
    BY <1>3, <1>4, <1>8, <1>9, <2>1 DEF AheadOf
<1>10. AheadOf(t)' = {u \in Threads : Request(u) # Order!NoRequest /\ Order!Conflict(Request(u), r)}
  <2>1. ASSUME NEW u \in Threads, Admitted(u)
        PROVE  (\E i, j \in Slots : Before(u, j, t, i)') <=> Order!Conflict(Request(u), r)
    <3>1. u # t /\ \A i, j \in Slots : Active(u, j)' /\ Active(t, i)'
      BY <1>1, <1>3, <1>4, <2>1 DEF Admitted, Active
    <3>2. \A i, j \in Slots : Meet(t, i, u, j)' <=> acc[t][i] = acc[u][j]
      BY <1>1, <3>1 DEF Meet, locals
    <3>3. OrderIsTotal'
      BY TicketsOrder, PTL DEF IInv
    <3>4. \A i, j \in Slots :
            Before(u, j, t, i)' <=> acc[t][i] = acc[u][j] /\ (writer[t] \/ writer[u])
      BY <1>1, <1>8, <3>1, <3>2, <3>3 DEF OrderIsTotal, Before, Meet, locals
    <3>5. Request(u) = [acc |-> acc[u], writer |-> writer[u]]
      BY <2>1 DEF Request
    <3> QED
      BY <3>4, <3>5 DEF Order!Conflict, Order!Slots, Slots
  <2>2. ~\E i, j \in Slots : Before(t, j, t, i)'
    BY <1>8
  <2> QED
    BY <1>3, <1>4, <2>1, <2>2, AdmittedRequest DEF AheadOf
<1> QED
  BY <1>1, <1>4, <1>5, <1>6, <1>7, <1>9, <1>10 DEF Order!Admit

----------------------------------------------------------------------------
(* The commit of the hardware transaction. *)

\* Nobody is before a transaction that has seen all the counters it waits for.
LEMMA NobodyAhead ==
  ASSUME IInv, NEW t \in Threads, pc[t] = "end",
         NEW u \in Threads, NEW i \in Slots, NEW j \in Slots
  PROVE  ~Before(u, j, t, i)
<1> SUFFICES ASSUME Meet(t, i, u, j) PROVE ~Before(u, j, t, i)
  BY DEF Before, Meet
<1>0. acc[t][i] = acc[u][j] /\ Active(u, j) /\ Active(t, i)
  BY DEF Meet
<1>1. ticketW[t][i] = deqW[acc[t][i]] /\ (writer[t] => ticketR[t][i] = deqR[acc[t][i]])
  BY DEF IInv, SeenInv, SawWriters, SawReaders
<1>2. deqW[acc[t][i]] <= ticketW[u][j]
  BY <1>0 DEF IInv, BoundsInv
<1>3. ticketW[t][i] \in Nat /\ ticketW[u][j] \in Nat
  BY DEF IInv, TypeOK, TypeLocals
<1>4. ~(ticketW[u][j] < ticketW[t][i])
  BY <1>1, <1>2, <1>3
<1>5. ASSUME ~writer[u], writer[t], ticketR[u][j] < ticketR[t][i] PROVE FALSE
  <2>1. ReadersBefore(t, i) = {}
    BY <1>0, <1>1, <1>5, NoReadersBefore DEF IInv
  <2> QED
    BY <1>5, <2>1 DEF ReadersBefore
<1> QED
  BY <1>4, <1>5 DEF Before

LEMMA CommitExecutes ==
  ASSUME IInv, KindsInv, StableReads, NEW t \in Threads, XEnd(t)
  PROVE  Order!Execute(t)
<1>1. /\ pc[t] = "end" /\ pc'[t] = "deq" /\ \A u \in Threads : u # t => pc'[u] = pc[u]
      /\ UNCHANGED locals
  BY DEF XEnd, Goto, IInv, TypeOK, TypeControl
<1>2. \A u \in Threads : Admitted(u)' <=> Admitted(u) /\ u # t
  BY <1>1 DEF Admitted
<1>3. Admitted(t) /\ Request(t) # Order!NoRequest
  BY <1>1, AdmittedRequest DEF Admitted
<1>4. AheadOf(t) = {}
  BY <1>1, NobodyAhead DEF AheadOf
<1>5. accounts' = Order!Effect(Request(t))
  <2>1. Request(t) = [acc |-> acc[t], writer |-> writer[t]]
    BY <1>3 DEF Request
  <2>2. loaded[t][1] = accounts[acc[t][1]] /\ loaded[t][2] = accounts[acc[t][2]]
    BY <1>1 DEF StableReads, Executing, Slots
  <2>3. acc[t][1] # acc[t][2] /\ accounts \in [Accounts -> Int]
    BY <1>1 DEF IInv, DistinctAccounts, TypeOK, TypeShared
  <2> QED
    BY <2>1, <2>2, <2>3 DEF XEnd, Order!Effect, Order!Delta, Order!Amount, Delta, Amount
<1>6. \A u \in Threads : Request(u)' = IF u = t THEN Order!NoRequest ELSE Request(u)
  BY <1>1, <1>2 DEF Request, Order!NoRequest, locals
<1>7. ASSUME NEW u \in Threads PROVE AheadOf(u)' = AheadOf(u) \ {t}
  <2>1. ASSUME NEW v \in Threads, NEW i \in Slots, NEW j \in Slots,
               v # t, u # t, Admitted(v), Admitted(u)
        PROVE  Before(v, j, u, i)' <=> Before(v, j, u, i)
    <3>1. Active(v, j) /\ Active(u, i) /\ Active(v, j)' /\ Active(u, i)'
      BY <1>2, <2>1 DEF Admitted, Active
    <3> QED
      BY <1>1, <3>1 DEF Before, Meet, locals
  <2> QED
    BY <1>2, <1>4, <2>1 DEF AheadOf
<1> QED
  BY <1>3, <1>4, <1>5, <1>6, <1>7 DEF Order!Execute

----------------------------------------------------------------------------
(* Conflicting transactions execute in the order they were admitted, each  *)
(* atomically on the balances it finds, for any number of threads, any     *)
(* accounts and any share of readers: the tickets, the two locks and the   *)
(* wait of tx_fn_full_q are an implementation of that.                     *)
THEOREM KeepsOrder == Spec => KeepsTransferOrder
<1>1. Init => Order!Init /\ KindsInv
  <2> SUFFICES ASSUME Init PROVE Order!Init /\ KindsInv
    OBVIOUS
  <2>1. \A t \in Threads : pc[t] = "choose" /\ ~Admitted(t)
    BY DEF Init, Admitted
  <2> QED
    BY <2>1 DEF Init, KindsInv, Request, AheadOf, Order!Init, Order!NoRequest,
       Order!Accounts, Accounts
<1>2. KindsInv /\ IInv /\ [Next]_vars => KindsInv'
  BY NextKindsInv DEF IInv
<1>3. LastInv /\ IInv /\ [Next]_vars => LastInv'
  BY NextLastInv
<1>4. IInv /\ IInv' /\ LastInv /\ KindsInv /\ StableReads /\ [Next]_vars
        => [Order!Next]_(Order!vars)
  <2> SUFFICES ASSUME IInv, IInv', LastInv, KindsInv, StableReads, [Next]_vars
               PROVE  [Order!Next]_(Order!vars)
    OBVIOUS
  <2>1. CASE Quiet
    BY <2>1, QuietStutters
  <2>2. ASSUME NEW t \in Threads, Enqueue(t), slot[t] = 2 PROVE Order!Next
    BY <2>2, SecondTicketAdmits DEF Order!Next
  <2>3. ASSUME NEW t \in Threads, XEnd(t) PROVE Order!Next
    BY <2>3, CommitExecutes DEF Order!Next
  <2> QED
    BY <2>1, <2>2, <2>3, QuietSteps DEF IInv
<1>5. Init => LastInv
  BY DEF Init, LastInv
<1> QED
  BY <1>1, <1>2, <1>3, <1>4, <1>5, IInvHolds, ReadsAreStable, PTL DEF Spec, KeepsTransferOrder

----------------------------------------------------------------------------
(* A transfer takes from one account what it gives to the other, whatever  *)
(* the hardware transaction did in between: StableReads makes its stores   *)
(* an update of the balances that are there.                               *)
LEMMA NextSum ==
  ASSUME IInv, StableReads, SumConserved, [Next]_vars
  PROVE  SumConserved'
<1>1. CASE UNCHANGED accounts
  BY <1>1 DEF SumConserved
<1>2. ASSUME NEW t \in Threads, XEnd(t), writer[t]
      PROVE  SumConserved'
  <2> DEFINE a == acc[t][1]
             b == acc[t][2]
  <2>1. pc[t] = "end"
    BY <1>2 DEF XEnd
  <2>2. loaded[t][1] = accounts[a] /\ loaded[t][2] = accounts[b]
    BY <2>1 DEF StableReads, Executing, Slots
  <2>3. /\ a \in 0 .. NumAccounts - 1 /\ b \in 0 .. NumAccounts - 1 /\ a # b
        /\ accounts \in [0 .. NumAccounts - 1 -> Int]
    <3>1. acc[t] \in [Slots -> Accounts] /\ accounts \in [Accounts -> Int]
      BY DEF IInv, TypeOK, TypeShared, TypeLocals
    <3>2. a # b
      BY <2>1 DEF IInv, DistinctAccounts
    <3> QED
      BY <3>1, <3>2 DEF Accounts, Slots
  <2>4. accounts' = [accounts EXCEPT ![a] = @ + Amount, ![b] = @ - Amount]
    BY <1>2, <2>2, <2>3 DEF XEnd, Delta, Amount
  <2>5. Total(accounts', NumAccounts) = Total(accounts, NumAccounts)
    <3> HIDE DEF a, b
    <3>1. Amount \in Int /\ NumAccounts \in Nat
      BY NumAccountsAssumption DEF Amount
    <3>2. Transferred(NumAccounts, accounts, accounts', a, b, Amount)
      BY <2>3, <2>4, <3>1 DEF Transferred
    <3> QED
      BY <3>1, <3>2, SumOfTransfer
  <2> QED
    BY <2>5 DEF SumConserved
<1>3. ASSUME NEW t \in Threads, XEnd(t), ~writer[t]
      PROVE  UNCHANGED accounts
  BY <1>3 DEF XEnd
<1>4. ASSUME NEW t \in Threads, Enqueue(t)
      PROVE  UNCHANGED accounts
  BY <1>4 DEF Enqueue
<1> QED
  BY <1>1, <1>2, <1>3, <1>4, QuietSteps DEF IInv, Quiet

(* The sum that main prints at the end is the one it prints at the start,  *)
(* and so is every sum in between, for any number of accounts and threads. *)
THEOREM MoneyIsConserved == Spec => []SumConserved
<1>1. Init => SumConserved
  <2> SUFFICES ASSUME Init PROVE SumConserved
    OBVIOUS
  <2>1. accounts = [a \in 0 .. NumAccounts - 1 |-> Opening]
    BY DEF Init, Accounts
  <2> QED
    BY <2>1, SumOfEqual, NumAccountsAssumption, OpeningAssumption DEF SumConserved
<1>2. IInv /\ StableReads /\ SumConserved /\ [Next]_vars => SumConserved'
  BY NextSum
<1> QED
  BY <1>1, <1>2, IInvHolds, ReadsAreStable, PTL DEF Spec
=============================================================================
