-------------------------- MODULE SuperLockProofs --------------------------
(***************************************************************************)
(* Proofs about the super global lock of SuperLock, for any finite set of  *)
(* threads and whatever the hardware does to their partitions.             *)
(***************************************************************************)
EXTENDS SuperLock, FiniteSetTheorems, TLAPS

\* What the definitions of the actions have in common.
USE DEF Goto, Leave, NextPart, shared, attempt

LEMMA InitIInv == Init => IInv
<1> SUFFICES ASSUME Init PROVE IInv
  OBVIOUS
<1>1. TypeOK /\ ControlInv
  <2>1. 0 \in 0 .. SUPER_GL_LIMIT + 1 /\ 0 \in 0 .. Parts /\ 0 \in 0 .. NO_TX /\ 0 < NO_TX
    BY LimitAssumption, PartsAssumption, NoTxAssumption
  <2>2. TypeOK
    BY <2>1 DEF Init, TypeOK
  <2>3. ControlInv
    BY <2>1 DEF Init, ControlInv
  <2> QED
    BY <2>2, <2>3
<1>2. OwnerInv /\ LateInv
  BY DEF Init, OwnerInv, LateInv, Owner
<1>3. ActiveInv
  <2>1. Active = {}
    BY DEF Init, Active
  <2> QED
    BY <2>1, FS_EmptySet DEF Init, ActiveInv
<1> QED
  BY <1>1, <1>2, <1>3 DEF IInv

(* Everything but the counter of the active transactions keeps its type,   *)
(* and a partition is tried only as often and as long as there is one.     *)
LEMMA NextControl ==
  ASSUME TypeOK, ControlInv, NEW t \in Threads, Step(t), active_tx' \in Nat
  PROVE  TypeOK' /\ ControlInv'
<1> USE LimitAssumption, PartsAssumption, NoTxAssumption DEF TypeOK, ControlInv
<1>1. CASE Begin(t) BY <1>1 DEF Begin
<1>2. CASE SeeFree(t) BY <1>2 DEF SeeFree
<1>3. CASE AwaitFree(t) BY <1>3 DEF AwaitFree
<1>4. CASE TakeLock(t) BY <1>4 DEF TakeLock
<1>5. CASE Drain(t) BY <1>5 DEF Drain
<1>6. CASE Enter(t) BY <1>6 DEF Enter
<1>7. CASE PartCommits(t) BY <1>7 DEF PartCommits
<1>8. CASE OwnerPart(t) BY <1>8 DEF OwnerPart
<1>9. CASE PartAborts(t)
  <2>1. other_abort_num[t] + 1 \in 0 .. SUPER_GL_LIMIT + 1
    BY <1>9 DEF PartAborts
  <2>2. CASE other_abort_num[t] + 1 > SUPER_GL_LIMIT
    <3>1. /\ go_super_gl' = [go_super_gl EXCEPT ![t] = TRUE]
          /\ pc' = [pc EXCEPT ![t] = "abort"]
      BY <1>9, <2>2 DEF PartAborts
    <3> QED
      BY <1>9, <2>1, <3>1 DEF PartAborts
  <2>3. CASE ~(other_abort_num[t] + 1 > SUPER_GL_LIMIT)
    BY <1>9, <2>1, <2>3 DEF PartAborts
  <2> QED
    BY <2>2, <2>3
<1>10. CASE Conflict(t) BY <1>10 DEF Conflict
<1>11. CASE Abort(t) BY <1>11 DEF Abort
<1>12. CASE Commit(t) BY <1>12 DEF Commit
<1>13. CASE Unlock(t) BY <1>13 DEF Unlock
<1>14. CASE Exit(t) BY <1>14 DEF Exit
<1> QED
  BY <1>1, <1>2, <1>3, <1>4, <1>5, <1>6, <1>7, <1>8, <1>9, <1>10, <1>11, <1>12,
     <1>13, <1>14 DEF Step

----------------------------------------------------------------------------
(* active_tx counts the threads that have entered. *)

\* Who enters is counted, who leaves is no longer, and the rest stay.
LEMMA EntersAndLeaves ==
  ASSUME TypeOK, NEW t \in Threads, Step(t)
  PROVE  \/ Active' = Active /\ active_tx' = active_tx
         \/ t \notin Active /\ Active' = Active \union {t} /\ active_tx' = active_tx + 1
         \/ t \in Active /\ Active' = Active \ {t} /\ active_tx' = active_tx - 1
<1> USE DEF TypeOK, Active
<1>1. CASE Begin(t) BY <1>1 DEF Begin
<1>2. CASE SeeFree(t) BY <1>2 DEF SeeFree
<1>3. CASE AwaitFree(t) BY <1>3 DEF AwaitFree
<1>4. CASE TakeLock(t) BY <1>4 DEF TakeLock
<1>5. CASE Drain(t) BY <1>5 DEF Drain
<1>6. CASE Enter(t) BY <1>6 DEF Enter
<1>7. CASE PartCommits(t) BY <1>7 DEF PartCommits
<1>8. CASE OwnerPart(t) BY <1>8 DEF OwnerPart
<1>9. CASE PartAborts(t) BY <1>9 DEF PartAborts
<1>10. CASE Conflict(t) BY <1>10 DEF Conflict
<1>11. CASE Abort(t) BY <1>11 DEF Abort
<1>12. CASE Commit(t) BY <1>12 DEF Commit
<1>13. CASE Unlock(t) BY <1>13 DEF Unlock
<1>14. CASE Exit(t) BY <1>14 DEF Exit
<1> QED
  BY <1>1, <1>2, <1>3, <1>4, <1>5, <1>6, <1>7, <1>8, <1>9, <1>10, <1>11, <1>12,
     <1>13, <1>14 DEF Step

LEMMA FiniteActive ==
  IsFiniteSet(Active) /\ Cardinality(Active) \in Nat
<1>1. Active \in SUBSET Threads
  BY DEF Active
<1> QED
  BY <1>1, ThreadsAssumption, FS_Subset, FS_CardinalityType

LEMMA NextActive ==
  ASSUME TypeOK, ActiveInv, NEW t \in Threads, Step(t)
  PROVE  ActiveInv' /\ active_tx' \in Nat
<1>1. CASE Active' = Active /\ active_tx' = active_tx
  BY <1>1 DEF ActiveInv, TypeOK
<1>2. CASE t \notin Active /\ Active' = Active \union {t} /\ active_tx' = active_tx + 1
  <2>1. Cardinality(Active \union {t}) = Cardinality(Active) + 1
    BY <1>2, FiniteActive, FS_AddElement
  <2> QED
    BY <1>2, <2>1 DEF ActiveInv, TypeOK
<1>3. CASE t \in Active /\ Active' = Active \ {t} /\ active_tx' = active_tx - 1
  <2>1. /\ Cardinality(Active \ {t}) = Cardinality(Active) - 1
        /\ Cardinality(Active \ {t}) \in Nat
    BY <1>3, FiniteActive, FS_RemoveElement, FS_CardinalityType
  <2> QED
    BY <1>3, <2>1 DEF ActiveInv, TypeOK
<1> QED
  BY <1>1, <1>2, <1>3, EntersAndLeaves

----------------------------------------------------------------------------
(* The lock is taken by one, and given up by its owner. *)
LEMMA NextOwner ==
  ASSUME TypeOK, ControlInv, OwnerInv, NEW t \in Threads, Step(t)
  PROVE  OwnerInv'
<1> USE DEF TypeOK, ControlInv, OwnerInv, Owner
<1>1. CASE Begin(t) BY <1>1 DEF Begin
<1>2. CASE SeeFree(t) BY <1>2 DEF SeeFree
<1>3. CASE AwaitFree(t) BY <1>3 DEF AwaitFree
<1>4. CASE TakeLock(t) BY <1>4 DEF TakeLock
<1>5. CASE Drain(t) BY <1>5 DEF Drain
<1>6. CASE Enter(t) BY <1>6 DEF Enter
<1>7. CASE PartCommits(t) BY <1>7 DEF PartCommits
<1>8. CASE OwnerPart(t) BY <1>8 DEF OwnerPart
<1>9. CASE PartAborts(t) BY <1>9 DEF PartAborts
<1>10. CASE Conflict(t) BY <1>10 DEF Conflict
<1>11. CASE Abort(t) BY <1>11 DEF Abort
<1>12. CASE Commit(t) BY <1>12 DEF Commit
<1>13. CASE Unlock(t) BY <1>13 DEF Unlock
<1>14. CASE Exit(t) BY <1>14 DEF Exit
<1> QED
  BY <1>1, <1>2, <1>3, <1>4, <1>5, <1>6, <1>7, <1>8, <1>9, <1>10, <1>11, <1>12,
     <1>13, <1>14 DEF Step

(* Whoever is beside an owner that has entered was late: when the owner    *)
(* sees active_tx at 0 nobody is active, and after that nobody sees the    *)
(* lock free.                                                              *)
LEMMA NextLate ==
  ASSUME TypeOK, ControlInv, OwnerInv, ActiveInv, LateInv, NEW t \in Threads, Step(t)
  PROVE  LateInv'
<1> USE DEF TypeOK, ControlInv, OwnerInv, LateInv, Owner
<1>1. CASE Begin(t) BY <1>1 DEF Begin
<1>2. CASE SeeFree(t) BY <1>2 DEF SeeFree
<1>3. CASE AwaitFree(t) BY <1>3 DEF AwaitFree
<1>4. CASE TakeLock(t) BY <1>4 DEF TakeLock
<1>5. CASE Drain(t)
  <2>1. Active = {}
    BY <1>5, FiniteActive, FS_EmptySet DEF Drain, ActiveInv
  <2> QED
    BY <1>5, <2>1 DEF Drain, Active
<1>6. CASE Enter(t) BY <1>6 DEF Enter
<1>7. CASE PartCommits(t) BY <1>7 DEF PartCommits
<1>8. CASE OwnerPart(t) BY <1>8 DEF OwnerPart
<1>9. CASE PartAborts(t) BY <1>9 DEF PartAborts
<1>10. CASE Conflict(t) BY <1>10 DEF Conflict
<1>11. CASE Abort(t) BY <1>11 DEF Abort
<1>12. CASE Commit(t) BY <1>12 DEF Commit
<1>13. CASE Unlock(t) BY <1>13 DEF Unlock
<1>14. CASE Exit(t) BY <1>14 DEF Exit
<1> QED
  BY <1>1, <1>2, <1>3, <1>4, <1>5, <1>6, <1>7, <1>8, <1>9, <1>10, <1>11, <1>12,
     <1>13, <1>14 DEF Step

----------------------------------------------------------------------------
LEMMA NextIInv == IInv /\ [Next]_vars => IInv'
<1> SUFFICES ASSUME IInv, [Next]_vars PROVE IInv'
  OBVIOUS
<1>1. ASSUME NEW t \in Threads, Step(t) PROVE IInv'
  BY <1>1, NextControl, NextActive, NextOwner, NextLate DEF IInv
<1>2. CASE UNCHANGED vars
  <2>1. TypeOK' /\ ControlInv'
    BY <1>2 DEF vars, IInv, TypeOK, ControlInv
  <2>2. OwnerInv' /\ LateInv'
    BY <1>2 DEF vars, IInv, OwnerInv, LateInv, Owner
  <2>3. ActiveInv'
    BY <1>2 DEF vars, IInv, ActiveInv, Active
  <2> QED
    BY <2>1, <2>2, <2>3 DEF IInv
<1> QED
  BY <1>1, <1>2 DEF Next, Joined

(* Types, one owner, active_tx as the number of those who have entered,    *)
(* and nobody beside an owner who was not late.                            *)
THEOREM IInvHolds == Spec => []IInv
  BY InitIInv, NextIInv, PTL DEF Spec

LEMMA OneOwner ==
  ASSUME OwnerInv
  PROVE  Cardinality(Owners) = IF tm_super_glock THEN 1 ELSE 0
<1>1. CASE tm_super_glock
  <2>1. PICK t \in Threads : Owner(t)
    BY <1>1 DEF OwnerInv
  <2>2. Owners = {t}
    BY <2>1 DEF OwnerInv, Owners
  <2> QED
    BY <1>1, <2>2, FS_Singleton
<1>2. CASE ~tm_super_glock
  <2>1. Owners = {}
    BY <1>2 DEF OwnerInv, Owners
  <2> QED
    BY <1>2, <2>1, FS_EmptySet
<1> QED
  BY <1>1, <1>2

(* Every variable of the lock keeps its type. *)
THEOREM TypeCorrect == Spec => []TypeOK
<1>1. IInv => TypeOK
  BY DEF IInv
<1> QED
  BY <1>1, IInvHolds, PTL

(* Whatever way a transaction ends, it leaves active_tx as often as it has *)
(* entered, and the lock has one owner exactly while it is taken.          *)
THEOREM EntriesAndExitsBalance == Spec => []EntriesBalance
<1>1. IInv => EntriesBalance
  BY OneOwner DEF IInv, ActiveInv, EntriesBalance
<1> QED
  BY <1>1, IInvHolds, PTL

(* An owner that has entered has nobody beside it but those who had seen   *)
(* the lock free before it was taken.                                      *)
THEOREM OwnerIsAloneButForLate == Spec => []AloneButForLate
<1>1. IInv => AloneButForLate
  BY DEF IInv, LateInv, AloneButForLate, Owners, Active, Owner
<1> QED
  BY <1>1, IInvHolds, PTL
=============================================================================
