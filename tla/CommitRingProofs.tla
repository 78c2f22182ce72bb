-------------------------- MODULE CommitRingProofs --------------------------
(***************************************************************************)
(* Proofs about CommitRing for any set of threads, any size of the ring    *)
(* and of the filters and any number of transactions: the inductive        *)
(* invariant, conjunct by conjunct, and what follows from it.              *)
(***************************************************************************)
EXTENDS CommitRing, TLAPS

----------------------------------------------------------------------------
(* Arithmetic of the ring and of the filters. *)

LEMMA WordStep ==
  \A w \in Bits : /\ (w + 1) % Words = IF w + 1 < Words THEN w + 1 ELSE 0
                  /\ (w + 1) % Words \in Bits
  BY WordsAssumption DEF Bits

LEMMA SlotInRing == \A k \in Nat : k % RingElements \in 0 .. RingElements - 1
  BY RingElementsAssumption

\* Commits less than RingElements apart have different ring entries.
LEMMA DistinctSlots ==
  ASSUME NEW k \in Nat, NEW m \in Nat, k < m, m < k + RingElements
  PROVE  k % RingElements # m % RingElements
<1> DEFINE R == RingElements
           q == k \div R
           r == m \div R
<1>1. R \in Nat /\ R > 0
  BY RingElementsAssumption
<1> HIDE DEF R
<1>2. q \in Int /\ r \in Int /\ k = R * q + (k % R) /\ m = R * r + (m % R)
  BY <1>1
<1>3. SUFFICES ASSUME k % R = m % R PROVE FALSE
  BY DEF R
<1> HIDE DEF q, r
<1>4. k % R \in Int
  BY <1>1
<1>5. m - k = R * r - R * q
  BY <1>1, <1>2, <1>3, <1>4
<1>6. R * r - R * q = R * (r - q)
  BY <1>1, <1>2
<1>7. CASE r - q >= 1
  <2>1. R * (r - q) >= R
    BY <1>1, <1>2, <1>7
  <2> QED
    BY <1>1, <1>5, <1>6, <2>1 DEF R
<1>8. CASE r - q <= 0
  <2>1. R * (r - q) <= 0
    BY <1>1, <1>2, <1>8
  <2> QED
    BY <1>5, <1>6, <2>1
<1> QED
  BY <1>2, <1>7, <1>8

----------------------------------------------------------------------------
(* Types. *)

LEMMA InitTypeOK == Init => TypeOK
  BY WordsAssumption, NoTxAssumption DEF Init, TypeOK, Labels, Bits

LEMMA NextTypeOK == TypeOK /\ [Next]_vars => TypeOK'
<1> USE DEF TypeOK, Labels, CheckLabels, CommitLabels, PublishLabels, Goto, counters, filters, scan
<1> SUFFICES ASSUME TypeOK, [Next]_vars PROVE TypeOK'
  OBVIOUS
<1>1. ASSUME NEW t \in Threads, Begin(t) PROVE TypeOK'
  BY <1>1 DEF Begin
<1>2. ASSUME NEW t \in Threads, Partition(t) PROVE TypeOK'
  BY <1>2 DEF Partition, PartitionWith
<1>3. ASSUME NEW t \in Threads, Conflict(t) PROVE TypeOK'
  BY <1>3 DEF Conflict
<1>4. ASSUME NEW t \in Threads, CheckPartition(t) PROVE TypeOK'
  BY <1>4, WordsAssumption DEF CheckPartition, StartScan, Bits
<1>5. ASSUME NEW t \in Threads, NEW here, NEW next \in Labels \ {"done"},
             Scan(t, here, next), here # "done"
      PROVE  TypeOK'
  <2>1. entry[t] > start_time[t] => entry[t] - 1 \in Nat
    OBVIOUS
  <2> QED
    BY <1>5, <2>1, WordStep DEF Scan
<1>6. ASSUME NEW t \in Threads, NEW here, NEW next \in Labels \ {"done"},
             AwaitComplete(t, here, next), here # "done"
      PROVE  TypeOK'
  BY <1>6 DEF AwaitComplete
<1>7. ASSUME NEW t \in Threads, NEW here, NEW next \in Labels \ {"done"},
             Rollover(t, here, next), here # "done"
      PROVE  TypeOK'
  BY <1>7 DEF Rollover
<1>8. ASSUME NEW t \in Threads, pc[t] # "done", FinishTx(t),
             UNCHANGED <<counters, ring_wf, start_time, index, scan, committed>>
      PROVE  TypeOK'
  <2>1. rf' \in [Threads -> SUBSET Bits] /\ wf' \in [Threads -> SUBSET Bits]
    BY <1>8 DEF FinishTx
  <2>2. tx_limit[t] + 1 \in 0 .. NoTx
    BY <1>8, NoTxAssumption
  <2>3. tx_limit' \in [Threads -> 0 .. NoTx]
    BY <1>8, <2>2 DEF FinishTx
  <2>4. pc' \in [Threads -> Labels]
    BY <1>8 DEF FinishTx
  <2>5. \A u \in Threads : pc'[u] # "done" => tx_limit'[u] < NoTx
    BY <1>8, <2>2 DEF FinishTx
  <2> QED
    BY <1>8, <2>1, <2>3, <2>4, <2>5
<1>9. ASSUME NEW t \in Threads, CommitWriter(t) \/ CommitTime(t) PROVE TypeOK'
  BY <1>9 DEF CommitWriter, CommitTime
<1>10. ASSUME NEW t \in Threads, AwaitInit(t) PROVE TypeOK'
  BY <1>10, WordsAssumption DEF AwaitInit, StartScan, Bits
<1>11. ASSUME NEW t \in Threads, CasSucceeds(t) PROVE TypeOK'
  BY <1>11, WordsAssumption DEF CasSucceeds, Bits
<1>12. ASSUME NEW t \in Threads, CasFails(t) PROVE TypeOK'
  BY <1>12 DEF CasFails
<1>13. ASSUME NEW t \in Threads, Copy(t) PROVE TypeOK'
  <2>1. (index[t] + 1) % RingElements \in 0 .. RingElements - 1
    <3>1. index[t] + 1 \in Nat
      OBVIOUS
    <3> HIDE DEF TypeOK
    <3> QED
      BY <3>1, SlotInRing
  <2>2. ring_wf' \in [0 .. RingElements - 1 -> SUBSET Bits]
    BY <1>13, <2>1 DEF Copy
  <2>3. word' \in [Threads -> Bits]
    <3>1. word[t] \in Bits
      OBVIOUS
    <3>2. (word[t] + 1) % Words \in Bits
      BY <3>1, WordStep
    <3> QED
      BY <1>13, <3>2 DEF Copy
  <2>4. pc' \in [Threads -> Labels] /\ pc[t] = "copy"
    BY <1>13 DEF Copy
  <2>5. \A u \in Threads : pc'[u] # "done" => tx_limit[u] < NoTx
    BY <1>13, <2>4 DEF Copy
  <2>6. UNCHANGED <<timestamp, last_init, last_complete, start_time, rf, wf, index, entry,
                    tx_limit, committed>>
    BY <1>13 DEF Copy
  <2> QED
    BY <2>2, <2>3, <2>4, <2>5, <2>6
<1>14. ASSUME NEW t \in Threads, SetInit(t) PROVE TypeOK'
  BY <1>14 DEF SetInit
<1>21. ASSUME NEW t \in Threads, SetComplete(t) PROVE TypeOK'
  BY <1>21 DEF SetComplete
<1>15. ASSUME NEW t \in Threads, Abort(t) PROVE TypeOK'
  BY <1>15 DEF Abort
<1>16. CASE UNCHANGED vars
  BY <1>16 DEF vars
<1>17. ASSUME NEW t \in Threads, CommitReadOnly(t) \/ Release(t) PROVE TypeOK'
  BY <1>8, <1>17 DEF CommitReadOnly, Release
<1>18. ASSUME NEW t \in Threads, PartitionScan(t) \/ CommitScan(t) PROVE TypeOK'
  BY <1>5, <1>18 DEF PartitionScan, CommitScan
<1>19. ASSUME NEW t \in Threads, PartitionAwait(t) \/ CommitAwait(t) PROVE TypeOK'
  BY <1>6, <1>19 DEF PartitionAwait, CommitAwait
<1>20. ASSUME NEW t \in Threads, PartitionRollover(t) \/ CommitRollover(t) PROVE TypeOK'
  BY <1>7, <1>20 DEF PartitionRollover, CommitRollover
<1> HIDE DEF TypeOK, counters, filters, scan
<1> QED
  BY <1>1, <1>2, <1>3, <1>4, <1>9, <1>10, <1>11, <1>12, <1>13, <1>14, <1>15, <1>16,
     <1>17, <1>18, <1>19, <1>20, <1>21 DEF Next, Step, Joined

(* Every variable of the commit ring keeps its type. *)
THEOREM TypeCorrect == Spec => []TypeOK
  BY InitTypeOK, NextTypeOK, PTL DEF Spec

----------------------------------------------------------------------------
(* What the steps leave alone. *)

\* The steps of a commit that write the counters or the ring.
Publish(t) == CasSucceeds(t) \/ Copy(t) \/ SetInit(t) \/ SetComplete(t)

LEMMA OthersKeep ==
  ASSUME TypeOK, NEW t \in Threads, Step(t), NEW u \in Threads, u # t
  PROVE  /\ pc'[u] = pc[u] /\ start_time'[u] = start_time[u]
         /\ rf'[u] = rf[u] /\ wf'[u] = wf[u]
         /\ index'[u] = index[u] /\ entry'[u] = entry[u] /\ word'[u] = word[u]
<1> USE DEF TypeOK, Goto, filters, scan
<1>1. CASE Begin(t) \/ Partition(t) \/ Conflict(t) \/ CheckPartition(t)
  BY <1>1 DEF Begin, Partition, PartitionWith, Conflict, CheckPartition, StartScan
<1>2. CASE PartitionScan(t) \/ CommitScan(t)
  BY <1>2 DEF PartitionScan, CommitScan, Scan
<1>3. CASE PartitionAwait(t) \/ CommitAwait(t) \/ PartitionRollover(t) \/ CommitRollover(t)
  BY <1>3 DEF PartitionAwait, CommitAwait, AwaitComplete, PartitionRollover, CommitRollover, Rollover
<1>4. CASE CommitReadOnly(t) \/ Release(t) \/ Abort(t)
  BY <1>4 DEF CommitReadOnly, Release, FinishTx, Abort
<1>5. CASE CommitWriter(t) \/ CommitTime(t) \/ AwaitInit(t) \/ CasFails(t)
  BY <1>5 DEF CommitWriter, CommitTime, AwaitInit, StartScan, CasFails
<1>6. CASE CasSucceeds(t) \/ Copy(t)
  BY <1>6 DEF CasSucceeds, Copy
<1>7. CASE SetInit(t) \/ SetComplete(t)
  BY <1>7 DEF SetInit, SetComplete
<1> QED
  BY <1>1, <1>2, <1>3, <1>4, <1>5, <1>6, <1>7 DEF Step

LEMMA QuietSteps ==
  ASSUME TypeOK, NEW t \in Threads, Step(t), ~Publish(t)
  PROVE  UNCHANGED <<counters, ring_wf, committed>> /\ ~Publishing(t)'
<1> USE DEF TypeOK, Goto, Publishing, PublishLabels
<1>1. CASE Begin(t) \/ Partition(t) \/ Conflict(t) \/ CheckPartition(t)
  BY <1>1 DEF Begin, Partition, PartitionWith, Conflict, CheckPartition
<1>2. CASE PartitionScan(t) \/ CommitScan(t)
  BY <1>2 DEF PartitionScan, CommitScan, Scan
<1>3. CASE PartitionAwait(t) \/ CommitAwait(t) \/ PartitionRollover(t) \/ CommitRollover(t)
  BY <1>3 DEF PartitionAwait, CommitAwait, AwaitComplete, PartitionRollover, CommitRollover, Rollover
<1>4. CASE CommitReadOnly(t) \/ Release(t) \/ Abort(t)
  BY <1>4 DEF CommitReadOnly, Release, FinishTx, Abort
<1>5. CASE CommitWriter(t) \/ CommitTime(t) \/ AwaitInit(t) \/ CasFails(t)
  BY <1>5 DEF CommitWriter, CommitTime, AwaitInit, CasFails
<1> QED
  BY <1>1, <1>2, <1>3, <1>4, <1>5 DEF Step, Publish

\* A commit is added to the history and never changed.
LEMMA HistoryGrows ==
  ASSUME TypeOK, CountersInv, [Next]_vars
  PROVE  /\ \A k \in 1 .. timestamp : committed'[k] = committed[k]
         /\ timestamp <= timestamp'
<1>1. ASSUME NEW t \in Threads, CasSucceeds(t)
      PROVE  /\ \A k \in 1 .. timestamp : committed'[k] = committed[k]
             /\ timestamp <= timestamp'
  BY <1>1 DEF CasSucceeds, TypeOK, CountersInv
<1>2. ASSUME NEW t \in Threads, Copy(t) \/ SetInit(t) \/ SetComplete(t)
      PROVE  UNCHANGED <<timestamp, committed>>
  BY <1>2 DEF Copy, SetInit, SetComplete, counters
<1>3. ASSUME UNCHANGED <<timestamp, committed>>
      PROVE  /\ \A k \in 1 .. timestamp : committed'[k] = committed[k]
             /\ timestamp <= timestamp'
  BY <1>3 DEF TypeOK
<1> QED
  BY <1>1, <1>2, <1>3, QuietSteps DEF Next, Joined, vars, counters, Publish

----------------------------------------------------------------------------
(* The inductive invariant. *)

LEMMA InitIInv == Init => IInv
  BY InitTypeOK, RingElementsAssumption
     DEF Init, IInv, TypeOK, CountersInv, OneCommitter, PublishInv, IndexInv, RingInv, ScanInv,
         Publishing, PublishLabels, CheckLabels, Compared

\* A commit can take a timestamp only when nobody else is publishing.
LEMMA NobodyPublishes ==
  ASSUME IInv, NEW t \in Threads, CasSucceeds(t), NEW u \in Threads
  PROVE  ~Publishing(u)
<1>1. start_time[t] = index[t] /\ timestamp = index[t] /\ start_time[t] <= last_complete
  BY DEF CasSucceeds, IInv, IndexInv
<1>2. SUFFICES ASSUME Publishing(u) PROVE FALSE
  OBVIOUS
<1>3. timestamp = index[u] + 1 /\ last_complete = index[u]
  BY <1>2 DEF IInv, PublishInv
<1> QED
  BY <1>1, <1>3 DEF IInv, TypeOK

LEMMA NextCountersInv == IInv /\ [Next]_vars => CountersInv'
<1> SUFFICES ASSUME IInv, [Next]_vars PROVE CountersInv'
  OBVIOUS
<1>0. TypeOK /\ CountersInv
  BY DEF IInv
<1>1. ASSUME NEW t \in Threads, CasSucceeds(t) PROVE CountersInv'
  <2>1. start_time[t] = index[t] /\ timestamp = index[t] /\ start_time[t] <= last_complete
    BY <1>1 DEF CasSucceeds, IInv, IndexInv
  <2>2. Len(committed') = timestamp + 1
    BY <1>0, <1>1 DEF CasSucceeds, TypeOK, CountersInv
  <2> QED
    BY <1>0, <1>1, <2>1, <2>2 DEF CasSucceeds, TypeOK, CountersInv
<1>2. ASSUME NEW t \in Threads, SetInit(t) PROVE CountersInv'
  <2>1. timestamp = index[t] + 1 /\ last_complete = index[t]
    BY <1>2 DEF SetInit, IInv, PublishInv, Publishing, PublishLabels
  <2> QED
    BY <1>0, <1>2, <2>1 DEF SetInit, TypeOK, CountersInv
<1>3. ASSUME NEW t \in Threads, SetComplete(t) PROVE CountersInv'
  <2>1. timestamp = index[t] + 1 /\ last_init = index[t] + 1
    BY <1>3 DEF SetComplete, IInv, PublishInv, Publishing, PublishLabels
  <2> QED
    BY <1>0, <1>3, <2>1 DEF SetComplete, TypeOK, CountersInv
<1>4. ASSUME UNCHANGED <<counters, committed>> PROVE CountersInv'
  BY <1>0, <1>4 DEF CountersInv, counters
<1> QED
  BY <1>0, <1>1, <1>2, <1>3, <1>4, QuietSteps DEF Next, Joined, vars, Publish, Copy

LEMMA NextOneCommitter == IInv /\ [Next]_vars => OneCommitter'
<1> SUFFICES ASSUME IInv, [Next]_vars PROVE OneCommitter'
  OBVIOUS
<1>0. TypeOK /\ OneCommitter
  BY DEF IInv
<1>1. ASSUME NEW t \in Threads, Step(t) PROVE OneCommitter'
  <2>1. \A u \in Threads : u # t => (Publishing(u)' <=> Publishing(u))
    BY <1>0, <1>1, OthersKeep DEF Publishing
  <2>2. Publishing(t)' => Publishing(t) \/ \A u \in Threads : ~Publishing(u)
    <3>1. CASE CasSucceeds(t)
      BY <3>1, NobodyPublishes
    <3>2. CASE Copy(t) \/ SetInit(t) \/ SetComplete(t)
      BY <3>2 DEF Copy, SetInit, SetComplete, Publishing, PublishLabels
    <3> QED
      BY <1>0, <1>1, <3>1, <3>2, QuietSteps DEF Publish
  <2> QED
    BY <1>0, <2>1, <2>2 DEF OneCommitter
<1>2. CASE UNCHANGED vars
  BY <1>0, <1>2 DEF vars, OneCommitter, Publishing
<1> QED
  BY <1>1, <1>2 DEF Next, Joined

LEMMA NextPublishInv == IInv /\ [Next]_vars => PublishInv'
<1> SUFFICES ASSUME IInv, [Next]_vars PROVE PublishInv'
  OBVIOUS
<1> DEFINE Slot(n) == n % RingElements
           P(u) == Publishing(u) =>
             /\ timestamp = index[u] + 1 /\ last_complete = index[u]
             /\ last_init = IF pc[u] = "complete" THEN index[u] + 1 ELSE index[u]
             /\ committed[timestamp] = wf[u]
             /\ \A b \in Bits :
                  (pc[u] = "copy" /\ b < word[u]) \/ pc[u] = "init" =>
                    (b \in ring_wf[Slot(timestamp)] <=> b \in wf[u])
<1>0. TypeOK /\ CountersInv /\ OneCommitter /\ \A u \in Threads : P(u)
  BY DEF IInv, PublishInv
<1>1. ASSUME NEW t \in Threads, Step(t), NEW u \in Threads, u # t PROVE P(u)'
  <2>1. CASE ~Publish(t)
    <3>1. UNCHANGED <<counters, ring_wf, committed>>
      BY <1>0, <1>1, <2>1, QuietSteps
    <3>2. pc'[u] = pc[u] /\ index'[u] = index[u] /\ wf'[u] = wf[u] /\ word'[u] = word[u]
      BY <1>0, <1>1, OthersKeep
    <3> QED
      BY <1>0, <3>1, <3>2 DEF Publishing, counters
  <2>2. CASE Publish(t)
    <3>1. ~Publishing(u)
      <4>1. CASE CasSucceeds(t)
        BY <4>1, NobodyPublishes
      <4>2. CASE Copy(t) \/ SetInit(t) \/ SetComplete(t)
        <5>1. Publishing(t)
          BY <4>2 DEF Copy, SetInit, SetComplete, Publishing, PublishLabels
        <5> QED
          BY <1>0, <1>1, <5>1 DEF OneCommitter
      <4> QED
        BY <2>2, <4>1, <4>2 DEF Publish
    <3>2. pc'[u] = pc[u]
      BY <1>0, <1>1, OthersKeep
    <3> QED
      BY <3>1, <3>2 DEF Publishing
  <2> QED
    BY <2>1, <2>2
<1>2. ASSUME NEW t \in Threads, CasSucceeds(t) PROVE P(t)'
  <2>1. start_time[t] = index[t] /\ timestamp = index[t] /\ start_time[t] <= last_complete
    BY <1>2 DEF CasSucceeds, IInv, IndexInv
  <2>2. last_complete = index[t] /\ last_init = index[t]
    BY <1>0, <2>1 DEF CountersInv, TypeOK
  <2>3. committed'[timestamp'] = wf[t]
    BY <1>0, <1>2 DEF CasSucceeds, TypeOK, CountersInv
  <2>4. /\ pc'[t] = "copy" /\ word'[t] = 0 /\ timestamp' = timestamp + 1
        /\ UNCHANGED <<last_init, last_complete, index, wf>>
    BY <1>0, <1>2 DEF CasSucceeds, TypeOK, Goto, filters
  <2>5. \A b \in Bits : ~(b < word'[t])
    BY <2>4 DEF Bits
  <2> QED
    BY <2>1, <2>2, <2>3, <2>4, <2>5
<1>3. ASSUME NEW t \in Threads, Copy(t) PROVE P(t)'
  <2>1. /\ timestamp = index[t] + 1 /\ last_complete = index[t] /\ last_init = index[t]
        /\ committed[timestamp] = wf[t] /\ pc[t] = "copy"
        /\ \A b \in Bits : b < word[t] => (b \in ring_wf[Slot(timestamp)] <=> b \in wf[t])
    BY <1>0, <1>3 DEF Copy, Publishing, PublishLabels
  <2>2. Slot(timestamp) \in 0 .. RingElements - 1
    BY <1>0, SlotInRing DEF TypeOK
  <2>3. UNCHANGED <<timestamp, last_init, last_complete, wf, index, committed>>
    BY <1>3 DEF Copy, counters, filters
  <2>4. /\ pc'[t] = IF word[t] + 1 < Words THEN "copy" ELSE "init"
        /\ word'[t] = IF word[t] + 1 < Words THEN word[t] + 1 ELSE 0
        /\ word[t] \in Bits
    <3>1. word[t] \in Bits
      BY <1>0 DEF TypeOK
    <3>2. word'[t] = (word[t] + 1) % Words
      BY <1>0, <1>3 DEF Copy, TypeOK
    <3>3. pc'[t] = IF word[t] + 1 < Words THEN "copy" ELSE "init"
      BY <1>0, <1>3 DEF Copy, TypeOK, Goto
    <3> QED
      BY <3>1, <3>2, <3>3, WordStep
  <2> HIDE DEF Slot
  <2>5. ring_wf'[Slot(timestamp)] =
          IF word[t] \in wf[t] THEN ring_wf[Slot(timestamp)] \cup {word[t]}
                               ELSE ring_wf[Slot(timestamp)] \ {word[t]}
    BY <1>0, <1>3, <2>1, <2>2 DEF Copy, TypeOK, Slot
  <2>6. \A b \in Bits : b <= word[t] => (b \in ring_wf'[Slot(timestamp)] <=> b \in wf[t])
    BY <2>1, <2>4, <2>5 DEF Bits
  <2>7. \A b \in Bits : (pc'[t] = "copy" /\ b < word'[t]) \/ pc'[t] = "init" => b <= word[t]
    BY <2>4, WordsAssumption DEF Bits
  <2> QED
    BY <2>1, <2>3, <2>4, <2>6, <2>7 DEF Publishing, PublishLabels
<1>4. ASSUME NEW t \in Threads, SetInit(t) PROVE P(t)'
  <2>1. pc'[t] = "complete" /\ last_init' = index[t] + 1 /\ pc[t] = "init"
    BY <1>0, <1>4 DEF SetInit, TypeOK, Goto
  <2>2. UNCHANGED <<timestamp, last_complete, ring_wf, wf, index, committed>>
    BY <1>4 DEF SetInit, filters
  <2> QED
    BY <1>0, <2>1, <2>2 DEF Publishing, PublishLabels
<1>5. ASSUME NEW t \in Threads, SetComplete(t) PROVE P(t)'
  <2>1. ~Publishing(t)'
    BY <1>0, <1>5 DEF SetComplete, TypeOK, Goto, Publishing, PublishLabels
  <2> QED
    BY <2>1
<1>6. ASSUME NEW t \in Threads, Step(t), ~Publish(t) PROVE P(t)'
  <2>1. ~Publishing(t)'
    BY <1>0, <1>6, QuietSteps
  <2> QED
    BY <2>1
<1>7. ASSUME UNCHANGED vars, NEW u \in Threads PROVE P(u)'
  BY <1>0, <1>7 DEF vars, counters, filters, scan, Publishing
<1> HIDE DEF P
<1>8. ASSUME NEW t \in Threads, Step(t), NEW u \in Threads PROVE P(u)'
  BY <1>1, <1>2, <1>3, <1>4, <1>5, <1>6, <1>8 DEF Publish
<1>9. \A u \in Threads : P(u)'
  BY <1>7, <1>8 DEF Next, Joined
<1> QED
  BY <1>9 DEF PublishInv, P

LEMMA NextIndexInv == IInv /\ [Next]_vars => IndexInv'
<1> SUFFICES ASSUME IInv, [Next]_vars PROVE IndexInv'
  OBVIOUS
<1> DEFINE I(u) ==
      /\ start_time[u] <= last_complete
      /\ pc[u] \in {"cInit", "cas"} => start_time[u] <= index[u] /\ index[u] <= timestamp
      /\ pc[u] \in CheckLabels \cup {"cScan", "cWait", "cRoll"} =>
           start_time[u] <= index[u] /\ index[u] <= last_init
      /\ pc[u] \in {"pScan", "cScan"} => entry[u] <= index[u]
      /\ pc[u] \in {"pRoll", "cRoll"} => index[u] <= last_complete
      /\ pc[u] = "cas" => start_time[u] = index[u]
<1>0. TypeOK /\ CountersInv /\ \A u \in Threads : I(u)
  BY DEF IInv, IndexInv
<1>1. last_complete <= last_complete' /\ last_init <= last_init' /\ timestamp <= timestamp'
  <2>1. timestamp <= timestamp'
    BY <1>0, HistoryGrows
  <2>2. ASSUME NEW t \in Threads, SetInit(t)
        PROVE  last_complete <= last_complete' /\ last_init <= last_init'
    <3>1. last_init = index[t]
      BY <2>2 DEF SetInit, IInv, PublishInv, Publishing, PublishLabels
    <3> QED
      BY <1>0, <2>2, <3>1 DEF SetInit, TypeOK
  <2>3. ASSUME NEW t \in Threads, SetComplete(t)
        PROVE  last_complete <= last_complete' /\ last_init <= last_init'
    BY <1>0, <2>3 DEF SetComplete, IInv, PublishInv, Publishing, PublishLabels, TypeOK
  <2>4. ASSUME UNCHANGED <<last_init, last_complete>>
        PROVE  last_complete <= last_complete' /\ last_init <= last_init'
    BY <1>0, <2>4 DEF TypeOK
  <2> QED
    BY <1>0, <2>1, <2>2, <2>3, <2>4, QuietSteps
       DEF Next, Joined, vars, counters, Publish, CasSucceeds, Copy
<1>2. TypeOK'
  BY <1>0, NextTypeOK
<1>3. ASSUME NEW u \in Threads, UNCHANGED <<pc[u], start_time[u], index[u], entry[u]>>
      PROVE  I(u)'
  BY <1>0, <1>1, <1>2, <1>3 DEF TypeOK
<1>4. ASSUME NEW t \in Threads, Step(t), NEW u \in Threads, u # t PROVE I(u)'
  BY <1>0, <1>3, <1>4, OthersKeep
<1>5. ASSUME NEW t \in Threads, Step(t) PROVE I(t)'
  <2> USE <1>0, <1>2 DEF TypeOK, Goto, CheckLabels, counters, filters, scan
  <2>1. CASE Begin(t)
    BY <2>1 DEF Begin
  <2>2. CASE Partition(t) \/ Conflict(t)
    BY <2>2 DEF Partition, PartitionWith, Conflict
  <2>3. CASE CheckPartition(t)
    BY <2>3 DEF CheckPartition, StartScan, CountersInv
  <2>4. ASSUME NEW here \in {"pScan", "cScan"}, NEW next \in {"pWait", "cWait"}, Scan(t, here, next),
               here = "cScan" => next = "cWait"
        PROVE  I(t)'
    <3>1. UNCHANGED <<start_time, index, last_init, last_complete>> /\ pc[t] = here
      BY <2>4 DEF Scan
    <3>2. pc'[t] \in {here, next, "abort"} /\ entry'[t] <= entry[t]
      BY <2>4 DEF Scan
    <3>3. start_time[t] <= index[t] /\ index[t] <= last_init /\ entry[t] <= index[t]
      BY <3>1
    <3> QED
      BY <3>1, <3>2, <3>3
  <2>5. CASE PartitionScan(t) \/ CommitScan(t)
    BY <2>4, <2>5 DEF PartitionScan, CommitScan
  <2>6. CASE PartitionAwait(t) \/ CommitAwait(t)
    BY <2>6 DEF PartitionAwait, CommitAwait, AwaitComplete
  <2>7. CASE PartitionRollover(t) \/ CommitRollover(t)
    BY <2>7 DEF PartitionRollover, CommitRollover, Rollover, CountersInv
  <2>8. CASE CommitReadOnly(t) \/ Release(t) \/ Abort(t)
    BY <2>8 DEF CommitReadOnly, Release, FinishTx, Abort
  <2>9. CASE CommitWriter(t) \/ CommitTime(t)
    BY <2>9 DEF CommitWriter, CommitTime, CountersInv
  <2>10. CASE AwaitInit(t)
    BY <2>10 DEF AwaitInit, StartScan, CountersInv
  <2>11. CASE CasSucceeds(t) \/ CasFails(t)
    BY <2>11 DEF CasSucceeds, CasFails
  <2>12. CASE Copy(t)
    BY <2>12 DEF Copy
  <2>13. CASE SetInit(t)
    BY <2>13 DEF SetInit
  <2>14. CASE SetComplete(t)
    BY <1>1, <2>14 DEF SetComplete
  <2> QED
    BY <1>5, <2>1, <2>2, <2>3, <2>5, <2>6, <2>7, <2>8, <2>9, <2>10, <2>11, <2>12,
       <2>13, <2>14 DEF Step
<1>6. ASSUME UNCHANGED vars, NEW u \in Threads PROVE I(u)'
  BY <1>3, <1>6 DEF vars, scan
<1>7. \A u \in Threads : I(u)'
  BY <1>4, <1>5, <1>6 DEF Next, Joined
<1> QED
  BY <1>7 DEF IndexInv

LEMMA NextRingInv == IInv /\ [Next]_vars => RingInv'
<1> SUFFICES ASSUME IInv, [Next]_vars PROVE RingInv'
  OBVIOUS
<1> DEFINE Slot(n) == n % RingElements
<1>0. TypeOK /\ CountersInv /\ RingInv
  BY DEF IInv
<1>1. RingElements \in Nat /\ timestamp \in Nat /\ last_init \in Nat /\ last_init <= timestamp
  BY <1>0, RingElementsAssumption DEF TypeOK, CountersInv
<1>2. ASSUME NEW t \in Threads, CasSucceeds(t) PROVE RingInv'
  <2>1. UNCHANGED <<ring_wf, last_init>> /\ timestamp' = timestamp + 1
    BY <1>2 DEF CasSucceeds
  <2>2. \A k \in 1 .. timestamp : committed'[k] = committed[k]
    BY <1>0, HistoryGrows
  <2> QED
    BY <1>0, <1>1, <2>1, <2>2 DEF RingInv
<1>3. ASSUME NEW t \in Threads, Copy(t) PROVE RingInv'
  <2>1. timestamp = index[t] + 1 /\ last_init < timestamp
    <3>1. timestamp = index[t] + 1 /\ last_init = index[t]
      BY <1>3 DEF Copy, IInv, PublishInv, Publishing, PublishLabels
    <3> QED
      BY <1>1, <3>1
  <2>2. UNCHANGED <<timestamp, last_init, committed>>
    BY <1>3 DEF Copy, counters
  <2>3. ASSUME NEW k \in 1 .. last_init, k + RingElements > timestamp
        PROVE  ring_wf'[Slot(k)] = committed[k]
    <3>1. k \in Nat /\ k < timestamp /\ timestamp < k + RingElements
      BY <1>1, <2>1, <2>3
    <3>2. Slot(k) # Slot(timestamp)
      BY <1>1, <3>1, DistinctSlots
    <3>3. Slot(k) \in 0 .. RingElements - 1
      BY <3>1, SlotInRing
    <3> HIDE DEF Slot
    <3>4. ring_wf'[Slot(k)] = ring_wf[Slot(k)]
      BY <1>0, <1>3, <2>1, <3>2, <3>3 DEF Copy, TypeOK, Slot
    <3>5. ring_wf[Slot(k)] = committed[k]
      BY <1>0, <2>3 DEF RingInv, Slot
    <3> QED
      BY <3>4, <3>5
  <2> QED
    BY <2>2, <2>3 DEF RingInv
<1>4. ASSUME NEW t \in Threads, SetInit(t) PROVE RingInv'
  <2>1. /\ timestamp = index[t] + 1 /\ last_init = index[t]
        /\ committed[timestamp] = wf[t]
        /\ \A b \in Bits : b \in ring_wf[Slot(timestamp)] <=> b \in wf[t]
    BY <1>4 DEF SetInit, IInv, PublishInv, Publishing, PublishLabels
  <2>2. Slot(timestamp) \in 0 .. RingElements - 1
    BY <1>1, SlotInRing
  <2> HIDE DEF Slot
  <2>3. ring_wf[Slot(timestamp)] \subseteq Bits /\ wf[t] \subseteq Bits
    BY <1>0, <2>2 DEF TypeOK
  <2>4. ring_wf[Slot(timestamp)] = committed[timestamp]
    BY <2>1, <2>3
  <2>5. last_init' = timestamp /\ UNCHANGED <<ring_wf, timestamp, committed>>
    BY <1>4, <2>1 DEF SetInit
  <2>6. \A k \in 1 .. timestamp : k + RingElements > timestamp => ring_wf[Slot(k)] = committed[k]
    BY <1>0, <1>1, <2>1, <2>4 DEF RingInv, Slot
  <2> QED
    BY <2>5, <2>6 DEF RingInv, Slot
<1>5. ASSUME UNCHANGED <<timestamp, last_init, ring_wf, committed>> PROVE RingInv'
  BY <1>0, <1>5 DEF RingInv
<1> HIDE DEF Slot
<1> QED
  BY <1>0, <1>2, <1>3, <1>4, <1>5, QuietSteps
     DEF Next, Joined, vars, counters, Publish, SetComplete

LEMMA NextScanInv == IInv /\ [Next]_vars => ScanInv'
<1> SUFFICES ASSUME IInv, [Next]_vars PROVE ScanInv'
  OBVIOUS
<1> DEFINE S(u) == \A b \in Bits : \A k \in start_time[u] + 1 .. index[u] :
             Compared(u, k, b) => b \notin committed[k] \cap rf[u]
                                    \/ timestamp > start_time[u] + RingElements
           Looking(u) == pc[u] \in {"pScan", "cScan", "pWait", "pRoll", "cWait", "cRoll"}
<1>0. TypeOK /\ CountersInv /\ IndexInv /\ RingInv /\ \A u \in Threads : S(u)
  BY DEF IInv, ScanInv
<1>1. /\ RingElements \in Nat /\ timestamp \in Nat /\ timestamp' \in Nat
      /\ timestamp <= timestamp' /\ last_init \in Nat /\ last_init <= timestamp
      /\ \A k \in 1 .. timestamp : committed'[k] = committed[k]
  BY <1>0, NextTypeOK, HistoryGrows, RingElementsAssumption DEF TypeOK, CountersInv
<1>2. ASSUME NEW u \in Threads,
             UNCHANGED <<start_time[u], rf[u], index[u]>>,
             \A b \in Bits : \A k \in start_time[u] + 1 .. index[u] :
               Compared(u, k, b)' => Compared(u, k, b)
      PROVE  S(u)'
  <2>1. ASSUME NEW b \in Bits, NEW k \in start_time[u] + 1 .. index[u], Compared(u, k, b)'
        PROVE  b \notin committed'[k] \cap rf[u] \/ timestamp' > start_time[u] + RingElements
    <3>1. Compared(u, k, b)
      BY <1>2, <2>1
    <3>2. start_time[u] \in Nat /\ index[u] \in Nat /\ index[u] <= last_init
      BY <1>0, <3>1 DEF TypeOK, IndexInv, Compared, CheckLabels
    <3>3. committed'[k] = committed[k]
      BY <1>1, <3>2
    <3>4. b \notin committed[k] \cap rf[u] \/ timestamp > start_time[u] + RingElements
      BY <1>0, <3>1
    <3> QED
      BY <1>1, <3>2, <3>3, <3>4
  <2> QED
    BY <1>2, <2>1
<1>3. ASSUME NEW u \in Threads, \A k \in Int : \A b \in Bits : ~Compared(u, k, b)'
      PROVE  S(u)'
  <2>1. start_time'[u] \in Int /\ index'[u] \in Int
    BY <1>0, NextTypeOK DEF TypeOK
  <2> QED
    BY <1>3, <2>1
<1>4. ASSUME NEW t \in Threads, Step(t), NEW u \in Threads, u # t PROVE S(u)'
  <2>1. /\ pc'[u] = pc[u] /\ start_time'[u] = start_time[u] /\ rf'[u] = rf[u]
        /\ index'[u] = index[u] /\ entry'[u] = entry[u] /\ word'[u] = word[u]
    BY <1>0, <1>4, OthersKeep
  <2> HIDE DEF S
  <2> QED
    BY <1>2, <2>1 DEF Compared
<1>5. ASSUME NEW t \in Threads, NEW here \in {"pScan", "cScan"}, NEW next \in {"pWait", "cWait"},
             Scan(t, here, next)
      PROVE  S(t)'
  <2> DEFINE e == entry[t]
             w == word[t]
             s == start_time[t]
  <2>0. /\ pc[t] = here /\ UNCHANGED <<start_time, rf, index, committed, timestamp>>
        /\ e \in Nat /\ s \in Nat /\ w \in Bits /\ index[t] \in Nat
        /\ e <= index[t] /\ index[t] <= last_init
    BY <1>0, <1>5 DEF Scan, TypeOK, IndexInv, CheckLabels, counters, filters
  <2>1. CASE e <= s
    <3>1. \A k \in s + 1 .. index[t] : k > e
      BY <2>0, <2>1
    <3>2. \A b \in Bits : \A k \in s + 1 .. index[t] : Compared(t, k, b)
      BY <2>0, <3>1 DEF Compared
    <3> HIDE DEF S, e, s
    <3> QED
      BY <1>2, <2>0, <3>2 DEF s
  <2>2. CASE e > s /\ Hit(t)
    <3>1. pc'[t] = "abort"
      BY <1>0, <1>5, <2>2 DEF Scan, Goto, TypeOK
    <3> HIDE DEF S
    <3> QED
      BY <1>3, <3>1 DEF Compared
  <2>3. CASE e > s /\ ~Hit(t)
    <3>1. pc'[t] = here /\ word'[t] = (IF w + 1 < Words THEN w + 1 ELSE 0)
          /\ entry'[t] = IF w + 1 < Words THEN e ELSE e - 1
      <4>1. word'[t] = (w + 1) % Words
        BY <1>0, <1>5, <2>3 DEF Scan, TypeOK
      <4>2. pc'[t] = here /\ entry'[t] = IF w + 1 < Words THEN e ELSE e - 1
        BY <1>0, <1>5, <2>3 DEF Scan, TypeOK
      <4> HIDE DEF w, e
      <4> QED
        BY <2>0, <4>1, <4>2, WordStep
    <3>2. w \notin committed[e] \cap rf[t] \/ timestamp > s + RingElements
      <4>1. CASE e + RingElements > timestamp
        <5>1. e \in 1 .. last_init
          BY <1>1, <2>0, <2>3
        <5> HIDE DEF e
        <5>2. ring_wf[e % RingElements] = committed[e]
          BY <1>0, <4>1, <5>1 DEF RingInv
        <5> QED
          BY <2>3, <5>2 DEF Hit, e
      <4>2. CASE e + RingElements <= timestamp
        BY <1>1, <2>0, <2>3, <4>2
      <4> QED
        BY <1>1, <2>0, <4>1, <4>2
    <3>3. ASSUME NEW b \in Bits, NEW k \in s + 1 .. index[t], Compared(t, k, b)'
          PROVE  Compared(t, k, b) \/ (k = e /\ b = w)
      <4>1. k > entry'[t] \/ (k = entry'[t] /\ b < word'[t])
        BY <3>1, <3>3 DEF Compared
      <4>2. b \in Nat /\ b <= Words - 1 /\ w \in Nat /\ w <= Words - 1 /\ k \in Int
        BY <2>0, WordsAssumption DEF Bits
      <4>3. k > e \/ (k = e /\ b <= w)
        BY <2>0, <3>1, <4>1, <4>2, WordsAssumption
      <4>4. k > e \/ (k = e /\ b < w) \/ (k = e /\ b = w)
        BY <2>0, <4>2, <4>3
      <4> QED
        BY <2>0, <4>4 DEF Compared
    <3>4. ASSUME NEW b \in Bits, NEW k \in s + 1 .. index[t], Compared(t, k, b)'
          PROVE  b \notin committed[k] \cap rf[t] \/ timestamp > s + RingElements
      BY <1>0, <3>2, <3>3, <3>4
    <3> QED
      BY <2>0, <3>4
  <2> QED
    BY <2>0, <2>1, <2>2, <2>3
<1>6. ASSUME NEW t \in Threads, NEW here \in {"pWait", "cWait"}, NEW next \in {"pRoll", "cRoll"},
             AwaitComplete(t, here, next)
      PROVE  S(t)'
  <2>1. \A b \in Bits : \A k \in Int : Compared(t, k, b)
    BY <1>6 DEF AwaitComplete, Compared
  <2>2. UNCHANGED <<start_time, rf, index>>
    BY <1>6 DEF AwaitComplete, filters
  <2>3. start_time[t] \in Int /\ index[t] \in Int
    BY <1>0 DEF TypeOK
  <2> HIDE DEF S
  <2> QED
    BY <1>2, <2>1, <2>2, <2>3
<1>7. ASSUME NEW t \in Threads, CheckPartition(t) \/ AwaitInit(t) PROVE S(t)'
  <2>1. word'[t] = 0 /\ entry'[t] = index'[t]
    BY <1>0, <1>7 DEF CheckPartition, AwaitInit, StartScan, TypeOK
  <2>2. pc'[t] \notin {"pWait", "pRoll", "cWait", "cRoll"}
    BY <1>0, <1>7 DEF CheckPartition, AwaitInit, TypeOK, Goto
  <2>3. index'[t] \in Int /\ start_time'[t] \in Int
    BY <1>0, NextTypeOK DEF TypeOK
  <2>4. ASSUME NEW b \in Bits, NEW k \in start_time'[t] + 1 .. index'[t] PROVE ~Compared(t, k, b)'
    BY <2>1, <2>2, <2>3 DEF Compared, Bits
  <2> QED
    BY <2>4
<1>8. ASSUME NEW t \in Threads, Step(t), ~Looking(t)' PROVE S(t)'
  <2> HIDE DEF S
  <2> QED
    BY <1>3, <1>8 DEF Compared
<1>9. ASSUME NEW t \in Threads, Step(t) PROVE S(t)'
  <2> HIDE DEF S
  <2>1. CASE PartitionScan(t) \/ CommitScan(t)
    BY <1>5, <2>1 DEF PartitionScan, CommitScan
  <2>2. CASE PartitionAwait(t) \/ CommitAwait(t)
    BY <1>6, <2>2 DEF PartitionAwait, CommitAwait
  <2>3. CASE CheckPartition(t) \/ AwaitInit(t)
    BY <1>7, <2>3
  <2> USE DEF TypeOK, Goto
  <2>4. CASE Begin(t) \/ Partition(t) \/ Conflict(t)
    BY <1>0, <1>8, <1>9, <2>4 DEF Begin, Partition, PartitionWith, Conflict
  <2>5. CASE PartitionRollover(t) \/ CommitRollover(t)
    BY <1>0, <1>8, <1>9, <2>5 DEF PartitionRollover, CommitRollover, Rollover
  <2>6. CASE CommitReadOnly(t) \/ Release(t) \/ Abort(t)
    BY <1>0, <1>8, <1>9, <2>6 DEF CommitReadOnly, Release, FinishTx, Abort
  <2>7. CASE CommitWriter(t) \/ CommitTime(t) \/ CasSucceeds(t) \/ CasFails(t)
    BY <1>0, <1>8, <1>9, <2>7 DEF CommitWriter, CommitTime, CasSucceeds, CasFails
  <2>8. CASE Copy(t) \/ SetInit(t) \/ SetComplete(t)
    BY <1>0, <1>8, <1>9, <2>8 DEF Copy, SetInit, SetComplete
  <2> QED
    BY <1>9, <2>1, <2>2, <2>3, <2>4, <2>5, <2>6, <2>7, <2>8 DEF Step
<1>10. ASSUME UNCHANGED vars, NEW u \in Threads PROVE S(u)'
  <2> HIDE DEF S
  <2> QED
    BY <1>2, <1>10 DEF vars, filters, scan, Compared
<1> HIDE DEF S
<1>11. \A u \in Threads : S(u)'
  BY <1>4, <1>9, <1>10 DEF Next, Joined
<1> QED
  BY <1>11 DEF ScanInv, S

(* The counters, the ring and every comparison under way are consistent. *)
THEOREM IInvHolds == Spec => []IInv
<1>1. IInv /\ [Next]_vars => IInv'
  BY NextTypeOK, NextCountersInv, NextOneCommitter, NextPublishInv, NextIndexInv, NextRingInv,
     NextScanInv DEF IInv
<1> QED
  BY <1>1, InitIInv, PTL DEF Spec

----------------------------------------------------------------------------
(* What follows from it. *)

(* Commits are serial: one thread at a time is between its timestamp and   *)
(* the end of its announcement.                                            *)
THEOREM CommitsAreSerial == Spec => []OneCommitter
<1>1. IInv => OneCommitter
  BY DEF IInv
<1> QED
  BY <1>1, IInvHolds, PTL

LEMMA StartTimeMoves ==
  ASSUME IInv, [Next]_vars, NEW t \in Threads, pc[t] # "begin"
  PROVE  \A k \in start_time[t] + 1 .. start_time'[t] : committed[k] \cap rf[t] = {}
<1>0. TypeOK /\ IndexInv /\ CountersInv /\ ScanInv
  BY DEF IInv
<1>1. ASSUME NEW here \in {"pRoll", "cRoll"}, NEW next, Rollover(t, here, next)
      PROVE  \A k \in start_time[t] + 1 .. start_time'[t] : committed[k] \cap rf[t] = {}
  <2>1. CASE timestamp > start_time[t] + RingElements
    BY <1>0, <1>1, <2>1 DEF Rollover, TypeOK
  <2>2. CASE ~(timestamp > start_time[t] + RingElements)
    <3>1. start_time'[t] = index[t] /\ pc[t] = here
      BY <1>0, <1>1, <2>2 DEF Rollover, TypeOK
    <3>2. \A b \in Bits : \A k \in start_time[t] + 1 .. index[t] : b \notin committed[k] \cap rf[t]
      BY <1>0, <2>2, <3>1 DEF ScanInv, Compared
    <3>3. rf[t] \subseteq Bits
      BY <1>0 DEF TypeOK
    <3> QED
      BY <3>1, <3>2, <3>3
  <2> QED
    BY <2>1, <2>2
<1>2. CASE start_time'[t] = start_time[t]
  BY <1>0, <1>2 DEF TypeOK
<1>3. ASSUME NEW u \in Threads, Step(u), u # t PROVE start_time'[t] = start_time[t]
  BY <1>0, <1>3, OthersKeep
<1>4. ASSUME Step(t), ~PartitionRollover(t), ~CommitRollover(t)
      PROVE  start_time'[t] = start_time[t]
  BY <1>4 DEF Step, Begin, Partition, PartitionWith, Conflict, CheckPartition, PartitionScan,
     CommitScan, Scan, PartitionAwait, CommitAwait, AwaitComplete, CommitReadOnly, CommitWriter,
     CommitTime, AwaitInit, CasSucceeds, CasFails, Copy, SetInit, SetComplete, Release, Abort
<1> QED
  BY <1>1, <1>2, <1>3, <1>4 DEF Next, Joined, vars, PartitionRollover, CommitRollover

(* A writer commits on reads that no commit since has overwritten, however *)
(* often the ring has turned meanwhile.                                    *)
THEOREM WritersCommitOnCurrentReads == Spec => ReadsStayValid
<1> DEFINE A == \A t \in Threads :
       /\ pc[t] # "begin" =>
            \A k \in start_time[t] + 1 .. start_time'[t] : committed[k] \cap rf[t] = {}
       /\ pc[t] = "cas" /\ timestamp' # timestamp /\ pc'[t] = "copy" =>
            start_time[t] = timestamp
<1>1. IInv /\ [Next]_vars => [A]_vars
  <2> SUFFICES ASSUME IInv, [Next]_vars PROVE A
    OBVIOUS
  <2>1. ASSUME NEW t \in Threads, pc[t] = "cas", pc'[t] = "copy" PROVE start_time[t] = timestamp
    <3>1. start_time[t] = index[t] /\ TypeOK
      BY <2>1 DEF IInv, IndexInv
    <3>2. PICK u \in Threads : Step(u)
      BY <2>1 DEF Next, Joined, vars
    <3>3. u = t
      BY <2>1, <3>1, <3>2, OthersKeep
    <3>4. CasSucceeds(t)
      BY <2>1, <3>1, <3>2, <3>3 DEF Step, Begin, Partition, PartitionWith, Conflict, CheckPartition,
         PartitionScan, CommitScan, Scan, PartitionAwait, CommitAwait, AwaitComplete,
         PartitionRollover, CommitRollover, Rollover, CommitReadOnly, CommitWriter,
         CommitTime, AwaitInit, CasFails, Copy, SetInit, SetComplete, Release, Abort, Goto, TypeOK
    <3> QED
      BY <3>1, <3>4 DEF CasSucceeds
  <2> QED
    BY <2>1, StartTimeMoves
<1> QED
  BY <1>1, IInvHolds, PTL DEF Spec, ReadsStayValid
=============================================================================
