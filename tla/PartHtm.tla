------------------------------ MODULE PartHtm ------------------------------
(***************************************************************************)
(* Part-HTM (htm.cpp): a transaction too large for the hardware is to run  *)
(* as a sequence of hardware transactions, its partitions.  A partition    *)
(* writes in place, logs the old values and sets the write locks of what   *)
(* it wrote when it commits; the locks are dropped when the transaction    *)
(* commits through the ring of CommitRing, or aborts and has undone its    *)
(* writes.  Every step here but an undone write and a partition that is    *)
(* passed over is a step of CommitRing with what it does to the memory,    *)
(* the locks and the log.                                                  *)
(*                                                                         *)
(* The flag more is set when the transaction begins and cleared by its     *)
(* first partition, and nothing sets it for the next one: a transaction    *)
(* longer than a partition runs its first partition, passes over the       *)
(* others and commits.                                                     *)
(*                                                                         *)
(* A partition is one step: the hardware gives it atomicity, also against  *)
(* the plain writes of tm_abort.  A partition the hardware aborts sets     *)
(* more again, is retried and leaves nothing behind.  The model keeps      *)
(* below the ten aborts "due to others" after which a transaction takes    *)
(* the super global lock, and write_locks.differencewith is one step, as   *)
(* it is when its hardware transaction commits.                            *)
(***************************************************************************)
EXTENDS Integers, SequencesExt, UndoLog

CONSTANTS Threads,      \* the worker threads
          RingElements, \* RING_ELEMENTS
          Words,        \* the bits of a filter
          NoTx,         \* NO_TX, the transactions of a thread
          ArraySize,    \* ARRAY_SIZE
          Opening,      \* what main puts in every element
          Pairs,        \* the pairs of elements a transfer may draw
          TxLen,        \* the transfers of a transaction, half of tx_len
          Split,        \* the transfers of a partition, half of SPLIT_SIZE
          Locs          \* what may be drawn for a transaction, a pair for each transfer

Addresses == 0 .. ArraySize - 1
Memory == [a \in Addresses |-> Opening]

ASSUME SizesAssumption == /\ RingElements \in Nat \ {0} /\ Words \in Nat \ {0}
                          /\ NoTx \in Nat \ {0} /\ TxLen \in Nat \ {0}
                          /\ Split \in Nat \ {0}
ASSUME OpeningAssumption == Opening \in Int
ASSUME PairsAssumption == Pairs \subseteq [from : Addresses, to : Addresses]
ASSUME LocsAssumption == Locs \subseteq [1 .. TxLen -> Pairs]

VARIABLES
  timestamp, last_init, last_complete, ring_wf, pc, start_time, rf, wf, index,
  entry, word, tx_limit, committed, \* of CommitRing
  array,       \* the shared memory
  write_locks, \* the filter of the locked elements
  undo_log,    \* the old values a transaction has to restore, oldest first
  loc,         \* the elements its transaction uses, drawn before it begins
  initial,     \* the transfers it has passed, from which its next partition starts
  more,        \* its next partition is to run
  versions,    \* history: the committed memory after every commit
  since        \* history: the number of versions when loc was drawn

Ring == INSTANCE CommitRing

ring == <<timestamp, last_init, last_complete, ring_wf, pc, start_time, rf, wf, index,
          entry, word, tx_limit, committed>>
memory == <<array, write_locks, undo_log>>
plan == <<loc, initial, more, since>>
vars == <<ring, memory, plan, versions>>

NoLoc == <<>>

Init ==
  /\ Ring!Init
  /\ array = Memory
  /\ write_locks = {}
  /\ undo_log = [t \in Threads |-> <<>>]
  /\ loc = [t \in Threads |-> NoLoc]
  /\ initial = [t \in Threads |-> 0]
  /\ more = [t \in Threads |-> TRUE]
  /\ versions = <<Memory>>
  /\ since = [t \in Threads |-> 1]

\* Mutant: the address is not reduced to the size of the filter.
hashUnreduced(a) == a

hash(a) == a % Words

----------------------------------------------------------------------------
(* The committed memory: what is left when every transaction that has not  *)
(* committed undoes its writes.                                            *)
Uncommitted(t) == pc[t] \in {"run", "pIndex", "abort"} \cup Ring!CheckLabels \cup Ring!CommitLabels

Logged(t) == {undo_log[t][k].addr : k \in DOMAIN undo_log[t]}

WithoutWritesOf(S) ==
  [a \in Addresses |-> IF \E t \in S : a \in Logged(t)
                       THEN Oldest(undo_log[CHOOSE t \in S : a \in Logged(t)], a)
                       ELSE array[a]]

----------------------------------------------------------------------------
Draw(t) ==
  /\ pc[t] = "begin" /\ loc[t] = NoLoc
  /\ \E l \in Locs : loc' = [loc EXCEPT ![t] = l]
  /\ since' = [since EXCEPT ![t] = Len(versions)]
  /\ UNCHANGED <<ring, memory, initial, more, versions>>

TmBegin(t) ==
  /\ loc[t] # NoLoc
  /\ Ring!Begin(t)
  /\ undo_log' = [undo_log EXCEPT ![t] = <<>>]
  /\ initial' = [initial EXCEPT ![t] = 0]
  /\ more' = [more EXCEPT ![t] = TRUE]
  /\ UNCHANGED <<array, write_locks, loc, since, versions>>

Limit  == 50
Amount == 50

(* What a transaction does to the memory, with what it reads, what it      *)
(* writes, and what it logs of it, one record.                             *)
Untouched(m) == [array |-> m, reads |-> {}, writes |-> {}, log |-> <<>>]

TmRead(s, a) == [s EXCEPT !.reads = @ \cup {hash(a)}]

TmWrite(s, a, v) ==
  [array |-> [s.array EXCEPT ![a] = v],
   reads |-> s.reads,
   writes |-> s.writes \cup {hash(a)},
   log |-> Append(s.log, [addr |-> a, val |-> s.array[a]])]

\* The values to be written are read with plain loads: they are in no filter.
Transfer(s, p) ==
  LET read == TmRead(s, p.from)
      credited == TmWrite(read, p.to, s.array[p.to] + Amount)
  IN  IF s.array[p.from] > Limit
      THEN TmWrite(credited, p.from, credited.array[p.from] - Amount)
      ELSE read

\* limit: where the partition ends.
PartEnd(t) == IF initial[t] + Split > TxLen THEN TxLen ELSE initial[t] + Split

\* The transfers up to number n of the partition, run on m.
Done(t, m) ==
  LET done[n \in 0 .. TxLen] ==
        IF n <= initial[t] THEN Untouched(m) ELSE Transfer(done[n - 1], loc[t][n])
  IN  done

Part(t) == Done(t, array)[PartEnd(t)]
PartReads(t) == Part(t).reads
PartWrites(t) == Part(t).writes

OthersLocks(t) == write_locks \ wf[t]

\* Mutants: reads, or writes, of locked elements are not noticed.
ConflictingWrites(t) == PartWrites(t) \cap OthersLocks(t) # {}
ConflictingReads(t) == (rf[t] \cup PartReads(t)) \cap OthersLocks(t) # {}

Conflicting(t) == \/ (rf[t] \cup PartReads(t)) \cap OthersLocks(t) # {}
                  \/ PartWrites(t) \cap OthersLocks(t) # {}

Partition(t) ==
  /\ pc[t] = "run" /\ initial[t] < TxLen /\ more[t]
  /\ ~Conflicting(t)
  /\ Ring!PartitionWith(t, PartReads(t), PartWrites(t))
  /\ array' = Part(t).array
  /\ write_locks' = write_locks \cup PartWrites(t)
  /\ undo_log' = [undo_log EXCEPT ![t] = @ \o Part(t).log]
  /\ more' = [more EXCEPT ![t] = FALSE]
  /\ initial' = [initial EXCEPT ![t] = PartEnd(t)]
  /\ UNCHANGED <<loc, since, versions>>

\* _xabort(X_CONFLICT), which always leads to tm_abort.
PartConflict(t) ==
  /\ pc[t] = "run" /\ initial[t] < TxLen /\ more[t]
  /\ Conflicting(t)
  /\ Ring!Conflict(t)
  /\ UNCHANGED <<memory, plan, versions>>

\* "while (more)" is not entered: the partition's accesses are passed over.
SkipPartition(t) ==
  /\ pc[t] = "run" /\ initial[t] < TxLen /\ ~more[t]
  /\ initial' = [initial EXCEPT ![t] = PartEnd(t)]
  /\ UNCHANGED <<ring, memory, loc, more, since, versions>>

----------------------------------------------------------------------------
(* tm_abort: the writes are undone, latest first, then the locks dropped.  *)
\* Mutant: the log is replayed from its start.
UndoOldest(t) ==
  /\ pc[t] = "abort" /\ undo_log[t] # <<>>
  /\ array' = [array EXCEPT ![Head(undo_log[t]).addr] = Head(undo_log[t]).val]
  /\ undo_log' = [undo_log EXCEPT ![t] = Tail(@)]
  /\ UNCHANGED <<ring, write_locks, plan, versions>>

Undo(t) ==
  /\ pc[t] = "abort" /\ undo_log[t] # <<>>
  /\ array' = [array EXCEPT ![Last(undo_log[t]).addr] = Last(undo_log[t]).val]
  /\ undo_log' = [undo_log EXCEPT ![t] = Front(@)]
  /\ UNCHANGED <<ring, write_locks, plan, versions>>

TmAbort(t) ==
  /\ undo_log[t] = <<>>
  /\ Ring!Abort(t)
  /\ write_locks' = write_locks \ wf[t]
  /\ UNCHANGED <<array, undo_log, plan, versions>>

----------------------------------------------------------------------------
(* tm_check_partition and tm_commit. *)
CheckPartition(t) ==
  /\ \/ Ring!CheckPartition(t) \/ Ring!PartitionScan(t)
     \/ Ring!PartitionAwait(t) \/ Ring!PartitionRollover(t)
  /\ UNCHANGED <<memory, plan, versions>>

\* The end of the iteration, where loc is drawn anew.
CommitReadOnly(t) ==
  /\ initial[t] = TxLen
  /\ Ring!CommitReadOnly(t)
  /\ loc' = [loc EXCEPT ![t] = NoLoc]
  /\ UNCHANGED <<memory, initial, more, since, versions>>

CommitWriter(t) ==
  /\ initial[t] = TxLen
  /\ Ring!CommitWriter(t)
  /\ UNCHANGED <<memory, plan, versions>>

ValidateCommit(t) ==
  /\ \/ Ring!CommitTime(t) \/ Ring!AwaitInit(t) \/ Ring!CommitScan(t)
     \/ Ring!CommitAwait(t) \/ Ring!CommitRollover(t) \/ Ring!CasFails(t)
  /\ UNCHANGED <<memory, plan, versions>>

\* Mutant: the locks are dropped before the ring entry is there to be seen.
CasUnlocks(t) ==
  /\ Ring!CasSucceeds(t)
  /\ versions' = Append(versions, WithoutWritesOf({u \in Threads \ {t} : Uncommitted(u)}))
  /\ write_locks' = write_locks \ wf[t]
  /\ UNCHANGED <<array, undo_log, plan>>

CasSucceeds(t) ==
  /\ Ring!CasSucceeds(t)
  /\ versions' = Append(versions, WithoutWritesOf({u \in Threads \ {t} : Uncommitted(u)}))
  /\ UNCHANGED <<memory, plan>>

Publish(t) ==
  /\ Ring!Copy(t) \/ Ring!SetInit(t) \/ Ring!SetComplete(t)
  /\ UNCHANGED <<memory, plan, versions>>

Release(t) ==
  /\ Ring!Release(t)
  /\ write_locks' = write_locks \ wf[t]
  /\ loc' = [loc EXCEPT ![t] = NoLoc]
  /\ UNCHANGED <<array, undo_log, initial, more, since, versions>>

Step(t) == \/ Draw(t) \/ TmBegin(t) \/ Partition(t) \/ PartConflict(t)
           \/ SkipPartition(t) \/ CheckPartition(t) \/ Undo(t) \/ TmAbort(t)
           \/ CommitReadOnly(t) \/ CommitWriter(t) \/ ValidateCommit(t)
           \/ CasSucceeds(t) \/ Publish(t) \/ Release(t)

Joined == /\ \A t \in Threads : pc[t] = "done"
          /\ UNCHANGED vars

Next == (\E t \in Threads : Step(t)) \/ Joined

Spec == Init /\ [][Next]_vars

----------------------------------------------------------------------------
LogEntries == Entries(Addresses)

TypeOK ==
  /\ Ring!TypeOK
  /\ array \in [Addresses -> Int]
  /\ write_locks \subseteq Ring!Bits
  /\ undo_log \in [Threads -> Seq(LogEntries)]
  /\ loc \in [Threads -> {NoLoc} \cup Locs]
  /\ initial \in [Threads -> 0 .. TxLen]
  /\ more \in [Threads -> BOOLEAN]
  /\ versions \in Seq([Addresses -> Int]) \ {<<>>}
  /\ since \in [Threads -> Nat]

(* The write locks are locks although nobody waits for one: from its first *)
(* write to its commit or the last write undone a transaction keeps every  *)
(* lock it has set, no other transaction has one of them, and it holds the *)
(* lock of every element it would restore.                                 *)
LocksAreExclusive ==
  /\ \A t, u \in Threads : t # u => wf[t] \cap wf[u] = {}
  /\ \A t \in Threads : wf[t] \subseteq write_locks
  /\ \A t \in Threads, a \in Addresses :
       Uncommitted(t) /\ a \in Logged(t) => hash(a) \in wf[t]

(* Nothing an unfinished transaction does touches the committed memory:    *)
(* however many have written and however far their undoing is, restoring   *)
(* what they still have to restore gives the last committed version.       *)
CommittedStateIntact ==
  LET running == {t \in Threads : Uncommitted(t)} IN
  WithoutWritesOf(running) = Last(versions)

----------------------------------------------------------------------------
(* The inductive invariant behind the two. *)
PlanInv == \A t \in Threads : pc[t] \notin {"begin", "done"} => loc[t] # NoLoc

\* CommittedStateIntact element by element.
IntactInv ==
  \A a \in Addresses :
    /\ \A t \in Threads : Uncommitted(t) /\ a \in Logged(t) =>
                           Last(versions)[a] = Oldest(undo_log[t], a)
    /\ (\A t \in Threads : Uncommitted(t) => a \notin Logged(t)) =>
         Last(versions)[a] = array[a]

IInv == TypeOK /\ PlanInv /\ LocksAreExclusive /\ IntactInv

----------------------------------------------------------------------------
(* Part-HTM implements SerialHistory for the transfers that run, those of  *)
(* the first partition: those of a writer take effect together when its    *)
(* compare-and-swap succeeds, and have no effect before; one that has      *)
(* written nothing has seen one version.                                   *)
Executed == IF Split > TxLen THEN TxLen ELSE Split

Job(t) == [n \in 1 .. Executed |-> loc[t][n]]

Serial == INSTANCE SerialHistory WITH
  Parts <- Executed,
  job <- [t \in Threads |-> IF pc[t] \in Ring!PublishLabels \cup {"release"} \/ loc[t] = NoLoc
                            THEN NoLoc ELSE Job(t)]

ImplementsSerialHistory == Serial!Spec

----------------------------------------------------------------------------
(* The inductive invariant behind the refinement. *)

\* Version k + 1 is the one commit k made; it differs where that commit wrote.
VersionsInv ==
  /\ Len(versions) = timestamp + 1
  /\ \A k \in 1 .. timestamp, a \in Addresses :
       versions[k + 1][a] # versions[k][a] => hash(a) \in committed[k]
  /\ \A t \in Threads : since[t] <= Len(versions)

\* A commit that is not complete still has its thread, and so its locks.
PendingInv == timestamp # last_complete => \E t \in Threads : Ring!Publishing(t)

Executing(t) == pc[t] \in {"run", "pIndex"} \cup Ring!CheckLabels
Validating(t) == pc[t] \in Ring!CommitLabels

\* The transfers it has run.
Did(t) == IF more[t] THEN 0 ELSE Executed

PlaceInv ==
  \A t \in Threads :
    /\ Validating(t) => ~more[t]
    /\ Executing(t) /\ more[t] => initial[t] = 0 /\ undo_log[t] = <<>>
    /\ Executing(t) \/ Validating(t) =>
         \A n \in 1 .. Did(t) : hash(loc[t][n].from) \in rf[t]

\* The commits since its start_time, up to n, wrote nothing that t has read.
Unharmed(t, n) == \A k \in start_time[t] + 1 .. n : committed[k] \cap rf[t] = {}

\* What t has done so far, replayed on m, gives m with the writes of t.
Replays(t, m) ==
  LET after == Serial!After(Job(t), m) IN
  /\ \A a \in Addresses :
       after[Did(t)][a] = IF a \in Logged(t) THEN array[a] ELSE m[a]
  /\ \A n \in 1 .. Did(t) :
       after[n - 1][loc[t][n].from] > Limit => {hash(loc[t][n].from), hash(loc[t][n].to)} \subseteq wf[t]

\* A transaction that no commit has harmed might have started just now.
ReplayInv ==
  \A t \in Threads :
    (Executing(t) \/ Validating(t)) /\ Unharmed(t, timestamp) => Replays(t, Last(versions))

\* The commits a transaction knows of: those its next comparison takes in.
Known(t) == IF pc[t] = "pIndex" THEN last_complete
            ELSE IF pc[t] \in Ring!CheckLabels THEN index[t] ELSE start_time[t]

\* If none of these harms it, one that has written nothing has found nothing to
\* transfer in the version of its start_time, nor in any of those between it
\* and the one that was the last when it was drawn.
ObservedInv ==
  \A t \in Threads :
    Executing(t) /\ wf[t] = {} /\ Unharmed(t, Known(t)) =>
      \A k \in start_time[t] .. timestamp : k = start_time[t] \/ k < since[t] =>
        \A n \in 1 .. Did(t) : versions[k + 1][loc[t][n].from] <= Limit

SerialInv == VersionsInv /\ PendingInv /\ PlaceInv /\ ReplayInv /\ ObservedInv
=============================================================================
