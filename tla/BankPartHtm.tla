---------------------------- MODULE BankPartHtm ----------------------------
(***************************************************************************)
(* The programs Part-HTM has grown from, where it is written out in tx_fn. *)
(* A transaction is tried as one hardware transaction, which looks at the  *)
(* write locks but neither sets them nor enters the ring; when that has    *)
(* failed, it runs in partitions as in PartHtm.  The programs differ in    *)
(* what a transaction that has undone its writes sets back:                *)
(*   "bank"  (benchmarks/htm_Bank.cpp, htm_Bank2.cpp, htm_Bank3.cpp)       *)
(*           nothing: it goes on with its next partition, or commits if    *)
(*           the last one was the one that failed;                         *)
(*   "macro" (htm_trial1.cpp) more, but not initial: it goes on with the   *)
(*           partition that failed;                                        *)
(*   "inner" (htm.cpp, htm_trial2.cpp) initial, but not more: it begins    *)
(*           again, or commits if the last partition was the one that      *)
(*           failed.                                                       *)
(* A transaction of "bank" and "macro" takes a timestamp also when it has  *)
(* written nothing; one of "inner" only when its thread has ever written,  *)
(* and there the commit does not compare from the start_time of the        *)
(* transaction, a local variable, but from tx->start_time, which is where  *)
(* the thread's last commit has ended.                                     *)
(*                                                                         *)
(* Transactions of the hardware and write_locks.differencewith are one     *)
(* step, as in PartHtm.                                                    *)
(***************************************************************************)
EXTENDS Integers, SequencesExt, UndoLog, Sums

CONSTANTS Threads, RingElements, Words, NoTx, \* as in CommitRing
          ArraySize, \* ARRAY_SIZE
          Opening,   \* what main puts in every element
          Locs,      \* the pairs of elements that may be drawn, as sequences, where
                     \* every pair is a partition
          HtmRetry,  \* attempts in hardware: 5 in htm_Bank2.cpp, RETRY_SHORT in
                     \* htm_trial1.cpp, 1 in the others
          Programs   \* the programs that are run

Addresses == 0 .. ArraySize - 1

ASSUME SizesAssumption == /\ RingElements \in Nat \ {0} /\ Words \in Nat \ {0}
                          /\ NoTx \in Nat \ {0} /\ ArraySize \in Nat \ {0}
                          /\ HtmRetry \in Nat \ {0}
ASSUME OpeningAssumption == Opening \in Int
ASSUME ProgramsAssumption == Programs \subseteq {"bank", "macro", "inner"}
ASSUME LocsAssumption == Locs \subseteq Seq([from : Addresses, to : Addresses]) \ {<<>>}

VARIABLES
  timestamp, last_init, last_complete, ring_wf, pc, start_time, rf, wf, index,
  entry, word, tx_limit, committed, \* of CommitRing
  array, write_locks, undo_log,
  loc,          \* the pairs its transaction transfers between
  initial, more,\* its next partition, and whether there is one
  htm_retry,    \* its failed attempts in hardware
  program,      \* which program it is
  tx_start,     \* tx->start_time of "inner"
  read_only,    \* tx->read_only of "inner"
  balances      \* history: the array as committed transactions have left it

Ring == INSTANCE CommitRing

ring == <<timestamp, last_init, last_complete, ring_wf, pc, start_time, rf, wf, index,
          entry, word, tx_limit, committed>>
memory == <<array, write_locks, undo_log>>
plan == <<loc, initial, more, htm_retry>>
context == <<program, tx_start, read_only>>
vars == <<ring, memory, plan, context, balances>>

\* What the commit of "inner" compares from.
RingLate == INSTANCE CommitRing WITH start_time <- tx_start

NoLoc == <<>>

Init ==
  /\ Ring!Init
  /\ array = [a \in Addresses |-> Opening]
  /\ write_locks = {}
  /\ undo_log = [t \in Threads |-> <<>>]
  /\ loc = [t \in Threads |-> NoLoc]
  /\ initial = [t \in Threads |-> 1]
  /\ more = [t \in Threads |-> FALSE]
  /\ htm_retry = [t \in Threads |-> 0]
  /\ program \in Programs
  /\ tx_start = [t \in Threads |-> 0]
  /\ read_only = [t \in Threads |-> TRUE]
  /\ balances = array

hash(a) == a % Words

----------------------------------------------------------------------------
(* What a transaction does to the array m, with its filters and its log.   *)
Untouched(m) == [array |-> m, reads |-> {}, writes |-> {}, log |-> <<>>]

\* "inner" adds an element to the read filter before it looks at its value.
Reads(p) == IF program = "inner" THEN {hash(p.from)} ELSE {}

Moved(m, p) == LET credited == [m EXCEPT ![p.to] = @ + 50]
               IN  [credited EXCEPT ![p.from] = @ - 50]

Transfer(s, p) ==
  IF s.array[p.from] > 50
  THEN [array  |-> Moved(s.array, p),
        reads  |-> s.reads \cup Reads(p),
        writes |-> s.writes \cup {hash(p.from), hash(p.to)},
        log    |-> s.log \o << [addr |-> p.from, val |-> s.array[p.from]],
                               [addr |-> p.to, val |-> s.array[p.to]] >>]
  ELSE [s EXCEPT !.reads = @ \cup {hash(p.from)}]

\* What the first n pairs of a transaction do to m.
After(t, m) ==
  LET after[n \in 0 .. Len(loc[t])] ==
        IF n = 0 THEN Untouched(m) ELSE Transfer(after[n - 1], loc[t][n])
  IN  after

Whole(t, m) == After(t, m)[Len(loc[t])]
Part(t) == Transfer(Untouched(array), loc[t][initial[t]])

\* Mutant: only reads are compared with the locks.
LocksOfReads(t, s) == (rf[t] \cup s.reads) \cap (write_locks \ wf[t]) # {}

MeetsLocks(t, s) == (rf[t] \cup s.reads \cup s.writes) \cap (write_locks \ wf[t]) # {}

Draw(t) ==
  /\ pc[t] = "begin" /\ loc[t] = NoLoc
  /\ \E l \in Locs : loc' = [loc EXCEPT ![t] = l]
  /\ htm_retry' = [htm_retry EXCEPT ![t] = 0]
  /\ UNCHANGED <<ring, memory, initial, more, context, balances>>

Attempting(t) == pc[t] = "begin" /\ loc[t] # NoLoc /\ htm_retry[t] < HtmRetry

HtmCommit(t) ==
  /\ Attempting(t)
  /\ ~MeetsLocks(t, Whole(t, array))
  /\ array' = Whole(t, array).array
  /\ balances' = Whole(t, balances).array
  /\ Ring!FinishTx(t)
  /\ loc' = [loc EXCEPT ![t] = NoLoc]
  /\ UNCHANGED <<timestamp, last_init, last_complete, ring_wf, start_time, index, entry, word,
                 committed, write_locks, undo_log, initial, more, htm_retry, context>>

\* By _xabort(X_CONFLICT), or as the hardware likes.
HtmAbort(t) ==
  /\ Attempting(t)
  /\ htm_retry' = [htm_retry EXCEPT ![t] = @ + 1]
  /\ initial' = [initial EXCEPT ![t] = 1]
  /\ more' = [more EXCEPT ![t] = TRUE]
  /\ undo_log' = [undo_log EXCEPT ![t] = <<>>]
  /\ UNCHANGED <<ring, array, write_locks, loc, context, balances>>

----------------------------------------------------------------------------
(* The retry loop. *)
Retry(t) ==
  /\ htm_retry[t] = HtmRetry /\ loc[t] # NoLoc
  /\ Ring!Begin(t)
  /\ more' = [more EXCEPT ![t] = @ \/ program = "macro"]
  /\ initial' = [initial EXCEPT ![t] = IF program = "inner" THEN 1 ELSE @]
  /\ UNCHANGED <<memory, loc, htm_retry, context, balances>>

\* Mutant: initial is advanced after the last partition, too.
PartitionBeyond(t) ==
  /\ pc[t] = "run" /\ more[t]
  /\ LET s == Part(t) IN
     /\ ~MeetsLocks(t, s)
     /\ Ring!PartitionWith(t, s.reads, s.writes)
     /\ array' = s.array
     /\ write_locks' = write_locks \cup s.writes
     /\ undo_log' = [undo_log EXCEPT ![t] = @ \o s.log]
  /\ more' = [more EXCEPT ![t] = initial[t] < Len(loc[t])]
  /\ initial' = [initial EXCEPT ![t] = @ + 1]
  /\ read_only' = [read_only EXCEPT ![t] = @ /\ (program = "inner" => undo_log'[t] = <<>>)]
  /\ UNCHANGED <<loc, htm_retry, program, tx_start, balances>>

Partition(t) ==
  /\ pc[t] = "run" /\ more[t]
  /\ LET s == Part(t) IN
     /\ ~MeetsLocks(t, s)
     /\ Ring!PartitionWith(t, s.reads, s.writes)
     /\ array' = s.array
     /\ write_locks' = write_locks \cup s.writes
     /\ undo_log' = [undo_log EXCEPT ![t] = @ \o s.log]
  /\ more' = [more EXCEPT ![t] = initial[t] < Len(loc[t])]
  /\ initial' = [initial EXCEPT ![t] = IF @ < Len(loc[t]) THEN @ + 1 ELSE @]
  /\ read_only' = [read_only EXCEPT ![t] = @ /\ (program = "inner" => undo_log'[t] = <<>>)]
  /\ UNCHANGED <<loc, htm_retry, program, tx_start, balances>>

\* more is FALSE when the transaction begins, and stays so.
PartConflict(t) ==
  /\ pc[t] = "run" /\ more[t]
  /\ MeetsLocks(t, Part(t))
  /\ Ring!Conflict(t)
  /\ more' = [more EXCEPT ![t] = FALSE]
  /\ UNCHANGED <<memory, loc, initial, htm_retry, context, balances>>

CheckPartition(t) ==
  /\ \/ Ring!CheckPartition(t) \/ Ring!PartitionScan(t)
     \/ Ring!PartitionAwait(t) \/ Ring!PartitionRollover(t)
  /\ UNCHANGED <<memory, plan, context, balances>>

\* Mutant: the log is replayed from its start.
UndoOldest(t) ==
  /\ pc[t] = "abort" /\ undo_log[t] # <<>>
  /\ array' = [array EXCEPT ![Head(undo_log[t]).addr] = Head(undo_log[t]).val]
  /\ undo_log' = [undo_log EXCEPT ![t] = Tail(@)]
  /\ UNCHANGED <<ring, write_locks, plan, context, balances>>

Undo(t) ==
  /\ pc[t] = "abort" /\ undo_log[t] # <<>>
  /\ array' = [array EXCEPT ![Last(undo_log[t]).addr] = Last(undo_log[t]).val]
  /\ undo_log' = [undo_log EXCEPT ![t] = Front(@)]
  /\ UNCHANGED <<ring, write_locks, plan, context, balances>>

\* Mutant: wf is cleared before its bits are taken out of write_locks.
KeepsLocks(t) ==
  /\ undo_log[t] = <<>>
  /\ Ring!Abort(t)
  /\ write_locks' = write_locks \ wf'[t]
  /\ UNCHANGED <<array, undo_log, plan, context, balances>>

Undone(t) ==
  /\ undo_log[t] = <<>>
  /\ Ring!Abort(t)
  /\ write_locks' = write_locks \ wf[t]
  /\ UNCHANGED <<array, undo_log, plan, context, balances>>

----------------------------------------------------------------------------
(* The commit. *)
ReadOnly(t) == program = "inner" /\ read_only[t]

CommitReadOnly(t) ==
  /\ pc[t] = "run" /\ ~more[t] /\ ReadOnly(t)
  /\ Ring!FinishTx(t)
  /\ loc' = [loc EXCEPT ![t] = NoLoc]
  /\ UNCHANGED <<timestamp, last_init, last_complete, ring_wf, start_time, index, entry, word,
                 committed, memory, initial, more, htm_retry, context, balances>>

EndParts(t) ==
  /\ pc[t] = "run" /\ ~more[t] /\ ~ReadOnly(t)
  /\ Ring!Goto(t, "cTime")
  /\ UNCHANGED <<timestamp, last_init, last_complete, ring_wf, start_time, rf, wf, index,
                 entry, word, tx_limit, committed, memory, plan, context, balances>>

\* Mutant: the timestamp is read before the loop, not in it.
ValidateOnce(t) ==
  /\ program # "inner"
  /\ \/ Ring!CommitTime(t) \/ Ring!AwaitInit(t) \/ Ring!CommitScan(t)
     \/ Ring!CommitAwait(t) \/ Ring!CommitRollover(t) \/ Ring!CasRepeats(t)
  /\ UNCHANGED <<memory, plan, context, balances>>

ValidateCommit(t) ==
  /\ program # "inner"
  /\ \/ Ring!CommitTime(t) \/ Ring!AwaitInit(t) \/ Ring!CommitScan(t)
     \/ Ring!CommitAwait(t) \/ Ring!CommitRollover(t) \/ Ring!CasFails(t)
  /\ UNCHANGED <<memory, plan, context, balances>>

\* The same in "inner": a new transaction does not set tx->start_time.
ValidateLate(t) ==
  /\ program = "inner"
  /\ \/ RingLate!CommitTime(t) \/ RingLate!AwaitInit(t) \/ RingLate!CommitScan(t)
     \/ RingLate!CommitAwait(t) \/ RingLate!CommitRollover(t) \/ RingLate!CasFails(t)
  /\ UNCHANGED <<start_time, memory, plan, program, read_only, balances>>

Logged(t) == Addrs(undo_log[t])

CasSucceeds(t) ==
  /\ Ring!CasSucceeds(t)
  /\ balances' = [a \in Addresses |-> balances[a] +
                    (IF a \in Logged(t) THEN array[a] - Oldest(undo_log[t], a) ELSE 0)]
  /\ UNCHANGED <<memory, plan, context>>

Publish(t) ==
  /\ Ring!Copy(t) \/ Ring!SetInit(t) \/ Ring!SetComplete(t)
  /\ UNCHANGED <<memory, plan, context, balances>>

Release(t) ==
  /\ Ring!Release(t)
  /\ write_locks' = write_locks \ wf[t]
  /\ loc' = [loc EXCEPT ![t] = NoLoc]
  /\ UNCHANGED <<array, undo_log, initial, more, htm_retry, context, balances>>

Step(t) == \/ Draw(t) \/ HtmCommit(t) \/ HtmAbort(t) \/ Retry(t)
           \/ Partition(t) \/ PartConflict(t) \/ CheckPartition(t) \/ Undo(t) \/ Undone(t)
           \/ CommitReadOnly(t) \/ EndParts(t) \/ ValidateCommit(t) \/ ValidateLate(t)
           \/ CasSucceeds(t) \/ Publish(t) \/ Release(t)

AllDone == \A t \in Threads : pc[t] = "done"
Joined  == AllDone /\ UNCHANGED vars

Next == (\E t \in Threads : Step(t)) \/ Joined

Spec == Init /\ [][Next]_vars

\* A thread that can take a step does; hardware need not commit anything whole.
FairSpec == Spec /\ \A t \in Threads : WF_vars(Step(t))

----------------------------------------------------------------------------
Unfinished(t) == pc[t] \notin {"begin", "release", "done"} \cup Ring!PublishLabels

TypeOK ==
  /\ Ring!TypeOK
  /\ array \in [Addresses -> Int] /\ balances \in [Addresses -> Int]
  /\ write_locks \subseteq Ring!Bits
  /\ undo_log \in [Threads -> Seq(Entries(Addresses))]
  /\ loc \in [Threads -> Locs \cup {NoLoc}]
  /\ initial \in [Threads -> Nat] /\ more \in [Threads -> BOOLEAN]
  /\ \A t \in Threads : Unfinished(t) => initial[t] \in DOMAIN loc[t]
  /\ htm_retry \in [Threads -> 0 .. HtmRetry]
  /\ program \in Programs
  /\ tx_start \in [Threads -> Nat] /\ \A t \in Threads : tx_start[t] <= last_complete
  /\ read_only \in [Threads -> BOOLEAN]

(* What the array would be if every unfinished transaction undid its       *)
(* writes is what the committed ones made of it, one after the other and   *)
(* however they ran: transactions in hardware, which set no locks, use no  *)
(* value that may be undone, and nothing undone or skipped is counted.     *)
BalancesAddUp ==
  \A a \in Addresses :
    balances[a] = IF \E t \in Threads : Unfinished(t) /\ a \in Logged(t)
                  THEN LET t == CHOOSE u \in Threads : Unfinished(u) /\ a \in Logged(u)
                       IN  Oldest(undo_log[t], a)
                  ELSE array[a]

(* When main prints the sum, there is in the array what was there before,  *)
(* no write lock is left and the ring has ended every commit it has begun. *)
FinalSum ==
  AllDone => /\ Total(array, ArraySize) = ArraySize * Opening
             /\ write_locks = {}
             /\ last_init = timestamp /\ last_complete = timestamp

(* The inductive invariant behind these. *)

\* A transaction that has not been tried in hardware may still have the log of
\* the one before it.
StartInv ==
  \A t \in Threads :
    pc[t] = "begin" /\ loc[t] # NoLoc /\ htm_retry[t] > 0 =>
      initial[t] \in DOMAIN loc[t] /\ undo_log[t] = <<>>

LocksInv ==
  /\ \A t, u \in Threads : t # u => wf[t] \cap wf[u] = {}
  /\ write_locks = UNION {wf[t] : t \in Threads}
  /\ \A t \in Threads : pc[t] \in {"begin", "done"} => wf[t] = {}
  /\ \A t \in Threads, a \in Addresses :
       Unfinished(t) /\ a \in Logged(t) => hash(a) \in wf[t]
  /\ \A t \in Threads : ReadOnly(t) => wf[t] = {} /\ undo_log[t] = <<>>

\* BalancesAddUp, from the side of a transaction.
IntactInv ==
  \A a \in Addresses :
    /\ \A t \in Threads : Unfinished(t) /\ a \in Logged(t) =>
                           balances[a] = Oldest(undo_log[t], a)
    /\ (\A t \in Threads : Unfinished(t) => a \notin Logged(t)) => balances[a] = array[a]

\* The balances if t committed as it stands.
Written(t) == [a \in Addresses |-> IF a \in Logged(t) THEN array[a] ELSE balances[a]]

SumInv ==
  /\ Total(balances, ArraySize) = ArraySize * Opening
  /\ \A t \in Threads : Unfinished(t) /\ pc[t] # "abort" =>
       Total(Written(t), ArraySize) = ArraySize * Opening

\* The timestamp a transaction takes follows a commit that is complete.
CommitInv ==
  /\ Ring!OneCommitter
  /\ \A t \in Threads :
       /\ start_time[t] <= last_complete
       /\ pc[t] \in {"pRoll", "cRoll", "cas"} => index[t] <= last_complete
       /\ Ring!Publishing(t) =>
            /\ timestamp = index[t] + 1 /\ last_complete = index[t]
            /\ last_init = IF pc[t] = "complete" THEN index[t] + 1 ELSE index[t]
  /\ (\A t \in Threads : ~Ring!Publishing(t)) => last_init = timestamp /\ last_complete = timestamp

IInv == TypeOK /\ StartInv /\ LocksInv /\ IntactInv /\ SumInv /\ CommitInv

----------------------------------------------------------------------------
\* What the ring has of the commits since tx->start_time is lost.
Stranded(t) == /\ program = "inner" /\ ~read_only[t]
               /\ timestamp > tx_start[t] + RingElements

(* Every thread finishes although transactions abort each other, since     *)
(* what is undone is not begun again as a whole for ever; but not a thread *)
(* of "inner" that others have outrun by a whole ring since it committed:  *)
(* no transaction that it begins can make up for that.                     *)
Termination == <>\A t \in Threads : pc[t] = "done" \/ Stranded(t)
=============================================================================
