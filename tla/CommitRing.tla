----------------------------- MODULE CommitRing -----------------------------
(***************************************************************************)
(* The commit ring of Part-HTM (htm.cpp: TM_BEGIN, tm_check_partition,     *)
(* tm_commit, TM_END), after the RingSTM algorithm it comes from.  A       *)
(* software transaction runs as several hardware transactions, its         *)
(* partitions.  Every writer that commits takes the next timestamp, puts   *)
(* the filter of what it wrote in the ring and announces the entry by      *)
(* last_init and last_complete.  After each partition, and when it         *)
(* commits, a transaction compares what it has read with the entries that  *)
(* are new since its start_time.                                           *)
(*                                                                         *)
(* Here a partition reads and writes whatever it likes and may abort; the  *)
(* memory, the write locks and the undo log are in PartHtm.  Filters are   *)
(* copied and compared word by word, so a filter has one bit per word.     *)
(***************************************************************************)
EXTENDS Integers, Sequences

CONSTANTS Threads,      \* the worker threads
          RingElements, \* RING_ELEMENTS
          Words,        \* WORD_BLOCKS, the words of a filter
          NoTx          \* NO_TX, the transactions of a thread

ASSUME RingElementsAssumption == RingElements \in Nat \ {0}
ASSUME WordsAssumption        == Words \in Nat \ {0}
ASSUME NoTxAssumption         == NoTx \in Nat \ {0}

Bits == 0 .. Words - 1

VARIABLES
  timestamp, last_init, last_complete, \* the three counters
  ring_wf,    \* the ring of write filters
  pc,         \* the next statement of a thread
  start_time, \* its tx->start_time
  rf, wf,     \* its read and write filters
  index,      \* my_index in tm_check_partition, commit_time in tm_commit
  entry, word,\* the ring entry and the word it compares or copies
  tx_limit,   \* the transactions it has finished
  committed   \* history: the write filter of the commit with timestamp k

counters == <<timestamp, last_init, last_complete>>
filters == <<rf, wf>>
scan == <<entry, word>>
vars == <<counters, ring_wf, pc, start_time, filters, index, scan, tx_limit, committed>>

CheckLabels == {"pScan", "pWait", "pRoll"}
CommitLabels == {"cTime", "cInit", "cScan", "cWait", "cRoll", "cas"}
PublishLabels == {"copy", "init", "complete"}
Labels == {"begin", "run", "pIndex", "release", "abort", "done"}
            \cup CheckLabels \cup CommitLabels \cup PublishLabels

Init ==
  /\ timestamp = 0 /\ last_init = 0 /\ last_complete = 0
  /\ ring_wf = [e \in 0 .. RingElements - 1 |-> {}]
  /\ pc = [t \in Threads |-> "begin"]
  /\ start_time = [t \in Threads |-> 0]
  /\ rf = [t \in Threads |-> {}] /\ wf = [t \in Threads |-> {}]
  /\ index = [t \in Threads |-> 0]
  /\ entry = [t \in Threads |-> 0] /\ word = [t \in Threads |-> 0]
  /\ tx_limit = [t \in Threads |-> 0]
  /\ committed = <<>>

Goto(t, label) == pc' = [pc EXCEPT ![t] = label]

\* tx->read_only: a transaction stays read-only until a partition writes.
ReadOnly(t) == wf[t] = {}

----------------------------------------------------------------------------
Begin(t) ==
  /\ pc[t] = "begin"
  /\ start_time' = [start_time EXCEPT ![t] = last_complete]
  /\ Goto(t, "run")
  /\ UNCHANGED <<counters, ring_wf, filters, index, scan, tx_limit, committed>>

\* A partition's hardware transaction commits, having read R and written W.
PartitionWith(t, R, W) ==
  /\ pc[t] = "run"
  /\ rf' = [rf EXCEPT ![t] = @ \cup R]
  /\ wf' = [wf EXCEPT ![t] = @ \cup W]
  /\ Goto(t, "pIndex")
  /\ UNCHANGED <<counters, ring_wf, start_time, index, scan, tx_limit, committed>>

Partition(t) == \E R, W \in SUBSET Bits : PartitionWith(t, R, W)

\* The partition met a write lock: tm_abort.
Conflict(t) ==
  /\ pc[t] = "run"
  /\ Goto(t, "abort")
  /\ UNCHANGED <<counters, ring_wf, start_time, filters, index, scan, tx_limit, committed>>

----------------------------------------------------------------------------
(* The comparison with the new entries, from the latest, index[t], down to *)
(* start_time[t] + 1, as tm_check_partition and tm_commit both do it.      *)
StartScan(t, newest) == /\ entry' = [entry EXCEPT ![t] = newest]
                        /\ word' = [word EXCEPT ![t] = 0]

Hit(t) == word[t] \in ring_wf[entry[t] % RingElements] \cap rf[t]

\* Mutant: the entry right after start_time is not compared.
ScanButLast(t, here, next) ==
  /\ pc[t] = here
  /\ \/ entry[t] <= start_time[t] + 1 /\ Goto(t, next) /\ UNCHANGED scan
     \/ entry[t] > start_time[t] + 1 /\ Hit(t) /\ Goto(t, "abort") /\ UNCHANGED scan
     \/ /\ entry[t] > start_time[t] + 1 /\ ~Hit(t)
        /\ word' = [word EXCEPT ![t] = (@ + 1) % Words]
        /\ entry' = IF word[t] + 1 < Words THEN entry ELSE [entry EXCEPT ![t] = @ - 1]
        /\ pc' = pc
  /\ UNCHANGED <<counters, ring_wf, start_time, filters, index, tx_limit, committed>>

Scan(t, here, next) ==
  /\ pc[t] = here
  /\ \/ entry[t] <= start_time[t] /\ Goto(t, next) /\ UNCHANGED scan
     \/ entry[t] > start_time[t] /\ Hit(t) /\ Goto(t, "abort") /\ UNCHANGED scan
     \/ /\ entry[t] > start_time[t] /\ ~Hit(t)
        /\ word' = [word EXCEPT ![t] = (@ + 1) % Words]
        /\ entry' = IF word[t] + 1 < Words THEN entry ELSE [entry EXCEPT ![t] = @ - 1]
        /\ pc' = pc
  /\ UNCHANGED <<counters, ring_wf, start_time, filters, index, tx_limit, committed>>

\* Mutant: the newest entry need not be complete.
AwaitNothing(t, here, next) ==
  /\ pc[t] = here
  /\ Goto(t, next)
  /\ UNCHANGED <<counters, ring_wf, start_time, filters, index, scan, tx_limit, committed>>

AwaitComplete(t, here, next) ==
  /\ pc[t] = here
  /\ last_complete >= index[t]
  /\ Goto(t, next)
  /\ UNCHANGED <<counters, ring_wf, start_time, filters, index, scan, tx_limit, committed>>

\* Mutant: a ring that has turned once too often is tolerated.
LateRollover(t, here, next) ==
  /\ pc[t] = here
  /\ IF timestamp > start_time[t] + RingElements + 1
     THEN Goto(t, "abort") /\ UNCHANGED start_time
     ELSE Goto(t, next) /\ start_time' = [start_time EXCEPT ![t] = index[t]]
  /\ UNCHANGED <<counters, ring_wf, filters, index, scan, tx_limit, committed>>

Rollover(t, here, next) ==
  /\ pc[t] = here
  /\ IF timestamp > start_time[t] + RingElements
     THEN Goto(t, "abort") /\ UNCHANGED start_time
     ELSE Goto(t, next) /\ start_time' = [start_time EXCEPT ![t] = index[t]]
  /\ UNCHANGED <<counters, ring_wf, filters, index, scan, tx_limit, committed>>

----------------------------------------------------------------------------
CheckPartition(t) ==
  /\ pc[t] = "pIndex"
  /\ index' = [index EXCEPT ![t] = last_init]
  /\ StartScan(t, last_init)
  /\ Goto(t, IF last_init # start_time[t] THEN "pScan" ELSE "run")
  /\ UNCHANGED <<counters, ring_wf, start_time, filters, tx_limit, committed>>

PartitionScan(t) == Scan(t, "pScan", "pWait")
PartitionAwait(t) == AwaitComplete(t, "pWait", "pRoll")
PartitionRollover(t) == Rollover(t, "pRoll", "run")

----------------------------------------------------------------------------
\* The end of an iteration of the thread's loop.
FinishTx(t) ==
  /\ rf' = [rf EXCEPT ![t] = {}]
  /\ wf' = [wf EXCEPT ![t] = {}]
  /\ tx_limit' = [tx_limit EXCEPT ![t] = @ + 1]
  /\ Goto(t, IF tx_limit[t] + 1 < NoTx THEN "begin" ELSE "done")

CommitReadOnly(t) ==
  /\ pc[t] = "run" /\ ReadOnly(t)
  /\ FinishTx(t)
  /\ UNCHANGED <<counters, ring_wf, start_time, index, scan, committed>>

CommitWriter(t) ==
  /\ pc[t] = "run" /\ ~ReadOnly(t)
  /\ Goto(t, "cTime")
  /\ UNCHANGED <<counters, ring_wf, start_time, filters, index, scan, tx_limit, committed>>

CommitTime(t) ==
  /\ pc[t] = "cTime"
  /\ index' = [index EXCEPT ![t] = timestamp]
  /\ Goto(t, IF timestamp # start_time[t] THEN "cInit" ELSE "cas")
  /\ UNCHANGED <<counters, ring_wf, start_time, filters, scan, tx_limit, committed>>

AwaitInit(t) ==
  /\ pc[t] = "cInit"
  /\ last_init >= index[t]
  /\ StartScan(t, index[t])
  /\ Goto(t, "cScan")
  /\ UNCHANGED <<counters, ring_wf, start_time, filters, index, tx_limit, committed>>

CommitScan(t) == Scan(t, "cScan", "cWait")
CommitAwait(t) == AwaitComplete(t, "cWait", "cRoll")
CommitRollover(t) == Rollover(t, "cRoll", "cas")

CasSucceeds(t) ==
  /\ pc[t] = "cas" /\ timestamp = index[t]
  /\ timestamp' = timestamp + 1
  /\ committed' = Append(committed, wf[t])
  /\ word' = [word EXCEPT ![t] = 0]
  /\ Goto(t, "copy")
  /\ UNCHANGED <<last_init, last_complete, ring_wf, start_time, filters, index, entry, tx_limit>>

\* Mutant: the timestamp is read before the loop, not in it.
CasRepeats(t) ==
  /\ pc[t] = "cas" /\ timestamp # index[t]
  /\ UNCHANGED vars

CasFails(t) ==
  /\ pc[t] = "cas" /\ timestamp # index[t]
  /\ Goto(t, "cTime")
  /\ UNCHANGED <<counters, ring_wf, start_time, filters, index, scan, tx_limit, committed>>

Copy(t) ==
  /\ pc[t] = "copy"
  /\ ring_wf' = [ring_wf EXCEPT ![(index[t] + 1) % RingElements] =
                   IF word[t] \in wf[t] THEN @ \cup {word[t]} ELSE @ \ {word[t]}]
  /\ word' = [word EXCEPT ![t] = (@ + 1) % Words]
  /\ Goto(t, IF word[t] + 1 < Words THEN "copy" ELSE "init")
  /\ UNCHANGED <<counters, start_time, filters, index, entry, tx_limit, committed>>

SetInit(t) ==
  /\ pc[t] = "init"
  /\ last_init' = index[t] + 1
  /\ Goto(t, "complete")
  /\ UNCHANGED <<timestamp, last_complete, ring_wf, start_time, filters, index, scan, tx_limit, committed>>

SetComplete(t) ==
  /\ pc[t] = "complete"
  /\ last_complete' = index[t] + 1
  /\ Goto(t, "release")
  /\ UNCHANGED <<timestamp, last_init, ring_wf, start_time, filters, index, scan, tx_limit, committed>>

Release(t) ==
  /\ pc[t] = "release"
  /\ FinishTx(t)
  /\ UNCHANGED <<counters, ring_wf, start_time, index, scan, committed>>

Abort(t) ==
  /\ pc[t] = "abort"
  /\ rf' = [rf EXCEPT ![t] = {}]
  /\ wf' = [wf EXCEPT ![t] = {}]
  /\ Goto(t, "begin")
  /\ UNCHANGED <<counters, ring_wf, start_time, index, scan, tx_limit, committed>>

Step(t) == \/ Begin(t) \/ Partition(t) \/ Conflict(t)
           \/ CheckPartition(t)
           \/ PartitionScan(t) \/ PartitionAwait(t) \/ PartitionRollover(t)
           \/ CommitReadOnly(t) \/ CommitWriter(t) \/ CommitTime(t) \/ AwaitInit(t)
           \/ CommitScan(t) \/ CommitAwait(t) \/ CommitRollover(t)
           \/ CasSucceeds(t) \/ CasFails(t)
           \/ Copy(t) \/ SetInit(t) \/ SetComplete(t)
           \/ Release(t) \/ Abort(t)

\* main joins its threads when all have finished.
Joined == /\ \A t \in Threads : pc[t] = "done"
          /\ UNCHANGED vars

Next == (\E t \in Threads : Step(t)) \/ Joined

Spec == Init /\ [][Next]_vars

\* A thread that can take a step eventually does.
FairSpec == Spec /\ \A t \in Threads : WF_vars(Step(t))

----------------------------------------------------------------------------
Publishing(t) == pc[t] \in PublishLabels

\* The bits of the entry for commit k that t has compared with its reads.
Compared(t, k, b) ==
  \/ pc[t] \in {"pScan", "cScan"} /\ (k > entry[t] \/ (k = entry[t] /\ b < word[t]))
  \/ pc[t] \in {"pWait", "pRoll", "cWait", "cRoll"}

TypeOK ==
  /\ timestamp \in Nat /\ last_init \in Nat /\ last_complete \in Nat
  /\ ring_wf \in [0 .. RingElements - 1 -> SUBSET Bits]
  /\ pc \in [Threads -> Labels]
  /\ start_time \in [Threads -> Nat]
  /\ rf \in [Threads -> SUBSET Bits] /\ wf \in [Threads -> SUBSET Bits]
  /\ index \in [Threads -> Nat] /\ entry \in [Threads -> Nat]
  /\ word \in [Threads -> Bits]
  /\ tx_limit \in [Threads -> 0 .. NoTx]
  /\ \A t \in Threads : pc[t] # "done" => tx_limit[t] < NoTx
  /\ committed \in Seq(SUBSET Bits)

(* Although commits take no lock, at most one thread is between its        *)
(* successful compare-and-swap and the end of its announcement: the ring   *)
(* and the two counters have a single writer.                              *)
OneCommitter ==
  \A t, u \in Threads : Publishing(t) /\ Publishing(u) => t = u

(* A transaction moves its start_time only past commits that wrote nothing *)
(* it has read, whatever the ring has forgotten or overwritten meanwhile;  *)
(* and it takes a timestamp only when its reads stand up to the last       *)
(* commit.  Together: every writer commits on current reads.               *)
ReadsStayValid ==
  [][\A t \in Threads :
       /\ pc[t] # "begin" =>
            \A k \in start_time[t] + 1 .. start_time'[t] : committed[k] \cap rf[t] = {}
       /\ pc[t] = "cas" /\ timestamp' # timestamp /\ pc'[t] = "copy" =>
            start_time[t] = timestamp]_vars

(* A transaction that starts to commit gets its answer: a commit, or an    *)
(* abort because another transaction has committed.                        *)
CommitDecides ==
  \A t \in Threads :
    pc[t] \in CommitLabels \cup PublishLabels ~> pc[t] \in {"begin", "done"}

----------------------------------------------------------------------------
(* The inductive invariant behind ReadsStayValid and OneCommitter. *)
CountersInv == /\ last_complete <= last_init /\ last_init <= timestamp
               /\ timestamp <= last_complete + 1
               /\ Len(committed) = timestamp

\* Who publishes has the last timestamp, and has written the words before word.
PublishInv ==
  \A t \in Threads : Publishing(t) =>
    /\ timestamp = index[t] + 1 /\ last_complete = index[t]
    /\ last_init = IF pc[t] = "complete" THEN index[t] + 1 ELSE index[t]
    /\ committed[timestamp] = wf[t]
    /\ \A b \in Bits :
         (pc[t] = "copy" /\ b < word[t]) \/ pc[t] = "init" =>
           (b \in ring_wf[timestamp % RingElements] <=> b \in wf[t])

IndexInv ==
  \A t \in Threads :
    /\ start_time[t] <= last_complete
    /\ pc[t] \in {"cInit", "cas"} => start_time[t] <= index[t] /\ index[t] <= timestamp
    /\ pc[t] \in CheckLabels \cup {"cScan", "cWait", "cRoll"} =>
         start_time[t] <= index[t] /\ index[t] <= last_init
    /\ pc[t] \in {"pScan", "cScan"} => entry[t] <= index[t]
    /\ pc[t] \in {"pRoll", "cRoll"} => index[t] <= last_complete
    /\ pc[t] = "cas" => start_time[t] = index[t]

\* The ring remembers the last RingElements commits but one that may be under way.
RingInv ==
  \A k \in 1 .. last_init :
    k + RingElements > timestamp => ring_wf[k % RingElements] = committed[k]

ScanInv ==
  \A t \in Threads : \A b \in Bits : \A k \in start_time[t] + 1 .. index[t] :
    Compared(t, k, b) => b \notin committed[k] \cap rf[t]
                           \/ timestamp > start_time[t] + RingElements

IInv == /\ TypeOK /\ CountersInv /\ OneCommitter /\ PublishInv /\ IndexInv
        /\ RingInv /\ ScanInv
=============================================================================
