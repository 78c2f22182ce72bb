# HTM_scheduling: specifications, model checking and proofs

This directory is a TLA+ companion to the repository: experiments with Intel
RTM hardware transactions in which transactions are *scheduled* (queued by the
accounts they touch) so that they do not abort each other, and with *Part-HTM*,
a software framework that is to split a transaction too large for the hardware
into several hardware transactions.

## 1. The system

Every top-level `*.cpp` is a stand-alone program: `main` reads the number of
threads and the kind of experiment, starts the threads, releases them through
`barrier`, joins them and prints the sum of the accounts. All programs carry a
copy of the same Part-HTM library (`TM_BEGIN` .. `TM_END`) and their own
scheduler.

| component | where | state | operations | interacts by |
|---|---|---|---|---|
| Ticket scheduler | `htm_sched.cpp` 938-969, 1217-1590 | `order_lock[]`, `enq_counter[]`, `deq_counter[]` (writers in `val`, readers in `val2`), `accounts[]` | `acquire_lock`, `release_lock`, `tx_fn_full_q`, `tx_fn` | shared counters, spin waits, RTM |
| Ticket lock per account or warehouse | `htm_sched.cpp` 971-1042, `TPCcHTM.cpp` 1083-1415 | `enq_counter[]`, `deq_counter[]` | `tx_fn_one_q`, `tx_fn_tpcc_q` | atomic counters, spin waits, RTM |
| Reader/writer mode of the account lock | `htm_sched.cpp` 938-969 | `order_lock[].val`, `.val2` | `acquire_lock(i, true)`, `release_lock(i, true)` | CAS and atomic adds; nothing calls this mode |
| Bounded queue | `htm_sched.cpp` 612-690 | ring of ids, `front`, `back`, two locks | `enq`, `deq`, `top`, `getSize` | spin locks, an unlocked `top` |
| Part-HTM commit ring | `htm.cpp`, `htm_sched.cpp` 265-530 | `timestamp`, `last_init`, `last_complete`, `ring_wf[]`, `write_locks` | `tm_commit`, `tm_check_partition` | CAS, spin waits on two counters |
| Part-HTM partitions | same | `Tx_Context`: `rf`, `wf`, `p_wf`, undo log | `TM_BEGIN`, `TM_PART_BEGIN`, `TM_PART_END`, `TM_END`, `tm_abort` | RTM, `write_locks`, `longjmp` |
| Super global lock | `htm_sched.cpp` 190-262, 385-425 | `tm_super_glock`, `active_tx` | enter, wait for the active ones, leave | CAS, spin waits |
| Object-status scheduler | `htm_rob_sched.cpp` | `object_status[][]`, `status_starts`, `status_ends`, abort flags | `tx_fn_one_q`, `tx_fn_full_q` | a ring of published intents per account, abort flags |
| Bank programs | `htm_bank.cpp`, `htm_conflict.cpp` | two shared words | `tx_fn`, `tx_fn2`: one hardware transaction per iteration, tried once | RTM conflicts |
| Early Part-HTM | `benchmarks/htm_Bank*.cpp`, `htm_trial*.cpp`, `htm.cpp` | `array[]`, `write_locks`, ring and counters as in the commit ring; per thread `loc`, `initial`, `more`, undo log | `tx_fn`: one hardware transaction, then partitions | as Part-HTM |
| Callback queue | `htm_sched_1st.cpp` 535-585 | `queue_e`, `queue_s`, slots, a lock | `enqueue`, `lock_q_and_deq` | slots published after the counter |
| Queue-top scheduler | `htm_sched_q_top.cpp` 598-650, 817 | one 64-slot queue per account | `enqueue`, `check_q_top`, `deq_unlock_q_dl` | spin on the top of a queue |
| Lock elision | `benchmarks/htm_HTM_GL*.cpp`, `TPCcHTM.cpp` 740-1070 | `tm_super_glock` | HTM attempt, subscription, fallback | RTM aborts on the lock's cache line |
| Bit filters, write set, undo log | `include/stm/*.hpp` | one filter or log per thread | insert, look up, union, difference, undo | called by Part-HTM |
| RTM intrinsics, random numbers, test drivers | `include/*.h` | none | `_xbegin`, `_xend`, `_xabort`, `rand_r_32` | hardware |
| Vendored Boost (atomic, lockfree) | `boost/`, `libs/` | - | - | declared, not used by the running code |

### What is hard in it

* **Interleaving**: two accounts are reserved by two tickets; the wait reads up
  to four counters one after the other; readers finish in any order.
* **Deadlock**: two locks per transaction, and waits on two queues at once.
* **Stale reads**: counters are tested and used later; Part-HTM tests a lock
  filter and publishes its own, `while (lock)` is tested before `active_tx++`.
* **Partial failure**: an aborted Part-HTM transaction undoes writes that other
  threads may read; an RTM abort may come at any instruction.
* **Bounds**: rings of 64 and 1024 entries that are overwritten when they wrap.
* **Retries**: a hardware transaction is retried for ever, a number of times, or
  until a lock is taken instead; what a retry keeps from the attempt before it.
* **Liveness**: spins on counters, flags and queue heads that only another
  thread moves, most of them without a bound.

The `hazards` of `PROJECT.json` list them one by one, at their lines.

### What makes each part correct

* *Ticket scheduler*: conflicting transactions run one after the other, in the
  order of their tickets; nobody waits in a cycle; no transfer is lost; every
  thread finishes.
* *Ticket locks, queue-top, object-status scheduler, lock elision*: one writer
  of an account at a time, no lost wake-up, no lost update.
* *Part-HTM*: committed transactions are serializable; an aborted transaction
  leaves the committed memory as it was; a lock bit has one owner; the ring and
  its counters have one writer; a committer gets its answer.
* *Super global lock*: its owner runs with nobody but those who came through the
  window between the test of the lock and `active_tx`.
* *Queues*: what is taken was put there, once, in order.

## 2. The modules

| module | models | role |
|---|---|---|
| `TransferOrder` | what `tx_fn_full_q` promises | abstract specification |
| `TicketScheduler` | `htm_sched.cpp` `tx_fn_full_q`, `tx_fn`, `acquire_lock`, `release_lock` | implements `TransferOrder` |
| `CommitRing` | `htm.cpp` `tm_check_partition`, `tm_commit`, and the ring's side of `TM_BEGIN` .. `TM_END` and `tm_abort` | component of the next four |
| `SerialHistory` | what Part-HTM promises | abstract specification |
| `PartHtm` | `htm.cpp` with memory, write locks and undo log; composes with `CommitRing` | implements `SerialHistory` |
| `SuperLock` | the `SUPER_GL_*` macros of `htm.cpp`, alone | component |
| `SuperPartHtm` | `PartHtm` with the super global lock around its transactions | composition; steps of `SerialHistory` while nobody is late |
| `FilterPartHtm` | `PartHtm` with `BitFilter::differencewith` as it is | composition |
| `BankPartHtm` | `tx_fn` of `benchmarks/htm_Bank.cpp`, `htm_Bank2.cpp`, `htm_Bank3.cpp`, `htm_trial1.cpp`, `htm.cpp`, `htm_trial2.cpp`; composes with `CommitRing` | detailed specification |
| `Rtm` | `_xbegin`, `_xend`, `_xabort` and what a conflict does | component of the next two |
| `SerialMemory` | what a loop around a hardware transaction promises | abstract specification |
| `HtmWorkers` | the thread functions with one hardware transaction per iteration, of `htm_sched.cpp`, `htm_bank.cpp`, `TPCcHTM.cpp` and two benchmarks | implements `SerialMemory` |
| `RobSched` | `htm_rob_sched.cpp` `tx_fn_one_q`, `tx_fn_full_q` | detailed specification |
| `QueueTop` | `htm_sched_q_top.cpp` `tx_fn` | detailed specification |
| `Sums` | the loop of `main` that adds up the balances | operator |
| `UndoLog` | the undo log of `Tx_Context` and of the early programs | operators |
| `TicketSchedulerProofs`, `CommitRingProofs`, `PartHtmProofs`, `BankPartHtmProofs`, `SuperLockProofs`, `HtmWorkersProofs`, `RobSchedProofs` | | theorems and proofs |
| `Lemmas` | | lemmas: induction and recursion over the natural numbers, sums, undo logs |
| `MC*` and `*.cfg` | | small instances for TLC |

Operators named as mutants in a comment (`\* Mutant: ...`) are not part of a
specification: each changes the definition below it the way a slip in the code
would, and a property that is worth its run fails with it.

### TicketScheduler

A variable per array of the program (`order_lock[a].val` is `order_lock[a]`,
`enq_counter[a].val` and `.val2` are `enqW[a]` and `enqR[a]`, `deq_counter`
likewise) and one per local variable of the thread function (`acc`, `writer`
for `type`, `ticketW`, `ticketR`, `kk`). `pc` names the next statement and
`slot` which of the two accounts it is about.

One action is one access to shared memory that another thread can come
between: `LockHigh` and `LockLow` are the compare-and-swaps of `acquire_lock`
that succeed; `ReadTickets` reads the two tickets of an account, which is one
step because only lock holders write them; `Enqueue` increments one enqueue
counter; `Release`; `CheckWriters` and `CheckReaders` each test one dequeue
counter of the wait's condition, in the order of the condition's operands, and
start it again when it differs; `DequeueFirst` and `DequeueSecond` are the two
`__sync_fetch_and_add`. `acquire_lock` and `release_lock` are modelled as they
are called here, with `isReadOnly` false.

The hardware transaction is taken weaker than it is: its loads are separate
steps, its stores appear at `_xend`, it may abort anywhere, and it never detects
a conflict. So what is proved about it (`StableReads`) is due to the tickets.

Two properties say that the scheduler implements `TransferOrder`:
`KeepsTransferOrder` its initial states and steps, `ImplementsTransferOrder` its
fairness too. A thread is admitted when it takes its second ticket, behind those
that are admitted and conflict with it, and it executes at `_xend`.

`tx_fn` is the case `Percentage = 100`: a thread takes the same locks and
tickets, and no reader ever exists, so that the readers' counters stay zero and
its shorter wait is the same wait.

### CommitRing

`timestamp`, `last_init`, `last_complete` and `ring_wf` are the globals;
`start_time`, `rf`, `wf` the fields of `Tx_Context`; `index` is `my_index` of
`tm_check_partition` and `commit_time` of `tm_commit`, `entry` and `word` the
positions of the loops over ring entries and over the words of a filter.
Filters are compared and copied word by word, other threads in between; a filter
is a set of words, one bit in each, which is all that the races over words can
tell apart. `tx->read_only` is `wf = {}`. A partition reads and writes anything
(`Partition`) or meets a lock (`Conflict`).

`committed` is a history variable: the write filter of the commit with
timestamp `k`. It does not influence any step.

`Scan`, `AwaitComplete` and `Rollover` are the three stages that
`tm_check_partition` and `tm_commit` have in common, and take the labels they
lead to. `last_init.val = ...` and `last_complete.val = ...` are two steps.

### PartHtm

Declares the variables of `CommitRing`, instantiates it as `Ring`, and adds
`array`, `write_locks`, `undo_log`, the drawn elements `loc`, the two local
variables that say how far a transaction is, `initial` and `more`, and two
history variables. Each action is an action of `Ring` together with its effect
on memory, locks and log, but for `Undo`, one restored element, `SkipPartition`
and `Draw`. `Conflicting` is the test at the end of a partition with its
`excludes` argument. A transaction has `TxLen` transfers and a partition `Split`
(200 and 10 in the program, where `tx_len` and `SPLIT_SIZE` count elements and a
transfer takes two). `Done` is the loop of `tx_fn` over a partition, a record of
what it makes of the memory, has read, written and logged.

**Only the first partition runs.** `more` is declared and set by `TM_BEGIN`
(`htm.cpp:468`), outside of the `do` loop of `tx_fn`; `TM_PART_BEGIN` is `while
(more) { .. more = false;` (476-479), and only a hardware abort sets it again
(505), or `longjmp`, which goes back to `TM_BEGIN`. So when the first partition
has committed the loop counts `initial` up to `tx_len` without an access, and
`TM_END` commits. The owner of the super global lock goes the same way. The model
does what the code does: `Partition` clears `more`, `SkipPartition` is an
iteration whose `while` is not entered, and a commit needs `initial = TxLen`, not
that everything has run. The comment "failed in all HTM, retry with
partitioning" (562) and the limit computed for each partition (569) say that the
others were meant to run. With `NO_READWRITE` 400 the program as it is executes
the first 20 accesses of every transaction.

So the transactions of the properties are the transfers that run (`Executed`):
`ImplementsSerialHistory` says that these take effect together and in a serial
order, and says nothing for those passed over. For transactions no longer than a
partition it says all. `PlaceInv` is what ties the two: who validates has cleared
`more`, and one that has not has written nothing and is at the start.

Assumptions:

* a transaction keeps below the `SUPER_GL_LIMIT` aborts due to others after
  which it takes the super global lock (`SuperPartHtm` lifts this);
* `write_locks.differencewith` is one step, as it is when its hardware
  transaction commits (`FilterPartHtm` lifts this);
* a committed hardware transaction is atomic towards plain accesses of other
  threads, which is what RTM guarantees.

The refinement `ImplementsSerialHistory` maps `versions` and `since` to
themselves and a thread's `job` to its `loc` until its compare-and-swap
succeeds, cut to the transfers that run. `versions` is not chosen to fit:
`CasSucceeds` appends the memory as it would be if all other unfinished
transactions undid their writes, and the refinement says that this is the
transaction's first partition run on the last version.

### SuperLock and SuperPartHtm

`SuperLock` is the lock's protocol with every access a step: the test of
`tm_super_glock`, the spin before the compare-and-swap, the wait for
`active_tx = 0`, the entry, and `tm_abort`, `TM_END` and `SUPER_GL_UNLOCK`, which
leave. A partition is one step with one of the `Outcomes`. The history variable
`late` holds those who had seen the lock free and had not counted themselves in
yet when the owner did: the code lets them run beside the owner, so
`AloneButForLate` is what holds of it, and not that the owner is alone.
`go_super_gl` is a local variable that changes between `_setjmp` and `longjmp`;
the models keep its new value, as a build without optimisation does, and the
mutant `AbortForgets` shows that `Termination` depends on it.

`SuperPartHtm` puts that lock around `PartHtm`. The owner runs its partition, the
first, as `more` is cleared for it too, with loads and stores that are single
steps (`stage`, `item`, `val`) and look at no write lock. The window is there:
`late` is the set of those who count themselves in while an owner is past its
wait for `active_tx = 0`, and who stay in it until that owner has ended and
they have left. Entering beside a transaction that has given up and is still
undoing its writes is no window, as it is not the owner yet.

A late transaction may set a write lock between two stores of the owner, undo an
element the owner has written, or read half of what the owner does, so that the
whole does not implement `SerialHistory`. What holds is said without excluding
it: the owner starts on the committed memory but for the writes of late ones, and
no other locks are set (`OwnerStartsClean`); every step with nobody late before
and after it is one of `SerialHistory`, the owner's commit included
(`SerialButForLate`).

### FilterPartHtm

`differencewith` tries a hardware transaction that looks at `diff_lock`, and
when that aborts takes `diff_lock` and clears word by word with a plain load and
store. A partition that sets lock bits does not look at `diff_lock`. All lock
bits are in one word here; what a thread has loaded is a variable of its own.

### BankPartHtm

The programs that Part-HTM has grown from, in three kinds: `program` is `"bank"`
for `htm_Bank*.cpp`, `"macro"` for `htm_trial1.cpp` and `"inner"` for
`benchmarks/htm.cpp` and `htm_trial2.cpp`, which differ in whether `tm_abort` is
a macro. It declares the variables of `CommitRing` and instantiates it, as
`PartHtm` does, since the ring is the same. What is different is in the actions:
`HtmCommit` is a transaction that fits the hardware, which compares what it has
used with `write_locks` before `_xend` and neither sets locks nor takes a
timestamp; `EndParts` sends every transaction of `"bank"` and `"macro"` through
the ring, written or not; and `Undone`, `Retry` leave or set back `initial` and
`more` as the kind of program does. So a transaction that was undone after its
last partition may commit nothing, and one undone earlier only what comes after.
The programs call that a retry; a transfer that is skipped leaves the sum of the
accounts as it was, and they print nothing that would show it.

In `"inner"` the partitions compare from a local `start_time` and the commit from
`tx->start_time`, which only a commit sets. `RingLate` is `CommitRing` with that
variable in the place of `start_time`, so `ValidateLate` is the same commit with
the later comparison. A thread that others outrun by a whole ring between two of
its commits (`Stranded`) aborts at the rollover test for ever; `Termination` names
this exception. `more` is changed between `setjmp` and `longjmp`; the model keeps
its last value, which is what a compiler does that keeps the variable in memory.

`balances` is a history variable: what the committed transactions, run one after
the other, have made of the array. A transaction in hardware is run on
`balances` for it, not on `array`, so `BalancesAddUp` says that it used no value
that is later undone. The programs are not serializable, and no property says
so: a transaction in hardware does not show in the ring, so a partitioned one
may read before and after it.

### Rtm, HtmWorkers and SerialMemory

`Rtm` has the memory, the transactions' read sets and buffered writes, and
dooms a transaction when another thread's access conflicts with it. A doomed
transaction takes no further step but its abort, and the hardware may abort any
transaction at any step. Loads see the transaction's own writes; nobody else
does until `XEnd`.

`HtmWorkers` runs eight thread functions with one set of actions. A program is a
record: the jobs it draws, whether it takes a ticket, how many attempts it makes
and whether it then takes `tm_super_glock` or goes on without, and when it looks
at that lock. The jobs of TPC-C are the five transactions of `TPCcHTM.cpp` with
the columns that any of them writes; items, stock and constant columns are left
out, and one location stands for the rows that one index selects.
`NUM_DISTRICTS` is 50 in the program and 1 in the run, and any number in the
proofs. `ImplementsSerialMemory` maps `memory` to `Visible`, where what the lock's owner
has stored so far is not there yet.

### RobSched

One action per load and store of `object_status`, `status_starts`,
`status_ends` and the abort flags, in and out of the hardware transaction, on
`Rtm`. `k` is the account at hand and `i` the loops' index. The fields of a slot
are one location, as they share a cache line, and `isDone` is one of its own.
`MarkDone` uses the first account's index for both accounts and `FindVictim`
looks in the first account's buffer, as the code does. Amounts are left out.
`overrun` is a history variable: the slots that a thread has claimed while
another was still writing its fields there.

The store to an abort flag is to abort a transaction of lower priority.
`OnlyKnownInversions` says that it aborts one of higher priority in three cases
only, each of which the code does reach: two transactions that abort the same
lower one both store to its flag, and the later store aborts the earlier writer;
the scan of the second account's buffer looks the thread up in the first one's
(`htm_rob_sched.cpp:901`); two threads have claimed one slot, the buffer having
wrapped, and its id is that of one and its priority that of the other. That the
fields of a slot are written one after the other, and after the slot is claimed,
is not among them, and neither is an abort-flag position that has moved on.

### QueueTop

`++` on a head is a load and a store (`LoadHead`, `StoreHead`); on a tail it is
one step, since the enqueue lock is held. The hardware transaction is one step,
retried until it commits.

## 3. The runs

| run | instance | checks |
|---|---|---|
| `mixed` | `TicketScheduler`: 3 threads, 2 accounts, writers and readers | `IInv`, `Isolation`, `StableReads`, `CountersBalance`, `NoWaitCycle`, `SumConserved`, `KeepsTransferOrder` |
| `progress` | the same, 2 threads with 2 transactions each, fairness | `ImplementsTransferOrder`, `Termination` |
| `ring` | `CommitRing`: 3 threads, ring of 1 entry, filters of 1 word, fairness | `IInv`, `OneCommitter`, `ReadsStayValid`, `CommitDecides` |
| `serial` | `PartHtm`: 3 threads, 3 elements on 2 lock bits, transactions of 3 transfers, partitions of 2, ring of 1 | `IInv`, `SerialInv`, `LocksAreExclusive`, `CommittedStateIntact`, `ImplementsSerialHistory` |
| `owner` | `SuperLock`: 3 threads with 2 transactions each, fairness | `IInv`, `EntriesBalance`, `AloneButForLate`, `Termination` |
| `late` | `SuperPartHtm`: 3 threads with 1 transaction each of 3 transfers, partitions of 2, 2 elements | `OwnerStartsClean`, `SuperInv`, `SerialButForLate` |
| `bank` | `BankPartHtm`: each kind of program, 2 threads with 2 transactions each, 3 elements on 2 lock bits, up to 2 partitions, ring of 1, fairness | `TypeOK`, `BalancesAddUp`, `FinalSum`, `IInv`, `Termination` |
| `htm` | `HtmWorkers`: 2 threads, each of the 8 programs, fairness | `IInv`, `NoConflicts`, `OwnerIsAlone`, `ImplementsSerialMemory`, `Termination` |
| `rob` | `RobSched`: 2 threads, 2 accounts, buffers of 2 slots; `tx_fn_one_q` with 2 transactions each, `tx_fn_full_q` with 1, fairness | `IInv`, `UndoneIsUnderWay`, `CommitRespectsPriority`, `OnlyKnownInversions`, `OneQueueEnds` |
| `lost` | `FilterPartHtm`: 2 threads with 2 transactions each, filters of one word | `FinalSum` fails |
| `hang` | `RobSched`: 2 threads, `tx_fn_full_q`, fairness | `Termination` fails |
| `stuck` | `QueueTop`: 2 threads with 2 transactions each, 3 accounts, fairness | `Termination` fails |

What the three failing runs show:

* `lost` (`BitFilter.hpp:158`): while one thread clears its bits under
  `diff_lock`, between its load and its store of a word, another thread's
  partition sets a lock bit in that word. The store takes it away, a third
  transaction may write the element, and undoing loses money. The program prints
  the sum before and after, which it means to be equal.
* `hang` (`htm_rob_sched.cpp:938`): the slot in the second account's buffer is
  marked done under the index in the first one's. When they differ, it is never
  done, and a transaction of lower priority behind it aborts itself for ever.
* `stuck` (`htm_sched_q_top.cpp:854`): a thread that is first in one queue goes
  on, and then advances both heads without a lock. Another thread's entry is
  passed, or an increment is lost, and that thread waits for ever. Deadlock is
  not checked there since the stuck threads are that deadlock.

Why the bounds are enough to be interesting:

* With two accounts three threads always conflict, and a writer may have two
  readers before it that finish in either order (`mixed`). `TxPerThread = 2`
  lets a thread queue behind those it has overtaken before (`progress`).
* A ring of one entry rolls over with every commit, so every comparison is in
  danger; `RING_ELEMENTS` is 1024 in the program, and the theorems of section 5
  are about any ring size and any number of words.
* A partition of two transfers is the smallest that reads what it has written,
  and a transaction of three is then one that the code cuts short, on the path of
  the hardware (`serial`) and on the owner's (`late`). What a transaction draws
  is `Locs`, a set of sequences of pairs; the runs take some of them, as the
  pair that is passed over changes nothing. `serial` has transfers of an element
  to itself, and `bank` has transfers that meet in one element, so that an
  element is logged twice and the order of undoing matters. Elements 0 and 2
  share a bit, as elements of the program do whose addresses agree modulo the
  filter.
* A transaction of `htm_HTM_GL2.cpp` and `htm_HTM_GLOCK.cpp` is any sequence of
  moves between elements drawn with repetition; the run `htm` has one move, of
  an element to itself too, or one there and back (`Moves`).
* `Opening = 100` and the limit of 50 give transfers that move money and
  transfers that only read; after two debits an account is at the limit.
* `SUPER_GL_LIMIT = 1` is reached by two aborts (10 in the program); three
  threads are an owner, one that is late and one that waits.
* `Attempts = 2` and `HtmRetry = 1` (5 or 6, and 1 or 5 in the programs) leave an attempt
  that is retried, or that is the last.
* In `rob`, `Size = 2` wraps with the third use of a buffer, so that slots are
  used again while their first user is under way, with two threads already (`STATUS_BUFFER_SIZE` is 64 for 20
  threads). `Flags = 3` is the program's `FLAG_THREAD`.
* Two threads with two transactions each fit in the queues of `stuck`
  (`Size = 4`), as all threads of the program fit in `Q_MAX_SIZE`.

Termination of the models is `Joined`, which stutters when all threads are done,
as `main` joins them; so deadlock is checked in every run but `stuck`.

## 4. Fairness

* `TicketScheduler`: weak fairness for each thread's `Step`, as the operating
  system gives it; spinning threads yield. Strong fairness for each `Load` and
  for `XEnd`: a hardware transaction may abort at any moment, and the retry loop
  has no other way out than a commit, so the program relies on RTM letting one
  through in the end. Without it `Termination` does not hold of the code either.
* `CommitRing`, `SuperLock`, `BankPartHtm`, `QueueTop`: weak fairness for each
  thread only. In `CommitRing` and `BankPartHtm` a compare-and-swap fails only
  because another transaction has committed. In `SuperLock` the hardware may
  abort every partition, and the lock is the way out; `Termination` assumes that
  conflicts between transactions come to an end, which only a random back-off
  sees to. `BankPartHtm` ends because
  who meets a lock undoes its writes and does not begin again as a whole; begun
  again from the first partition, two transactions could abort each other for
  ever. In `"inner"` it does not always end, as `Stranded` says.
* `HtmWorkers`: weak fairness for each thread. `Termination` is stated for all
  programs whose attempts are bounded; a program that retries for ever needs
  hardware that lets it through in the end, and its property says so.
* `RobSched`: weak fairness for each thread, and the properties assume `Patient`:
  that the hardware and conflicts abort only finitely often. Aborts by priority,
  which the scheduler decides, are not excluded.
* `PartHtm` and `SerialHistory`: none. Two transactions may abort each other for
  ever (a hazard in the list); the remedy of the code is the super global lock.

## 5. What is proved

For any number of threads (finite in `TicketScheduler` and `SuperLock`), accounts, transactions,
ring entries, filter words, array elements, lengths of transactions and partitions, from the named
assumptions of the modules:

* `TicketSchedulerProofs`: `TypeCorrect`, `IInvHolds`, `SchedulerIsolates`
  (`Isolation`), `ReadsAreStable` (`StableReads`), `WaitsHaveNoCycle`
  (`NoWaitCycle`), `CountersAccount` (`CountersBalance`), `KeepsOrder`
  (`KeepsTransferOrder`), `MoneyIsConserved` (`SumConserved`).
* `CommitRingProofs`: `TypeCorrect`, `IInvHolds`, `CommitsAreSerial`
  (`OneCommitter`), `WritersCommitOnCurrentReads` (`ReadsStayValid`).
* `PartHtmProofs`: `IInvHolds`, `TypeCorrect`, `LocksExclude`
  (`LocksAreExclusive`), `UndoingRestores` (`CommittedStateIntact`),
  `ImplementsRing` (every step is a step of `CommitRing` or leaves it alone), and
  `CommitsOnCurrentReads`, which carries the two theorems of the ring over to
  Part-HTM; `SerialInvHolds`, `CommitsAreSerializable`
  (`ImplementsSerialHistory`: the refinement as a whole, initial states and
  steps, for the transfers that run). Of `SuperPartHtm`, with late entries:
  `SuperInvHolds` (`SuperInv`) and `OwnersStartClean` (`OwnerStartsClean`).
  Assumed: positive sizes, an integer `Opening`, pairs that lie in the array, and
  transactions of such pairs (`SizesAssumption`, `OpeningAssumption`,
  `PairsAssumption`, `LocsAssumption`); for `SuperPartHtm` also a finite set of
  threads (`ThreadsAssumption`).
* `BankPartHtmProofs`: `IInvHolds`, `TypeCorrect`, `CommittedBalancesStay`
  (`BalancesAddUp`), `SumIsConserved` (`FinalSum`), for each kind of program.
  Assumed: positive sizes, an integer `Opening`, the three kinds, and
  transactions of at least one pair, pairs that lie in the array
  (`SizesAssumption`, `OpeningAssumption`, `ProgramsAssumption`,
  `LocsAssumption`).
* `RobSchedProofs`: `IInvHolds`, `TypeCorrect`, `UndoneSlotsHaveAnOwner` (`UndoneIsUnderWay`),
  `CommitsRespectPriority`, `InversionsAreKnown` (`OnlyKnownInversions`).
  Assumed: ids from 1 on, as `main` gives them, transactions of one account or two, and at least one
  slot and one flag (`IdsFromOne`, `WidthsAssumption`, `SizesAssumption`).
* `SuperLockProofs`: `IInvHolds`, `TypeCorrect`, `EntriesAndExitsBalance`
  (`EntriesBalance`), `OwnerIsAloneButForLate` (`AloneButForLate`). Assumed: a
  finite set of threads, a natural number for the limit and positive ones for
  partitions and transactions (`ThreadsAssumption`, `LimitAssumption`, `PartsAssumption`,
  `NoTxAssumption`).
* `HtmWorkersProofs`: `IInvHolds`, `TicketsAvoidConflicts` (`NoConflicts`),
  `LockOwnerIsAlone` (`OwnerIsAlone`). Assumed: a natural number of districts and
  at least one attempt (`DistrictsAssumption`, `AttemptsAssumption`).

**The argument for the tickets.** `Isolation` says nothing about a thread that
is still waiting, so it is not inductive. `IInv` adds: the two account locks are
exclusive (`LockInv`), hence a ticket that was read is still the next when it is
taken (`ReadInv`); tickets lie between the dequeue and the enqueue counter
(`BoundsInv`); two writers have different tickets, and a reader's two tickets put
it on the same side of a writer (`OrderInv`); the readers' dequeue counter is the
writer's ticket less the readers still active before it (`ReadersInv`), because
readers finish in any order and only their number is counted; and a counter that
was seen at the ticket stays there until its owner advances it (`SeenInv`). The
last one is what the wait depends on, as it reads up to four counters one after
the other. The proof treats every step as one of four kinds: steps that leave
tickets and counters alone, taking a ticket, seeing a counter, and leaving.

**Why the tickets have no circle.** `NoWaitCycle` says that in every set of
waiting threads there is one that waits for none of the set. `LastInv` is what
is missing to make it inductive: nobody is behind a thread that holds both
account locks and has only one ticket yet, because to get behind it takes the
lock of that account. So whoever takes a ticket has nobody behind it
(`TakerIsLast`): a set it is in has, without it, a member that waits for none of
the others, and that one does not wait for the taker either. All other steps
only take waits away. The theorem is where the two locks and the order of the
two enqueues in `tx_fn_full_q` matter together.

**Why the scheduler keeps the order.** `LastInv` says that nobody is behind a
thread that takes its second ticket, so the abstract queue admits it at the end.
Two conflicting threads meet in some account, where one's ticket is before the
other's, so a thread that executes is behind nobody: it has seen every counter
at its ticket, and `SeenInv` and `ReadersInv` say that those before it are gone.
`StableReads` makes its effect on the accounts one step of `TransferOrder`.

**The argument for the ring.** A transaction moves `start_time` past an entry it
has compared, but the entry may be overwritten at any time. `RingInv` says which
entries still hold what was committed: those within `RingElements` of
`timestamp`. `ScanInv` says of each compared bit that it was not in conflict
*or* that the ring has rolled over since the transaction started; the rollover
test comes last and excludes the second case. `RingInv` needs that there is one
committer (`OneCommitter`) and how far it is (`PublishInv`), which hold because
a committer reaches its compare-and-swap with `start_time` at most
`last_complete`, so that no other is between its own and its announcement
(`IndexInv`, `CountersInv`).

**The argument for Part-HTM.** `LocksAreExclusive` is inductive, given the types
and `PlanInv` (who runs has drawn its elements): a partition sets only locks
that nobody else holds, since the test at its end compares its writes with the
filter less its own bits, and commit and abort drop exactly their own. With it,
an element that is written is in no other transaction's log.
`CommittedStateIntact` chooses a log for every element, which is awkward in
induction; `IntactInv` states it element by element: who has logged an element
has its committed value in its oldest entry for it, and an element nobody has
logged holds its committed value. Appending to a log keeps the oldest entry of
an element that is there; taking the last entry either leaves the oldest one or
is that entry, and then the step restores the committed value. The theorems of the
ring need no new proof: a step of Part-HTM is a step of `Ring` or changes none
of its variables.

**The argument for the owner.** With the super global lock the invariant of
`PartHtm` fails in one place: the owner logs elements whose locks it does not
hold. Until its first store it has logged nothing, so the whole of `IInv` is
there, and the lemmas about `PartHtm` keep it through the steps of everybody
else, late or not (`BeforeOwnerStores`). Once it has stored, a late transaction
may log an element the owner has written, or the owner one that is locked, and
the committed memory is not what undoing gives; `SuperInv` claims it then only
before the store (`OwnerHasNotWritten`). When the owner ends, `versions` takes
the memory less the writes of those inside, so that it is claimed again. Locks,
types and places are kept throughout. Beside the owner only late ones are inside
(`LockInv`): the rest have not begun or have ended (`PlaceOK`), hold no locks and
have nothing to undo. `OwnerStartsClean` needs two more facts: a lock bit that is
set is some thread's (`SuperLocksInv`), and an owner that has not started its
partition has written nothing (`FirstReadInv`).

**Why Part-HTM is serializable.** `SerialInv` relates what a transaction has
done so far to the versions of the committed memory, of which `SerialHistory`
keeps the list. It has done nothing while `more` is set, and the transfers of
its first partition once it is cleared (`PlaceInv`, `Did`). A commit changes
only elements that hash into its filter, so a version differs from the one
before only there (`VersionsInv`); a transaction that no commit has harmed
(`ReadsStayValid`) has read elements that no version since its `start_time` has
changed; and run again, transfer by transfer, on the last version, it would have
stored what it has stored (`ReplayInv`, by induction over the transfers of the
partition). Who publishes holds the locks of what it has written until its
compare-and-swap, so its stores are what the next version is to be. Then drawing
a plan is `Start`, `CasSucceeds` is `Commit`, a read-only transaction's last
step is `Observe` of a version that was current after it began, and every other
step, aborts and restarts included, stutters.

**The argument for the early programs.** A transaction that is undone may go on
behind what it has undone, so nothing relates what it has written to a serial
run, and `SumInv` cannot be about the history. It is about every thread instead:
were a transaction to commit as it stands, the balances (`Written`) would have
the same sum. A partition moves money between two elements of `Written`, since
an element it writes has been logged by nobody else and so holds its committed
balance (`IntactInv`); when a transaction commits, in the ring or in hardware,
the `Written` of every other changes as the balances do, since the two have no
element in common; and a transaction that begins again begins from the balances,
with an empty log. That its log is empty, and that there is a partition to go on
with, is `StartInv`; what keeps the logs apart is `LocksInv`, as in Part-HTM. A
transaction in hardware sets no lock, but by its test it has used no element
that an unfinished one has logged: the array and the balances agree on all it
has used, it does to both the same (`Agreement`, by induction over its pairs),
and neither sum changes. In `"inner"` the
commit compares from `tx->start_time`, so the theorems of the ring do not carry
over: `ReadsStayValid` is not claimed here. What remains is `CommitInv`: a thread
reaches its compare-and-swap with an index that is complete, so that there is
one committer, and `last_init` and `last_complete` reach `timestamp` when it is
done.

**Sums, logs and recursion.** The sum of the balances and the run of a transaction
are recursive functions, and the induction theorems of the library cannot be
used here. `Lemmas` derives what is needed from the well-foundedness of the
natural numbers, with sets in the place of operators: a set of numbers that
contains 0 and every successor contains all (`Induct`), and what a recursive
function is at `n` (`Recursion`). Sums are compared with it, place by place
(`SumOfTransfer`, `SumsAddUp`). `MoneyIsConserved` follows: a transfer
moves an amount between two accounts, and `StableReads` says that it stores what
the balances then call for.

**The argument for the object statuses.** Two facts make the scan mean
something. What a transaction has read in its scan stays in its read set, so a
thread that writes a slot, or marks one not done, dooms it first: as long as it
runs, what it has looked at is as it was (`ScanInv`, over `Before`, the slots
between `status_starts` and its own going round the buffer). And a slot that one
thread at a time has written carries the id of one thread, its priority being
the same id, or is half written by a thread that is not in a transaction yet,
which no store can abort (`SlotsInv`). A transaction of higher priority that a
store aborts must have read the flag; it reads no flag but its own
(`ControlInv`), so its id is in the slot, where the scan has found a priority
that is not higher.

**The argument for the lock.** `active_tx` is the number of threads that have
entered and not left (`ActiveInv`), on the paths that abort and become the owner
too, and the lock is taken exactly while one thread owns it (`OwnerInv`). Then an
owner that sees `active_tx` at zero sees that nobody is inside; and who enters
after that had seen the lock free before it was taken, which is what `late`
records (`LateInv`).

**The argument for the workers.** With tickets: those of one object are
distinct, and who is past the wait holds the one the dequeue counter shows
(`TurnInv`), so two threads past it work on different accounts or warehouses. A
transaction's read and write set lie within its job (`SetsInv`), and the jobs of
different objects touch different data (`LocsApart`, which goes through all
jobs of the ticketed programs), so no access dooms another thread's
transaction. With the lock: a transaction that can commit and looks at the lock
has it in its read set and has seen it free, and the store that takes the lock
dooms all of those (`GLockInv`). Only `tx_fn_tpcc_q` takes the lock and does not
look at it, and it has tickets.

Only model-checked: the refinement of `SerialMemory`; `SerialButForLate`, whose
owner commits without a timestamp, so that `VersionsInv`, which counts the
versions by it, does not carry over; and liveness, which is out of the prover's
reach. The failing runs need no proof: their counterexamples are behaviours of
the code.

## 6. Not modelled

* **Reader/writer mode of `acquire_lock`** (`htm_sched.cpp` 938-969): no program
  calls it with `isReadOnly`. **Bounded queue** (class `Queue`): its calls are
  commented out. **Callback queue** (`htm_sched_1st.cpp`): `main` starts `tx_fn2`
  only, which jumps with `longjmp` into a frame of another thread's stack; that
  has no defined behaviour to model, and `tx_fn` and the queue are not called.
* **Earlier ticket scheduler** (`htm_sched_versionKevin.McGee.cpp`): does not
  compile, as the braces of `tx_fn2` do not match; what can be read of it is an
  older `htm_sched.cpp`.
* **Copies of Part-HTM** in `TPCcHTM.cpp`, `htm_rob_sched.cpp`, `htm_sched.cpp`,
  `htm_sched_q_top.cpp`, `htm_bank.cpp` and `htm_conflict.cpp`: their `main`
  starts no function that uses it. The one in `htm.cpp` is modelled.
* **`benchmarks/htm_N_ReadWrite.cpp`**: every thread fills the whole array before
  it waits for the barrier, and `main` opens the barrier without waiting for
  them, so a thread may fill the array while another has begun; nothing is kept
  that a property could state. **`trials/`**: searches a list in
  partitions, in a single thread.
* **TPC-C's tables**: how they are filled, and columns that no transaction
  writes.
* **Filters**: hashing beyond that elements may share a bit; `add`, `intersect`
  and `unionwith` are set operations, and `fastcopy` is word by word.
* **Write set, undo log, value list, thread descriptors, allocator** (RSTM):
  included, called by no program. **Vendored Boost**: a queue of it is
  constructed and never used. **TSX tools, random numbers, statistics, printing,
  build files**: no state that a property here is about.
* **Compiler reordering and caching** of the plain globals that are not
  `volatile`: loads and stores are taken in program order, as the build
  without optimisation does.
* Undefined accesses: the store to a flag before the array in `htm_rob_sched.cpp`
  (a slot nobody has used has `thread_id` 0) aborts nobody in the model, and an
  index left over in `loc` when `tx_len` is odd (`htm_Bank.cpp`) is any element.
