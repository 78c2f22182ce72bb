----------------------------- MODULE HtmWorkers -----------------------------
(***************************************************************************)
(* The thread functions that run one hardware transaction per iteration:   *)
(* tx_fn2, tx_fn2_one and tx_fn2_full of htm_sched.cpp, which only retry;  *)
(* its tx_fn_one_q, which takes a ticket of its account first; tx_fn and   *)
(* tx_fn2 of htm_bank.cpp (and htm_conflict.cpp), which try once; and the  *)
(* two of TPCcHTM.cpp, which try five times and then take tm_super_glock:  *)
(* tx_fn_tpcc, where a hardware transaction looks at the lock before it    *)
(* ends, and tx_fn_tpcc_q, where it does not but a ticket of the warehouse *)
(* is taken; and tx_fn of htm_HTM_GL2.cpp and htm_HTM_GLOCK.cpp, which     *)
(* looks at its lock first, tries six times and then takes it.             *)
(*                                                                         *)
(* A program is a record: the jobs its threads draw, whether they take     *)
(* tickets, how many attempts they make and what they do after the last,   *)
(* and when a transaction looks at the lock.  A job is the sequence of     *)
(* its accesses; what it reads of columns nobody writes is left out, and a *)
(* row or table column stands for all those one index selects.             *)
(***************************************************************************)
EXTENDS Rtm, Integers, Sequences

CONSTANTS Accounts, Warehouses, \* what the jobs are about
          NUM_DISTRICTS, \* of every warehouse
          Attempts,      \* before the lock is taken (5, or 6)
          NumOrders,     \* NUM_ORDERS_PER_D
          TxPerThread    \* iterations of the loop

ASSUME DistrictsAssumption == NUM_DISTRICTS \in Nat
ASSUME AttemptsAssumption  == Attempts \in Nat \ {0}

Districts == 0 .. NUM_DISTRICTS - 1

Read(l)    == [op |-> "read", at |-> l, by |-> 0]
Add(l, n)  == [op |-> "add", at |-> l, by |-> n]
Put(l)     == [op |-> "put", at |-> l, by |-> 1]
Test(l)    == [op |-> "test", at |-> l, by |-> 50] \* the next two are done if l is over 50
NextOf(l)  == [op |-> "next", at |-> l, by |-> NumOrders]

Element(i)     == <<"array", i>>
Account(a)     == <<"account", a>>
W_YTD(w)       == <<"W_YTD", w>>
Orders(w)      == <<"orders", w>>
OrderLines(w)  == <<"order_lines", w>>
D_YTD(w, d)    == <<"D_YTD", w, d>>
D_NEXT_O_ID(w, d) == <<"D_NEXT_O_ID", w, d>>
C_BALANCE(w, d) == <<"C_BALANCE", w, d>>

----------------------------------------------------------------------------
(* Jobs. *)
Deposit(a)     == <<Add(Account(a), 50)>>
Transfer(a, b) == <<Add(Account(a), 50), Add(Account(b), -50)>>
Audit(a, b)    == <<Read(Account(a)), Read(Account(b))>>
Move(i, j)     == <<Test(Element(i)), Add(Element(j), 50), Add(Element(i), -50)>>
PutX           == <<Put(<<"x">>)>>
ReadX          == <<Read(<<"x">>)>>

OrderStatus(w, d) ==
  <<Read(W_YTD(w)), Read(Orders(w)), Read(C_BALANCE(w, d)), Read(OrderLines(w))>>
StockLevel(w) == <<Read(W_YTD(w)), Read(Orders(w)), Read(OrderLines(w))>>
DeliveryOf(w, d) ==
  <<Read(W_YTD(w)), Read(Orders(w)), Read(OrderLines(w)), Add(C_BALANCE(w, d), 1)>>
Delivery(w) ==
  [n \in 1 .. 4 * NUM_DISTRICTS |-> DeliveryOf(w, (n - 1) \div 4)[((n - 1) % 4) + 1]]
Payment(w, d) == <<Add(W_YTD(w), 1), Add(D_YTD(w, d), 1), Add(C_BALANCE(w, d), -1)>>
NewOrder(w, d) == <<NextOf(D_NEXT_O_ID(w, d)), Put(Orders(w)), Put(OrderLines(w))>>

Tpcc(w) == {StockLevel(w), Delivery(w)}
           \cup UNION {{OrderStatus(w, d), Payment(w, d), NewOrder(w, d)} : d \in Districts}

On(o, jobs) == [on : {o}, does : jobs]
Drawn == {p \in Accounts \X Accounts : p[1] # p[2]}
Deposits  == UNION {On(a, {Deposit(a)}) : a \in Accounts}
Transfers == UNION {On(p[1], {Transfer(p[1], p[2])}) : p \in Drawn}
Audits    == UNION {On(p[1], {Audit(p[1], p[2])}) : p \in Drawn}
\* Of any length, and drawn with repetition: here one move, or one there and back.
Moves     == On(0, {Move(p[1], p[2]) : p \in Accounts \X Accounts}
                   \cup {Move(p[1], p[2]) \o Move(p[2], p[1]) : p \in Drawn})
TpccJobs  == UNION {On(w, Tpcc(w)) : w \in Warehouses}

----------------------------------------------------------------------------
(* Programs. *)
Forever == 0
Program(jobs, tickets, attempts, falls, looks) ==
  [jobs |-> jobs, tickets |-> tickets, attempts |-> attempts, falls |-> falls, looks |-> looks]

TxFn2One   == Program(Deposits, FALSE, Forever, FALSE, "never")
TxFn2      == Program(Transfers, FALSE, Forever, FALSE, "never")
TxFn2Full  == Program(Transfers \cup Audits, FALSE, Forever, FALSE, "never")
TxFnOneQ   == Program(Deposits, TRUE, Forever, FALSE, "never")
Bank       == Program(On(0, {PutX, ReadX}), FALSE, 1, FALSE, "never")
TxFnTpcc   == Program(TpccJobs, FALSE, Attempts, TRUE, "last")
TxFnTpccQ  == Program(TpccJobs, TRUE, Attempts, TRUE, "never")
TxFnGlock  == Program(Moves, FALSE, Attempts, TRUE, "first")

Programs == {TxFn2One, TxFn2, TxFn2Full, TxFnOneQ, Bank, TxFnTpcc, TxFnTpccQ, TxFnGlock}

Jobs    == UNION {p.jobs : p \in Programs}
Locs(j) == {j[i].at : i \in DOMAIN j}
Data    == UNION {Locs(j.does) : j \in Jobs}
Objects == {j.on : j \in Jobs}
GLock   == <<"tm_super_glock">>

VARIABLES program,     \* what main was told to run
          pc, job, kk, \* where a thread is, its job, its iterations
          step, loaded, \* its next access, and the value it has loaded for it
          retries,     \* attempts that have aborted
          ticket, enq_counter, deq_counter,
          seen,        \* the values its job has found where it looked
          result,      \* the same, of the jobs it has done (a history variable)
          before       \* the memory when tm_super_glock was taken (likewise)

counters == <<ticket, enq_counter, deq_counter>>
access   == <<step, loaded, seen>>
history  == <<result, before>>
vars == <<rtm, program, pc, job, kk, access, retries, counters, history>>

NoJob   == [on |-> 0, does |-> <<>>]
Nothing == [l \in {} |-> 0]

\* The units of the first elements, and D_NEXT_O_ID modulo NUM_ORDERS_PER_D.
Initial == [l \in Data \cup {GLock} |-> CASE l[1] = "array" -> 100
                                         [] l[1] = "D_NEXT_O_ID" -> 1
                                         [] OTHER -> 0]

Init ==
  /\ RtmInit(Initial)
  /\ program \in Programs
  /\ pc = [t \in Threads |-> "draw"]
  /\ job = [t \in Threads |-> NoJob]
  /\ kk = [t \in Threads |-> 0]
  /\ step = [t \in Threads |-> 1]
  /\ loaded = [t \in Threads |-> <<>>]
  /\ retries = [t \in Threads |-> 0]
  /\ ticket = [t \in Threads |-> 0]
  /\ enq_counter = [o \in Objects |-> 0]
  /\ deq_counter = [o \in Objects |-> 0]
  /\ seen = [t \in Threads |-> Nothing]
  /\ result = [t \in Threads |-> <<>>]
  /\ before = Initial

Goto(t, label) == pc' = [pc EXCEPT ![t] = label]

----------------------------------------------------------------------------
(* The head of the loop, and the ticket. *)
Draw(t) ==
  /\ pc[t] = "draw"
  /\ \E j \in program.jobs : job' = [job EXCEPT ![t] = j]
  /\ retries' = [retries EXCEPT ![t] = 0]
  /\ Goto(t, IF program.tickets THEN "enqueue" ELSE "attempt")
  /\ UNCHANGED <<rtm, program, kk, access, counters, history>>

Enqueue(t) ==
  /\ pc[t] = "enqueue"
  /\ ticket' = [ticket EXCEPT ![t] = enq_counter[job[t].on]]
  /\ enq_counter' = [enq_counter EXCEPT ![job[t].on] = @ + 1]
  /\ Goto(t, "wait")
  /\ UNCHANGED <<rtm, program, job, kk, access, retries, deq_counter, history>>

\* Mutant: anybody's turn.
AnyTurn(t) ==
  /\ pc[t] = "wait"
  /\ Goto(t, "attempt")
  /\ UNCHANGED <<rtm, program, job, kk, access, retries, counters, history>>

MyTurn(t) ==
  /\ pc[t] = "wait"
  /\ deq_counter[job[t].on] = ticket[t]
  /\ Goto(t, "attempt")
  /\ UNCHANGED <<rtm, program, job, kk, access, retries, counters, history>>

----------------------------------------------------------------------------
(* The accesses of a job, in the transaction or under the lock. *)
StartJob(t) == /\ step' = [step EXCEPT ![t] = 1]
               /\ loaded' = [loaded EXCEPT ![t] = <<>>]
               /\ seen' = [seen EXCEPT ![t] = Nothing]

Begin(t) ==
  /\ pc[t] = "attempt"
  /\ XBegin(t)
  /\ StartJob(t)
  /\ Goto(t, IF program.looks = "first" THEN "look" ELSE "inside")
  /\ UNCHANGED <<program, job, kk, retries, counters, history>>

Ended(t) == step[t] \notin DOMAIN job[t].does
Runs(t)  == pc[t] \in {"inside", "alone"} /\ ~Ended(t)
This(t)  == job[t].does[step[t]]

Advance(t, n) == step' = [step EXCEPT ![t] = @ + n] /\ loaded' = [loaded EXCEPT ![t] = <<>>]

LoadStep(t) ==
  LET l == This(t).at IN
  /\ Runs(t) /\ This(t).op # "put" /\ loaded[t] = <<>>
  /\ Load(t, l)
  /\ seen' = [seen EXCEPT ![t] = IF l \in DOMAIN @ THEN @
                                 ELSE [m \in DOMAIN @ \cup {l} |-> IF m = l THEN Value(t, l) ELSE @[m]]]
  /\ CASE This(t).op = "read" -> Advance(t, 1)
       [] This(t).op = "test" -> Advance(t, IF Value(t, l) > This(t).by THEN 1 ELSE 3)
       [] OTHER -> loaded' = [loaded EXCEPT ![t] = <<Value(t, l)>>] /\ UNCHANGED step
  /\ UNCHANGED <<program, pc, job, kk, retries, counters, history>>

Stored(a, v) == CASE a.op = "add"  -> v[1] + a.by
                  [] a.op = "next" -> (v[1] % a.by) + 1
                  [] a.op = "put"  -> a.by

StoreStep(t) ==
  /\ Runs(t) /\ (This(t).op = "put" \/ loaded[t] # <<>>)
  /\ Store(t, This(t).at, Stored(This(t), loaded[t]))
  /\ Advance(t, 1)
  /\ UNCHANGED <<program, pc, job, kk, retries, seen, counters, history>>

----------------------------------------------------------------------------
(* The end of a transaction. *)
\* Mutant: the lock is not looked at.
LookAway(t) ==
  /\ pc[t] = "look" \/ (pc[t] = "inside" /\ Ended(t) /\ program.looks = "last")
  /\ Goto(t, IF Ended(t) THEN "end" ELSE "inside")
  /\ UNCHANGED <<rtm, program, job, kk, retries, access, counters, history>>

Look(t) ==
  /\ pc[t] = "look" \/ (pc[t] = "inside" /\ Ended(t) /\ program.looks = "last")
  /\ Load(t, GLock)
  /\ Goto(t, IF memory[GLock] = 1 THEN "xabort"
             ELSE IF program.looks = "first" THEN "inside" ELSE "end")
  /\ UNCHANGED <<program, job, kk, retries, access, counters, history>>

Finish(t) == Goto(t, IF program.tickets THEN "dequeue" ELSE "next")

Commit(t) ==
  /\ pc[t] = "end" \/ (pc[t] = "inside" /\ Ended(t) /\ program.looks # "last")
  /\ XEnd(t)
  /\ result' = [result EXCEPT ![t] = Append(@, seen[t])]
  /\ StartJob(t)
  /\ Finish(t)
  /\ UNCHANGED <<program, job, kk, retries, counters, before>>

\* Mutant: one attempt more.
OneMore(t) ==
  /\ XAbort(t)
  /\ StartJob(t)
  /\ IF program.attempts = Forever
       THEN Goto(t, "attempt") /\ UNCHANGED retries
       ELSE /\ retries' = [retries EXCEPT ![t] = @ + 1]
            /\ IF retries[t] <= program.attempts THEN Goto(t, "attempt")
               ELSE IF program.falls THEN Goto(t, "lock") ELSE Finish(t)
  /\ UNCHANGED <<program, job, kk, counters, history>>

\* Mutant: attempts are not counted.
Uncounted(t) ==
  /\ XAbort(t)
  /\ StartJob(t)
  /\ Goto(t, "attempt")
  /\ UNCHANGED <<program, job, kk, retries, counters, history>>

\* What follows an abort: bounded attempts are counted.
Aborted(t) ==
  /\ XAbort(t)
  /\ StartJob(t)
  /\ IF program.attempts = Forever
       THEN Goto(t, "attempt") /\ UNCHANGED retries
       ELSE /\ retries' = [retries EXCEPT ![t] = @ + 1]
            /\ IF retries[t] + 1 < program.attempts THEN Goto(t, "attempt")
               ELSE IF program.falls THEN Goto(t, "lock") ELSE Finish(t)
  /\ UNCHANGED <<program, job, kk, counters, history>>

Explicit(t) == pc[t] = "xabort" /\ Aborted(t)
Conflict(t) == pc[t] \in {"look", "inside", "end"} /\ htm[t] = "doomed" /\ Aborted(t)
Other(t)    == pc[t] \in {"look", "inside", "end"} /\ htm[t] = "running" /\ Aborted(t)

----------------------------------------------------------------------------
(* The fallback, and the end of the loop. *)
TakeLock(t) ==
  /\ pc[t] = "lock"
  /\ memory[GLock] = 0
  /\ Store(t, GLock, 1)
  /\ before' = memory
  /\ Goto(t, "alone")
  /\ UNCHANGED <<program, job, kk, retries, access, counters, result>>

Unlock(t) ==
  /\ pc[t] = "alone" /\ Ended(t)
  /\ Store(t, GLock, 0)
  /\ result' = [result EXCEPT ![t] = Append(@, seen[t])]
  /\ StartJob(t)
  /\ Finish(t)
  /\ UNCHANGED <<program, job, kk, retries, counters, before>>

Dequeue(t) ==
  /\ pc[t] = "dequeue"
  /\ deq_counter' = [deq_counter EXCEPT ![job[t].on] = @ + 1]
  /\ Goto(t, "next")
  /\ UNCHANGED <<rtm, program, job, kk, retries, access, ticket, enq_counter, history>>

Iterate(t) ==
  /\ pc[t] = "next"
  /\ kk' = [kk EXCEPT ![t] = @ + 1]
  /\ Goto(t, IF kk[t] + 1 < TxPerThread THEN "draw" ELSE "done")
  /\ job' = [job EXCEPT ![t] = NoJob]
  /\ UNCHANGED <<rtm, program, retries, access, counters, history>>

Step(t) == \/ Draw(t) \/ Enqueue(t) \/ MyTurn(t) \/ Begin(t) \/ LoadStep(t) \/ StoreStep(t)
           \/ Look(t) \/ Commit(t) \/ Explicit(t) \/ Conflict(t) \/ Other(t)
           \/ TakeLock(t) \/ Unlock(t) \/ Dequeue(t) \/ Iterate(t)

AllDone == \A t \in Threads : pc[t] = "done"

Joined == AllDone /\ UNCHANGED vars

Next == (\E t \in Threads : Step(t)) \/ Joined

Spec == Init /\ [][Next]_vars
FairSpec == Spec /\ \A t \in Threads : WF_vars(Step(t))

----------------------------------------------------------------------------
Attempting == {"attempt", "look", "inside", "end", "xabort"}
Labels == Attempting \cup {"draw", "enqueue", "wait", "lock", "alone", "dequeue", "next", "done"}

TypeOK ==
  /\ program \in Programs
  /\ pc \in [Threads -> Labels]
  /\ job \in [Threads -> Jobs \cup {NoJob}]
  /\ \A t \in Threads : pc[t] \notin {"draw", "done"} => job[t] \in program.jobs
  /\ DOMAIN memory = Data \cup {GLock} /\ memory[GLock] \in {0, 1}
  /\ htm \in [Threads -> {"none", "running", "doomed"}]
  /\ readSet \in [Threads -> SUBSET (Data \cup {GLock})]
  /\ DOMAIN writeSet = Threads /\ \A t \in Threads : DOMAIN writeSet[t] \subseteq Data
  /\ step \in [Threads -> Nat \ {0}]
  /\ retries \in [Threads -> Nat]
  /\ ticket \in [Threads -> Nat]
  /\ enq_counter \in [Objects -> Nat] /\ deq_counter \in [Objects -> Nat]

(* Where tickets order the transactions of an account or of a warehouse,   *)
(* none is ever aborted by another: this is what scheduling is for.  The   *)
(* fallback of tx_fn_tpcc_q included, which runs beside transactions of    *)
(* other warehouses.  The model has one location for each datum: what     *)
(* shares a cache line only because it is stored next to it may conflict.  *)
NoConflicts == program.tickets => \A t \in Threads : htm[t] # "doomed"

(* While a thread runs under the lock, no other does, and no transaction   *)
(* that can still commit touches what it touches: who has seen the lock    *)
(* free is doomed when it is taken, and in tx_fn_tpcc_q, where no          *)
(* transaction looks at the lock, the warehouse's tickets keep them apart. *)
MayCommit(t) ==
  htm[t] = "running" /\ (pc[t] = "end" \/ (pc[t] = "inside" /\ program.looks # "last"))

OwnerIsAlone ==
  \A u \in Threads : pc[u] = "alone" =>
    \A t \in Threads \ {u} :
      /\ pc[t] # "alone"
      /\ MayCommit(t) => Locs(job[t].does) \cap Locs(job[u].does) = {}

(* The memory as the jobs that have ended left it: what the owner of the   *)
(* lock has written so far is not in it.                                   *)
Visible ==
  [l \in Data |-> IF \E t \in Threads : pc[t] = "alone" /\ l \in Locs(job[t].does)
                  THEN before[l] ELSE memory[l]]

(* Every program runs its jobs one after the other, and every job sees the *)
(* memory the ones before have left: no update is lost, and no transaction *)
(* that commits has seen half of what the lock's owner does, although it   *)
(* looks at the lock only when it ends.                                    *)
Serial == INSTANCE SerialMemory WITH
  Jobs <- {j.does : j \in Jobs}, Initial <- [l \in Data |-> Initial[l]],
  memory <- Visible, seen <- result

ImplementsSerialMemory == Serial!Spec

(* Every thread finishes, if attempts are bounded, or if tickets keep      *)
(* conflicts away and the hardware does not abort for ever on its own.     *)
Termination ==
  \/ program.attempts = Forever /\ ~program.tickets
  \/ program.attempts = Forever /\ ~<>[][\A t \in Threads : ~Other(t)]_vars
  \/ <>AllDone

----------------------------------------------------------------------------
(* The inductive invariant behind NoConflicts and OwnerIsAlone. *)
Serving(t) == pc[t] \in Attempting \cup {"lock", "alone", "dequeue"}
Queued(t)  == pc[t] = "wait" \/ Serving(t)

RetriesInv ==
  program.attempts # Forever =>
    \A t \in Threads :
      /\ retries[t] <= program.attempts
      /\ pc[t] \in Attempting \cup {"enqueue", "wait"} => retries[t] < program.attempts

\* Which statements a program has, and where a transaction runs.
LooksInv ==
  \A t \in Threads :
    /\ pc[t] = "look" => program.looks = "first"
    /\ pc[t] = "end" => program.looks = "last"
    /\ pc[t] = "xabort" => program.looks # "never"
    /\ pc[t] \in {"lock", "alone"} => program.falls
    /\ htm[t] # "none" <=> pc[t] \in Attempting \ {"attempt"}

\* A transaction accesses what its job is about, and the lock if it looks.
SetsInv ==
  \A t \in Threads :
    /\ readSet[t] \subseteq Locs(job[t].does)
                         \cup (IF program.looks = "never" THEN {} ELSE {GLock})
    /\ DOMAIN writeSet[t] \subseteq Locs(job[t].does)
    /\ htm[t] = "none" => readSet[t] = {} /\ DOMAIN writeSet[t] = {}

\* Tickets of one object are told apart, and the one that is served is next.
TurnInv ==
  program.tickets =>
    /\ \A o \in Objects : deq_counter[o] <= enq_counter[o]
    /\ \A t \in Threads : Queued(t) =>
         /\ deq_counter[job[t].on] <= ticket[t] /\ ticket[t] < enq_counter[job[t].on]
         /\ Serving(t) => ticket[t] = deq_counter[job[t].on]
         /\ \A u \in Threads \ {t} : Queued(u) /\ job[u].on = job[t].on => ticket[u] # ticket[t]

\* Who owns the lock has taken it; who counts on it being free would notice.
GLockInv ==
  \A t \in Threads :
    /\ pc[t] = "alone" => memory[GLock] = 1 /\ \A u \in Threads : pc[u] = "alone" => u = t
    /\ MayCommit(t) /\ program.looks # "never" => memory[GLock] = 0 /\ GLock \in readSet[t]

IInv == TypeOK /\ RetriesInv /\ LooksInv /\ SetsInv /\ TurnInv /\ GLockInv /\ NoConflicts
=============================================================================
