-------------------------- MODULE HtmWorkersProofs --------------------------
(***************************************************************************)
(* Proofs about HtmWorkers: tickets keep hardware transactions from        *)
(* conflicting, and the owner of tm_super_glock is alone with its data,    *)
(* for any number of threads, accounts, warehouses, districts and attempts *)
(* and any number of transactions per thread.                              *)
(***************************************************************************)
EXTENDS HtmWorkers, TLAPS

----------------------------------------------------------------------------
(* Jobs and programs. *)

\* No access of the job is to the lock; all are to data of o.
About(does, o) == \A i \in DOMAIN does : does[i].at[1] # "tm_super_glock" /\ does[i].at[2] = o
OffTheLock(does) == \A i \in DOMAIN does : does[i].at[1] # "tm_super_glock"

LEMMA SmallJobs ==
  /\ \A a : About(Deposit(a), a)
  /\ \A a, b : OffTheLock(Transfer(a, b)) /\ OffTheLock(Audit(a, b)) /\ OffTheLock(Move(a, b))
  /\ OffTheLock(PutX) /\ OffTheLock(ReadX)
  BY DEF About, OffTheLock, Deposit, Transfer, Audit, Move, PutX, ReadX, Add, Read, Test, Put,
     Account, Element

LEMMA MovesAreOff == \A a, b : OffTheLock(Move(a, b) \o Move(b, a))
<1> SUFFICES ASSUME NEW a, NEW b PROVE OffTheLock(Move(a, b) \o Move(b, a))
  OBVIOUS
<1> DEFINE p == Move(a, b)
           q == Move(b, a)
           Off == [op : {"test", "add"}, at : {Element(a), Element(b)}, by : {50, -50}]
<1>1. /\ Test(Element(a)) \in Off /\ Add(Element(a), 50) \in Off /\ Add(Element(a), -50) \in Off
      /\ Test(Element(b)) \in Off /\ Add(Element(b), 50) \in Off /\ Add(Element(b), -50) \in Off
  BY DEF Test, Add
<1>2. \A s \in Off : s.at[1] # "tm_super_glock"
  BY DEF Element
<1> HIDE DEF Off
<1>3. p \in Seq(Off) /\ q \in Seq(Off)
  BY <1>1 DEF Move
<1> HIDE DEF p, q
<1>4. p \o q \in Seq(Off)
  BY <1>3
<1>5. \A i \in DOMAIN (p \o q) : (p \o q)[i] \in Off
  BY <1>4
<1> QED
  BY <1>2, <1>5 DEF OffTheLock, p, q

LEMMA DeliveryIsAbout == \A w : About(Delivery(w), w)
<1> SUFFICES ASSUME NEW w, NEW n \in 1 .. 4 * NUM_DISTRICTS
             PROVE  /\ Delivery(w)[n].at[1] # "tm_super_glock"
                    /\ Delivery(w)[n].at[2] = w
  BY DEF About, Delivery
<1> DEFINE d == (n - 1) \div 4
           k == ((n - 1) % 4) + 1
<1>1. k \in 1 .. 4
  BY DistrictsAssumption
<1>2. Delivery(w)[n] = DeliveryOf(w, d)[k]
  BY DEF Delivery
<1> HIDE DEF d, k
<1>3. \A i \in 1 .. 4 : /\ DeliveryOf(w, d)[i].at[1] # "tm_super_glock"
                        /\ DeliveryOf(w, d)[i].at[2] = w
  BY DEF DeliveryOf, Read, Add, W_YTD, Orders, OrderLines, C_BALANCE
<1> QED
  BY <1>1, <1>2, <1>3

LEMMA TpccIsAbout == \A w : \A does \in Tpcc(w) : About(does, w)
<1> SUFFICES ASSUME NEW w PROVE \A does \in Tpcc(w) : About(does, w)
  OBVIOUS
<1>1. About(StockLevel(w), w)
  BY DEF About, StockLevel, Read, W_YTD, Orders, OrderLines
<1>2. \A d : About(OrderStatus(w, d), w)
  BY DEF About, OrderStatus, Read, W_YTD, Orders, OrderLines, C_BALANCE
<1>3. \A d : About(Payment(w, d), w)
  BY DEF About, Payment, Add, W_YTD, D_YTD, C_BALANCE
<1>4. \A d : About(NewOrder(w, d), w)
  BY DEF About, NewOrder, NextOf, Put, D_NEXT_O_ID, Orders, OrderLines
<1> QED
  BY <1>1, <1>2, <1>3, <1>4, DeliveryIsAbout DEF Tpcc

LEMMA AboutIsOff == \A does, o : About(does, o) => OffTheLock(does)
  BY DEF About, OffTheLock

LEMMA JobsOf ==
  /\ \A j \in Deposits : About(j.does, j.on)
  /\ \A j \in TpccJobs : About(j.does, j.on)
  /\ \A j \in Transfers \cup Audits \cup Moves : OffTheLock(j.does)
  /\ \A j \in On(0, {PutX, ReadX}) : OffTheLock(j.does)
<1>1. \A j \in Deposits : About(j.does, j.on)
  BY SmallJobs DEF Deposits, On
<1>2. \A j \in TpccJobs : About(j.does, j.on)
  BY TpccIsAbout DEF TpccJobs, On
<1>3. \A j \in Transfers \cup Audits \cup Moves : OffTheLock(j.does)
  <2>1. \A j \in Transfers \cup Audits : OffTheLock(j.does)
    BY SmallJobs DEF Transfers, Audits, On
  <2>2. ASSUME NEW j \in Moves PROVE OffTheLock(j.does)
    <3>1. \/ \E p \in Accounts \X Accounts : j.does = Move(p[1], p[2])
          \/ \E p \in Drawn : j.does = Move(p[1], p[2]) \o Move(p[2], p[1])
      BY DEF Moves, On
    <3> QED
      BY <3>1, SmallJobs, MovesAreOff
  <2> QED
    BY <2>1, <2>2
<1>4. \A j \in On(0, {PutX, ReadX}) : OffTheLock(j.does)
  BY SmallJobs DEF On
<1> QED
  BY <1>1, <1>2, <1>3, <1>4

\* What the proofs use of a program.
WellFormed(p) ==
  /\ p.jobs \subseteq Jobs
  /\ p.tickets \in BOOLEAN /\ p.falls \in BOOLEAN /\ p.looks \in {"never", "first", "last"}
  /\ p.attempts \in Nat
  /\ p.tickets => p.looks = "never" /\ \A j \in p.jobs : About(j.does, j.on)
  /\ p.falls => p.tickets \/ p.looks # "never"
  /\ \A j \in p.jobs : OffTheLock(j.does)

LEMMA ProgramsWellFormed == \A p \in Programs : WellFormed(p)
<1> SUFFICES ASSUME NEW p \in Programs PROVE WellFormed(p)
  OBVIOUS
<1>1. p.jobs \subseteq Jobs
  BY DEF Jobs
<1>2. \E jobs \in {Deposits, Transfers, Transfers \cup Audits, On(0, {PutX, ReadX}), TpccJobs, Moves} :
      \E tickets \in BOOLEAN, attempts \in {Forever, 1, Attempts}, falls \in BOOLEAN :
      \E looks \in {"never", "first", "last"} :
        /\ p = Program(jobs, tickets, attempts, falls, looks)
        /\ tickets => looks = "never" /\ jobs \in {Deposits, TpccJobs}
        /\ falls => tickets \/ looks # "never"
  BY DEF Programs, TxFn2One, TxFn2, TxFn2Full, TxFnOneQ, Bank, TxFnTpcc, TxFnTpccQ, TxFnGlock
<1>3. /\ p.tickets \in BOOLEAN /\ p.falls \in BOOLEAN /\ p.looks \in {"never", "first", "last"}
      /\ p.attempts \in Nat
      /\ p.tickets => p.looks = "never" /\ (p.jobs = Deposits \/ p.jobs = TpccJobs)
      /\ p.falls => p.tickets \/ p.looks # "never"
      /\ \/ p.jobs \in {Deposits, TpccJobs}
         \/ p.jobs \subseteq Transfers \cup Audits \cup Moves
         \/ p.jobs = On(0, {PutX, ReadX})
  BY <1>2, AttemptsAssumption DEF Program, Forever
<1> QED
  BY <1>1, <1>3, JobsOf, AboutIsOff DEF WellFormed

LEMMA LocsOffTheLock ==
  ASSUME NEW j \in Jobs
  PROVE  Locs(j.does) \subseteq Data /\ GLock \notin Locs(j.does)
<1>1. OffTheLock(j.does)
  BY ProgramsWellFormed DEF Jobs, WellFormed
<1> QED
  BY <1>1 DEF Data, Locs, OffTheLock, GLock

LEMMA LocsApart ==
  ASSUME NEW p \in Programs, p.tickets, NEW j \in p.jobs, NEW k \in p.jobs, j.on # k.on
  PROVE  Locs(j.does) \cap Locs(k.does) = {}
<1>1. About(j.does, j.on) /\ About(k.does, k.on)
  BY ProgramsWellFormed DEF WellFormed
<1> QED
  BY <1>1 DEF Locs, About

LEMMA ThisAccess ==
  ASSUME TypeOK, NEW t \in Threads, Runs(t)
  PROVE  This(t).at \in Locs(job[t].does) /\ This(t).at \in Data /\ This(t).at # GLock
<1>1. job[t] \in program.jobs /\ program \in Programs
  BY DEF TypeOK, Runs
<1>2. job[t] \in Jobs
  BY <1>1, ProgramsWellFormed DEF WellFormed
<1>3. This(t).at \in Locs(job[t].does)
  BY DEF Runs, Ended, This, Locs
<1> QED
  BY <1>2, <1>3, LocsOffTheLock

LEMMA LockIsNoData == GLock \notin Data
  BY LocsOffTheLock DEF Data

----------------------------------------------------------------------------
(* Types. *)

TypeControl ==
  /\ program \in Programs
  /\ pc \in [Threads -> Labels]
  /\ job \in [Threads -> Jobs \cup {NoJob}]
  /\ \A t \in Threads : pc[t] \notin {"draw", "done"} => job[t] \in program.jobs

TypeRtm ==
  /\ DOMAIN memory = Data \cup {GLock} /\ memory[GLock] \in {0, 1}
  /\ htm \in [Threads -> {"none", "running", "doomed"}]
  /\ readSet \in [Threads -> SUBSET (Data \cup {GLock})]
  /\ DOMAIN writeSet = Threads /\ \A t \in Threads : DOMAIN writeSet[t] \subseteq Data

TypeCounts ==
  /\ step \in [Threads -> Nat \ {0}]
  /\ retries \in [Threads -> Nat]
  /\ ticket \in [Threads -> Nat]
  /\ enq_counter \in [Objects -> Nat] /\ deq_counter \in [Objects -> Nat]

LEMMA TypeParts == TypeOK <=> TypeControl /\ TypeRtm /\ TypeCounts
  BY DEF TypeOK, TypeControl, TypeRtm, TypeCounts

LEMMA NextTypeControl ==
  ASSUME TypeOK, LooksInv, [Next]_vars
  PROVE  TypeControl'
<1> USE DEF TypeControl, Goto, Finish, Labels, Attempting
<1>0. TypeControl /\ program.jobs \subseteq Jobs
  BY TypeParts, ProgramsWellFormed DEF WellFormed
<1>1. ASSUME NEW t \in Threads, Draw(t) PROVE TypeControl'
  <2>1. PICK j \in program.jobs : job' = [job EXCEPT ![t] = j]
    BY <1>1 DEF Draw
  <2> QED
    BY <1>0, <1>1, <2>1 DEF Draw
<1>2. ASSUME NEW t \in Threads, Enqueue(t) \/ MyTurn(t) \/ Dequeue(t) PROVE TypeControl'
  BY <1>0, <1>2 DEF Enqueue, MyTurn, Dequeue
<1>3. ASSUME NEW t \in Threads, Begin(t) PROVE TypeControl'
  BY <1>0, <1>3 DEF Begin
<1>4. ASSUME NEW t \in Threads, LoadStep(t) \/ StoreStep(t) PROVE TypeControl'
  BY <1>0, <1>4 DEF LoadStep, StoreStep
<1>5. ASSUME NEW t \in Threads, Look(t) PROVE TypeControl'
  <2>1. pc[t] \notin {"draw", "done"} /\ UNCHANGED <<program, job>>
    BY <1>5 DEF Look
  <2>2. pc'[t] \in {"xabort", "inside", "end"}
    BY <1>0, <1>5, <2>1 DEF Look, LooksInv
  <2> QED
    BY <1>0, <1>5, <2>1, <2>2 DEF Look
<1>6. ASSUME NEW t \in Threads, Commit(t) PROVE TypeControl'
  BY <1>0, <1>6 DEF Commit
<1>7. ASSUME NEW t \in Threads, Explicit(t) \/ Conflict(t) \/ Other(t) PROVE TypeControl'
  BY <1>0, <1>7 DEF Explicit, Conflict, Other, Aborted
<1>8. ASSUME NEW t \in Threads, TakeLock(t) \/ Unlock(t) PROVE TypeControl'
  BY <1>0, <1>8 DEF TakeLock, Unlock
<1>9. ASSUME NEW t \in Threads, Iterate(t) PROVE TypeControl'
  BY <1>0, <1>9 DEF Iterate
<1>10. CASE UNCHANGED vars
  BY <1>0, <1>10 DEF vars
<1> QED
  BY <1>1, <1>2, <1>3, <1>4, <1>5, <1>6, <1>7, <1>8, <1>9, <1>10 DEF Next, Step, Joined

\* What the operations of Rtm keep.
LEMMA RtmTypes ==
  ASSUME TypeRtm, NEW t \in Threads
  PROVE  /\ \A l \in Data \cup {GLock} : Load(t, l) => TypeRtm'
         /\ \A l \in Data : \A v : Store(t, l, v) => TypeRtm'
         /\ \A v \in {0, 1} : htm[t] # "running" /\ Store(t, GLock, v) => TypeRtm'
         /\ XBegin(t) => TypeRtm'
         /\ XEnd(t) => TypeRtm'
         /\ XAbort(t) => TypeRtm'
         /\ UNCHANGED rtm => TypeRtm'
<1> USE DEF TypeRtm
<1>1. ASSUME NEW l \in Data \cup {GLock}, Load(t, l) PROVE TypeRtm'
  BY <1>1 DEF Load, Doom
<1>2. ASSUME NEW l \in Data, NEW v, Store(t, l, v) PROVE TypeRtm'
  <2>1. htm' \in [Threads -> {"none", "running", "doomed"}] /\ readSet' = readSet
    BY <1>2 DEF Store, Doom
  <2>2. DOMAIN memory' = Data \cup {GLock} /\ memory'[GLock] \in {0, 1}
    BY <1>2, LockIsNoData DEF Store
  <2>3. DOMAIN writeSet' = Threads /\ \A u \in Threads : DOMAIN writeSet'[u] \subseteq Data
    BY <1>2 DEF Store
  <2> QED
    BY <2>1, <2>2, <2>3
<1>3. ASSUME NEW v \in {0, 1}, htm[t] # "running", Store(t, GLock, v) PROVE TypeRtm'
  BY <1>3 DEF Store, Doom
<1>4. ASSUME XBegin(t) PROVE TypeRtm'
  BY <1>4 DEF XBegin, Ends, NoWrites
<1>5. ASSUME XEnd(t) PROVE TypeRtm'
  <2>1. DOMAIN memory' = Data \cup {GLock} /\ memory'[GLock] = memory[GLock]
    BY <1>5, LockIsNoData DEF XEnd, Value
  <2> QED
    BY <1>5, <2>1 DEF XEnd, Ends, NoWrites
<1>6. ASSUME XAbort(t) PROVE TypeRtm'
  BY <1>6 DEF XAbort, Ends, NoWrites
<1>7. ASSUME UNCHANGED rtm PROVE TypeRtm'
  BY <1>7 DEF rtm
<1> QED
  BY <1>1, <1>2, <1>3, <1>4, <1>5, <1>6, <1>7

LEMMA NextTypeRtm ==
  ASSUME TypeOK, LooksInv, [Next]_vars
  PROVE  TypeRtm'
<1>0. TypeRtm
  BY TypeParts
<1>1. ASSUME NEW t \in Threads,
             Draw(t) \/ Enqueue(t) \/ MyTurn(t) \/ Dequeue(t) \/ Iterate(t)
      PROVE  TypeRtm'
  BY <1>0, <1>1, RtmTypes DEF Draw, Enqueue, MyTurn, Dequeue, Iterate
<1>2. ASSUME NEW t \in Threads, Begin(t) \/ Commit(t) PROVE TypeRtm'
  BY <1>0, <1>2, RtmTypes DEF Begin, Commit
<1>3. ASSUME NEW t \in Threads, LoadStep(t) PROVE TypeRtm'
  BY <1>0, <1>3, RtmTypes, ThisAccess DEF LoadStep
<1>4. ASSUME NEW t \in Threads, StoreStep(t) PROVE TypeRtm'
  BY <1>0, <1>4, RtmTypes, ThisAccess DEF StoreStep
<1>5. ASSUME NEW t \in Threads, Look(t) PROVE TypeRtm'
  BY <1>0, <1>5, RtmTypes DEF Look
<1>6. ASSUME NEW t \in Threads, Explicit(t) \/ Conflict(t) \/ Other(t) PROVE TypeRtm'
  BY <1>0, <1>6, RtmTypes DEF Explicit, Conflict, Other, Aborted
<1>7. ASSUME NEW t \in Threads, TakeLock(t) \/ Unlock(t) PROVE TypeRtm'
  <2>1. htm[t] = "none"
    BY <1>0, <1>7 DEF TakeLock, Unlock, LooksInv, Attempting, TypeRtm
  <2> QED
    BY <1>0, <1>7, <2>1, RtmTypes DEF TakeLock, Unlock
<1>8. CASE UNCHANGED vars
  BY <1>0, <1>8, TypeParts DEF vars, rtm, TypeRtm
<1> QED
  BY <1>1, <1>2, <1>3, <1>4, <1>5, <1>6, <1>7, <1>8 DEF Next, Step, Joined

LEMMA NextTypeCounts ==
  ASSUME TypeOK, [Next]_vars
  PROVE  TypeCounts'
<1> USE DEF TypeCounts, StartJob, access, counters
<1>0. /\ TypeCounts
      /\ \A t \in Threads : pc[t] \notin {"draw", "done"} => job[t].on \in Objects
  <2>1. \A t \in Threads : pc[t] \notin {"draw", "done"} => job[t] \in Jobs
    BY TypeParts, ProgramsWellFormed DEF WellFormed, TypeControl
  <2> QED
    BY <2>1, TypeParts DEF Objects
<1>1. ASSUME NEW t \in Threads, Draw(t) \/ MyTurn(t) \/ Iterate(t) \/ TakeLock(t)
      PROVE  TypeCounts'
  BY <1>0, <1>1 DEF Draw, MyTurn, Iterate, TakeLock
<1>2. ASSUME NEW t \in Threads, Enqueue(t) \/ Dequeue(t) PROVE TypeCounts'
  BY <1>0, <1>2 DEF Enqueue, Dequeue
<1>3. ASSUME NEW t \in Threads, Begin(t) \/ Commit(t) \/ Look(t) \/ Unlock(t) PROVE TypeCounts'
  BY <1>0, <1>3 DEF Begin, Commit, Look, Unlock
<1>4. ASSUME NEW t \in Threads, LoadStep(t) \/ StoreStep(t) PROVE TypeCounts'
  <2>1. UNCHANGED <<retries, counters>>
    BY <1>4 DEF LoadStep, StoreStep
  <2>2. step' \in [Threads -> Nat \ {0}]
    BY <1>0, <1>4 DEF LoadStep, StoreStep, Advance
  <2> QED
    BY <1>0, <2>1, <2>2
<1>5. ASSUME NEW t \in Threads, Explicit(t) \/ Conflict(t) \/ Other(t) PROVE TypeCounts'
  <2>1. UNCHANGED counters /\ step' = [step EXCEPT ![t] = 1]
    BY <1>5 DEF Explicit, Conflict, Other, Aborted
  <2>2. retries' = retries \/ retries' = [retries EXCEPT ![t] = @ + 1]
    BY <1>5 DEF Explicit, Conflict, Other, Aborted
  <2> QED
    BY <1>0, <2>1, <2>2
<1>6. CASE UNCHANGED vars
  BY <1>0, <1>6 DEF vars
<1> QED
  BY <1>1, <1>2, <1>3, <1>4, <1>5, <1>6 DEF Next, Step, Joined

LEMMA NextTypeOK ==
  ASSUME TypeOK, LooksInv, [Next]_vars
  PROVE  TypeOK'
<1>1. TypeControl' /\ TypeRtm' /\ TypeCounts'
  BY NextTypeControl, NextTypeRtm, NextTypeCounts
<1> QED
  BY <1>1 DEF TypeOK, TypeControl, TypeRtm, TypeCounts

----------------------------------------------------------------------------
(* Attempts, and where a transaction runs. *)

LEMMA NextRetriesInv ==
  ASSUME TypeOK, RetriesInv, [Next]_vars
  PROVE  RetriesInv'
<1> USE DEF TypeControl, Goto, Finish, Attempting, Forever
<1>0. /\ TypeControl /\ retries \in [Threads -> Nat] /\ program.attempts \in Nat
      /\ program' = program
  <2>1. program' = program
    BY DEF Next, Step, Joined, vars, Draw, Enqueue, MyTurn, Begin, LoadStep, StoreStep, Look,
       Commit, Explicit, Conflict, Other, Aborted, TakeLock, Unlock, Dequeue, Iterate
  <2> QED
    BY <2>1, TypeParts, ProgramsWellFormed DEF TypeCounts, WellFormed
<1>1. ASSUME NEW t \in Threads, Draw(t) PROVE RetriesInv'
  BY <1>0, <1>1 DEF Draw, RetriesInv
<1>2. ASSUME retries' = retries,
             \A t \in Threads : pc'[t] \in Attempting \cup {"enqueue", "wait"} =>
                                 pc[t] \in Attempting \cup {"enqueue", "wait"}
      PROVE  RetriesInv'
  BY <1>0, <1>2 DEF RetriesInv
<1>3. ASSUME NEW t \in Threads, Enqueue(t) \/ MyTurn(t) \/ Begin(t) PROVE RetriesInv'
  BY <1>0, <1>2, <1>3 DEF Enqueue, MyTurn, Begin
<1>4. ASSUME NEW t \in Threads, LoadStep(t) \/ StoreStep(t) PROVE RetriesInv'
  BY <1>0, <1>2, <1>4 DEF LoadStep, StoreStep
<1>5. ASSUME NEW t \in Threads, Look(t) \/ Commit(t) PROVE RetriesInv'
  BY <1>0, <1>2, <1>5 DEF Look, Commit
<1>6. ASSUME NEW t \in Threads, TakeLock(t) \/ Unlock(t) PROVE RetriesInv'
  BY <1>0, <1>2, <1>6 DEF TakeLock, Unlock
<1>7. ASSUME NEW t \in Threads, Dequeue(t) \/ Iterate(t) PROVE RetriesInv'
  BY <1>0, <1>2, <1>7 DEF Dequeue, Iterate
<1>8. ASSUME NEW t \in Threads, Explicit(t) \/ Conflict(t) \/ Other(t) PROVE RetriesInv'
  <2>1. Aborted(t) /\ pc[t] \in Attempting
    BY <1>8 DEF Explicit, Conflict, Other
  <2> SUFFICES ASSUME program.attempts # Forever PROVE RetriesInv'
    BY <1>0 DEF RetriesInv
  <2>2. retries[t] < program.attempts /\ retries' = [retries EXCEPT ![t] = @ + 1]
    BY <2>1 DEF RetriesInv, Aborted
  <2>3. \A u \in Threads : u # t => pc'[u] = pc[u]
    BY <1>0, <2>1 DEF Aborted
  <2>4. pc'[t] \in Attempting \cup {"enqueue", "wait"} => retries[t] + 1 < program.attempts
    BY <1>0, <2>1 DEF Aborted
  <2> QED
    BY <1>0, <2>2, <2>3, <2>4 DEF RetriesInv
<1>9. CASE UNCHANGED vars
  BY <1>0, <1>2, <1>9 DEF vars
<1> QED
  BY <1>1, <1>3, <1>4, <1>5, <1>6, <1>7, <1>8, <1>9 DEF Next, Step, Joined

\* What one access does to the transactions of other threads.
Disturbs(t, l, stores) ==
  \A u \in Threads :
    \/ htm'[u] = htm[u]
    \/ u \in Losers(t, l, stores) /\ htm'[u] = "doomed"

LEMMA LoadDisturbs ==
  ASSUME TypeRtm, NEW t \in Threads, NEW l, Load(t, l)
  PROVE  Disturbs(t, l, FALSE) /\ htm'[t] = htm[t]
  BY DEF Load, Doom, Disturbs, Losers

LEMMA StoreDisturbs ==
  ASSUME TypeRtm, NEW t \in Threads, NEW l, NEW v, Store(t, l, v)
  PROVE  Disturbs(t, l, TRUE) /\ htm'[t] = htm[t]
  BY DEF Store, Doom, Disturbs, Losers

LEMMA NextLooksInv ==
  ASSUME TypeOK, LooksInv, [Next]_vars
  PROVE  LooksInv'
<1> USE DEF TypeControl, Goto, Finish, Attempting, Labels
<1>0. TypeControl /\ TypeRtm /\ WellFormed(program)
  BY TypeParts, ProgramsWellFormed
<1>1. ASSUME NEW t \in Threads, program' = program,
             \A u \in Threads : u # t => pc'[u] = pc[u],
             \A u \in Threads : u # t => (htm'[u] = "none" <=> htm[u] = "none"),
             /\ pc'[t] = "look" => program.looks = "first"
             /\ pc'[t] = "end" => program.looks = "last"
             /\ pc'[t] = "xabort" => program.looks # "never"
             /\ pc'[t] \in {"lock", "alone"} => program.falls
             /\ htm'[t] # "none" <=> pc'[t] \in Attempting \ {"attempt"}
      PROVE  LooksInv'
  BY <1>1 DEF LooksInv
<1>2. ASSUME NEW t \in Threads, Draw(t) \/ Enqueue(t) \/ MyTurn(t) PROVE LooksInv'
  BY <1>0, <1>1, <1>2 DEF Draw, Enqueue, MyTurn, LooksInv, rtm
<1>3. ASSUME NEW t \in Threads, Dequeue(t) \/ Iterate(t) PROVE LooksInv'
  BY <1>0, <1>1, <1>3 DEF Dequeue, Iterate, LooksInv, rtm
<1>4. ASSUME NEW t \in Threads, Begin(t) PROVE LooksInv'
  BY <1>0, <1>1, <1>4 DEF Begin, XBegin, Ends, LooksInv, TypeRtm
<1>5. ASSUME NEW t \in Threads, Commit(t) PROVE LooksInv'
  BY <1>0, <1>1, <1>5 DEF Commit, XEnd, Ends, LooksInv, TypeRtm
<1>6. ASSUME NEW t \in Threads, Explicit(t) \/ Conflict(t) \/ Other(t) PROVE LooksInv'
  BY <1>0, <1>1, <1>6 DEF Explicit, Conflict, Other, Aborted, XAbort, Ends, LooksInv, TypeRtm
<1>7. ASSUME NEW t \in Threads, NEW l, NEW stores, Disturbs(t, l, stores)
      PROVE  \A u \in Threads : htm'[u] = "none" <=> htm[u] = "none"
  BY <1>7 DEF Disturbs, Losers
<1>8. ASSUME NEW t \in Threads, LoadStep(t) \/ StoreStep(t) PROVE LooksInv'
  <2>1. \A u \in Threads : htm'[u] = "none" <=> htm[u] = "none"
    BY <1>0, <1>7, <1>8, LoadDisturbs, StoreDisturbs DEF LoadStep, StoreStep
  <2>2. UNCHANGED <<program, pc>>
    BY <1>8 DEF LoadStep, StoreStep
  <2> QED
    BY <2>1, <2>2 DEF LooksInv
<1>9. ASSUME NEW t \in Threads, Look(t) PROVE LooksInv'
  <2>1. \A u \in Threads : htm'[u] = "none" <=> htm[u] = "none"
    BY <1>0, <1>7, <1>9, LoadDisturbs DEF Look
  <2>2. /\ \/ pc[t] = "look" /\ program.looks = "first"
           \/ pc[t] = "inside" /\ program.looks = "last"
        /\ program' = program
    BY <1>9 DEF Look, LooksInv
  <2>3. /\ pc'[t] \in {"xabort", "inside", "end"}
        /\ pc'[t] = "end" => program.looks = "last"
        /\ \A u \in Threads : u # t => pc'[u] = pc[u]
    BY <1>0, <1>9, <2>2 DEF Look
  <2> QED
    BY <1>1, <2>1, <2>2, <2>3 DEF LooksInv
<1>10. ASSUME NEW t \in Threads, TakeLock(t) \/ Unlock(t) PROVE LooksInv'
  <2>1. \A u \in Threads : htm'[u] = "none" <=> htm[u] = "none"
    BY <1>0, <1>7, <1>10, StoreDisturbs DEF TakeLock, Unlock
  <2>2. /\ program' = program /\ pc[t] \in {"lock", "alone"}
        /\ pc'[t] \in {"alone", "dequeue", "next"}
        /\ \A u \in Threads : u # t => pc'[u] = pc[u]
    BY <1>0, <1>10 DEF TakeLock, Unlock
  <2> QED
    BY <1>1, <2>1, <2>2 DEF LooksInv
<1>11. CASE UNCHANGED vars
  BY <1>11 DEF vars, rtm, LooksInv
<1> QED
  BY <1>2, <1>3, <1>4, <1>5, <1>6, <1>8, <1>9, <1>10, <1>11 DEF Next, Step, Joined

----------------------------------------------------------------------------
(* What a transaction accesses. *)

LEMMA NextSetsInv ==
  ASSUME TypeOK, LooksInv, SetsInv, [Next]_vars
  PROVE  SetsInv'
<1> USE DEF Goto, Attempting
<1>0. TypeControl /\ TypeRtm
  BY TypeParts
<1> USE DEF TypeControl, TypeRtm
<1>1. ASSUME NEW t \in Threads, htm[t] = "none", UNCHANGED <<rtm, program>>,
             \A u \in Threads : u # t => job'[u] = job[u]
      PROVE  SetsInv'
  BY <1>1 DEF SetsInv, rtm
<1>2. ASSUME NEW t \in Threads, Draw(t) \/ Enqueue(t) \/ MyTurn(t) PROVE SetsInv'
  <2>1. htm[t] = "none"
    BY <1>0, <1>2 DEF Draw, Enqueue, MyTurn, LooksInv
  <2> QED
    BY <1>0, <1>1, <1>2, <2>1 DEF Draw, Enqueue, MyTurn
<1>3. ASSUME NEW t \in Threads, Dequeue(t) \/ Iterate(t) PROVE SetsInv'
  <2>1. htm[t] = "none"
    BY <1>0, <1>3 DEF Dequeue, Iterate, LooksInv
  <2> QED
    BY <1>0, <1>1, <1>3, <2>1 DEF Dequeue, Iterate
<1>4. ASSUME NEW t \in Threads, NEW how, Ends(t, how), UNCHANGED <<program, job>> PROVE SetsInv'
  <2>1. readSet'[t] = {} /\ DOMAIN writeSet'[t] = {}
    BY <1>0, <1>4 DEF Ends, NoWrites
  <2>2. \A u \in Threads : u # t =>
          htm'[u] = htm[u] /\ readSet'[u] = readSet[u] /\ writeSet'[u] = writeSet[u]
    BY <1>0, <1>4 DEF Ends
  <2> QED
    BY <1>4, <2>1, <2>2 DEF SetsInv
<1>5. ASSUME NEW t \in Threads, Begin(t) \/ Commit(t) PROVE SetsInv'
  BY <1>4, <1>5 DEF Begin, XBegin, Commit, XEnd
<1>6. ASSUME NEW t \in Threads, Explicit(t) \/ Conflict(t) \/ Other(t) PROVE SetsInv'
  BY <1>4, <1>6 DEF Explicit, Conflict, Other, Aborted, XAbort
<1>7. ASSUME NEW t \in Threads, NEW l, NEW stores, Disturbs(t, l, stores)
      PROVE  \A u \in Threads : htm'[u] = "none" => htm[u] = "none"
  BY <1>7 DEF Disturbs
<1>8. ASSUME NEW t \in Threads, NEW l, Load(t, l), UNCHANGED <<program, job>>,
             l \in Locs(job[t].does) \/ (l = GLock /\ program.looks # "never")
      PROVE  SetsInv'
  <2>1. htm'[t] = htm[t] /\ \A u \in Threads : htm'[u] = "none" => htm[u] = "none"
    BY <1>0, <1>7, <1>8, LoadDisturbs
  <2>2. UNCHANGED writeSet
    BY <1>8 DEF Load
  <2>3. \A u \in Threads :
          \/ readSet'[u] = readSet[u]
          \/ u = t /\ htm[t] = "running" /\ readSet'[u] = readSet[u] \cup {l}
    BY <1>0, <1>8 DEF Load
  <2> QED
    BY <1>8, <2>1, <2>2, <2>3 DEF SetsInv
<1>9. ASSUME NEW t \in Threads, NEW l, NEW v, Store(t, l, v), UNCHANGED <<program, job>>,
             htm[t] = "running" => l \in Locs(job[t].does)
      PROVE  SetsInv'
  <2>1. htm'[t] = htm[t] /\ \A u \in Threads : htm'[u] = "none" => htm[u] = "none"
    BY <1>0, <1>7, <1>9, StoreDisturbs
  <2>2. UNCHANGED readSet
    BY <1>9 DEF Store
  <2>3. \A u \in Threads :
          \/ DOMAIN writeSet'[u] = DOMAIN writeSet[u]
          \/ /\ u = t /\ htm[t] = "running"
             /\ DOMAIN writeSet'[u] = DOMAIN writeSet[u] \cup {l}
    BY <1>0, <1>9 DEF Store
  <2> QED
    BY <1>9, <2>1, <2>2, <2>3 DEF SetsInv
<1>10. ASSUME NEW t \in Threads, LoadStep(t) PROVE SetsInv'
  BY <1>8, <1>10, ThisAccess DEF LoadStep
<1>11. ASSUME NEW t \in Threads, StoreStep(t) PROVE SetsInv'
  BY <1>9, <1>11, ThisAccess DEF StoreStep
<1>12. ASSUME NEW t \in Threads, Look(t) PROVE SetsInv'
  <2>1. program.looks # "never"
    BY <1>12 DEF Look, LooksInv
  <2> QED
    BY <1>8, <1>12, <2>1 DEF Look
<1>13. ASSUME NEW t \in Threads, TakeLock(t) \/ Unlock(t) PROVE SetsInv'
  <2>1. htm[t] = "none"
    BY <1>0, <1>13 DEF TakeLock, Unlock, LooksInv
  <2> QED
    BY <1>9, <1>13, <2>1 DEF TakeLock, Unlock
<1>14. CASE UNCHANGED vars
  BY <1>14 DEF vars, rtm, SetsInv
<1> QED
  BY <1>2, <1>3, <1>5, <1>6, <1>10, <1>11, <1>12, <1>13, <1>14 DEF Next, Step, Joined

----------------------------------------------------------------------------
(* Tickets. *)

LEMMA NextTurnInv ==
  ASSUME TypeOK, LooksInv, TurnInv, [Next]_vars
  PROVE  TurnInv'
<1> USE DEF Goto, Finish, Attempting, Queued, Serving
<1>0. /\ TypeControl /\ TypeCounts /\ program' = program
      /\ \A t \in Threads : pc[t] \notin {"draw", "done"} => job[t].on \in Objects
  <2>1. program' = program
    BY DEF Next, Step, Joined, vars, Draw, Enqueue, MyTurn, Begin, LoadStep, StoreStep, Look,
       Commit, Explicit, Conflict, Other, Aborted, TakeLock, Unlock, Dequeue, Iterate
  <2>2. \A t \in Threads : pc[t] \notin {"draw", "done"} => job[t] \in Jobs
    BY TypeParts, ProgramsWellFormed DEF WellFormed, TypeControl
  <2> QED
    BY <2>1, <2>2, TypeParts DEF Objects
<1> SUFFICES ASSUME program.tickets PROVE TurnInv'
  BY <1>0 DEF TurnInv
<1> USE DEF TypeControl
<1>1. ASSUME UNCHANGED <<ticket, enq_counter, deq_counter>>,
             \A u \in Threads : (Queued(u)' => Queued(u) /\ job'[u] = job[u])
                                /\ (Serving(u)' => Serving(u))
      PROVE  TurnInv'
  BY <1>0, <1>1 DEF TurnInv
<1>2. ASSUME NEW t \in Threads, Draw(t) PROVE TurnInv'
  <2>1. pc'[t] = "enqueue" /\ UNCHANGED counters
    BY <1>0, <1>2 DEF Draw
  <2>2. \A u \in Threads : u # t => pc'[u] = pc[u] /\ job'[u] = job[u]
    BY <1>0, <1>2 DEF Draw
  <2> QED
    BY <1>1, <2>1, <2>2 DEF counters
<1>3. ASSUME NEW t \in Threads, Enqueue(t) PROVE TurnInv'
  <2> DEFINE o == job[t].on
  <2>1. /\ o \in Objects /\ pc'[t] = "wait" /\ UNCHANGED <<job, deq_counter>>
        /\ \A u \in Threads : u # t => pc'[u] = pc[u] /\ ticket'[u] = ticket[u]
        /\ ticket'[t] = enq_counter[o] /\ enq_counter' = [enq_counter EXCEPT ![o] = @ + 1]
    BY <1>0, <1>3 DEF Enqueue, TypeCounts
  <2>2. \A u \in Threads : Queued(u) => job[u].on \in Objects
    BY <1>0
  <2>3. deq_counter[o] <= enq_counter[o]
    BY <2>1 DEF TurnInv
  <2> QED
    BY <1>0, <2>1, <2>2, <2>3 DEF TurnInv, TypeCounts
<1>4. ASSUME NEW t \in Threads, MyTurn(t) PROVE TurnInv'
  BY <1>0, <1>4 DEF MyTurn, TurnInv, counters
<1>5. ASSUME NEW t \in Threads, Dequeue(t) PROVE TurnInv'
  <2> DEFINE o == job[t].on
  <2>1. /\ o \in Objects /\ pc[t] = "dequeue" /\ pc'[t] = "next"
        /\ UNCHANGED <<job, ticket, enq_counter>>
        /\ \A u \in Threads : u # t => pc'[u] = pc[u]
        /\ deq_counter' = [deq_counter EXCEPT ![o] = @ + 1]
    BY <1>0, <1>5 DEF Dequeue
  <2>2. \A u \in Threads : Queued(u) => job[u].on \in Objects
    BY <1>0
  <2>3. ticket[t] = deq_counter[o]
    BY <2>1 DEF TurnInv
  <2>4. \A u \in Threads : u # t /\ Queued(u) /\ job[u].on = o =>
          ticket[u] # deq_counter[o] /\ ~Serving(u)
    BY <2>1, <2>3 DEF TurnInv
  <2> QED
    BY <1>0, <2>1, <2>2, <2>4 DEF TurnInv, TypeCounts
<1>6. ASSUME NEW t \in Threads, Iterate(t) PROVE TurnInv'
  <2>1. pc[t] = "next" /\ pc'[t] \in {"draw", "done"} /\ UNCHANGED counters
    BY <1>0, <1>6 DEF Iterate
  <2>2. \A u \in Threads : u # t => pc'[u] = pc[u] /\ job'[u] = job[u]
    BY <1>0, <1>6 DEF Iterate
  <2> QED
    BY <1>1, <2>1, <2>2 DEF counters
<1>7. ASSUME NEW t \in Threads, UNCHANGED <<job, counters>>, Serving(t),
             \A u \in Threads : u # t => pc'[u] = pc[u]
      PROVE  TurnInv'
  BY <1>1, <1>7 DEF counters
<1>8. ASSUME NEW t \in Threads, Begin(t) \/ Look(t) \/ Commit(t) PROVE TurnInv'
  BY <1>0, <1>7, <1>8 DEF Begin, Look, Commit
<1>9. ASSUME NEW t \in Threads, LoadStep(t) \/ StoreStep(t) PROVE TurnInv'
  BY <1>0, <1>7, <1>9 DEF LoadStep, StoreStep, Runs
<1>10. ASSUME NEW t \in Threads, Explicit(t) \/ Conflict(t) \/ Other(t) PROVE TurnInv'
  BY <1>0, <1>7, <1>10 DEF Explicit, Conflict, Other, Aborted
<1>11. ASSUME NEW t \in Threads, TakeLock(t) \/ Unlock(t) PROVE TurnInv'
  BY <1>0, <1>7, <1>11 DEF TakeLock, Unlock
<1>12. CASE UNCHANGED vars
  BY <1>1, <1>12 DEF vars, counters
<1> QED
  BY <1>2, <1>3, <1>4, <1>5, <1>6, <1>8, <1>9, <1>10, <1>11, <1>12 DEF Next, Step, Joined

----------------------------------------------------------------------------
(* Conflicts. *)

\* Who is served on an object is alone with it, and objects share no data.
LEMMA ServedApart ==
  ASSUME TypeOK, TurnInv, program.tickets,
         NEW t \in Threads, NEW u \in Threads \ {t}, Serving(t), Serving(u)
  PROVE  Locs(job[t].does) \cap Locs(job[u].does) = {}
<1>1. /\ program \in Programs /\ job[t] \in program.jobs /\ job[u] \in program.jobs
  BY DEF TypeOK, Serving, Attempting
<1>2. job[t].on # job[u].on
  BY DEF TurnInv, Queued
<1> QED
  BY <1>1, <1>2, LocsApart

LEMMA NextNoConflicts ==
  ASSUME TypeOK, LooksInv, SetsInv, TurnInv, NoConflicts, [Next]_vars
  PROVE  NoConflicts'
<1>0. TypeControl /\ TypeRtm /\ WellFormed(program)
  BY TypeParts, ProgramsWellFormed DEF TypeControl
<1>1. program' = program
  BY DEF Next, Step, Joined, vars, Draw, Enqueue, MyTurn, Begin, LoadStep, StoreStep, Look,
     Commit, Explicit, Conflict, Other, Aborted, TakeLock, Unlock, Dequeue, Iterate
<1> DEFINE Untouched == \A t \in Threads : htm[t] # "doomed"
<1> SUFFICES ASSUME program.tickets, Untouched PROVE Untouched'
  BY <1>1 DEF NoConflicts
<1>2. program.looks = "never"
  BY <1>0 DEF WellFormed
<1>3. ASSUME NEW t \in Threads,
             Draw(t) \/ Enqueue(t) \/ MyTurn(t) \/ Dequeue(t) \/ Iterate(t)
      PROVE  Untouched'
  BY <1>3 DEF Draw, Enqueue, MyTurn, Dequeue, Iterate, rtm
<1>4. ASSUME NEW t \in Threads, NEW how \in {"none", "running"}, Ends(t, how) PROVE Untouched'
  BY <1>0, <1>4 DEF Ends, TypeRtm
<1>5. ASSUME NEW t \in Threads, Begin(t) \/ Commit(t) PROVE Untouched'
  BY <1>4, <1>5 DEF Begin, XBegin, Commit, XEnd
<1>6. ASSUME NEW t \in Threads, Explicit(t) \/ Conflict(t) \/ Other(t) PROVE Untouched'
  BY <1>4, <1>6 DEF Explicit, Conflict, Other, Aborted, XAbort
<1>7. ASSUME NEW t \in Threads, NEW l, NEW stores, Disturbs(t, l, stores),
             Losers(t, l, stores) = {}
      PROVE  Untouched'
  BY <1>7 DEF Disturbs
<1>8. ASSUME NEW t \in Threads, LoadStep(t) \/ StoreStep(t) PROVE Untouched'
  <2> DEFINE l == This(t).at
  <2>1. Runs(t)
    BY <1>8 DEF LoadStep, StoreStep
  <2>2. l \in Locs(job[t].does) /\ Serving(t)
    BY <2>1, ThisAccess DEF Runs, Serving, Attempting
  <2> HIDE DEF l
  <2>3. ASSUME NEW stores, NEW u \in Losers(t, l, stores) PROVE FALSE
    <3>1. u \in Threads \ {t} /\ htm[u] = "running" /\ l \in readSet[u] \cup DOMAIN writeSet[u]
      BY <2>3 DEF Losers
    <3>2. Serving(u)
      BY <3>1 DEF LooksInv, Serving
    <3>3. l \in Locs(job[u].does)
      BY <1>2, <3>1 DEF SetsInv
    <3> QED
      BY <2>2, <3>1, <3>2, <3>3, ServedApart
  <2>4. \/ Disturbs(t, l, FALSE)
        \/ Disturbs(t, l, TRUE)
    BY <1>0, <1>8, LoadDisturbs, StoreDisturbs DEF LoadStep, StoreStep, l
  <2> QED
    BY <1>7, <2>3, <2>4
<1>9. ASSUME NEW t \in Threads, Look(t) PROVE Untouched'
  BY <1>2, <1>9 DEF Look, LooksInv
<1>10. ASSUME NEW t \in Threads, TakeLock(t) \/ Unlock(t) PROVE Untouched'
  <2>1. ASSUME NEW u \in Losers(t, GLock, TRUE) PROVE FALSE
    <3>1. u \in Threads /\ htm[u] = "running" /\ GLock \in readSet[u] \cup DOMAIN writeSet[u]
      BY <2>1 DEF Losers
    <3>2. job[u] \in Jobs
      BY <1>0, <3>1 DEF LooksInv, Attempting, TypeControl, WellFormed
    <3> QED
      BY <1>2, <3>1, <3>2, LocsOffTheLock DEF SetsInv
  <2>2. Disturbs(t, GLock, TRUE)
    BY <1>0, <1>10, StoreDisturbs DEF TakeLock, Unlock
  <2> QED
    BY <1>7, <2>1, <2>2
<1>11. CASE UNCHANGED vars
  BY <1>11 DEF vars, rtm
<1> QED
  BY <1>3, <1>5, <1>6, <1>8, <1>9, <1>10, <1>11 DEF Next, Step, Joined

----------------------------------------------------------------------------
(* The lock. *)

LEMMA NextGLockInv ==
  ASSUME TypeOK, LooksInv, SetsInv, GLockInv, [Next]_vars
  PROVE  GLockInv'
<1> USE DEF Goto, Finish
<1>0. TypeControl /\ TypeRtm /\ WellFormed(program)
  BY TypeParts, ProgramsWellFormed DEF TypeControl
<1> USE DEF TypeControl, TypeRtm
<1>1. ASSUME NEW t \in Threads, program' = program, memory'[GLock] = memory[GLock],
             \A u \in Threads : u # t => /\ pc'[u] = pc[u] /\ readSet'[u] = readSet[u]
                                         /\ htm'[u] = "running" => htm[u] = "running",
             pc'[t] = "alone" => pc[t] = "alone",
             MayCommit(t)' /\ program.looks # "never" =>
               memory[GLock] = 0 /\ GLock \in readSet'[t]
      PROVE  GLockInv'
  BY <1>1 DEF GLockInv, MayCommit
<1>2. ASSUME NEW t \in Threads, Draw(t) \/ Enqueue(t) \/ MyTurn(t) PROVE GLockInv'
  <2>1. htm[t] = "none" /\ UNCHANGED <<rtm, program>>
    BY <1>0, <1>2 DEF Draw, Enqueue, MyTurn, LooksInv, Attempting
  <2>2. pc'[t] # "alone" /\ \A u \in Threads : u # t => pc'[u] = pc[u]
    BY <1>0, <1>2 DEF Draw, Enqueue, MyTurn
  <2> QED
    BY <1>1, <2>1, <2>2 DEF MayCommit, rtm
<1>3. ASSUME NEW t \in Threads, Dequeue(t) \/ Iterate(t) PROVE GLockInv'
  <2>1. htm[t] = "none" /\ UNCHANGED <<rtm, program>>
    BY <1>0, <1>3 DEF Dequeue, Iterate, LooksInv, Attempting
  <2>2. pc'[t] # "alone" /\ \A u \in Threads : u # t => pc'[u] = pc[u]
    BY <1>0, <1>3 DEF Dequeue, Iterate
  <2> QED
    BY <1>1, <2>1, <2>2 DEF MayCommit, rtm
<1>4. ASSUME NEW t \in Threads, Begin(t) PROVE GLockInv'
  <2>1. pc'[t] = (IF program.looks = "first" THEN "look" ELSE "inside") /\ program' = program
    BY <1>0, <1>4 DEF Begin
  <2>2. MayCommit(t)' => program.looks = "never"
    BY <1>0, <2>1 DEF MayCommit, WellFormed
  <2>3. memory' = memory /\ \A u \in Threads : u # t => /\ pc'[u] = pc[u]
                                                      /\ readSet'[u] = readSet[u]
                                                      /\ htm'[u] = htm[u]
    BY <1>0, <1>4 DEF Begin, XBegin, Ends
  <2> QED
    BY <1>1, <2>1, <2>2, <2>3
<1>5. ASSUME NEW t \in Threads, Commit(t) \/ Explicit(t) \/ Conflict(t) \/ Other(t)
      PROVE  GLockInv'
  <2>1. memory'[GLock] = memory[GLock] /\ program' = program /\ Ends(t, "none")
    BY <1>0, <1>5, LockIsNoData DEF Commit, XEnd, Value, Explicit, Conflict, Other, Aborted, XAbort
  <2>2. pc'[t] # "alone" /\ \A u \in Threads : u # t => pc'[u] = pc[u]
    BY <1>0, <1>5 DEF Commit, Explicit, Conflict, Other, Aborted
  <2>3. htm'[t] = "none" /\ \A u \in Threads : u # t => htm'[u] = htm[u] /\ readSet'[u] = readSet[u]
    BY <1>0, <2>1 DEF Ends
  <2> QED
    BY <1>1, <2>1, <2>2, <2>3 DEF MayCommit
<1>6. ASSUME NEW t \in Threads, NEW l, NEW stores, Disturbs(t, l, stores)
      PROVE  \A u \in Threads : htm'[u] = "running" => htm[u] = "running"
  BY <1>6 DEF Disturbs
<1>7. ASSUME NEW t \in Threads, LoadStep(t) \/ StoreStep(t) PROVE GLockInv'
  <2>1. UNCHANGED <<pc, program>> /\ Runs(t)
    BY <1>7 DEF LoadStep, StoreStep
  <2>2. \A u \in Threads : htm'[u] = "running" => htm[u] = "running"
    BY <1>0, <1>6, <1>7, LoadDisturbs, StoreDisturbs DEF LoadStep, StoreStep
  <2>3. memory'[GLock] = memory[GLock]
    BY <1>0, <1>7, <2>1, ThisAccess DEF LoadStep, StoreStep, Load, Store
  <2>4. readSet' = readSet \/ readSet' = [readSet EXCEPT ![t] = @ \cup {This(t).at}]
    BY <1>7 DEF LoadStep, StoreStep, Load, Store
  <2>5. \A u \in Threads : readSet[u] \subseteq readSet'[u] /\ (u # t => readSet'[u] = readSet[u])
    BY <1>0, <2>4
  <2>6. MayCommit(t)' => MayCommit(t)
    BY <2>1, <2>2 DEF MayCommit
  <2> QED
    BY <1>1, <2>1, <2>2, <2>3, <2>5, <2>6 DEF GLockInv
<1>8. ASSUME NEW t \in Threads, Look(t) PROVE GLockInv'
  <2>1. /\ UNCHANGED <<program, memory>>
        /\ \A u \in Threads : u # t => pc'[u] = pc[u] /\ readSet'[u] = readSet[u]
    BY <1>0, <1>8 DEF Look, Load
  <2>2. htm'[t] = htm[t] /\ \A u \in Threads : htm'[u] = "running" => htm[u] = "running"
    BY <1>0, <1>6, <1>8, LoadDisturbs DEF Look
  <2>3. htm[t] = "running" => GLock \in readSet'[t]
    BY <1>0, <1>8 DEF Look, Load
  <2>4. \/ pc[t] = "look" /\ program.looks = "first"
        \/ pc[t] = "inside" /\ program.looks = "last"
    BY <1>8 DEF Look, LooksInv
  <2>5. \/ pc'[t] = "xabort"
        \/ pc'[t] \in {"inside", "end"} /\ memory[GLock] = 0
    BY <1>0, <1>8 DEF Look
  <2> QED
    BY <1>1, <2>1, <2>2, <2>3, <2>5 DEF MayCommit
<1>9. ASSUME NEW t \in Threads, NEW v, Store(t, GLock, v), pc[t] \in {"lock", "alone"}
      PROVE  /\ memory'[GLock] = v /\ htm'[t] = "none" /\ readSet' = readSet
             /\ \A u \in Threads : htm'[u] = "running" => htm[u] = "running" /\ GLock \notin readSet[u]
  <2>1. htm[t] = "none"
    BY <1>0, <1>9 DEF LooksInv, Attempting
  <2>2. memory'[GLock] = v /\ readSet' = readSet
    BY <1>0, <1>9, <2>1 DEF Store
  <2>3. htm' = [u \in Threads |-> IF u \in Losers(t, GLock, TRUE) THEN "doomed" ELSE htm[u]]
    BY <1>9 DEF Store, Doom
  <2>4. \A u \in Threads : htm'[u] = "running" => htm[u] = "running" /\ u \notin Losers(t, GLock, TRUE)
    BY <2>3
  <2> QED
    BY <2>1, <2>2, <2>3, <2>4 DEF Losers
<1>10. ASSUME NEW t \in Threads, TakeLock(t) PROVE GLockInv'
  <2>1. /\ memory'[GLock] = 1 /\ htm'[t] = "none" /\ readSet' = readSet
        /\ \A u \in Threads : htm'[u] = "running" => htm[u] = "running" /\ GLock \notin readSet[u]
    BY <1>9, <1>10 DEF TakeLock
  <2>2. /\ program' = program /\ pc'[t] = "alone" /\ memory[GLock] = 0
        /\ \A u \in Threads : u # t => pc'[u] = pc[u]
    BY <1>0, <1>10 DEF TakeLock
  <2>3. \A u \in Threads : pc[u] # "alone"
    BY <2>2 DEF GLockInv
  <2> QED
    BY <2>1, <2>2, <2>3 DEF GLockInv, MayCommit
<1>11. ASSUME NEW t \in Threads, Unlock(t) PROVE GLockInv'
  <2>1. /\ htm'[t] = "none" /\ \A u \in Threads : htm'[u] = "running" => htm[u] = "running"
    BY <1>9, <1>11 DEF Unlock
  <2>2. /\ program' = program /\ pc[t] = "alone" /\ pc'[t] # "alone"
        /\ \A u \in Threads : u # t => pc'[u] = pc[u]
    BY <1>0, <1>11 DEF Unlock
  <2>3. memory[GLock] = 1 /\ \A u \in Threads : pc'[u] # "alone"
    BY <2>2 DEF GLockInv
  <2>4. \A u \in Threads : MayCommit(u)' => MayCommit(u)
    BY <2>1, <2>2 DEF MayCommit
  <2> QED
    BY <2>2, <2>3, <2>4 DEF GLockInv
<1>12. CASE UNCHANGED vars
  BY <1>12 DEF vars, rtm, GLockInv, MayCommit
<1> QED
  BY <1>2, <1>3, <1>4, <1>5, <1>7, <1>8, <1>10, <1>11, <1>12 DEF Next, Step, Joined

----------------------------------------------------------------------------
(* Theorems. *)

LEMMA InitIInv == Init => IInv
<1> SUFFICES ASSUME Init PROVE IInv
  OBVIOUS
<1> USE DEF Init, RtmInit
<1>1. memory[GLock] = 0 /\ DOMAIN memory = Data \cup {GLock}
  BY DEF Initial, GLock
<1>2. TypeOK
  BY <1>1 DEF TypeOK, Labels, NoWrites
<1>3. RetriesInv
  <2>1. program.attempts \in Nat
    BY ProgramsWellFormed DEF WellFormed
  <2>2. program.attempts # Forever => 0 < program.attempts /\ 0 <= program.attempts
    BY <2>1 DEF Forever
  <2>3. \A t \in Threads : retries[t] = 0
    OBVIOUS
  <2> HIDE DEF Init
  <2> QED
    BY <2>2, <2>3 DEF RetriesInv
<1>4. LooksInv /\ SetsInv
  BY DEF LooksInv, SetsInv, Attempting, NoWrites
<1>5. TurnInv
  BY DEF TurnInv, Queued, Serving, Attempting
<1>6. GLockInv /\ NoConflicts
  BY DEF GLockInv, MayCommit, NoConflicts
<1> QED
  BY <1>2, <1>3, <1>4, <1>5, <1>6 DEF IInv

(* The threads of every program keep their attempts, tickets and sets of   *)
(* accesses as the loops of htm_sched.cpp, TPCcHTM.cpp and htm_HTM_GL2.cpp *)
(* mean them: attempts are bounded, tickets served in turn, the lock seen  *)
(* by whom it would have to stop.                                          *)
THEOREM IInvHolds == Spec => []IInv
<1>1. Init => IInv
  BY InitIInv
<1>2. IInv /\ [Next]_vars => IInv'
  BY NextTypeOK, NextRetriesInv, NextLooksInv, NextSetsInv, NextTurnInv, NextGLockInv,
     NextNoConflicts DEF IInv
<1> QED
  BY <1>1, <1>2, PTL DEF Spec

(* Where tickets of an account (tx_fn_one_q) or of a warehouse             *)
(* (tx_fn_tpcc_q) order the transactions, no transaction is ever aborted   *)
(* by another thread, be it in a transaction or under tm_super_glock.      *)
THEOREM TicketsAvoidConflicts == Spec => []NoConflicts
<1>1. IInv => NoConflicts
  BY DEF IInv
<1> QED
  BY <1>1, IInvHolds, PTL

(* The thread that has taken tm_super_glock after its last attempt is the  *)
(* only one, and no transaction that touches its data can still commit,    *)
(* in tx_fn_tpcc, where transactions look at the lock only at their end,   *)
(* and in tx_fn_tpcc_q, where they do not look at it at all.               *)
THEOREM LockOwnerIsAlone == Spec => []OwnerIsAlone
<1>1. ASSUME IInv PROVE OwnerIsAlone
  <2> USE <1>1 DEF IInv
  <2> SUFFICES ASSUME NEW u \in Threads, pc[u] = "alone", NEW t \in Threads \ {u}
               PROVE  /\ pc[t] # "alone"
                      /\ MayCommit(t) => Locs(job[t].does) \cap Locs(job[u].does) = {}
    BY DEF OwnerIsAlone
  <2>1. pc[t] # "alone" /\ memory[GLock] = 1
    BY DEF GLockInv
  <2>2. ASSUME MayCommit(t) PROVE Locs(job[t].does) \cap Locs(job[u].does) = {}
    <3>1. program.looks = "never"
      BY <2>1, <2>2 DEF GLockInv
    <3>2. program.falls /\ WellFormed(program)
      BY ProgramsWellFormed DEF LooksInv, TypeOK
    <3>3. program.tickets
      BY <3>1, <3>2 DEF WellFormed
    <3>4. Serving(t) /\ Serving(u)
      BY <2>2 DEF MayCommit, Serving, Attempting
    <3> QED
      BY <3>3, <3>4, ServedApart
  <2> QED
    BY <2>1, <2>2
<1> QED
  BY <1>1, IInvHolds, PTL
=============================================================================
