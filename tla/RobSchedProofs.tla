--------------------------- MODULE RobSchedProofs ---------------------------
(***************************************************************************)
(* Proofs about RobSched for any number of threads, accounts, slots, flags *)
(* and iterations and for transactions of one account or of two.  First    *)
(* the arithmetic of the slots and what an access of Rtm does; then the    *)
(* types, group by group, and the inductive invariant, conjunct by         *)
(* conjunct; then what follows from it.                                    *)
(***************************************************************************)
EXTENDS RobSched, FiniteSetTheorems, TLAPS

----------------------------------------------------------------------------
(* Ids, slots and locations. *)

LEMMA IdsArePositive ==
  /\ Cardinality(Threads) \in Nat
  /\ \A t \in Threads : t \in Nat /\ t >= 1 /\ 1 \in Threads
  /\ 0 \notin Threads
<1>1. Cardinality(Threads) \in Nat
  BY IdsFromOne, FS_CardinalityType
<1> QED
  BY <1>1, IdsFromOne

LEMMA SlotOf == \A n \in Nat : n % Size \in Indices
  BY SizesAssumption DEF Indices

LEMMA SlotIsItself == \A n \in Indices : n % Size = n /\ n \in Nat
  BY SizesAssumption DEF Indices

LEMMA PositionOf == \A p \in 0 .. Flags - 1 : (p + 1) % Flags \in 0 .. Flags - 1
  BY SizesAssumption

\* The distance from s to n round the buffer.
LEMMA Distance ==
  ASSUME NEW s \in Indices, NEW n \in Indices
  PROVE  (n - s) % Size = IF n >= s THEN n - s ELSE n - s + Size
<1>1. Size \in Nat /\ Size > 0 /\ n \in Int /\ s \in Int /\ n < Size /\ s < Size /\ n >= 0 /\ s >= 0
  BY SizesAssumption DEF Indices
<1>2. CASE n >= s
  BY <1>1, <1>2
<1>3. CASE n < s
  BY <1>1, <1>3
<1> QED
  BY <1>1, <1>2, <1>3

\* A scan at i has looked at one slot more when it is at the next.
LEMMA BeforeNext ==
  ASSUME NEW s \in Indices, NEW x \in Indices, NEW n \in Indices, Before(n, s, (x + 1) % Size)
  PROVE  Before(n, s, x) \/ n = x
<1>1. (x + 1) % Size \in Indices /\ (x + 1) % Size = IF x + 1 = Size THEN 0 ELSE x + 1
  <2>1. Size \in Nat /\ Size > 0 /\ x \in Nat /\ x < Size
    BY SizesAssumption DEF Indices
  <2> QED
    BY <2>1 DEF Indices
<1> DEFINE y == (x + 1) % Size
<1>2. /\ (n - s) % Size = IF n >= s THEN n - s ELSE n - s + Size
      /\ (x - s) % Size = IF x >= s THEN x - s ELSE x - s + Size
      /\ (y - s) % Size = IF y >= s THEN y - s ELSE y - s + Size
  BY <1>1, Distance
<1>3. (n - s) % Size < (y - s) % Size
  BY DEF Before
<1> HIDE DEF y
<1>4. y = IF x + 1 = Size THEN 0 ELSE x + 1
  BY <1>1 DEF y
<1> QED
  BY <1>2, <1>3, <1>4, SizesAssumption DEF Before, Indices

LEMMA NothingBefore == \A s, n \in Indices : ~Before(n, s, s)
<1> SUFFICES ASSUME NEW s \in Indices, NEW n \in Indices PROVE ~Before(n, s, s)
  OBVIOUS
<1>1. (s - s) % Size = 0
  BY Distance DEF Indices
<1>2. (n - s) % Size >= 0
  BY Distance, SizesAssumption DEF Indices
<1> QED
  BY <1>1, <1>2, SizesAssumption, Distance DEF Before, Indices

LEMMA LocationsAreThere ==
  /\ \A a \in Accounts : Account(a) \in Locations
  /\ \A a \in Accounts, n \in Indices : Slot(a, n) \in Locations /\ IsDone(a, n) \in Locations
  /\ \A u \in Threads, p \in 0 .. Flags - 1 : Flag(u, p) \in Locations
  BY DEF Locations

LEMMA LocationsDiffer ==
  /\ \A a, n, b, m : Slot(a, n) # IsDone(b, m)
  /\ \A a, n, b, m : Slot(a, n) = Slot(b, m) => a = b /\ n = m
  /\ \A a, n, b, m : IsDone(a, n) = IsDone(b, m) => a = b /\ n = m
  /\ \A a, n, b : Slot(a, n) # Account(b) /\ IsDone(a, n) # Account(b)
  /\ \A a, n, u, p : Slot(a, n) # Flag(u, p) /\ IsDone(a, n) # Flag(u, p)
  BY DEF Slot, IsDone, Account, Flag


----------------------------------------------------------------------------
(* Types, group by group. *)

TypeMemory ==
  /\ DOMAIN memory = Locations
  /\ \A a \in Accounts, n \in Indices :
       /\ memory[Slot(a, n)] \in [thread_id : Threads \cup {0}, priority : Threads \cup {0}]
       /\ memory[IsDone(a, n)] \in {0, 1}

TypeHtm ==
  /\ htm \in [Threads -> {"none", "running", "doomed"}]
  /\ DOMAIN readSet = Threads /\ DOMAIN writeSet = Threads

TypeCounters ==
  /\ width \in {1, 2}
  /\ status_starts \in [Accounts -> Nat] /\ status_ends \in [Accounts -> Nat]
  /\ abort_flag_pos \in [Threads -> 0 .. Flags - 1]

TypePlace ==
  /\ pc \in [Threads -> Labels]
  /\ kk \in [Threads -> Nat] /\ type \in [Threads -> BOOLEAN]
  /\ acc \in [Threads -> {<<>>} \cup [1 .. width -> Accounts]]
  /\ k \in [Threads -> 1 .. width] /\ i \in [Threads -> Nat]
  /\ \A t \in Threads :
       /\ pc[t] \notin {"draw", "finished"} => acc[t] # <<>>
       /\ IF pc[t] = "copy" THEN i[t] + 1 \in Threads ELSE i[t] \in Indices

TypeLocals ==
  /\ obj_start \in [Threads -> [1 .. 2 -> Indices]]
  /\ obj_end \in [Threads -> [1 .. 2 -> Indices]]
  /\ strt \in [Threads -> [1 .. 2 -> Indices]] /\ curEnd \in [Threads -> Indices]
  /\ othersFlags \in [Threads -> [Threads -> 0 .. Flags - 1]]
  /\ other_id \in [Threads -> Threads \cup {0}]
  /\ overrun \subseteq Accounts \X Indices

\* Where a thread has a hardware transaction.
Transacting == \A t \in Threads : htm[t] # "none" <=> Inside(t) \/ pc[t] = "xabort"

LEMMA TypeParts ==
  TypeOK <=> TypeMemory /\ TypeHtm /\ TypeCounters /\ TypePlace /\ TypeLocals /\ Transacting
  BY DEF TypeOK, TypeMemory, TypeHtm, TypeCounters, TypePlace, TypeLocals, Transacting

LEMMA TypePartsNext ==
  ASSUME TypeMemory', TypeHtm', TypeCounters', TypePlace', TypeLocals', Transacting'
  PROVE  TypeOK'
  BY DEF TypeOK, TypeMemory, TypeHtm, TypeCounters, TypePlace, TypeLocals, Transacting

\* The account and the slots at hand.
LEMMA AtHand ==
  ASSUME TypePlace, TypeCounters, TypeLocals, NEW t \in Threads
  PROVE  /\ k[t] \in 1 .. width /\ 1 .. width \subseteq 1 .. 2
         /\ k[t] < width => k[t] + 1 \in 1 .. width
         /\ Start(t) \in Indices /\ End(t) \in Indices
         /\ pc[t] \notin {"draw", "finished"} =>
              acc[t] \in [1 .. width -> Accounts] /\ Acc(t) \in Accounts
  BY DEF TypePlace, TypeCounters, TypeLocals, Start, End, Acc

----------------------------------------------------------------------------
(* What an access does to the memory and to the transactions of others. *)

\* The transactions that are running after a step were before.
Survive == \A u \in Threads : htm'[u] = "running" => htm[u] = "running"
Elsewhere == \A u \in Threads : htm'[u] = "none" <=> htm[u] = "none"
Reads(t) == /\ memory' = memory /\ writeSet' = writeSet
            /\ \A u \in Threads : readSet[u] \subseteq readSet'[u]

LEMMA LoadDoes ==
  ASSUME TypeHtm, NEW t \in Threads, NEW l, Load(t, l)
  PROVE  /\ TypeHtm' /\ Survive /\ Elsewhere /\ Reads(t)
         /\ htm'[t] = "running" => l \in readSet'[t]
         /\ htm[t] # "doomed"
<1>1. TypeHtm' /\ Survive /\ Elsewhere
  BY DEF Load, Doom, Losers, TypeHtm, Survive, Elsewhere
<1>2. \A u \in Threads : readSet[u] \subseteq readSet'[u]
  BY DEF Load, TypeHtm
<1>3. htm'[t] = "running" => l \in readSet'[t]
  BY <1>1 DEF Load, TypeHtm, Survive
<1> QED
  BY <1>1, <1>2, <1>3 DEF Load, Reads

LEMMA StoreInsideDoes ==
  ASSUME TypeHtm, NEW t \in Threads, NEW l, NEW v, Store(t, l, v), htm[t] # "none"
  PROVE  /\ TypeHtm' /\ Survive /\ Elsewhere /\ UNCHANGED <<memory, readSet>>
         /\ \A u \in Threads : DOMAIN writeSet'[u] \subseteq DOMAIN writeSet[u] \cup {l}
<1>1. TypeHtm' /\ Survive /\ Elsewhere
  BY DEF Store, Doom, Losers, TypeHtm, Survive, Elsewhere
<1>2. htm[t] = "running"
  BY DEF Store, TypeHtm
<1>3. \A u \in Threads : DOMAIN writeSet'[u] \subseteq DOMAIN writeSet[u] \cup {l}
  BY <1>2 DEF Store, TypeHtm
<1> QED
  BY <1>1, <1>2, <1>3 DEF Store

LEMMA StoreOutsideDoes ==
  ASSUME TypeHtm, NEW t \in Threads, NEW l, NEW v, Store(t, l, v), htm[t] = "none"
  PROVE  /\ TypeHtm' /\ Survive /\ Elsewhere /\ UNCHANGED <<readSet, writeSet>>
         /\ memory' = [memory EXCEPT ![l] = v]
         /\ \A u \in Threads : htm'[u] = "running" => l \notin readSet[u]
<1>1. TypeHtm' /\ Survive /\ Elsewhere
  BY DEF Store, Doom, Losers, TypeHtm, Survive, Elsewhere
<1>2. \A u \in Threads : htm'[u] = "running" => l \notin readSet[u]
  BY DEF Store, Doom, Losers, TypeHtm
<1> QED
  BY <1>1, <1>2 DEF Store

\* The slots and what is done, as XEnd leaves them.
Unwritten(t) == \A a \in Accounts, n \in Indices :
                  {Slot(a, n), IsDone(a, n)} \cap DOMAIN writeSet[t] = {}

SlotsStay == \A a \in Accounts, n \in Indices :
               /\ memory'[Slot(a, n)] = memory[Slot(a, n)]
               /\ memory'[IsDone(a, n)] = memory[IsDone(a, n)]

LEMMA EndsDoes ==
  ASSUME TypeHtm, NEW t \in Threads, NEW how \in {"none", "running"}, Ends(t, how)
  PROVE  /\ TypeHtm' /\ htm'[t] = how
         /\ \A u \in Threads \ {t} : /\ htm'[u] = htm[u] /\ readSet'[u] = readSet[u]
                                     /\ writeSet'[u] = writeSet[u]
         /\ DOMAIN writeSet'[t] = {}
  BY DEF Ends, TypeHtm, NoWrites

LEMMA XEndDoes ==
  ASSUME TypeMemory, NEW t \in Threads, Unwritten(t), XEnd(t)
  PROVE  DOMAIN memory' = DOMAIN memory /\ SlotsStay
<1>1. DOMAIN memory' = DOMAIN memory
  BY DEF XEnd
<1> SUFFICES ASSUME NEW a \in Accounts, NEW n \in Indices
             PROVE  /\ memory'[Slot(a, n)] = memory[Slot(a, n)]
                    /\ memory'[IsDone(a, n)] = memory[IsDone(a, n)]
  BY <1>1 DEF SlotsStay
<1>2. Slot(a, n) \in DOMAIN memory /\ IsDone(a, n) \in DOMAIN memory
  BY LocationsAreThere DEF TypeMemory
<1>3. Slot(a, n) \notin DOMAIN writeSet[t] /\ IsDone(a, n) \notin DOMAIN writeSet[t]
  BY DEF Unwritten
<1> QED
  BY <1>2, <1>3 DEF XEnd, Value

----------------------------------------------------------------------------
(* A step keeps the types. *)

\* The steps without an access, those that load, and those that store in a
\* transaction or outside of one.
Silently(t) == \/ Draw(t) \/ Claim(t) \/ MovePos(t) \/ Copy(t) \/ ReadStart(t) \/ ScanEnds(t)
               \/ ReadStrt(t) \/ Advance(t) \/ ReadEnd(t) \/ BumpMore(t) \/ Iterate(t)
               \/ (Follow(t) /\ UNCHANGED rtm)
Loading(t) == \E l : /\ Load(t, l)
                     /\ \/ ReadFlag(t) \/ Scan(t) \/ Check(t) \/ FindVictim(t)
                        \/ Update(t) \/ Follow(t)
StoringInside(t) == \/ AbortOther(t) /\ Store(t, VictimsFlag(t), 0)
                    \/ Update(t) /\ Store(t, Account(Acc(t)), 0)
StoringSlot(t) == PutThreadId(t) \/ PutPriority(t)
StoringDone(t) == ClearDone(t) \/ MarkDone(t)
Aborting(t) == Explicit(t) \/ Conflict(t) \/ Other(t)

LEMMA KindsOfSteps ==
  ASSUME NEW t \in Threads, Step(t)
  PROVE  \/ Silently(t) \/ Loading(t) \/ StoringInside(t) \/ StoringSlot(t) \/ StoringDone(t)
         \/ Begin(t) \/ Commit(t) \/ Aborting(t)
<1>1. CASE \/ Draw(t) \/ Claim(t) \/ MovePos(t) \/ Copy(t) \/ ReadStart(t) \/ ScanEnds(t)
           \/ ReadStrt(t) \/ Advance(t) \/ ReadEnd(t) \/ BumpMore(t) \/ Iterate(t)
  BY <1>1 DEF Silently
<1>2. CASE ReadFlag(t)
  BY <1>2 DEF Loading, ReadFlag
<1>3. CASE Scan(t)
  BY <1>3 DEF Loading, Scan
<1>4. CASE Check(t)
  BY <1>4 DEF Loading, Check
<1>5. CASE FindVictim(t)
  <2>1. \E l : Load(t, l)
    BY <1>5 DEF FindVictim
  <2> QED
    BY <1>5, <2>1 DEF Loading
<1>6. CASE Update(t)
  <2>1. Store(t, Account(Acc(t)), 0) \/ Load(t, Account(Acc(t)))
    BY <1>6 DEF Update
  <2> QED
    BY <1>6, <2>1 DEF Loading, StoringInside
<1>7. CASE Follow(t)
  <2>1. Thread(t, "follow") /\ (UNCHANGED rtm \/ Load(t, IsDone(Acc(t), i[t])))
    BY <1>7 DEF Follow
  <2> QED
    BY <1>7, <2>1 DEF Loading, Silently
<1>8. CASE AbortOther(t)
  BY <1>8 DEF StoringInside, AbortOther
<1> QED
  BY <1>1, <1>2, <1>3, <1>4, <1>5, <1>6, <1>7, <1>8
     DEF Step, StoringSlot, StoringDone, Aborting

LEMMA SilentlyDoes ==
  ASSUME NEW t \in Threads, Silently(t)
  PROVE  UNCHANGED rtm
  BY DEF Silently, Draw, Claim, MovePos, Copy, ReadStart, ScanEnds, ReadStrt, Advance, ReadEnd,
     BumpMore, Iterate

LEMMA TransactsInside ==
  ASSUME Transacting, NEW t \in Threads
  PROVE  /\ pc[t] \in {"flag", "scan", "check", "victim", "abort", "update", "end", "xabort"} =>
              htm[t] # "none"
         /\ pc[t] \notin {"flag", "scan", "check", "victim", "abort", "update", "end", "xabort"} =>
              htm[t] = "none"
  BY DEF Transacting, Inside

\* The memory and the transactions after each kind of step.
SlotWritten(t) ==
  \E v \in {[memory[Slot(Acc(t), End(t))] EXCEPT !.thread_id = t],
            [memory[Slot(Acc(t), End(t))] EXCEPT !.priority = t]} :
    memory' = [memory EXCEPT ![Slot(Acc(t), End(t))] = v]

LEMMA StoringSlotDoes ==
  ASSUME TypeHtm, Transacting, NEW t \in Threads, StoringSlot(t)
  PROVE  /\ TypeHtm' /\ Survive /\ Elsewhere /\ UNCHANGED <<readSet, writeSet>>
         /\ SlotWritten(t)
         /\ \A u \in Threads : htm'[u] = "running" => Slot(Acc(t), End(t)) \notin readSet[u]
<1>1. htm[t] = "none"
  BY TransactsInside DEF StoringSlot, PutThreadId, PutPriority, Thread
<1>2. \E v \in {[memory[Slot(Acc(t), End(t))] EXCEPT !.thread_id = t],
                [memory[Slot(Acc(t), End(t))] EXCEPT !.priority = t]} :
        Store(t, Slot(Acc(t), End(t)), v)
  BY DEF StoringSlot, PutThreadId, PutPriority
<1> QED
  BY <1>1, <1>2, StoreOutsideDoes DEF SlotWritten

LEMMA StoringDoneDoes ==
  ASSUME TypeHtm, Transacting, NEW t \in Threads, StoringDone(t)
  PROVE  \E n, v : /\ \/ (ClearDone(t) /\ n = End(t) /\ v = 0)
                      \/ (MarkDone(t) /\ n = obj_end[t][1] /\ v = 1)
                   /\ memory' = [memory EXCEPT ![IsDone(Acc(t), n)] = v]
                   /\ TypeHtm' /\ Survive /\ Elsewhere /\ UNCHANGED <<readSet, writeSet>>
                   /\ \A u \in Threads : htm'[u] = "running" => IsDone(Acc(t), n) \notin readSet[u]
<1>1. htm[t] = "none"
  BY TransactsInside DEF StoringDone, ClearDone, MarkDone, Thread
<1>2. PICK n, v : /\ \/ (ClearDone(t) /\ n = End(t) /\ v = 0)
                      \/ (MarkDone(t) /\ n = obj_end[t][1] /\ v = 1)
                  /\ Store(t, IsDone(Acc(t), n), v)
  BY DEF StoringDone, ClearDone, MarkDone
<1> QED
  BY <1>1, <1>2, StoreOutsideDoes

LEMMA StoringInsideDoes ==
  ASSUME TypeHtm, Transacting, NEW t \in Threads, StoringInside(t)
  PROVE  /\ TypeHtm' /\ Survive /\ Elsewhere /\ UNCHANGED <<memory, readSet>>
         /\ \E l : /\ \A a, n : l # Slot(a, n) /\ l # IsDone(a, n)
                   /\ \A u \in Threads : DOMAIN writeSet'[u] \subseteq DOMAIN writeSet[u] \cup {l}
<1>1. htm[t] # "none"
  BY TransactsInside DEF StoringInside, AbortOther, Update, Thread
<1>2. \E l \in {VictimsFlag(t), Account(Acc(t))} : Store(t, l, 0)
  BY DEF StoringInside
<1>3. \A l \in {VictimsFlag(t), Account(Acc(t))} : \A a, n : l # Slot(a, n) /\ l # IsDone(a, n)
  BY LocationsDiffer DEF VictimsFlag
<1> QED
  BY <1>1, <1>2, <1>3, StoreInsideDoes

LEMMA LoadingDoes ==
  ASSUME TypeHtm, NEW t \in Threads, Loading(t)
  PROVE  TypeHtm' /\ Survive /\ Elsewhere /\ Reads(t)
  BY LoadDoes DEF Loading


LEMMA StepTypeHtm ==
  ASSUME TypeHtm, Transacting, NEW t \in Threads, Step(t)
  PROVE  TypeHtm'
<1>1. CASE Silently(t)
  BY <1>1, SilentlyDoes DEF rtm, TypeHtm
<1>2. CASE Loading(t) \/ StoringInside(t) \/ StoringSlot(t)
  BY <1>2, LoadingDoes, StoringInsideDoes, StoringSlotDoes
<1>3. CASE StoringDone(t)
  BY <1>3, StoringDoneDoes
<1>4. CASE Begin(t) \/ Commit(t) \/ Aborting(t)
  <2>1. \E how \in {"none", "running"} : Ends(t, how)
    BY <1>4 DEF Begin, Commit, Aborting, Explicit, Conflict, Other, Aborted, XBegin, XEnd, XAbort
  <2> QED
    BY <2>1, EndsDoes
<1> QED
  BY <1>1, <1>2, <1>3, <1>4, KindsOfSteps

LEMMA StepTypeMemory ==
  ASSUME TypeOK, ControlInv, NEW t \in Threads, Step(t)
  PROVE  TypeMemory'
<1>0. TypeMemory /\ TypeHtm /\ TypeCounters /\ TypePlace /\ TypeLocals /\ Transacting
  BY TypeParts
<1>1. ASSUME UNCHANGED memory PROVE TypeMemory'
  BY <1>0, <1>1 DEF TypeMemory
<1>2. CASE Silently(t)
  BY <1>1, <1>2, SilentlyDoes DEF rtm
<1>3. CASE Loading(t) \/ StoringInside(t)
  BY <1>0, <1>1, <1>3, LoadingDoes, StoringInsideDoes DEF Reads
<1>4. CASE StoringSlot(t)
  <2>1. pc[t] \in {"thread_id", "priority"}
    BY <1>4 DEF StoringSlot, PutThreadId, PutPriority, Thread
  <2>2. Acc(t) \in Accounts /\ End(t) \in Indices
    BY <1>0, <2>1, AtHand
  <2>3. PICK v \in {[memory[Slot(Acc(t), End(t))] EXCEPT !.thread_id = t],
                    [memory[Slot(Acc(t), End(t))] EXCEPT !.priority = t]} :
          memory' = [memory EXCEPT ![Slot(Acc(t), End(t))] = v]
    BY <1>0, <1>4, StoringSlotDoes DEF SlotWritten
  <2>4. memory[Slot(Acc(t), End(t))] \in [thread_id : Threads \cup {0}, priority : Threads \cup {0}]
    BY <1>0, <2>2 DEF TypeMemory
  <2>5. v \in [thread_id : Threads \cup {0}, priority : Threads \cup {0}]
    BY <2>4
  <2> HIDE DEF SlotWritten
  <2> QED
    BY <1>0, <2>2, <2>3, <2>5, LocationsAreThere, LocationsDiffer DEF TypeMemory
<1>5. CASE StoringDone(t)
  <2>1. pc[t] \in {"isDone", "done"}
    BY <1>5 DEF StoringDone, ClearDone, MarkDone, Thread
  <2>2. Acc(t) \in Accounts /\ End(t) \in Indices
    BY <1>0, <2>1, AtHand
  <2>4. obj_end[t][1] \in Indices
    BY <1>0 DEF TypeLocals
  <2>3. PICK n \in Indices, v \in {0, 1} : memory' = [memory EXCEPT ![IsDone(Acc(t), n)] = v]
    BY <1>0, <1>5, <2>2, <2>4, StoringDoneDoes
  <2> QED
    BY <1>0, <2>2, <2>3, LocationsAreThere, LocationsDiffer DEF TypeMemory
<1>6. CASE Begin(t) \/ Aborting(t)
  BY <1>1, <1>6 DEF Begin, Aborting, Explicit, Conflict, Other, Aborted, XBegin, XAbort
<1>7. CASE Commit(t)
  <2>1. Unwritten(t) /\ XEnd(t)
    BY <1>7 DEF Commit, ControlInv, Unwritten
  <2> QED
    BY <1>0, <2>1, XEndDoes DEF TypeMemory, SlotsStay
<1> QED
  BY <1>2, <1>3, <1>4, <1>5, <1>6, <1>7, KindsOfSteps

LEMMA StepTypeCounters ==
  ASSUME TypeOK, NEW t \in Threads, Step(t)
  PROVE  TypeCounters' /\ width' = width
<1>0. TypeCounters /\ TypePlace /\ TypeLocals
  BY TypeParts
<1>1. ASSUME UNCHANGED shared PROVE TypeCounters' /\ width' = width
  BY <1>0, <1>1 DEF TypeCounters, shared
<1>2. CASE Claim(t)
  <2>1. Acc(t) \in Accounts
    BY <1>0, <1>2, AtHand DEF Claim, Thread
  <2> QED
    BY <1>0, <1>2, <2>1 DEF Claim, TypeCounters
<1>3. CASE MovePos(t)
  <2>1. (abort_flag_pos[t] + 1) % Flags \in 0 .. Flags - 1
    BY <1>0, PositionOf DEF TypeCounters
  <2> QED
    BY <1>0, <1>3, <2>1 DEF MovePos, TypeCounters
<1>4. CASE Advance(t) \/ BumpMore(t)
  BY <1>0, <1>4 DEF Advance, BumpMore, Bump, TypeCounters
<1>5. CASE \/ Draw(t) \/ PutThreadId(t) \/ PutPriority(t) \/ ClearDone(t) \/ Copy(t)
           \/ ReadStart(t) \/ Begin(t) \/ ReadFlag(t) \/ Scan(t) \/ ScanEnds(t) \/ Check(t)
           \/ FindVictim(t) \/ AbortOther(t) \/ Update(t) \/ Commit(t) \/ Explicit(t)
           \/ Conflict(t) \/ Other(t) \/ MarkDone(t) \/ ReadStrt(t) \/ ReadEnd(t) \/ Follow(t)
           \/ Iterate(t)
  <2>1. UNCHANGED shared
    BY <1>5 DEF Draw, PutThreadId, PutPriority, ClearDone, Copy, ReadStart, Begin, ReadFlag, Scan,
       ScanEnds, Check, FindVictim, AbortOther, Update, Commit, Explicit, Conflict, Other, Aborted,
       MarkDone, ReadStrt, ReadEnd, Follow, Iterate
  <2> QED
    BY <1>1, <2>1
<1> QED
  BY <1>2, <1>3, <1>4, <1>5 DEF Step

LEMMA StepTypeLocals ==
  ASSUME TypeOK, ControlInv, NEW t \in Threads, Step(t)
  PROVE  TypeLocals'
<1>0. TypeMemory /\ TypeCounters /\ TypePlace /\ TypeLocals
  BY TypeParts
<1>1. ASSUME UNCHANGED <<locals, overrun>> PROVE TypeLocals'
  BY <1>0, <1>1 DEF TypeLocals, locals
<1>2. k[t] \in 1 .. 2
  BY <1>0, AtHand
<1>3. CASE Claim(t)
  <2>1. Acc(t) \in Accounts
    BY <1>0, <1>3, AtHand DEF Claim, Thread
  <2>2. status_ends[Acc(t)] % Size \in Indices
    BY <1>0, <2>1, SlotOf DEF TypeCounters
  <2>3. overrun' \subseteq Accounts \X Indices
    BY <1>0, <1>3, <2>1, <2>2 DEF Claim, Overrun, TypeLocals
  <2>4. obj_end' \in [Threads -> [1 .. 2 -> Indices]]
    BY <1>0, <1>2, <1>3, <2>2 DEF Claim, TypeLocals
  <2> QED
    BY <1>0, <1>3, <2>3, <2>4 DEF Claim, TypeLocals
<1>4. CASE Copy(t)
  <2>1. i[t] + 1 \in Threads
    BY <1>0, <1>4 DEF Copy, Thread, TypePlace
  <2> QED
    BY <1>0, <1>4, <2>1 DEF Copy, TypeLocals, TypeCounters
<1>5. CASE ReadStart(t)
  <2>1. status_starts[Acc(t)] % Size \in Indices
    BY <1>0, <1>5, AtHand, SlotOf DEF ReadStart, Thread, TypeCounters
  <2> QED
    BY <1>0, <1>2, <1>5, <2>1 DEF ReadStart, TypeLocals
<1>6. CASE FindVictim(t)
  <2>1. pc[t] = "victim"
    BY <1>6 DEF FindVictim, Thread
  <2>2. /\ Acc(t) \in Accounts /\ acc[t] \in [1 .. width -> Accounts] /\ i[t] \in Indices
    BY <1>0, <2>1, AtHand DEF TypePlace
  <2>8. 1 \in 1 .. width
    BY <1>0 DEF TypeCounters
  <2>3. acc[t][1] \in Accounts
    BY <2>2, <2>8
  <2>4. PICK a \in Accounts : other_id' = [other_id EXCEPT ![t] = Value(t, Slot(a, i[t])).thread_id]
    BY <1>6, <2>2, <2>3 DEF FindVictim
  <2>5. Value(t, Slot(a, i[t])) = memory[Slot(a, i[t])]
    BY <2>2 DEF ControlInv, Value
  <2>6. memory[Slot(a, i[t])].thread_id \in Threads \cup {0}
    BY <1>0, <2>2 DEF TypeMemory
  <2>7. other_id' \in [Threads -> Threads \cup {0}]
    BY <1>0, <2>4, <2>5, <2>6 DEF TypeLocals
  <2> QED
    BY <1>0, <1>6, <2>7 DEF FindVictim, TypeLocals
<1>7. CASE AbortOther(t) \/ Explicit(t) \/ Conflict(t) \/ Other(t)
  BY <1>0, <1>7 DEF AbortOther, Explicit, Conflict, Other, Aborted, TypeLocals
<1>8. CASE ReadStrt(t)
  <2>1. status_starts[Acc(t)] % Size \in Indices
    BY <1>0, <1>8, AtHand, SlotOf DEF ReadStrt, Thread, TypeCounters
  <2> QED
    BY <1>0, <1>2, <1>8, <2>1 DEF ReadStrt, TypeLocals
<1>9. CASE ReadEnd(t)
  <2>1. status_ends[Acc(t)] % Size \in Indices
    BY <1>0, <1>9, AtHand, SlotOf DEF ReadEnd, Thread, TypeCounters
  <2> QED
    BY <1>0, <1>9, <2>1 DEF ReadEnd, TypeLocals
<1>10. CASE Iterate(t)
  <2>1. <<0, 0>> \in [1 .. 2 -> Indices] /\ 0 \in Indices
    BY SizesAssumption DEF Indices
  <2> QED
    BY <1>0, <1>10, <2>1 DEF Iterate, TypeLocals
<1>11. CASE \/ Draw(t) \/ PutThreadId(t) \/ PutPriority(t) \/ ClearDone(t) \/ MovePos(t)
            \/ Begin(t) \/ ReadFlag(t) \/ Scan(t) \/ ScanEnds(t) \/ Check(t)
            \/ Update(t) \/ Commit(t) \/ MarkDone(t) \/ Advance(t) \/ Follow(t) \/ BumpMore(t)
  <2>1. UNCHANGED <<locals, overrun>>
    BY <1>11 DEF Draw, PutThreadId, PutPriority, ClearDone, MovePos, Begin, ReadFlag, Scan,
       ScanEnds, Check, Update, Commit, MarkDone, Advance, Follow, BumpMore
  <2> QED
    BY <1>1, <2>1
<1> QED
  BY <1>3, <1>4, <1>5, <1>6, <1>7, <1>8, <1>9, <1>10, <1>11 DEF Step


\* Control moves on, for this account or for the next one.
LEMMA ForEachDoes ==
  ASSUME TypePlace, TypeCounters, NEW t \in Threads, NEW first \in Labels, NEW then \in Labels,
         ForEach(t, first, then)
  PROVE  \E label \in {first, then}, n \in 1 .. width :
           /\ pc' = [pc EXCEPT ![t] = label] /\ k' = [k EXCEPT ![t] = n]
           /\ label = then /\ first # then => n = 1
<1>1. width \in {1, 2} /\ k[t] \in 1 .. width
  BY DEF TypePlace, TypeCounters
<1>2. CASE k[t] < width
  <2>1. k[t] + 1 \in 1 .. width
    BY <1>1, <1>2
  <2> QED
    BY <1>2, <2>1 DEF ForEach, SetK, Goto
<1>3. CASE ~(k[t] < width)
  <2>1. 1 \in 1 .. width
    BY <1>1
  <2> QED
    BY <1>3, <2>1 DEF ForEach, SetK, Goto
<1> QED
  BY <1>2, <1>3

LEMMA IndexDoes ==
  ASSUME TypePlace, NEW t \in Threads, NEW n \in Nat, SetI(t, n)
  PROVE  i' = [i EXCEPT ![t] = n % Size] /\ n % Size \in Indices
  BY SlotOf DEF SetI

\* What is left to show of a step that leaves draws alone.
LEMMA PlaceStays ==
  ASSUME TypePlace, NEW t \in Threads, NEW label \in Labels, NEW n \in 1 .. width, NEW x \in Nat,
         UNCHANGED <<width, draws>>,
         pc' = [pc EXCEPT ![t] = label], k' = [k EXCEPT ![t] = n], i' = [i EXCEPT ![t] = x],
         pc[t] \notin {"draw", "finished"},
         IF label = "copy" THEN x + 1 \in Threads ELSE x \in Indices
  PROVE  TypePlace'
<1>1. \A u \in Threads : u # t => pc'[u] = pc[u] /\ i'[u] = i[u]
  BY DEF TypePlace
<1>2. pc'[t] = label /\ i'[t] = x
  BY DEF TypePlace
<1>3. \A u \in Threads : /\ pc'[u] \notin {"draw", "finished"} => acc[u] # <<>>
                         /\ IF pc'[u] = "copy" THEN i'[u] + 1 \in Threads ELSE i'[u] \in Indices
  BY <1>1, <1>2 DEF TypePlace
<1>4. pc' \in [Threads -> Labels] /\ k' \in [Threads -> 1 .. width] /\ i' \in [Threads -> Nat]
  BY DEF TypePlace
<1> QED
  BY <1>3, <1>4 DEF TypePlace, draws

LEMMA StepTypePlace ==
  ASSUME TypeOK, NEW t \in Threads, Step(t)
  PROVE  TypePlace'
<1>0. TypeCounters /\ TypePlace /\ TypeLocals
  BY TypeParts
<1> USE DEF Thread
<1>1. /\ k[t] \in 1 .. width /\ 1 \in 1 .. width /\ i[t] \in Nat
      /\ k = [k EXCEPT ![t] = k[t]] /\ i = [i EXCEPT ![t] = i[t]] /\ pc = [pc EXCEPT ![t] = pc[t]]
      /\ pc[t] # "copy" => i[t] \in Indices
  BY <1>0 DEF TypePlace, TypeCounters
<1>2. width' = width
  BY StepTypeCounters
<1>3. 0 % Size = 0 /\ 0 \in Nat /\ 0 \in Indices
  BY SizesAssumption, SlotIsItself DEF Indices
<1>4. 0 + 1 \in Threads
  BY IdsArePositive
<1>5. Start(t) \in Indices /\ End(t) \in Indices /\ \A n \in Indices : n \in Nat /\ n + 1 \in Nat
  BY <1>0, AtHand DEF Indices
<1>6. ASSUME NEW label \in Labels \ {"copy"}, Goto(t, label), UNCHANGED <<draws, k, i>>,
             pc[t] \notin {"draw", "finished", "copy"}
      PROVE  TypePlace'
  BY <1>0, <1>1, <1>2, <1>6, PlaceStays DEF Goto
<1>7. ASSUME NEW label \in Labels \ {"copy"}, NEW n \in Nat, Goto(t, label), SetI(t, n),
             UNCHANGED <<draws, k>>, pc[t] \notin {"draw", "finished"}
      PROVE  TypePlace'
  <2>1. i' = [i EXCEPT ![t] = n % Size] /\ n % Size \in Indices
    BY <1>0, <1>7, IndexDoes
  <2>2. n % Size \in Nat
    BY <1>5, <2>1
  <2> QED
    BY <1>0, <1>1, <1>2, <1>7, <2>1, <2>2, PlaceStays DEF Goto
<1>8. ASSUME NEW first \in Labels \ {"copy"}, NEW then \in Labels \ {"copy"}, ForEach(t, first, then),
             UNCHANGED <<draws, i>>, pc[t] \notin {"draw", "finished", "copy"}
      PROVE  TypePlace'
  <2>1. PICK label \in {first, then}, n \in 1 .. width :
           pc' = [pc EXCEPT ![t] = label] /\ k' = [k EXCEPT ![t] = n]
    BY <1>0, <1>8, ForEachDoes
  <2> QED
    BY <1>0, <1>1, <1>2, <1>8, <2>1, PlaceStays
<1>9. "claim" \in Labels /\ "thread_id" \in Labels /\ "priority" \in Labels /\ "isDone" \in Labels
      /\ "pos" \in Labels /\ "copy" \in Labels /\ "start" \in Labels /\ "begin" \in Labels
      /\ "flag" \in Labels /\ "scan" \in Labels /\ "check" \in Labels /\ "victim" \in Labels
      /\ "abort" \in Labels /\ "update" \in Labels /\ "end" \in Labels /\ "xabort" \in Labels
      /\ "done" \in Labels /\ "strt" \in Labels /\ "advance" \in Labels /\ "curEnd" \in Labels
      /\ "follow" \in Labels /\ "bump" \in Labels /\ "next" \in Labels /\ "draw" \in Labels
      /\ "finished" \in Labels
  BY DEF Labels
<1>10. CASE Draw(t)
  <2>1. PICK p \in [1 .. width -> Accounts] : acc' = [acc EXCEPT ![t] = p]
    BY <1>10 DEF Draw
  <2>2. p # <<>>
    <3>1. 1 \in DOMAIN p
      BY <1>1
    <3>2. DOMAIN <<>> = {}
      OBVIOUS
    <3> QED
      BY <3>1, <3>2
  <2>3. type' \in [Threads -> BOOLEAN]
    BY <1>0, <1>10 DEF Draw, TypePlace
  <2> QED
    BY <1>0, <1>2, <1>9, <1>10, <2>1, <2>2, <2>3 DEF Draw, Goto, TypePlace
<1>11. CASE Claim(t) \/ PutThreadId(t) \/ PutPriority(t)
  BY <1>6, <1>9, <1>11 DEF Claim, PutThreadId, PutPriority
<1>12. CASE ClearDone(t)
  BY <1>8, <1>9, <1>12 DEF ClearDone
<1>13. CASE MovePos(t)
  <2>1. i' = [i EXCEPT ![t] = 0] /\ pc' = [pc EXCEPT ![t] = "copy"]
    BY <1>3, <1>13 DEF MovePos, SetI, Goto
  <2> QED
    BY <1>0, <1>1, <1>2, <1>3, <1>4, <1>9, <1>13, <2>1, PlaceStays DEF MovePos
<1>14. CASE Copy(t)
  <2>1. CASE i[t] + 1 + 1 \in Threads
    BY <1>0, <1>1, <1>2, <1>9, <1>14, <2>1, PlaceStays DEF Copy
  <2>2. CASE ~(i[t] + 1 + 1 \in Threads)
    BY <1>3, <1>7, <1>9, <1>14, <2>2 DEF Copy
  <2> QED
    BY <2>1, <2>2
<1>15. CASE ReadStart(t)
  BY <1>8, <1>9, <1>15 DEF ReadStart
<1>16. CASE Begin(t) \/ Scan(t) \/ Commit(t)
  BY <1>6, <1>9, <1>16 DEF Begin, Scan, Commit
<1>17. CASE ReadFlag(t)
  BY <1>5, <1>7, <1>9, <1>17 DEF ReadFlag
<1>18. CASE ScanEnds(t)
  <2>1. PICK label \in {"scan", "update"}, n \in 1 .. width :
          pc' = [pc EXCEPT ![t] = label] /\ k' = [k EXCEPT ![t] = n]
    BY <1>0, <1>9, <1>18, ForEachDoes DEF ScanEnds
  <2>2. k[t] < width => obj_start[t][k[t] + 1] \in Indices
    BY <1>0, AtHand DEF TypeLocals
  <2>3. PICK x \in Indices : SetI(t, x)
    BY <1>3, <1>18, <2>2 DEF ScanEnds
  <2>4. i' = [i EXCEPT ![t] = x]
    BY <2>3, SlotIsItself DEF SetI
  <2> QED
    BY <1>0, <1>2, <1>5, <1>9, <1>18, <2>1, <2>4, PlaceStays DEF ScanEnds
<1>19. CASE Check(t)
  <2>1. CASE Value(t, IsDone(Acc(t), i[t])) = 0
    BY <1>6, <1>9, <1>19, <2>1 DEF Check
  <2>2. CASE Value(t, IsDone(Acc(t), i[t])) # 0
    BY <1>1, <1>5, <1>7, <1>9, <1>19, <2>2 DEF Check
  <2> QED
    BY <2>1, <2>2
<1>20. CASE FindVictim(t)
  BY <1>6, <1>9, <1>20 DEF FindVictim
<1>21. CASE AbortOther(t)
  BY <1>1, <1>5, <1>7, <1>9, <1>21 DEF AbortOther
<1>22. CASE Update(t)
  BY <1>8, <1>9, <1>22 DEF Update
<1>23. CASE Explicit(t) \/ Conflict(t) \/ Other(t)
  <2>1. /\ i' = [i EXCEPT ![t] = 0] /\ pc' = [pc EXCEPT ![t] = "copy"] /\ k' = [k EXCEPT ![t] = 1]
        /\ UNCHANGED draws /\ pc[t] \notin {"draw", "finished"}
    BY <1>3, <1>23 DEF Explicit, Conflict, Other, Aborted, Inside, SetI, SetK, Goto
  <2> QED
    BY <1>0, <1>1, <1>2, <1>3, <1>4, <1>9, <2>1, PlaceStays
<1>24. CASE MarkDone(t) \/ ReadStrt(t)
  BY <1>8, <1>9, <1>24 DEF MarkDone, ReadStrt
<1>25. CASE Advance(t)
  BY <1>6, <1>9, <1>25 DEF Advance
<1>26. CASE ReadEnd(t)
  BY <1>5, <1>7, <1>9, <1>26 DEF ReadEnd
<1>27. CASE Follow(t)
  BY <1>6, <1>8, <1>9, <1>27 DEF Follow
<1>28. CASE BumpMore(t)
  BY <1>1, <1>5, <1>7, <1>9, <1>28 DEF BumpMore
<1>29. CASE Iterate(t)
  <2>1. /\ i' = [i EXCEPT ![t] = 0] /\ k' = [k EXCEPT ![t] = 1] /\ acc' = [acc EXCEPT ![t] = <<>>]
        /\ kk' = [kk EXCEPT ![t] = @ + 1] /\ type' = type
    BY <1>3, <1>29 DEF Iterate, SetI, SetK
  <2>2. PICK label \in {"draw", "finished"} : pc' = [pc EXCEPT ![t] = label]
    BY <1>29 DEF Iterate, Goto
  <2> QED
    BY <1>0, <1>1, <1>2, <1>3, <1>9, <2>1, <2>2 DEF TypePlace
<1> QED
  BY <1>10, <1>11, <1>12, <1>13, <1>14, <1>15, <1>16, <1>17, <1>18, <1>19, <1>20, <1>21, <1>22,
     <1>23, <1>24, <1>25, <1>26, <1>27, <1>28, <1>29 DEF Step


\* A step leaves the other threads' variables alone.
LEMMA OthersStay ==
  ASSUME TypeOK, NEW t \in Threads, Step(t), NEW u \in Threads, u # t
  PROVE  /\ pc'[u] = pc[u] /\ k'[u] = k[u] /\ i'[u] = i[u] /\ acc'[u] = acc[u]
         /\ obj_start'[u] = obj_start[u] /\ obj_end'[u] = obj_end[u] /\ other_id'[u] = other_id[u]
<1>0. TypePlace /\ TypeLocals /\ TypeCounters
  BY TypeParts
<1> USE DEF TypePlace, TypeLocals, Goto, SetI, SetK, draws, locals
<1>1. ASSUME NEW first, NEW then, ForEach(t, first, then)
      PROVE  pc'[u] = pc[u] /\ k'[u] = k[u]
  BY <1>0, <1>1 DEF ForEach
<1>2. CASE Draw(t) \/ MovePos(t) \/ Copy(t) \/ Iterate(t)
  BY <1>0, <1>2 DEF Draw, MovePos, Copy, Iterate
<1>3. CASE Claim(t) \/ PutThreadId(t) \/ PutPriority(t)
  BY <1>0, <1>3 DEF Claim, PutThreadId, PutPriority
<1>4. CASE ClearDone(t) \/ ReadStart(t) \/ MarkDone(t) \/ ReadStrt(t) \/ Update(t)
  BY <1>0, <1>1, <1>4 DEF ClearDone, ReadStart, MarkDone, ReadStrt, Update
<1>5. CASE Begin(t) \/ ReadFlag(t) \/ Scan(t) \/ Check(t)
  BY <1>0, <1>5 DEF Begin, ReadFlag, Scan, Check
<1>6. CASE ScanEnds(t)
  BY <1>0, <1>1, <1>6 DEF ScanEnds
<1>7. CASE FindVictim(t) \/ AbortOther(t) \/ Commit(t)
  BY <1>0, <1>7 DEF FindVictim, AbortOther, Commit
<1>8. CASE Explicit(t) \/ Conflict(t) \/ Other(t)
  BY <1>0, <1>8 DEF Explicit, Conflict, Other, Aborted
<1>9. CASE Advance(t) \/ ReadEnd(t) \/ BumpMore(t)
  BY <1>0, <1>9 DEF Advance, ReadEnd, BumpMore
<1>10. CASE Follow(t)
  BY <1>0, <1>1, <1>10 DEF Follow
<1> QED
  BY <1>2, <1>3, <1>4, <1>5, <1>6, <1>7, <1>8, <1>9, <1>10 DEF Step

\* Where a step takes its thread.
LEMMA Moves ==
  ASSUME TypeOK, NEW t \in Threads, Step(t)
  PROVE  \/ Draw(t) /\ pc[t] = "draw" /\ pc'[t] = "claim"
         \/ Claim(t) /\ pc[t] = "claim" /\ pc'[t] = "thread_id"
         \/ PutThreadId(t) /\ pc[t] = "thread_id" /\ pc'[t] = "priority"
         \/ PutPriority(t) /\ pc[t] = "priority" /\ pc'[t] = "isDone"
         \/ ClearDone(t) /\ pc[t] = "isDone" /\ pc'[t] \in {"claim", "pos"}
         \/ MovePos(t) /\ pc[t] = "pos" /\ pc'[t] = "copy"
         \/ Copy(t) /\ pc[t] = "copy" /\ pc'[t] \in {"copy", "start"}
         \/ ReadStart(t) /\ pc[t] = "start" /\ pc'[t] \in {"start", "begin"}
         \/ Begin(t) /\ pc[t] = "begin" /\ pc'[t] = "flag"
         \/ ReadFlag(t) /\ pc[t] = "flag" /\ pc'[t] = "scan"
         \/ Scan(t) /\ pc[t] = "scan" /\ pc'[t] \in {"check", "victim"}
         \/ ScanEnds(t) /\ pc[t] = "scan" /\ pc'[t] \in {"scan", "update"}
         \/ Check(t) /\ pc[t] = "check" /\ pc'[t] \in {"xabort", "scan"}
         \/ FindVictim(t) /\ pc[t] = "victim" /\ pc'[t] = "abort"
         \/ AbortOther(t) /\ pc[t] = "abort" /\ pc'[t] = "scan"
         \/ Update(t) /\ pc[t] = "update" /\ pc'[t] \in {"update", "end"}
         \/ Commit(t) /\ pc[t] = "end" /\ pc'[t] = "done"
         \/ Aborting(t) /\ (Inside(t) \/ pc[t] = "xabort") /\ pc'[t] = "copy"
         \/ MarkDone(t) /\ pc[t] = "done" /\ pc'[t] \in {"done", "strt"}
         \/ ReadStrt(t) /\ pc[t] = "strt" /\ pc'[t] \in {"strt", "advance"}
         \/ Advance(t) /\ pc[t] = "advance" /\ pc'[t] \in {"curEnd", "next"}
         \/ ReadEnd(t) /\ pc[t] = "curEnd" /\ pc'[t] = "follow"
         \/ Follow(t) /\ pc[t] = "follow" /\ pc'[t] \in {"bump", "advance", "next"}
         \/ BumpMore(t) /\ pc[t] = "bump" /\ pc'[t] = "follow"
         \/ Iterate(t) /\ pc[t] = "next" /\ pc'[t] \in {"draw", "finished"}
<1>0. pc \in [Threads -> Labels]
  BY DEF TypeOK
<1> USE DEF Goto, Thread
<1>1. ASSUME NEW first, NEW then, ForEach(t, first, then)
      PROVE  pc'[t] \in {first, then}
  BY <1>0, <1>1 DEF ForEach
<1>2. ASSUME NEW label, Goto(t, label) PROVE pc'[t] = label
  BY <1>0, <1>2
<1> HIDE DEF Goto
<1>3. CASE Draw(t) \/ Claim(t) \/ PutThreadId(t) \/ PutPriority(t)
  BY <1>2, <1>3 DEF Draw, Claim, PutThreadId, PutPriority
<1>4. CASE ClearDone(t) \/ ReadStart(t) \/ Update(t) \/ MarkDone(t) \/ ReadStrt(t)
  BY <1>1, <1>4 DEF ClearDone, ReadStart, Update, MarkDone, ReadStrt
<1>5. CASE MovePos(t) \/ Begin(t) \/ ReadFlag(t) \/ Scan(t)
  BY <1>2, <1>5 DEF MovePos, Begin, ReadFlag, Scan
<1>6. CASE Copy(t)
  BY <1>2, <1>6 DEF Copy
<1>7. CASE ScanEnds(t)
  BY <1>1, <1>7 DEF ScanEnds
<1>8. CASE Check(t)
  BY <1>2, <1>8 DEF Check
<1>9. CASE FindVictim(t) \/ AbortOther(t) \/ Commit(t) \/ ReadEnd(t) \/ BumpMore(t)
  BY <1>2, <1>9 DEF FindVictim, AbortOther, Commit, ReadEnd, BumpMore
<1>10. CASE Explicit(t) \/ Conflict(t) \/ Other(t)
  BY <1>2, <1>10 DEF Explicit, Conflict, Other, Aborted, Aborting
<1>11. CASE Advance(t)
  BY <1>2, <1>11 DEF Advance
<1>12. CASE Follow(t)
  BY <1>1, <1>2, <1>12 DEF Follow
<1>13. CASE Iterate(t)
  BY <1>2, <1>13 DEF Iterate
<1> QED
  BY <1>3, <1>4, <1>5, <1>6, <1>7, <1>8, <1>9, <1>10, <1>11, <1>12, <1>13 DEF Step



LEMMA StepTransacting ==
  ASSUME TypeOK, NEW t \in Threads, Step(t)
  PROVE  Transacting'
<1>0. TypeHtm /\ Transacting
  BY TypeParts
<1> DEFINE Has(label) == label \in {"flag", "scan", "check", "victim", "abort", "update", "end", "xabort"}
<1>1. \A u \in Threads : htm[u] # "none" <=> Has(pc[u])
  BY <1>0 DEF Transacting, Inside
<1>2. \A u \in Threads : u # t => pc'[u] = pc[u]
  BY OthersStay
<1>3. ASSUME \A u \in Threads : u # t => (htm'[u] = "none" <=> htm[u] = "none"),
             htm'[t] # "none" <=> Has(pc'[t])
      PROVE  Transacting'
  BY <1>1, <1>2, <1>3 DEF Transacting, Inside
<1>4. CASE Begin(t)
  <2>1. Ends(t, "running") /\ pc'[t] = "flag"
    BY <1>4 DEF Begin, XBegin, Thread, Goto, TypeOK
  <2> QED
    BY <1>0, <1>3, <2>1, EndsDoes
<1>5. CASE Commit(t) \/ Aborting(t)
  <2>1. Ends(t, "none")
    BY <1>5 DEF Commit, XEnd, Aborting, Explicit, Conflict, Other, Aborted, XAbort
  <2>2. pc'[t] \in {"done", "copy"}
    BY <1>0, <1>5 DEF Commit, Aborting, Explicit, Conflict, Other, Aborted, Goto, TypeOK
  <2> QED
    BY <1>0, <1>3, <2>1, <2>2, EndsDoes
<1>6. CASE ~Begin(t) /\ ~Commit(t) /\ ~Aborting(t)
  <2>1. Has(pc'[t]) <=> Has(pc[t])
    BY <1>6, Moves
  <2>2. CASE Silently(t)
    BY <1>1, <1>3, <2>1, <2>2, SilentlyDoes DEF rtm
  <2>3. CASE Loading(t) \/ StoringInside(t) \/ StoringSlot(t) \/ StoringDone(t)
    <3>1. Elsewhere
      BY <1>0, <2>3, LoadingDoes, StoringInsideDoes, StoringSlotDoes, StoringDoneDoes
    <3> QED
      BY <1>1, <1>3, <2>1, <3>1 DEF Elsewhere
  <2> QED
    BY <1>6, <2>2, <2>3, KindsOfSteps
<1> QED
  BY <1>4, <1>5, <1>6

LEMMA StepTypeOK ==
  ASSUME TypeOK, ControlInv, NEW t \in Threads, Step(t)
  PROVE  TypeOK'
<1>1. TypeHtm'
  BY StepTypeHtm, TypeParts
<1> QED
  BY <1>1, StepTypeMemory, StepTypeCounters, StepTypePlace, StepTypeLocals, StepTransacting,
     TypePartsNext

----------------------------------------------------------------------------
(* What transactions write, and where scans begin. *)

LEMMA StepControlInv ==
  ASSUME TypeOK, ControlInv, NEW t \in Threads, Step(t)
  PROVE  ControlInv'
<1>0. TypeHtm /\ Transacting /\ TypePlace /\ TypeCounters
  BY TypeParts
<1>1. \A u \in Threads : Unwritten(u)
  BY DEF ControlInv, Unwritten
<1>2. \A u \in Threads : pc'[u] \in {"begin", "flag"} => k'[u] = 1
  <2>1. \A u \in Threads : u # t => pc'[u] = pc[u] /\ k'[u] = k[u]
    BY OthersStay
  <2>2. ASSUME pc'[t] \in {"begin", "flag"} PROVE k'[t] = 1
    <3>1. \/ (ReadStart(t) /\ pc'[t] = "begin")
          \/ (Begin(t) /\ pc[t] = "begin")
      BY <2>2, Moves
    <3>2. CASE ReadStart(t) /\ pc'[t] = "begin"
      <4>1. ForEach(t, "start", "begin")
        BY <3>2 DEF ReadStart
      <4>2. k' = [k EXCEPT ![t] = 1]
        BY <3>2, <4>1, <1>0 DEF ForEach, Goto, SetK, TypePlace
      <4> QED
        BY <1>0, <4>2 DEF TypePlace
    <3>3. CASE Begin(t) /\ pc[t] = "begin"
      BY <3>3 DEF Begin, ControlInv
    <3> QED
      BY <3>1, <3>2, <3>3
  <2> QED
    BY <2>1, <2>2 DEF ControlInv
<1>3. \A u \in Threads : \A l : l \in DOMAIN writeSet'[u] =>
        \/ l \in DOMAIN writeSet[u]
        \/ \A a, n : l # Slot(a, n) /\ l # IsDone(a, n)
  <2>1. CASE UNCHANGED writeSet
    BY <2>1
  <2>2. CASE StoringInside(t)
    BY <1>0, <2>2, StoringInsideDoes
  <2>3. CASE Begin(t) \/ Commit(t) \/ Aborting(t)
    <3>1. \E how \in {"none", "running"} : Ends(t, how)
      BY <2>3 DEF Begin, Commit, Aborting, Explicit, Conflict, Other, Aborted, XBegin, XEnd, XAbort
    <3> QED
      BY <1>0, <3>1, EndsDoes
  <2>4. CASE Silently(t) \/ Loading(t) \/ StoringSlot(t) \/ StoringDone(t)
    BY <1>0, <2>1, <2>4, SilentlyDoes, LoadingDoes, StoringSlotDoes, StoringDoneDoes DEF rtm, Reads
  <2> QED
    BY <2>2, <2>3, <2>4, KindsOfSteps
<1>4. \A u \in Threads, a \in Accounts, n \in Indices :
        {Slot(a, n), IsDone(a, n)} \cap DOMAIN writeSet'[u] = {}
  BY <1>1, <1>3 DEF Unwritten
<1>5. \A v \in Threads : \A u \in Threads \cup {0}, p \in 0 .. Flags - 1 :
        Flag(u, p) \in readSet'[v] => u = v
  <2>1. CASE UNCHANGED readSet
    BY <2>1 DEF ControlInv
  <2>2. CASE Loading(t)
    <3>1. ASSUME NEW l, Load(t, l), \A u, p : l = Flag(u, p) => u = t
          PROVE  \A v \in Threads : \A u \in Threads \cup {0}, p \in 0 .. Flags - 1 :
                   Flag(u, p) \in readSet'[v] => u = v
      BY <1>0, <3>1 DEF Load, ControlInv, TypeHtm
    <3>2. \A a, n, u, p : Slot(a, n) # Flag(u, p) /\ IsDone(a, n) # Flag(u, p) /\ Account(a) # Flag(u, p)
      BY DEF Slot, IsDone, Account, Flag
    <3>3. CASE ReadFlag(t)
      <4>1. \A u, p : Flag(t, abort_flag_pos[t]) = Flag(u, p) => u = t
        BY DEF Flag
      <4> QED
        BY <3>1, <3>3, <4>1 DEF ReadFlag
    <3>4. CASE Scan(t) \/ Check(t)
      BY <3>1, <3>2, <3>4 DEF Scan, Check
    <3>5. CASE FindVictim(t)
      <4>1. \E a : Load(t, Slot(a, i[t]))
        BY <3>5 DEF FindVictim
      <4> QED
        BY <3>1, <3>2, <4>1
    <3>6. CASE Update(t)
      <4>1. Store(t, Account(Acc(t)), 0) \/ Load(t, Account(Acc(t)))
        BY <3>6 DEF Update
      <4> QED
        BY <2>1, <3>1, <3>2, <4>1 DEF Store
    <3>7. CASE Follow(t)
      <4>1. UNCHANGED readSet \/ Load(t, IsDone(Acc(t), i[t]))
        BY <3>7 DEF Follow, rtm
      <4> QED
        BY <2>1, <3>1, <3>2, <4>1
    <3> QED
      BY <2>2, <3>3, <3>4, <3>5, <3>6, <3>7 DEF Loading
  <2>3. CASE Begin(t) \/ Commit(t) \/ Aborting(t)
    <3>1. \E how \in {"none", "running"} : Ends(t, how)
      BY <2>3 DEF Begin, Commit, Aborting, Explicit, Conflict, Other, Aborted, XBegin, XEnd, XAbort
    <3> QED
      BY <1>0, <3>1 DEF Ends, ControlInv, TypeHtm
  <2>4. CASE Silently(t) \/ StoringInside(t) \/ StoringSlot(t) \/ StoringDone(t)
    BY <1>0, <2>1, <2>4, SilentlyDoes, StoringInsideDoes, StoringSlotDoes, StoringDoneDoes DEF rtm
  <2> QED
    BY <2>2, <2>3, <2>4, KindsOfSteps
<1> QED
  BY <1>2, <1>4, <1>5 DEF ControlInv

----------------------------------------------------------------------------
(* A slot that is not done. *)

\* What a step does to what is done: nothing, or it is ClearDone or MarkDone.
LEMMA DoneStays ==
  ASSUME TypeOK, ControlInv, NEW t \in Threads, Step(t), ~ClearDone(t), ~MarkDone(t),
         NEW a \in Accounts, NEW n \in Indices
  PROVE  memory'[IsDone(a, n)] = memory[IsDone(a, n)]
<1>0. TypeMemory /\ TypeHtm /\ Transacting
  BY TypeParts
<1>1. CASE Silently(t) \/ Loading(t) \/ StoringInside(t)
  BY <1>0, <1>1, SilentlyDoes, LoadingDoes, StoringInsideDoes DEF rtm, Reads
<1>2. CASE StoringSlot(t)
  <2>1. PICK v : memory' = [memory EXCEPT ![Slot(Acc(t), End(t))] = v]
    BY <1>0, <1>2, StoringSlotDoes DEF SlotWritten
  <2>2. IsDone(a, n) \in DOMAIN memory /\ IsDone(a, n) # Slot(Acc(t), End(t))
    BY <1>0, LocationsAreThere, LocationsDiffer DEF TypeMemory
  <2> QED
    BY <2>1, <2>2
<1>3. CASE Begin(t) \/ Aborting(t)
  BY <1>3 DEF Begin, Aborting, Explicit, Conflict, Other, Aborted, XBegin, XAbort
<1>4. CASE Commit(t)
  <2>1. Unwritten(t) /\ XEnd(t)
    BY <1>4 DEF Commit, ControlInv, Unwritten
  <2> QED
    BY <1>0, <2>1, XEndDoes DEF SlotsStay
<1> QED
  BY <1>1, <1>2, <1>3, <1>4, KindsOfSteps DEF StoringDone

LEMMA StepUndone ==
  ASSUME TypeOK, ControlInv, UndoneIsUnderWay, NEW t \in Threads, Step(t)
  PROVE  UndoneIsUnderWay'
<1>0. TypeMemory /\ TypeHtm /\ Transacting /\ TypePlace /\ TypeCounters /\ TypeLocals
  BY TypeParts
<1>1. width' = width
  BY StepTypeCounters
<1> SUFFICES ASSUME width = 1, NEW a \in Accounts, NEW n \in Indices, memory'[IsDone(a, n)] = 0
             PROVE  \E u \in Threads : UnderWay(u, a, n)'
  BY <1>1 DEF UndoneIsUnderWay
<1> DEFINE Busy(label) == label \in {"flag", "scan", "check", "victim", "abort", "update", "end",
                                     "pos", "copy", "start", "begin", "xabort", "done"}
<1>2. \A u \in Threads : UnderWay(u, a, n) <=> Busy(pc[u]) /\ acc[u][1] = a /\ obj_end[u][1] = n
  BY DEF UnderWay, Inside
<1>3. \A u \in Threads : UnderWay(u, a, n)' <=> Busy(pc'[u]) /\ acc'[u][1] = a /\ obj_end'[u][1] = n
  BY <1>1 DEF UnderWay, Inside
<1>4. k[t] = 1 /\ Acc(t) = acc[t][1] /\ End(t) = obj_end[t][1]
  BY <1>0 DEF TypePlace, Acc, End
<1>5. CASE ClearDone(t) /\ Acc(t) = a /\ End(t) = n
  <2>1. pc'[t] = "pos" /\ acc' = acc /\ obj_end' = obj_end
    BY <1>0, <1>4, <1>5 DEF ClearDone, ForEach, Goto, draws, locals, TypePlace
  <2> QED
    BY <1>3, <1>4, <1>5, <2>1
<1>6. CASE ~(ClearDone(t) /\ Acc(t) = a /\ End(t) = n)
  <2>1. /\ memory[IsDone(a, n)] = 0
        /\ MarkDone(t) => ~(acc[t][1] = a /\ obj_end[t][1] = n)
    <3>1. CASE ~ClearDone(t) /\ ~MarkDone(t)
      BY <3>1, DoneStays
    <3>2. CASE ClearDone(t) \/ MarkDone(t)
      <4>1. PICK x, v : /\ \/ (ClearDone(t) /\ x = End(t) /\ v = 0)
                           \/ (MarkDone(t) /\ x = obj_end[t][1] /\ v = 1)
                        /\ memory' = [memory EXCEPT ![IsDone(Acc(t), x)] = v]
        BY <1>0, <3>2, StoringDoneDoes DEF StoringDone
      <4>2. IsDone(a, n) \in DOMAIN memory
        BY <1>0, LocationsAreThere DEF TypeMemory
      <4>3. ~(ClearDone(t) /\ MarkDone(t))
        BY DEF ClearDone, MarkDone, Thread
      <4> QED
        BY <1>4, <1>6, <4>1, <4>2, <4>3, LocationsDiffer
    <3> QED
      BY <3>1, <3>2
  <2>2. PICK u \in Threads : UnderWay(u, a, n)
    BY <2>1 DEF UndoneIsUnderWay
  <2>3. CASE u # t
    BY <1>2, <1>3, <2>2, <2>3, OthersStay
  <2>4. CASE u = t
    <3>1. Busy(pc[t]) /\ ~MarkDone(t)
      BY <1>2, <2>1, <2>2, <2>4
    <3>2. Busy(pc'[t])
      BY <3>1, Moves
    <3>3. acc' = acc /\ obj_end' = obj_end
      BY <3>1 DEF Step, Draw, Claim, PutThreadId, PutPriority, ClearDone, MovePos, Copy, ReadStart,
         Begin, ReadFlag, Scan, ScanEnds, Check, FindVictim, AbortOther, Update, Commit, Explicit,
         Conflict, Other, Aborted, ReadStrt, Advance, ReadEnd, Follow, BumpMore, Iterate, Thread,
         draws, locals
    <3> QED
      BY <1>2, <1>3, <2>2, <2>4, <3>2, <3>3
  <2> QED
    BY <2>3, <2>4
<1> QED
  BY <1>5, <1>6


----------------------------------------------------------------------------
(* The fields of a slot. *)

LEMMA SlotStays ==
  ASSUME TypeOK, ControlInv, NEW t \in Threads, Step(t), ~PutThreadId(t), ~PutPriority(t),
         NEW a \in Accounts, NEW n \in Indices
  PROVE  memory'[Slot(a, n)] = memory[Slot(a, n)]
<1>0. TypeMemory /\ TypeHtm /\ Transacting
  BY TypeParts
<1>1. CASE Silently(t) \/ Loading(t) \/ StoringInside(t)
  BY <1>0, <1>1, SilentlyDoes, LoadingDoes, StoringInsideDoes DEF rtm, Reads
<1>2. CASE StoringDone(t)
  <2>1. PICK m, v : memory' = [memory EXCEPT ![IsDone(Acc(t), m)] = v]
    BY <1>0, <1>2, StoringDoneDoes
  <2>2. Slot(a, n) \in DOMAIN memory /\ Slot(a, n) # IsDone(Acc(t), m)
    BY <1>0, LocationsAreThere, LocationsDiffer DEF TypeMemory
  <2> QED
    BY <2>1, <2>2
<1>3. CASE Begin(t) \/ Aborting(t)
  BY <1>3 DEF Begin, Aborting, Explicit, Conflict, Other, Aborted, XBegin, XAbort
<1>4. CASE Commit(t)
  <2>1. Unwritten(t) /\ XEnd(t)
    BY <1>4 DEF Commit, ControlInv, Unwritten
  <2> QED
    BY <1>0, <2>1, XEndDoes DEF SlotsStay
<1> QED
  BY <1>1, <1>2, <1>3, <1>4, KindsOfSteps DEF StoringSlot

LEMMA OverrunStays ==
  ASSUME TypeOK, NEW t \in Threads, Step(t)
  PROVE  overrun \subseteq overrun' /\ (~Claim(t) => overrun' = overrun)
<1>1. CASE Claim(t)
  BY <1>1 DEF Claim, Overrun
<1>2. CASE ~Claim(t)
  BY <1>2 DEF Step, Draw, PutThreadId, PutPriority, ClearDone, MovePos, Copy, ReadStart, Begin,
     ReadFlag, Scan, ScanEnds, Check, FindVictim, AbortOther, Update, Commit, Explicit, Conflict,
     Other, Aborted, MarkDone, ReadStrt, Advance, ReadEnd, Follow, BumpMore, Iterate
<1> QED
  BY <1>1, <1>2

LEMMA AtHandStays ==
  ASSUME TypeOK, NEW t \in Threads, Step(t), NEW u \in Threads, u # t
  PROVE  /\ Acc(u)' = Acc(u) /\ Start(u)' = Start(u) /\ End(u)' = End(u)
         /\ LooksInFirst(u)' = LooksInFirst(u)
  BY OthersStay DEF Acc, Start, End, LooksInFirst

LEMMA StepSlotsInv ==
  ASSUME TypeOK, ControlInv, SlotsInv, NEW t \in Threads, Step(t)
  PROVE  SlotsInv'
<1>0. TypeMemory /\ TypeHtm /\ Transacting /\ TypePlace /\ TypeCounters /\ TypeLocals
  BY TypeParts
<1>1. \A u \in Threads : u # t => /\ pc'[u] = pc[u] /\ Acc(u)' = Acc(u) /\ End(u)' = End(u)
                                  /\ (Writing(u)' <=> Writing(u))
  BY OthersStay, AtHandStays DEF Writing
<1>2. \A u \in Threads : Writing(u)' <=> pc'[u] \in {"thread_id", "priority"}
  BY DEF Writing
<1>3. CASE Claim(t)
  <2>1. pc'[t] = "thread_id" /\ Acc(t)' = Acc(t) /\ pc[t] = "claim"
    BY <1>0, <1>3 DEF Claim, Goto, Thread, TypePlace, Acc, draws
  <2>2. \A a \in Accounts, n \in Indices : memory'[Slot(a, n)] = memory[Slot(a, n)]
    BY <1>3, <2>1, SlotStays DEF PutThreadId, PutPriority, Thread
  <2>3. Acc(t) \in Accounts /\ k[t] \in 1 .. 2 /\ k' = k
    BY <1>0, <1>3, <2>1, AtHand DEF Claim
  <2>4. End(t)' = status_ends[Acc(t)] % Size
    BY <1>0, <1>3, <2>3 DEF Claim, TypeLocals, End
  <2>5. \A u \in Threads : u # t /\ Writing(u) /\ Acc(u) = Acc(t) /\ End(u) = End(t)'
                            => <<Acc(t), End(t)'>> \in overrun'
    BY <1>3, <2>4 DEF Claim, Overrun
  <2>6. overrun \subseteq overrun'
    BY OverrunStays
  <2>7. \A x, u \in Threads : Writing(x)' /\ Writing(u)' /\ x # u /\ Acc(x)' = Acc(u)' /\ End(x)' = End(u)'
                                => <<Acc(x)', End(x)'>> \in overrun'
    BY <1>1, <2>1, <2>5, <2>6 DEF SlotsInv
  <2>8. ASSUME NEW u \in Threads, pc'[u] = "priority", <<Acc(u)', End(u)'>> \notin overrun'
        PROVE  memory'[Slot(Acc(u)', End(u)')].thread_id = u
    <3>1. u # t /\ pc[u] = "priority"
      BY <1>1, <2>1, <2>8
    <3>2. Acc(u) \in Accounts /\ End(u) \in Indices
      BY <1>0, <3>1, AtHand
    <3> QED
      BY <1>1, <2>2, <2>6, <2>8, <3>1, <3>2 DEF SlotsInv
  <2>9. ASSUME NEW a \in Accounts, NEW n \in Indices, <<a, n>> \notin overrun'
        PROVE  LET s == memory'[Slot(a, n)] IN
               \/ s.thread_id = s.priority
               \/ \E u \in Threads : u = s.thread_id /\ pc'[u] = "priority" /\ Acc(u)' = a /\ End(u)' = n
    <3>1. \/ memory[Slot(a, n)].thread_id = memory[Slot(a, n)].priority
          \/ \E u \in Threads : /\ u = memory[Slot(a, n)].thread_id /\ pc[u] = "priority"
                                /\ Acc(u) = a /\ End(u) = n
      BY <2>6, <2>9 DEF SlotsInv
    <3> QED
      BY <1>1, <2>1, <2>2, <3>1
  <2> QED
    BY <2>7, <2>8, <2>9 DEF SlotsInv
<1> DEFINE l == Slot(Acc(t), End(t))
<1>4. CASE PutThreadId(t) \/ PutPriority(t)
  <2>1. /\ Acc(t)' = Acc(t) /\ End(t)' = End(t) /\ overrun' = overrun
        /\ \/ PutThreadId(t) /\ pc[t] = "thread_id" /\ pc'[t] = "priority"
           \/ PutPriority(t) /\ pc[t] = "priority" /\ pc'[t] = "isDone"
    BY <1>0, <1>4 DEF PutThreadId, PutPriority, Goto, Thread, TypePlace, Acc, End, draws, locals
  <2>2. Acc(t) \in Accounts /\ End(t) \in Indices
    BY <1>0, <2>1, AtHand
  <2>3. l \in DOMAIN memory /\ memory[l] \in [thread_id : Threads \cup {0}, priority : Threads \cup {0}]
    BY <1>0, <2>2, LocationsAreThere DEF TypeMemory
  <2>4. /\ PutThreadId(t) => memory' = [memory EXCEPT ![l] = [memory[l] EXCEPT !.thread_id = t]]
        /\ PutPriority(t) => memory' = [memory EXCEPT ![l] = [memory[l] EXCEPT !.priority = t]]
    <3>1. htm[t] = "none"
      BY <1>0, <2>1, TransactsInside
    <3> QED
      BY <3>1 DEF PutThreadId, PutPriority, Store
  <2>5. /\ PutThreadId(t) => memory'[l].thread_id = t
        /\ PutPriority(t) => memory'[l].priority = t /\ memory'[l].thread_id = memory[l].thread_id
    BY <2>3, <2>4
  <2>6. \A a \in Accounts, n \in Indices : <<a, n>> # <<Acc(t), End(t)>> =>
          memory'[Slot(a, n)] = memory[Slot(a, n)]
    BY <1>0, <1>4, <2>4, LocationsAreThere, LocationsDiffer DEF TypeMemory
  <2> HIDE DEF l
  <2>7. \A x, u \in Threads : Writing(x)' /\ Writing(u)' /\ x # u /\ Acc(x)' = Acc(u)' /\ End(x)' = End(u)'
                                => <<Acc(x)', End(x)'>> \in overrun'
    <3>1. Writing(t)
      BY <2>1 DEF Writing
    <3> QED
      BY <1>1, <2>1, <3>1 DEF SlotsInv
  <2>8. ASSUME NEW u \in Threads, pc'[u] = "priority", <<Acc(u)', End(u)'>> \notin overrun'
        PROVE  memory'[Slot(Acc(u)', End(u)')].thread_id = u
    <3>1. CASE u = t
      BY <2>1, <2>5, <2>8, <3>1 DEF l
    <3>2. CASE u # t
      <4>1. pc[u] = "priority" /\ Writing(u) /\ Writing(t)
        BY <1>1, <2>1, <2>8, <3>2 DEF Writing
      <4>2. <<Acc(u), End(u)>> # <<Acc(t), End(t)>>
        BY <1>1, <2>1, <2>8, <3>2, <4>1 DEF SlotsInv
      <4>3. Acc(u) \in Accounts /\ End(u) \in Indices
        BY <1>0, <4>1, AtHand
      <4> QED
        BY <1>1, <2>1, <2>6, <2>8, <3>2, <4>1, <4>2, <4>3 DEF SlotsInv
    <3> QED
      BY <3>1, <3>2
  <2>9. ASSUME NEW a \in Accounts, NEW n \in Indices, <<a, n>> \notin overrun'
        PROVE  LET s == memory'[Slot(a, n)] IN
               \/ s.thread_id = s.priority
               \/ \E u \in Threads : u = s.thread_id /\ pc'[u] = "priority" /\ Acc(u)' = a /\ End(u)' = n
    <3>1. CASE a = Acc(t) /\ n = End(t)
      <4>1. CASE PutThreadId(t) /\ pc'[t] = "priority"
        BY <2>1, <2>5, <3>1, <4>1 DEF l
      <4>2. CASE PutPriority(t) /\ pc[t] = "priority"
        <5>1. memory[l].thread_id = t
          BY <2>1, <2>9, <3>1, <4>2 DEF SlotsInv, l
        <5> QED
          BY <2>5, <3>1, <4>2, <5>1 DEF l
      <4> QED
        BY <2>1, <4>1, <4>2
    <3>2. CASE <<a, n>> # <<Acc(t), End(t)>>
      <4>1. \/ memory[Slot(a, n)].thread_id = memory[Slot(a, n)].priority
            \/ \E u \in Threads : /\ u = memory[Slot(a, n)].thread_id /\ pc[u] = "priority"
                                  /\ Acc(u) = a /\ End(u) = n
        BY <2>1, <2>9 DEF SlotsInv
      <4> QED
        BY <1>1, <2>6, <3>2, <4>1
    <3> QED
      BY <3>1, <3>2
  <2> QED
    BY <2>7, <2>8, <2>9 DEF SlotsInv
<1>5. CASE ~Claim(t) /\ ~PutThreadId(t) /\ ~PutPriority(t)
  <2>1. pc[t] \notin {"thread_id", "priority"} /\ pc'[t] \notin {"thread_id", "priority"}
    BY <1>5, Moves DEF Inside
  <2>2. \A a \in Accounts, n \in Indices : memory'[Slot(a, n)] = memory[Slot(a, n)]
    BY <1>5, SlotStays
  <2>3. overrun' = overrun
    BY <1>5, OverrunStays
  <2>7. \A x, u \in Threads : Writing(x)' /\ Writing(u)' /\ x # u /\ Acc(x)' = Acc(u)' /\ End(x)' = End(u)'
                                => <<Acc(x)', End(x)'>> \in overrun'
    BY <1>1, <1>2, <2>1, <2>3 DEF SlotsInv
  <2>8. ASSUME NEW u \in Threads, pc'[u] = "priority", <<Acc(u)', End(u)'>> \notin overrun'
        PROVE  memory'[Slot(Acc(u)', End(u)')].thread_id = u
    <3>1. u # t /\ pc[u] = "priority"
      BY <1>1, <2>1, <2>8
    <3>2. Acc(u) \in Accounts /\ End(u) \in Indices
      BY <1>0, <3>1, AtHand
    <3> QED
      BY <1>1, <2>2, <2>3, <2>8, <3>1, <3>2 DEF SlotsInv
  <2>9. ASSUME NEW a \in Accounts, NEW n \in Indices, <<a, n>> \notin overrun'
        PROVE  LET s == memory'[Slot(a, n)] IN
               \/ s.thread_id = s.priority
               \/ \E u \in Threads : u = s.thread_id /\ pc'[u] = "priority" /\ Acc(u)' = a /\ End(u)' = n
    <3>1. \/ memory[Slot(a, n)].thread_id = memory[Slot(a, n)].priority
          \/ \E u \in Threads : /\ u = memory[Slot(a, n)].thread_id /\ pc[u] = "priority"
                                /\ Acc(u) = a /\ End(u) = n
      BY <2>3, <2>9 DEF SlotsInv
    <3> QED
      BY <1>1, <2>1, <2>2, <3>1
  <2> QED
    BY <2>7, <2>8, <2>9 DEF SlotsInv
<1> QED
  BY <1>3, <1>4, <1>5

----------------------------------------------------------------------------
(* What a transaction has looked at. *)

\* ScanInv for one transaction.
Looked(t, j, n) ==
  /\ Slot(acc[t][j], n) \in readSet[t]
  /\ \/ memory[Slot(acc[t][j], n)].priority <= t
     \/ IsDone(acc[t][j], n) \in readSet[t] /\ memory[IsDone(acc[t][j], n)] = 1

ScanOf(t) ==
  /\ \A j \in 1 .. width, n \in Indices : Scanned(t, j, n) => Looked(t, j, n)
  /\ pc[t] \in {"check", "victim", "abort"} => Slot(Acc(t), i[t]) \in readSet[t]
  /\ pc[t] \in {"victim", "abort"} => memory[Slot(Acc(t), i[t])].priority <= t
  /\ pc[t] = "abort" /\ ~LooksInFirst(t) => memory[Slot(Acc(t), i[t])].thread_id = other_id[t]

LEMMA ScanParts == ScanInv <=> \A t \in Threads : htm[t] = "running" => ScanOf(t)
  BY DEF ScanInv, ScanOf, Looked

LEMMA ScanPartsNext ==
  ASSUME \A u \in Threads : htm'[u] = "running" => ScanOf(u)'
  PROVE  ScanInv'
  BY DEF ScanInv, ScanOf, Looked

\* As long as a transaction runs, what it has read is as it has read it.
ReadStays(u) ==
  /\ htm[u] = "running" /\ readSet[u] \subseteq readSet'[u]
  /\ \A a \in Accounts, n \in Indices :
       /\ Slot(a, n) \in readSet[u] => memory'[Slot(a, n)] = memory[Slot(a, n)]
       /\ IsDone(a, n) \in readSet[u] => memory'[IsDone(a, n)] = memory[IsDone(a, n)]

LEMMA WhatIsReadStays ==
  ASSUME TypeOK, ControlInv, NEW t \in Threads, Step(t),
         NEW u \in Threads, htm'[u] = "running", ~(u = t /\ Begin(t))
  PROVE  ReadStays(u)
<1>0. TypeMemory /\ TypeHtm /\ Transacting /\ TypePlace /\ TypeLocals /\ TypeCounters
  BY TypeParts
<1>1. CASE Silently(t)
  BY <1>1, SilentlyDoes DEF rtm, ReadStays
<1>2. CASE Loading(t)
  BY <1>0, <1>2, LoadingDoes DEF Reads, Survive, ReadStays
<1>3. CASE StoringInside(t)
  BY <1>0, <1>3, StoringInsideDoes DEF Survive, ReadStays
<1>4. CASE StoringSlot(t)
  <2>1. /\ htm[u] = "running" /\ readSet' = readSet /\ SlotWritten(t)
        /\ Slot(Acc(t), End(t)) \notin readSet[u]
    BY <1>0, <1>4, StoringSlotDoes DEF Survive
  <2>2. PICK v : memory' = [memory EXCEPT ![Slot(Acc(t), End(t))] = v]
    BY <2>1 DEF SlotWritten
  <2>3. \A l \in Locations : l \in readSet[u] => memory'[l] = memory[l]
    BY <1>0, <2>1, <2>2 DEF TypeMemory
  <2> QED
    BY <2>1, <2>3, LocationsAreThere DEF ReadStays
<1>5. CASE StoringDone(t)
  <2>1. PICK n, v : /\ memory' = [memory EXCEPT ![IsDone(Acc(t), n)] = v]
                    /\ Survive /\ readSet' = readSet
                    /\ htm'[u] = "running" => IsDone(Acc(t), n) \notin readSet[u]
    BY <1>0, <1>5, StoringDoneDoes
  <2>2. \A l \in Locations : l \in readSet[u] => memory'[l] = memory[l]
    BY <1>0, <2>1 DEF TypeMemory
  <2> QED
    BY <2>1, <2>2, LocationsAreThere DEF ReadStays, Survive
<1>6. CASE Begin(t) \/ Aborting(t) \/ Commit(t)
  <2>1. \E how \in {"none", "running"} : Ends(t, how) /\ (how = "running" => Begin(t))
    BY <1>6 DEF Begin, Commit, Aborting, Explicit, Conflict, Other, Aborted, XBegin, XEnd, XAbort
  <2>2. u # t /\ htm[u] = "running" /\ readSet'[u] = readSet[u]
    BY <1>0, <2>1, EndsDoes
  <2>3. UNCHANGED memory \/ SlotsStay
    <3>1. CASE Begin(t) \/ Aborting(t)
      BY <3>1 DEF Begin, Aborting, Explicit, Conflict, Other, Aborted, XBegin, XAbort
    <3>2. CASE Commit(t)
      <4>1. Unwritten(t) /\ XEnd(t)
        BY <3>2 DEF Commit, ControlInv, Unwritten
      <4> QED
        BY <1>0, <4>1, XEndDoes
    <3> QED
      BY <1>6, <3>1, <3>2
  <2> QED
    BY <2>2, <2>3 DEF ReadStays, SlotsStay
<1> QED
  BY <1>1, <1>2, <1>3, <1>4, <1>5, <1>6, KindsOfSteps

\* What has been looked at before is still in order.
LEMMA LookedStays ==
  ASSUME TypeOK, NEW u \in Threads, ReadStays(u), acc'[u] = acc[u],
         NEW j \in 1 .. width, NEW n \in Indices, acc[u][j] \in Accounts, Looked(u, j, n)
  PROVE  Looked(u, j, n)'
  BY DEF Looked, ReadStays

LEMMA ScanStays ==
  ASSUME TypeOK, NEW u \in Threads, ScanOf(u), ReadStays(u), width' = width,
         pc'[u] = pc[u], acc'[u] = acc[u], obj_start'[u] = obj_start[u], obj_end'[u] = obj_end[u],
         k'[u] = k[u], i'[u] = i[u], other_id'[u] = other_id[u]
  PROVE  ScanOf(u)'
<1>0. TypePlace /\ TypeCounters /\ TypeLocals /\ TypeHtm /\ Transacting
  BY TypeParts
<1>1. htm[u] # "none"
  BY DEF ReadStays
<1>2. pc[u] \notin {"draw", "finished"}
  BY <1>0, <1>1, TransactsInside
<1>3. acc[u] \in [1 .. width -> Accounts] /\ Acc(u) \in Accounts /\ Acc(u)' = Acc(u)
  BY <1>0, <1>2, AtHand DEF Acc
<1>4. LooksInFirst(u)' = LooksInFirst(u)
  BY DEF LooksInFirst, Start, End
<1>5. ASSUME NEW j \in 1 .. width', NEW n \in Indices, Scanned(u, j, n)' PROVE Looked(u, j, n)'
  <2>1. Scanned(u, j, n)
    BY <1>5 DEF Scanned
  <2>2. Looked(u, j, n)
    BY <1>5, <2>1 DEF ScanOf
  <2> QED
    BY <1>3, <1>5, <2>2, LookedStays
<1>6. pc[u] \in {"check", "victim", "abort"} => i[u] \in Indices
  BY <1>0 DEF TypePlace
<1>7. pc[u] \in {"check", "victim", "abort"} =>
        /\ Slot(Acc(u), i[u]) \in readSet'[u]
        /\ memory'[Slot(Acc(u), i[u])] = memory[Slot(Acc(u), i[u])]
  BY <1>3, <1>6 DEF ScanOf, ReadStays
<1> QED
  BY <1>3, <1>4, <1>5, <1>7 DEF ScanOf

\* The steps of a running transaction: what it has looked at at the end of one,
\* it had before, but for the slot at hand.
LEMMA ScanGrows ==
  ASSUME TypeOK, ControlInv, ScanInv, NEW t \in Threads, Step(t), htm'[t] = "running", ~Begin(t)
  PROVE  ScanOf(t)'
<1>0. TypeMemory /\ TypeHtm /\ Transacting /\ TypePlace /\ TypeCounters /\ TypeLocals
  BY TypeParts
<1>1. ReadStays(t) /\ htm[t] = "running" /\ ScanOf(t)
  <2>1. ReadStays(t)
    BY WhatIsReadStays
  <2> QED
    BY <2>1, ScanParts DEF ReadStays
<1>2. pc[t] \in {"flag", "scan", "check", "victim", "abort", "update", "end", "xabort"}
  BY <1>0, <1>1, TransactsInside
<1>3. /\ k[t] \in 1 .. width /\ 1 .. width \subseteq 1 .. 2 /\ i[t] \in Indices
      /\ acc[t] \in [1 .. width -> Accounts] /\ Acc(t) \in Accounts
      /\ Start(t) \in Indices /\ End(t) \in Indices
      /\ \A j \in 1 .. width : acc[t][j] \in Accounts /\ obj_start[t][j] \in Indices
  BY <1>0, <1>2, AtHand DEF TypePlace, TypeLocals
<1>4. \A n \in Indices : /\ Value(t, Slot(Acc(t), n)) = memory[Slot(Acc(t), n)]
                         /\ Value(t, IsDone(Acc(t), n)) = memory[IsDone(Acc(t), n)]
                         /\ memory[Slot(Acc(t), n)].priority \in Nat
                         /\ memory[IsDone(Acc(t), n)] \in {0, 1}
  BY <1>0, <1>3, IdsArePositive DEF ControlInv, Value, TypeMemory
<1>5. width' = width
  BY StepTypeCounters
<1>6. t \in Nat
  BY IdsArePositive
<1>7. ~Commit(t) /\ ~Aborting(t)
  <2>1. ASSUME Ends(t, "none") PROVE FALSE
    BY <1>0, <2>1, EndsDoes
  <2> QED
    BY <2>1 DEF Commit, XEnd, Aborting, Explicit, Conflict, Other, Aborted, XAbort
\* It is enough to account for the slots that are new.
<1>8. ASSUME acc'[t] = acc[t],
             \A j \in 1 .. width, n \in Indices :
               Scanned(t, j, n)' => \/ Scanned(t, j, n)
                                    \/ Looked(t, j, n)'
      PROVE  \A j \in 1 .. width', n \in Indices : Scanned(t, j, n)' => Looked(t, j, n)'
  <2> SUFFICES ASSUME NEW j \in 1 .. width, NEW n \in Indices, Scanned(t, j, n)'
               PROVE  Looked(t, j, n)'
    BY <1>5
  <2>1. CASE Scanned(t, j, n)
    <3>1. Looked(t, j, n)
      BY <1>1, <2>1 DEF ScanOf
    <3> QED
      BY <1>1, <1>3, <1>8, <3>1, LookedStays
  <2>2. CASE Looked(t, j, n)'
    BY <2>2
  <2> QED
    BY <1>8, <2>1, <2>2
<1>9. \A n \in Indices : Slot(Acc(t), n) \in readSet[t] =>
        Slot(Acc(t), n) \in readSet'[t] /\ memory'[Slot(Acc(t), n)] = memory[Slot(Acc(t), n)]
  BY <1>1, <1>3 DEF ReadStays
<1>10. CASE ReadFlag(t)
  <2>1. /\ pc[t] = "flag" /\ pc'[t] = "scan" /\ UNCHANGED <<acc, k, obj_start, obj_end>>
        /\ i'[t] = Start(t)
    BY <1>0, <1>3, <1>10, SlotIsItself DEF ReadFlag, Thread, Goto, SetI, TypePlace, draws, locals
  <2>2. k[t] = 1
    BY <2>1 DEF ControlInv
  <2>3. \A j \in 1 .. width, n \in Indices : ~Scanned(t, j, n)'
    BY <1>3, <2>1, <2>2, NothingBefore DEF Scanned, Start
  <2> QED
    BY <1>8, <2>1, <2>3 DEF ScanOf
<1>11. CASE Scan(t)
  <2>1. /\ pc[t] = "scan" /\ pc'[t] \in {"check", "victim"}
        /\ UNCHANGED <<acc, k, i, obj_start, obj_end>>
        /\ Load(t, Slot(Acc(t), i[t])) /\ Acc(t)' = Acc(t)
        /\ pc'[t] = "victim" => ~(memory[Slot(Acc(t), i[t])].priority > t)
    BY <1>0, <1>3, <1>4, <1>11 DEF Scan, Thread, Goto, TypePlace, draws, locals, Acc
  <2>2. Slot(Acc(t), i[t]) \in readSet'[t] /\ memory' = memory
    BY <1>0, <2>1, LoadDoes DEF Reads
  <2>3. \A j \in 1 .. width, n \in Indices : Scanned(t, j, n)' => Scanned(t, j, n)
    BY <2>1 DEF Scanned
  <2>4. \A j \in 1 .. width', n \in Indices : Scanned(t, j, n)' => Looked(t, j, n)'
    BY <1>8, <2>1, <2>3
  <2>5. pc'[t] = "victim" => memory[Slot(Acc(t), i[t])].priority <= t
    BY <1>3, <1>4, <1>6, <2>1
  <2> QED
    BY <2>1, <2>2, <2>4, <2>5 DEF ScanOf
<1>12. CASE ScanEnds(t)
  <2>1. pc[t] = "scan" /\ i[t] = End(t) /\ UNCHANGED <<acc, obj_start, obj_end>> /\ pc'[t] \in {"scan", "update"}
    BY <1>0, <1>12, Moves DEF ScanEnds, Thread, draws, locals, ForEach, Goto, TypePlace
  <2>2. \A j \in 1 .. width, n \in Indices : Scanned(t, j, n)' => Scanned(t, j, n)
    <3>1. CASE k[t] < width
      <4>1. pc'[t] = "scan" /\ k'[t] = k[t] + 1 /\ i'[t] = obj_start[t][k[t] + 1]
        <5>1. k[t] + 1 \in 1 .. width /\ obj_start[t][k[t] + 1] \in Indices
          BY <1>0, <1>3, <3>1, AtHand DEF TypeLocals
        <5>2. i' = [i EXCEPT ![t] = obj_start[t][k[t] + 1]]
          BY <1>12, <3>1, <5>1, SlotIsItself DEF ScanEnds, SetI
        <5>3. pc' = [pc EXCEPT ![t] = "scan"] /\ k' = [k EXCEPT ![t] = k[t] + 1]
          BY <1>12, <3>1 DEF ScanEnds, ForEach, Goto, SetK
        <5> QED
          BY <1>0, <5>2, <5>3 DEF TypePlace
      <4>2. SUFFICES ASSUME NEW j \in 1 .. width, NEW n \in Indices, Scanned(t, j, n)'
                     PROVE  Scanned(t, j, n)
        OBVIOUS
      <4>3. CASE j = k'[t]
        BY <1>3, <2>1, <4>1, <4>2, <4>3, NothingBefore DEF Scanned
      <4>4. CASE j < k'[t]
        <5>1. (j < k[t] \/ j = k[t]) /\ Before(n, obj_start[t][j], obj_end[t][j])
          BY <1>0, <1>3, <2>1, <4>1, <4>2, <4>4 DEF Scanned, TypeCounters
        <5> QED
          BY <2>1, <5>1 DEF Scanned, End
      <4> QED
        BY <4>1, <4>2, <4>3, <4>4 DEF Scanned
    <3>2. CASE ~(k[t] < width)
      <4>1. pc'[t] = "update" /\ k[t] = width
        BY <1>0, <1>3, <1>12, <3>2 DEF ScanEnds, ForEach, Goto, TypePlace, TypeCounters
      <4>2. \A j \in 1 .. width : j < k[t] \/ j = k[t]
        BY <1>0, <4>1 DEF TypeCounters
      <4> QED
        BY <2>1, <4>1, <4>2 DEF Scanned, End
    <3> QED
      BY <3>1, <3>2
  <2> QED
    BY <1>8, <2>1, <2>2 DEF ScanOf
<1>13. CASE Check(t)
  <2>1. /\ pc[t] = "check" /\ UNCHANGED <<acc, k, obj_start, obj_end>>
        /\ Load(t, IsDone(Acc(t), i[t])) /\ pc'[t] \in {"scan", "xabort"}
        /\ pc'[t] = "scan" => memory[IsDone(Acc(t), i[t])] = 1 /\ i'[t] = (i[t] + 1) % Size
    BY <1>0, <1>3, <1>4, <1>13 DEF Check, Thread, Goto, SetI, TypePlace, draws, locals
  <2>2. IsDone(Acc(t), i[t]) \in readSet'[t] /\ memory' = memory
    BY <1>0, <2>1, LoadDoes DEF Reads
  <2>3. Slot(Acc(t), i[t]) \in readSet'[t]
    BY <1>1, <1>3, <1>9, <2>1 DEF ScanOf
  <2>4. ASSUME NEW j \in 1 .. width, NEW n \in Indices, Scanned(t, j, n)'
        PROVE  \/ Scanned(t, j, n)
               \/ Looked(t, j, n)'
    <3>1. CASE j = k[t] /\ Before(n, obj_start[t][j], (i[t] + 1) % Size)
      <4>1. Before(n, obj_start[t][j], i[t]) \/ n = i[t]
        BY <1>3, <3>1, BeforeNext
      <4>2. CASE n = i[t]
        <5>1. pc'[t] = "scan"
          BY <2>1, <2>4 DEF Scanned
        <5> QED
          BY <2>1, <2>2, <2>3, <3>1, <4>2, <5>1 DEF Looked, Acc
      <4> QED
        BY <2>1, <3>1, <4>1, <4>2 DEF Scanned
    <3>2. CASE j < k[t] /\ Before(n, obj_start[t][j], obj_end[t][j])
      BY <2>1, <3>2 DEF Scanned
    <3> QED
      BY <2>1, <2>4, <3>1, <3>2 DEF Scanned
  <2> QED
    BY <1>8, <2>1, <2>4 DEF ScanOf
<1>14. CASE FindVictim(t)
  <2>1. /\ pc[t] = "victim" /\ pc'[t] = "abort" /\ UNCHANGED <<acc, k, i, obj_start, obj_end>>
        /\ Acc(t)' = Acc(t) /\ LooksInFirst(t)' = LooksInFirst(t)
        /\ ~LooksInFirst(t) => other_id'[t] = memory[Slot(Acc(t), i[t])].thread_id
    BY <1>0, <1>3, <1>4, <1>14
       DEF FindVictim, Thread, Goto, TypePlace, TypeLocals, draws, Acc, LooksInFirst, Start, End
  <2>2. \A j \in 1 .. width, n \in Indices : Scanned(t, j, n)' => Scanned(t, j, n)
    BY <2>1 DEF Scanned
  <2>3. /\ Slot(Acc(t), i[t]) \in readSet'[t]
        /\ memory'[Slot(Acc(t), i[t])] = memory[Slot(Acc(t), i[t])]
        /\ memory[Slot(Acc(t), i[t])].priority <= t
    BY <1>1, <1>3, <1>9, <2>1 DEF ScanOf
  <2>4. \A j \in 1 .. width', n \in Indices : Scanned(t, j, n)' => Looked(t, j, n)'
    BY <1>8, <2>1, <2>2
  <2> QED
    BY <2>1, <2>3, <2>4 DEF ScanOf
<1>15. CASE AbortOther(t)
  <2>1. /\ pc[t] = "abort" /\ pc'[t] = "scan" /\ UNCHANGED <<acc, k, obj_start, obj_end>>
        /\ i'[t] = (i[t] + 1) % Size
    BY <1>0, <1>15 DEF AbortOther, Thread, Goto, SetI, TypePlace, draws
  <2>2. /\ Slot(Acc(t), i[t]) \in readSet'[t]
        /\ memory'[Slot(Acc(t), i[t])].priority <= t
    BY <1>1, <1>3, <1>9, <2>1 DEF ScanOf
  <2>3. ASSUME NEW j \in 1 .. width, NEW n \in Indices, Scanned(t, j, n)'
        PROVE  \/ Scanned(t, j, n)
               \/ Looked(t, j, n)'
    <3>1. CASE j = k[t] /\ Before(n, obj_start[t][j], (i[t] + 1) % Size)
      <4>1. Before(n, obj_start[t][j], i[t]) \/ n = i[t]
        BY <1>3, <3>1, BeforeNext
      <4>2. CASE n = i[t]
        BY <2>1, <2>2, <3>1, <4>2 DEF Looked, Acc
      <4> QED
        BY <2>1, <3>1, <4>1, <4>2 DEF Scanned
    <3>2. CASE j < k[t] /\ Before(n, obj_start[t][j], obj_end[t][j])
      BY <2>1, <3>2 DEF Scanned
    <3> QED
      BY <2>1, <2>3, <3>1, <3>2 DEF Scanned
  <2> QED
    BY <1>8, <2>1, <2>3 DEF ScanOf
<1>16. CASE Update(t)
  <2>1. pc[t] = "update" /\ pc'[t] \in {"update", "end"} /\ UNCHANGED <<acc, obj_start, obj_end>>
    BY <1>0, <1>16 DEF Update, Thread, ForEach, Goto, TypePlace, draws, locals
  <2>2. \A j \in 1 .. width, n \in Indices : Scanned(t, j, n)' => Scanned(t, j, n)
    BY <2>1 DEF Scanned
  <2> QED
    BY <1>8, <2>1, <2>2 DEF ScanOf
<1> QED
  BY <1>2, <1>7, <1>10, <1>11, <1>12, <1>13, <1>14, <1>15, <1>16, Moves

LEMMA StepScanInv ==
  ASSUME TypeOK, ControlInv, ScanInv, NEW t \in Threads, Step(t)
  PROVE  ScanInv'
<1>0. TypePlace
  BY TypeParts
<1> SUFFICES ASSUME NEW u \in Threads, htm'[u] = "running" PROVE ScanOf(u)'
  BY ScanPartsNext
<1>1. CASE u # t
  <2>1. ReadStays(u)
    BY <1>1, WhatIsReadStays
  <2>2. ScanOf(u)
    BY <2>1, ScanParts DEF ReadStays
  <2> QED
    BY <1>1, <2>1, <2>2, OthersStay, StepTypeCounters, ScanStays
<1>2. CASE u = t /\ Begin(t)
  <2>1. pc'[t] = "flag"
    BY <1>0, <1>2 DEF Begin, Goto, TypePlace
  <2> QED
    BY <1>2, <2>1 DEF ScanOf, Scanned
<1>3. CASE u = t /\ ~Begin(t)
  BY <1>3, ScanGrows
<1> QED
  BY <1>1, <1>2, <1>3

----------------------------------------------------------------------------
(* The invariant, and what follows from it. *)

LEMMA IInvUnchanged ==
  ASSUME IInv, UNCHANGED vars
  PROVE  IInv'
<1> USE DEF vars, rtm, shared, draws, locals
<1>1. TypeOK'
  BY DEF IInv, TypeOK, Inside
<1>2. ControlInv'
  BY DEF IInv, ControlInv
<1>3. UndoneIsUnderWay'
  BY DEF IInv, UndoneIsUnderWay, UnderWay, Inside
<1>4. SlotsInv'
  BY DEF IInv, SlotsInv, Writing, Acc, End
<1>5. ScanInv'
  BY DEF IInv, ScanInv, Scanned, Acc, Start, End, LooksInFirst
<1> QED
  BY <1>1, <1>2, <1>3, <1>4, <1>5 DEF IInv

LEMMA InitIInv == Init => IInv
<1> SUFFICES ASSUME Init PROVE IInv
  OBVIOUS
<1>1. 0 \in Indices /\ <<0, 0>> \in [1 .. 2 -> Indices] /\ 0 \in 0 .. Flags - 1
  BY SizesAssumption DEF Indices
<1>2. \A a \in Accounts, n \in Indices : memory[Slot(a, n)] = Empty /\ memory[IsDone(a, n)] = 1
  BY LocationsAreThere DEF Init, RtmInit, Slot, IsDone
<1>3. \A t \in Threads : htm[t] = "none" /\ pc[t] = "draw" /\ k[t] = 1 /\ i[t] = 0
                         /\ DOMAIN writeSet[t] = {} /\ readSet[t] = {}
  BY DEF Init, RtmInit, NoWrites
<1>4. width \in {1, 2} /\ 1 \in 1 .. width
  BY WidthsAssumption DEF Init
<1>5. TypeMemory /\ TypeHtm
  BY <1>2 DEF TypeMemory, TypeHtm, Init, RtmInit, Empty
<1>6. TypeCounters /\ TypeLocals
  BY <1>1, <1>4 DEF TypeCounters, TypeLocals, Init
<1>7. TypePlace
  BY <1>1, <1>4 DEF TypePlace, Init, Labels
<1>8. Transacting
  BY <1>3 DEF Transacting, Inside
<1>9. TypeOK
  BY <1>5, <1>6, <1>7, <1>8, TypeParts
<1>10. ControlInv
  BY <1>3 DEF ControlInv
<1>11. UndoneIsUnderWay
  BY <1>2 DEF UndoneIsUnderWay
<1>12. SlotsInv
  BY <1>2, <1>3 DEF SlotsInv, Writing, Empty
<1>13. ScanInv
  BY <1>3 DEF ScanInv
<1> QED
  BY <1>9, <1>10, <1>11, <1>12, <1>13 DEF IInv

LEMMA NextIInv == IInv /\ [Next]_vars => IInv'
<1>1. ASSUME IInv, NEW t \in Threads, Step(t) PROVE IInv'
  BY <1>1, StepTypeOK, StepControlInv, StepUndone, StepSlotsInv, StepScanInv DEF IInv
<1> QED
  BY <1>1, IInvUnchanged DEF Next, Joined

\* For any number of threads, accounts, slots and flags: the variables have
\* their types, a transaction reads no flag but its own and writes no slot, a
\* slot that one thread at a time has written carries one thread's id, and what
\* a scan has looked at is in the transaction's read set and as it was found.
THEOREM IInvHolds == Spec => []IInv
<1> QED
  BY InitIInv, NextIInv, PTL DEF Spec

\* Every variable of the scheduler keeps its type.
THEOREM TypeCorrect == Spec => []TypeOK
<1>1. IInv => TypeOK
  BY DEF IInv
<1> QED
  BY <1>1, IInvHolds, PTL

\* With one account, a slot that is not done belongs to a transaction that is
\* under way: who aborts itself for its sake waits for somebody.
THEOREM UndoneSlotsHaveAnOwner == Spec => []UndoneIsUnderWay
<1>1. IInv => UndoneIsUnderWay
  BY DEF IInv
<1> QED
  BY <1>1, IInvHolds, PTL

\* A transaction commits with no transaction of higher priority under way in
\* the slots between status_starts, as it found it, and its own.
THEOREM CommitsRespectPriority == Spec => []CommitRespectsPriority
<1>1. IInv => CommitRespectsPriority
  <2> SUFFICES ASSUME IInv, NEW t \in Threads, pc[t] = "end", htm[t] = "running",
                      NEW j \in 1 .. width, NEW n \in Indices,
                      Before(n, obj_start[t][j], obj_end[t][j])
               PROVE  \/ memory[Slot(acc[t][j], n)].priority <= t
                      \/ memory[IsDone(acc[t][j], n)] = 1
    BY DEF CommitRespectsPriority
  <2>1. Scanned(t, j, n)
    BY DEF Scanned
  <2> QED
    BY <2>1 DEF IInv, ScanInv
<1> QED
  BY <1>1, IInvHolds, PTL

\* Who dooms a transaction of higher priority by the store that is to abort a
\* lower one does so in one of the three ways OnlyKnownInversions names: with
\* none of them the slot's id is its priority, and the scan has compared it.
LEMMA StepInversions ==
  ASSUME IInv, Next, NEW t \in Threads, NEW u \in Threads,
         pc[t] = "abort", pc'[t] = "scan", htm[u] = "running", htm'[u] = "doomed", u > t
  PROVE  \/ VictimsFlag(t) \in DOMAIN writeSet[u]
         \/ LooksInFirst(t)
         \/ <<Acc(t), i[t]>> \in overrun
<1> SUFFICES ASSUME VictimsFlag(t) \notin DOMAIN writeSet[u], ~LooksInFirst(t),
                    <<Acc(t), i[t]>> \notin overrun
             PROVE  FALSE
  OBVIOUS
<1>1. TypeOK /\ ControlInv /\ SlotsInv /\ ScanInv
  BY DEF IInv
<1>2. TypeMemory /\ TypeHtm /\ Transacting /\ TypePlace /\ TypeCounters /\ TypeLocals
  BY <1>1, TypeParts
<1>3. AbortOther(t)
  <2>1. PICK x \in Threads : Step(x)
    BY DEF Next, Joined, vars
  <2>2. x = t
    BY <1>1, <2>1, OthersStay
  <2> QED
    BY <1>1, <2>1, <2>2, Moves DEF Inside, Aborting
<1>4. VictimsFlag(t) \in readSet[u] /\ htm[t] # "doomed"
  BY <1>2, <1>3 DEF AbortOther, Store, Doom, Losers, TypeHtm
<1>5. other_id[t] = u
  <2>1. other_id[t] \in Threads \cup {0} /\ 0 \notin Threads
    BY <1>2, IdsArePositive DEF TypeLocals
  <2>2. \E p \in 0 .. Flags - 1 : VictimsFlag(t) = Flag(other_id[t], p)
    BY <1>2, <2>1, SizesAssumption DEF VictimsFlag, TypeLocals
  <2> QED
    BY <1>1, <1>4, <2>1, <2>2 DEF ControlInv
<1>6. htm[t] = "running"
  BY <1>2, <1>4, TransactsInside DEF TypeHtm
<1>7. Acc(t) \in Accounts /\ i[t] \in Indices
  BY <1>2, AtHand DEF TypePlace
<1> DEFINE s == memory[Slot(Acc(t), i[t])]
<1>8. s.thread_id = u /\ s.priority <= t
  BY <1>1, <1>5, <1>6 DEF ScanInv
<1>9. s.thread_id = s.priority \/ pc[u] = "priority"
  BY <1>1, <1>7, <1>8 DEF SlotsInv
<1>10. pc[u] # "priority"
  BY <1>2, TransactsInside
<1>11. t \in Nat /\ u \in Nat
  BY IdsArePositive
<1> HIDE DEF s
<1> QED
  BY <1>8, <1>9, <1>10, <1>11

\* For any number of threads, the stores that abort one of lower priority abort
\* one of higher priority in the three known ways only.
THEOREM InversionsAreKnown == Spec => OnlyKnownInversions
<1> DEFINE A == \A t, u \in Threads :
                  /\ pc[t] = "abort" /\ pc'[t] = "scan"
                  /\ htm[u] = "running" /\ htm'[u] = "doomed" /\ u > t
                  => \/ VictimsFlag(t) \in DOMAIN writeSet[u]
                     \/ LooksInFirst(t)
                     \/ <<Acc(t), i[t]>> \in overrun
<1>1. IInv /\ [Next]_vars => [A]_vars
  BY StepInversions
<1> QED
  BY <1>1, IInvHolds, PTL DEF Spec, OnlyKnownInversions
=============================================================================
