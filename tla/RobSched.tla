------------------------------ MODULE RobSched ------------------------------
(***************************************************************************)
(* The object-status scheduler (htm_rob_sched.cpp).  A transaction takes a *)
(* slot in the status buffer of every account it is about (one account in  *)
(* tx_fn_one_q, two in tx_fn_full_q), writes its priority there, and in    *)
(* its hardware transaction scans the slots in front of its own: if one of *)
(* higher priority is not done it aborts itself, and one of lower priority *)
(* it aborts by a store to a flag which that one has read.                 *)
(*                                                                         *)
(* A thread's priority is its id.  The fields of a slot share a cache line *)
(* and are one location; isDone is a location of its own.  The values of   *)
(* flags and accounts are never tested and are left out: only that they    *)
(* are loaded and stored counts.                                           *)
(***************************************************************************)
EXTENDS Rtm, Integers, Sequences, FiniteSets

CONSTANTS Widths,      \* {1} for tx_fn_one_q, {2} for tx_fn_full_q
          Accounts,
          Size,        \* STATUS_BUFFER_SIZE
          Flags,       \* FLAG_THREAD
          OneQueueTx, FullQueueTx \* iterations of the loop

ASSUME IdsFromOne == IsFiniteSet(Threads) /\ Threads = 1 .. Cardinality(Threads)
ASSUME WidthsAssumption == Widths \subseteq {1, 2}
ASSUME SizesAssumption == Size \in Nat \ {0} /\ Flags \in Nat \ {0}

Account(a)   == <<"accounts", a, 0>>
Slot(a, i)   == <<"object_status", a, i>>
IsDone(a, i) == <<"object_status_done", a, i>>
Flag(u, p)   == <<"abort_flags", u, p>>

Indices == 0 .. Size - 1
Locations == {Account(a) : a \in Accounts}
               \cup {Slot(a, n) : a \in Accounts, n \in Indices}
               \cup {IsDone(a, n) : a \in Accounts, n \in Indices}
               \cup {Flag(u, p) : u \in Threads, p \in 0 .. Flags - 1}
Empty   == [thread_id |-> 0, priority |-> 0]

VARIABLES width, status_starts, status_ends, abort_flag_pos,
          pc, kk, acc, type, k, i,  \* k: the account at hand, i: a loop's index
          obj_start, obj_end, othersFlags, other_id, strt, curEnd,
          overrun \* history: the slots claimed while another thread was writing its
                  \* fields there, when all of the buffer has been claimed meanwhile

shared == <<width, status_starts, status_ends, abort_flag_pos>>
draws  == <<kk, acc, type>>
locals == <<obj_start, obj_end, othersFlags, other_id, strt, curEnd>>
vars   == <<rtm, shared, draws, pc, k, i, locals, overrun>>

Init ==
  /\ RtmInit([l \in Locations |-> CASE l[1] = "object_status" -> Empty
                      [] l[1] = "object_status_done" -> 1
                      [] OTHER -> 0])
  /\ width \in Widths
  /\ status_starts = [a \in Accounts |-> 0]
  /\ status_ends = [a \in Accounts |-> 0]
  /\ abort_flag_pos = [t \in Threads |-> 0]
  /\ pc = [t \in Threads |-> "draw"]
  /\ kk = [t \in Threads |-> 0]
  /\ acc = [t \in Threads |-> <<>>]
  /\ type = [t \in Threads |-> TRUE]
  /\ k = [t \in Threads |-> 1]
  /\ i = [t \in Threads |-> 0]
  /\ obj_start = [t \in Threads |-> <<0, 0>>]
  /\ obj_end = [t \in Threads |-> <<0, 0>>]
  /\ othersFlags = [t \in Threads |-> [u \in Threads |-> 0]]
  /\ other_id = [t \in Threads |-> 0]
  /\ strt = [t \in Threads |-> <<0, 0>>]
  /\ curEnd = [t \in Threads |-> 0]
  /\ overrun = {}

Acc(t)   == acc[t][k[t]]
Start(t) == obj_start[t][k[t]]
End(t)   == obj_end[t][k[t]]

Labels == {"draw", "claim", "thread_id", "priority", "isDone", "pos", "copy", "start", "begin",
           "flag", "scan", "check", "victim", "abort", "update", "end", "xabort",
           "done", "strt", "advance", "curEnd", "follow", "bump", "next", "finished"}

Goto(t, label) == pc' = [pc EXCEPT ![t] = label]
SetK(t, n)     == k' = [k EXCEPT ![t] = n]
SetI(t, n)     == i' = [i EXCEPT ![t] = n % Size]

\* The same for each account, then on.
ForEach(t, first, then) ==
  IF k[t] < width THEN SetK(t, k[t] + 1) /\ Goto(t, first) ELSE SetK(t, 1) /\ Goto(t, then)

Thread(t, label) == pc[t] = label

----------------------------------------------------------------------------
(* Registration. *)
Draw(t) ==
  /\ Thread(t, "draw")
  /\ \E p \in [1 .. width -> Accounts] :
       /\ width = 2 => p[1] # p[2]
       /\ acc' = [acc EXCEPT ![t] = p]
  /\ \E w \in IF width = 1 THEN {TRUE} ELSE BOOLEAN : type' = [type EXCEPT ![t] = w]
  /\ Goto(t, "claim")
  /\ UNCHANGED <<rtm, shared, kk, k, i, locals, overrun>>

Writing(t) == pc[t] \in {"thread_id", "priority"}

Overrun(t) ==
  LET slot == <<Acc(t), status_ends[Acc(t)] % Size>> IN
  overrun' = IF \E u \in Threads : Writing(u) /\ <<Acc(u), End(u)>> = slot
             THEN overrun \cup {slot} ELSE overrun

\* Mutant: the slot is the counter itself.
ClaimBeyond(t) ==
  /\ Thread(t, "claim")
  /\ obj_end' = [obj_end EXCEPT ![t][k[t]] = status_ends[Acc(t)]]
  /\ status_ends' = [status_ends EXCEPT ![Acc(t)] = @ + 1]
  /\ Overrun(t)
  /\ Goto(t, "thread_id")
  /\ UNCHANGED <<rtm, width, status_starts, abort_flag_pos, draws, k, i,
                 obj_start, othersFlags, other_id, strt, curEnd>>

Claim(t) ==
  /\ Thread(t, "claim")
  /\ obj_end' = [obj_end EXCEPT ![t][k[t]] = status_ends[Acc(t)] % Size]
  /\ status_ends' = [status_ends EXCEPT ![Acc(t)] = @ + 1]
  /\ Overrun(t)
  /\ Goto(t, "thread_id")
  /\ UNCHANGED <<rtm, width, status_starts, abort_flag_pos, draws, k, i,
                 obj_start, othersFlags, other_id, strt, curEnd>>

PutThreadId(t) ==
  LET l == Slot(Acc(t), End(t)) IN
  /\ Thread(t, "thread_id")
  /\ Store(t, l, [memory[l] EXCEPT !.thread_id = t])
  /\ Goto(t, "priority")
  /\ UNCHANGED <<shared, draws, k, i, locals, overrun>>

PutPriority(t) ==
  LET l == Slot(Acc(t), End(t)) IN
  /\ Thread(t, "priority")
  /\ Store(t, l, [memory[l] EXCEPT !.priority = t])
  /\ Goto(t, "isDone")
  /\ UNCHANGED <<shared, draws, k, i, locals, overrun>>

ClearDone(t) ==
  /\ Thread(t, "isDone")
  /\ Store(t, IsDone(Acc(t), End(t)), 0)
  /\ ForEach(t, "claim", "pos")
  /\ UNCHANGED <<shared, draws, i, locals, overrun>>

MovePos(t) ==
  /\ Thread(t, "pos")
  /\ abort_flag_pos' = [abort_flag_pos EXCEPT ![t] = (@ + 1) % Flags]
  /\ Goto(t, "copy") /\ SetI(t, 0)
  /\ UNCHANGED <<rtm, width, status_starts, status_ends, draws, k, locals, overrun>>

----------------------------------------------------------------------------
(* An attempt. *)
Copy(t) ==
  LET u == i[t] + 1 IN
  /\ Thread(t, "copy")
  /\ othersFlags' = [othersFlags EXCEPT ![t][u] = abort_flag_pos[u]]
  /\ IF u + 1 \in Threads THEN i' = [i EXCEPT ![t] = u] /\ UNCHANGED pc
     ELSE SetI(t, 0) /\ Goto(t, "start")
  /\ UNCHANGED <<rtm, shared, draws, k, obj_start, obj_end, other_id, strt, curEnd, overrun>>

ReadStart(t) ==
  /\ Thread(t, "start")
  /\ obj_start' = [obj_start EXCEPT ![t][k[t]] = status_starts[Acc(t)] % Size]
  /\ ForEach(t, "start", "begin")
  /\ UNCHANGED <<rtm, shared, draws, i, obj_end, othersFlags, other_id, strt, curEnd, overrun>>

Begin(t) ==
  /\ Thread(t, "begin")
  /\ XBegin(t)
  /\ Goto(t, "flag")
  /\ UNCHANGED <<shared, draws, k, i, locals, overrun>>

ReadFlag(t) ==
  /\ Thread(t, "flag")
  /\ Load(t, Flag(t, abort_flag_pos[t]))
  /\ SetI(t, Start(t)) /\ Goto(t, "scan")
  /\ UNCHANGED <<shared, draws, k, locals, overrun>>

\* Mutant: the comparison the other way round.
ScanLower(t) ==
  /\ Thread(t, "scan") /\ i[t] # End(t)
  /\ Load(t, Slot(Acc(t), i[t]))
  /\ Goto(t, IF Value(t, Slot(Acc(t), i[t])).priority < t THEN "check" ELSE "victim")
  /\ UNCHANGED <<shared, draws, k, i, locals, overrun>>

Scan(t) ==
  /\ Thread(t, "scan") /\ i[t] # End(t)
  /\ Load(t, Slot(Acc(t), i[t]))
  /\ Goto(t, IF Value(t, Slot(Acc(t), i[t])).priority > t THEN "check" ELSE "victim")
  /\ UNCHANGED <<shared, draws, k, i, locals, overrun>>

ScanEnds(t) ==
  /\ Thread(t, "scan") /\ i[t] = End(t)
  /\ ForEach(t, "scan", "update")
  /\ IF k[t] < width THEN SetI(t, obj_start[t][k[t] + 1]) ELSE SetI(t, 0)
  /\ UNCHANGED <<rtm, shared, draws, locals, overrun>>

\* Mutant: who is not done is taken for done.
CheckNothing(t) ==
  /\ Thread(t, "check")
  /\ Load(t, IsDone(Acc(t), i[t]))
  /\ SetI(t, i[t] + 1) /\ Goto(t, "scan")
  /\ UNCHANGED <<shared, draws, k, locals, overrun>>

Check(t) ==
  LET l == IsDone(Acc(t), i[t]) IN
  /\ Thread(t, "check")
  /\ Load(t, l)
  /\ IF Value(t, l) = 0 THEN Goto(t, "xabort") /\ UNCHANGED i
     ELSE SetI(t, i[t] + 1) /\ Goto(t, "scan")
  /\ UNCHANGED <<shared, draws, k, locals, overrun>>

\* Before its scan of the second account wraps, tx_fn_full_q looks for the
\* thread in the buffer of the first.
LooksInFirst(t) == k[t] = 2 /\ End(t) < Start(t) /\ i[t] >= Start(t)

FindVictim(t) ==
  LET l == Slot(IF LooksInFirst(t) THEN acc[t][1] ELSE Acc(t), i[t])
  IN /\ Thread(t, "victim")
     /\ Load(t, l)
     /\ other_id' = [other_id EXCEPT ![t] = Value(t, l).thread_id]
     /\ Goto(t, "abort")
     /\ UNCHANGED <<shared, draws, k, i, obj_start, obj_end, othersFlags, strt, curEnd, overrun>>

\* A slot that nobody has written yet has thread_id 0: the store then goes to
\* an element before the array, and to nobody's flag.
VictimsFlag(t) == LET u == other_id[t] IN Flag(u, IF u = 0 THEN 0 ELSE othersFlags[t][u])

AbortOther(t) ==
  /\ Thread(t, "abort")
  /\ Store(t, VictimsFlag(t), 0)
  /\ other_id' = [other_id EXCEPT ![t] = 0]
  /\ SetI(t, i[t] + 1) /\ Goto(t, "scan")
  /\ UNCHANGED <<shared, draws, k, obj_start, obj_end, othersFlags, strt, curEnd, overrun>>

Update(t) ==
  /\ Thread(t, "update")
  /\ IF type[t] THEN Store(t, Account(Acc(t)), 0) ELSE Load(t, Account(Acc(t)))
  /\ ForEach(t, "update", "end")
  /\ UNCHANGED <<shared, draws, i, locals, overrun>>

Commit(t) ==
  /\ Thread(t, "end")
  /\ XEnd(t)
  /\ Goto(t, "done")
  /\ UNCHANGED <<shared, draws, k, i, locals, overrun>>

Inside(t) == pc[t] \in {"flag", "scan", "check", "victim", "abort", "update", "end"}

Aborted(t) ==
  /\ XAbort(t)
  /\ Goto(t, "copy") /\ SetI(t, 0) /\ SetK(t, 1)
  /\ other_id' = [other_id EXCEPT ![t] = 0]
  /\ UNCHANGED <<shared, draws, obj_start, obj_end, othersFlags, strt, curEnd, overrun>>

Explicit(t) == Thread(t, "xabort") /\ Aborted(t)
Conflict(t) == (Inside(t) \/ Thread(t, "xabort")) /\ htm[t] = "doomed" /\ Aborted(t)
Other(t)    == Inside(t) /\ htm[t] = "running" /\ Aborted(t)

----------------------------------------------------------------------------
(* The end of a transaction: its slots are done, and status_starts moves   *)
(* over the slots in front that are.                                       *)
\* Mutant: the slot before.
MarkBefore(t) ==
  /\ Thread(t, "done")
  /\ Store(t, IsDone(Acc(t), (obj_end[t][1] + Size - 1) % Size), 1)
  /\ ForEach(t, "done", "strt")
  /\ UNCHANGED <<shared, draws, i, locals, overrun>>

\* For the second account too tx_fn_full_q takes the index of the first.
MarkDone(t) ==
  /\ Thread(t, "done")
  /\ Store(t, IsDone(Acc(t), obj_end[t][1]), 1)
  /\ ForEach(t, "done", "strt")
  /\ UNCHANGED <<shared, draws, i, locals, overrun>>

ReadStrt(t) ==
  /\ Thread(t, "strt")
  /\ strt' = [strt EXCEPT ![t][k[t]] = status_starts[Acc(t)] % Size]
  /\ ForEach(t, "strt", "advance")
  /\ UNCHANGED <<rtm, shared, draws, i, obj_start, obj_end, othersFlags, other_id, curEnd, overrun>>

Bump(t) == status_starts' = [status_starts EXCEPT ![Acc(t)] = @ + 1]

\* The second account is looked at only if the first has advanced.
Advance(t) ==
  /\ Thread(t, "advance")
  /\ IF strt[t][k[t]] = End(t) THEN Bump(t) /\ Goto(t, "curEnd")
     ELSE Goto(t, "next") /\ UNCHANGED status_starts
  /\ UNCHANGED <<rtm, width, status_ends, abort_flag_pos, draws, k, i, locals, overrun>>

ReadEnd(t) ==
  /\ Thread(t, "curEnd")
  /\ curEnd' = [curEnd EXCEPT ![t] = status_ends[Acc(t)] % Size]
  /\ SetI(t, End(t) + 1) /\ Goto(t, "follow")
  /\ UNCHANGED <<rtm, shared, draws, k, obj_start, obj_end, othersFlags, other_id, strt, overrun>>

Follow(t) ==
  LET l == IsDone(Acc(t), i[t])
      goesOn == i[t] # curEnd[t] /\ memory[l] = 1
  IN /\ Thread(t, "follow")
     /\ IF i[t] # curEnd[t] THEN Load(t, l) ELSE UNCHANGED rtm
     /\ IF goesOn THEN Goto(t, "bump") /\ UNCHANGED k ELSE ForEach(t, "advance", "next")
     /\ UNCHANGED <<shared, draws, i, locals, overrun>>

BumpMore(t) ==
  /\ Thread(t, "bump")
  /\ Bump(t)
  /\ SetI(t, i[t] + 1) /\ Goto(t, "follow")
  /\ UNCHANGED <<rtm, width, status_ends, abort_flag_pos, draws, k, locals, overrun>>

Iterate(t) ==
  /\ Thread(t, "next")
  /\ kk' = [kk EXCEPT ![t] = @ + 1]
  /\ Goto(t, IF kk[t] + 1 < (IF width = 1 THEN OneQueueTx ELSE FullQueueTx) THEN "draw" ELSE "finished")
  /\ SetK(t, 1) /\ SetI(t, 0)
  /\ acc' = [acc EXCEPT ![t] = <<>>]
  /\ obj_start' = [obj_start EXCEPT ![t] = <<0, 0>>]
  /\ obj_end' = [obj_end EXCEPT ![t] = <<0, 0>>]
  /\ strt' = [strt EXCEPT ![t] = <<0, 0>>]
  /\ curEnd' = [curEnd EXCEPT ![t] = 0]
  /\ UNCHANGED <<rtm, shared, type, othersFlags, other_id, overrun>>

Step(t) == \/ Draw(t) \/ Claim(t) \/ PutThreadId(t) \/ PutPriority(t) \/ ClearDone(t)
           \/ MovePos(t) \/ Copy(t) \/ ReadStart(t) \/ Begin(t) \/ ReadFlag(t)
           \/ Scan(t) \/ ScanEnds(t) \/ Check(t) \/ FindVictim(t) \/ AbortOther(t)
           \/ Update(t) \/ Commit(t) \/ Explicit(t) \/ Conflict(t) \/ Other(t)
           \/ MarkDone(t) \/ ReadStrt(t) \/ Advance(t) \/ ReadEnd(t) \/ Follow(t)
           \/ BumpMore(t) \/ Iterate(t)

AllDone == \A t \in Threads : pc[t] = "finished"

Joined == AllDone /\ UNCHANGED vars

Next == (\E t \in Threads : Step(t)) \/ Joined

Spec == Init /\ [][Next]_vars
FairSpec == Spec /\ \A t \in Threads : WF_vars(Step(t))

----------------------------------------------------------------------------
TypeOK ==
  /\ DOMAIN memory = Locations
  /\ \A a \in Accounts, n \in Indices :
       /\ memory[Slot(a, n)] \in [thread_id : Threads \cup {0}, priority : Threads \cup {0}]
       /\ memory[IsDone(a, n)] \in {0, 1}
  /\ htm \in [Threads -> {"none", "running", "doomed"}]
  /\ DOMAIN readSet = Threads /\ DOMAIN writeSet = Threads
  /\ width \in {1, 2}
  /\ status_starts \in [Accounts -> Nat] /\ status_ends \in [Accounts -> Nat]
  /\ abort_flag_pos \in [Threads -> 0 .. Flags - 1]
  /\ pc \in [Threads -> Labels]
  /\ kk \in [Threads -> Nat] /\ type \in [Threads -> BOOLEAN]
  /\ acc \in [Threads -> {<<>>} \cup [1 .. width -> Accounts]]
  /\ k \in [Threads -> 1 .. width] /\ i \in [Threads -> Nat]
  /\ obj_start \in [Threads -> [1 .. 2 -> Indices]]
  /\ obj_end \in [Threads -> [1 .. 2 -> Indices]]
  /\ strt \in [Threads -> [1 .. 2 -> Indices]] /\ curEnd \in [Threads -> Indices]
  /\ othersFlags \in [Threads -> [Threads -> 0 .. Flags - 1]]
  /\ other_id \in [Threads -> Threads \cup {0}]
  /\ overrun \subseteq Accounts \X Indices
  /\ \A t \in Threads :
       /\ htm[t] # "none" <=> Inside(t) \/ pc[t] = "xabort"
       /\ pc[t] \notin {"draw", "finished"} => acc[t] # <<>>
       /\ IF pc[t] = "copy" THEN i[t] + 1 \in Threads ELSE i[t] \in Indices

\* The transaction in slot n of account a is under way.
UnderWay(t, a, n) ==
  /\ Inside(t) \/ pc[t] \in {"pos", "copy", "start", "begin", "xabort", "done"}
  /\ \E j \in 1 .. width : acc[t][j] = a /\ obj_end[t][j] = n

(* With one account a slot that is not done is that of a transaction under *)
(* way, so that who aborts itself for its sake waits for somebody.  (With  *)
(* two the slot of the second account may stay so for ever.)               *)
UndoneIsUnderWay ==
  width = 1 => \A a \in Accounts, n \in Indices :
    memory[IsDone(a, n)] = 0 => \E t \in Threads : UnderWay(t, a, n)

\* Slot n is one of those from s on that come before e.
Before(n, s, e) == (n - s) % Size < (e - s) % Size

(* A transaction that commits has, of the slots between status_starts as   *)
(* it found it and its own, none of higher priority that is not done at    *)
(* that moment: what the scan has seen still holds at the end.             *)
CommitRespectsPriority ==
  \A t \in Threads : pc[t] = "end" /\ htm[t] = "running" =>
    \A j \in 1 .. width, n \in Indices :
      Before(n, obj_start[t][j], obj_end[t][j]) =>
        \/ memory[Slot(acc[t][j], n)].priority <= t
        \/ memory[IsDone(acc[t][j], n)] = 1

(* The store to a flag, which is to abort a transaction of lower priority, *)
(* aborts one of higher priority only in three cases: both have stored to  *)
(* the same flag, that of a transaction behind which both are; the thread  *)
(* was looked for in the buffer of the wrong account; or the fields of the *)
(* slot have been written by two threads at once.  A slot that is but half *)
(* written, and a position that is old, do no harm.                        *)
OnlyKnownInversions ==
  [][\A t, u \in Threads :
       /\ pc[t] = "abort" /\ pc'[t] = "scan"
       /\ htm[u] = "running" /\ htm'[u] = "doomed" /\ u > t
       => \/ VictimsFlag(t) \in DOMAIN writeSet[u]
          \/ LooksInFirst(t)
          \/ <<Acc(t), i[t]>> \in overrun]_vars

(* With one account, if the hardware and the other threads abort a         *)
(* transaction only so often, no thread waits for ever for one of higher   *)
(* priority.                                                               *)
Patient == <>[][\A t \in Threads : ~Conflict(t) /\ ~Other(t)]_vars
OneQueueEnds == width = 1 /\ Patient => <>AllDone

(* The same with two accounts.                                             *)
Termination == Patient => <>AllDone

----------------------------------------------------------------------------
(* The inductive invariant behind the safety properties. *)

\* The flag is read, and scans begin, at the first account; a transaction reads
\* no flag but one of its own, and writes neither slots nor what is done.
ControlInv ==
  \A t \in Threads :
    /\ pc[t] \in {"begin", "flag"} => k[t] = 1
    /\ \A u \in Threads \cup {0}, p \in 0 .. Flags - 1 : Flag(u, p) \in readSet[t] => u = t
    /\ \A a \in Accounts, n \in Indices : {Slot(a, n), IsDone(a, n)} \cap DOMAIN writeSet[t] = {}

\* Whoever is alone in writing a slot's fields leaves them with one thread's id.
SlotsInv ==
  /\ \A t, u \in Threads : Writing(t) /\ Writing(u) /\ t # u /\ Acc(t) = Acc(u) /\ End(t) = End(u)
                             => <<Acc(t), End(t)>> \in overrun
  /\ \A t \in Threads : pc[t] = "priority" /\ <<Acc(t), End(t)>> \notin overrun
                          => memory[Slot(Acc(t), End(t))].thread_id = t
  /\ \A a \in Accounts, n \in Indices : <<a, n>> \notin overrun =>
       LET s == memory[Slot(a, n)] IN
       \/ s.thread_id = s.priority
       \/ \E u \in Threads : u = s.thread_id /\ pc[u] = "priority" /\ Acc(u) = a /\ End(u) = n

\* The slots t has looked at.
Scanned(t, j, n) ==
  \/ /\ pc[t] \in {"scan", "check", "victim", "abort"}
     /\ \/ j < k[t] /\ Before(n, obj_start[t][j], obj_end[t][j])
        \/ j = k[t] /\ Before(n, obj_start[t][j], i[t])
  \/ pc[t] \in {"update", "end"} /\ Before(n, obj_start[t][j], obj_end[t][j])

\* What a transaction has looked at is still so, or it is doomed.
ScanInv ==
  \A t \in Threads : htm[t] = "running" =>
    /\ \A j \in 1 .. width, n \in Indices : Scanned(t, j, n) =>
         /\ Slot(acc[t][j], n) \in readSet[t]
         /\ \/ memory[Slot(acc[t][j], n)].priority <= t
            \/ IsDone(acc[t][j], n) \in readSet[t] /\ memory[IsDone(acc[t][j], n)] = 1
    /\ pc[t] \in {"check", "victim", "abort"} => Slot(Acc(t), i[t]) \in readSet[t]
    /\ pc[t] \in {"victim", "abort"} => memory[Slot(Acc(t), i[t])].priority <= t
    /\ pc[t] = "abort" /\ ~LooksInFirst(t) => memory[Slot(Acc(t), i[t])].thread_id = other_id[t]

IInv == TypeOK /\ ControlInv /\ UndoneIsUnderWay /\ SlotsInv /\ ScanInv
=============================================================================
