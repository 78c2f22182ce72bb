---------------------------- MODULE SuperPartHtm ----------------------------
(***************************************************************************)
(* Part-HTM with its super global lock (htm.cpp): PartHtm, whose           *)
(* transactions run between the entry and the exit of SuperLock, and in    *)
(* which a transaction may give up on the hardware, take the lock and run  *)
(* its partitions with plain loads and stores, without looking at write    *)
(* locks and without committing through the ring.                          *)
(*                                                                         *)
(* How often a partition is tried is SuperLock's business: here the        *)
(* hardware may make a transaction give up at any partition.  The tests of *)
(* the lock before the compare-and-swap are left out, as it tests again.   *)
(***************************************************************************)
EXTENDS PartHtm

ASSUME ThreadsAssumption == IsFiniteSet(Threads)

VARIABLES
  tm_super_glock, active_tx, go_super_gl, \* as in SuperLock
  gl,    \* where a thread is in the lock's protocol
  stage, \* where in its partition the owner is, or out of one
  item,  \* i of the owner's partition: the transfers it has behind it
  val,   \* the value the owner has loaded
  late   \* history: who came through the window, as in SuperLock

lock == <<tm_super_glock, active_tx>>
owner == <<stage, item, val>>
part == <<ring, memory, plan, versions>>
allVars == <<part, lock, go_super_gl, gl, owner, late>>

Move(t, place) == gl' = [gl EXCEPT ![t] = place]

SuperInit ==
  /\ Init
  /\ tm_super_glock = FALSE
  /\ active_tx = 0
  /\ go_super_gl = [t \in Threads |-> FALSE]
  /\ gl = [t \in Threads |-> "out"]
  /\ stage = [t \in Threads |-> "out"]
  /\ item = [t \in Threads |-> 0]
  /\ val = [t \in Threads |-> 0]
  /\ late = {}

\* The owner of the lock, from its compare-and-swap on; it may be in its way
\* only when it has seen active_tx at zero.
Owns(t) == go_super_gl[t] /\ gl[t] \in {"drain", "enter", "in"} /\ pc[t] # "abort"
OwnerIsThere == \E o \in Threads : Owns(o) /\ gl[o] \in {"enter", "in"}

----------------------------------------------------------------------------
DrawLoc(t) ==
  /\ gl[t] = "out"
  /\ Draw(t)
  /\ UNCHANGED <<lock, go_super_gl, gl, owner, late>>

\* The lock is free: seen, or taken, by a thread that has not entered.
Acquire(t) ==
  /\ gl[t] = "out" /\ pc[t] = "begin" /\ loc[t] # NoLoc
  /\ ~tm_super_glock
  /\ tm_super_glock' = go_super_gl[t]
  /\ Move(t, IF go_super_gl[t] THEN "drain" ELSE "enter")
  /\ UNCHANGED <<part, active_tx, go_super_gl, owner, late>>

\* Mutant: the owner does not wait for the active transactions.
EnterAtOnce(t) ==
  /\ gl[t] = "drain"
  /\ Move(t, "enter")
  /\ UNCHANGED <<part, lock, go_super_gl, owner, late>>

Drain(t) ==
  /\ gl[t] = "drain" /\ active_tx = 0
  /\ Move(t, "enter")
  /\ UNCHANGED <<part, lock, go_super_gl, owner, late>>

\* Who counts itself in beside an owner that is there came through the window.
WindowEntry(t) == late' = IF ~go_super_gl[t] /\ OwnerIsThere THEN late \cup {t} ELSE late

\* Mutant: the owner leaves active_tx without having entered it.
EnterUncounted(t) ==
  /\ gl[t] = "enter"
  /\ active_tx' = active_tx + (IF go_super_gl[t] THEN 0 ELSE 1)
  /\ Move(t, "in")
  /\ WindowEntry(t)
  /\ UNCHANGED <<part, tm_super_glock, go_super_gl, owner>>

Enter(t) ==
  /\ gl[t] = "enter"
  /\ active_tx' = active_tx + 1
  /\ Move(t, "in")
  /\ WindowEntry(t)
  /\ UNCHANGED <<part, tm_super_glock, go_super_gl, owner>>

\* A step of PartHtm; with its last one the transaction starts to leave.
Inside(t) ==
  /\ gl[t] = "in"
  /\ \/ TmBegin(t)
     \/ /\ ~go_super_gl[t]
        /\ \/ Partition(t) \/ PartConflict(t) \/ CheckPartition(t)
           \/ CommitReadOnly(t) \/ CommitWriter(t) \/ ValidateCommit(t)
           \/ CasSucceeds(t) \/ Publish(t) \/ Release(t)
     \/ stage[t] = "out" /\ SkipPartition(t)
     \/ Undo(t) \/ TmAbort(t)
  /\ Move(t, IF pc'[t] \in {"begin", "done"} THEN "leave" ELSE "in")
  /\ UNCHANGED <<lock, go_super_gl, owner, late>>

\* SUPER_GL_COND
GiveUp(t) ==
  /\ gl[t] = "in" /\ ~go_super_gl[t]
  /\ initial[t] < TxLen /\ more[t]
  /\ Ring!Conflict(t)
  /\ go_super_gl' = [go_super_gl EXCEPT ![t] = TRUE]
  /\ UNCHANGED <<memory, plan, versions, lock, gl, owner, late>>

Leave(t) ==
  /\ gl[t] = "leave"
  /\ active_tx' = active_tx - 1
  /\ Move(t, "out")
  /\ late' = IF OwnerIsThere THEN late ELSE late \ {t}
  /\ UNCHANGED <<part, tm_super_glock, go_super_gl, owner>>

----------------------------------------------------------------------------
(* The owner's partition, with plain loads and stores. *)
OwnerAt(t, s) == gl[t] = "in" /\ go_super_gl[t] /\ pc[t] = "run" /\ stage[t] = s

From(t) == loc[t][item[t] + 1].from
To(t) == loc[t][item[t] + 1].to

OwnerPartition(t) ==
  /\ OwnerAt(t, "out") /\ initial[t] < TxLen /\ more[t]
  /\ more' = [more EXCEPT ![t] = FALSE]
  /\ item' = [item EXCEPT ![t] = initial[t]]
  /\ stage' = [stage EXCEPT ![t] = "read"]
  /\ UNCHANGED <<ring, memory, loc, initial, since, versions, lock, go_super_gl, gl, val, late>>

OwnerRead(t) ==
  /\ OwnerAt(t, "read") /\ item[t] < PartEnd(t)
  /\ rf' = [rf EXCEPT ![t] = @ \cup {hash(From(t))}]
  /\ IF array[From(t)] > Limit
       THEN stage' = [stage EXCEPT ![t] = "load to"] /\ UNCHANGED item
       ELSE item' = [item EXCEPT ![t] = @ + 1] /\ UNCHANGED stage
  /\ UNCHANGED <<timestamp, last_init, last_complete, ring_wf, pc, start_time, wf, index, entry, word,
                 tx_limit, committed, memory, plan, versions, lock, go_super_gl, gl, val, late>>

OwnerLoad(t, a, here, next) ==
  /\ OwnerAt(t, here)
  /\ val' = [val EXCEPT ![t] = array[a]]
  /\ stage' = [stage EXCEPT ![t] = next]
  /\ UNCHANGED <<part, lock, go_super_gl, gl, item, late>>

\* tm_write
OwnerStore(t, a, v, here, next) ==
  /\ OwnerAt(t, here)
  /\ array' = [array EXCEPT ![a] = v]
  /\ undo_log' = [undo_log EXCEPT ![t] = Append(@, [addr |-> a, val |-> array[a]])]
  /\ stage' = [stage EXCEPT ![t] = next]
  /\ item' = [item EXCEPT ![t] = IF next = "read" THEN @ + 1 ELSE @]
  /\ UNCHANGED <<ring, write_locks, plan, versions, lock, go_super_gl, gl, val, late>>

OwnerPartEnd(t) ==
  /\ OwnerAt(t, "read") /\ item[t] = PartEnd(t)
  /\ initial' = [initial EXCEPT ![t] = PartEnd(t)]
  /\ stage' = [stage EXCEPT ![t] = "out"]
  /\ UNCHANGED <<ring, memory, loc, more, since, versions, lock, go_super_gl, gl, item, val, late>>

OwnerRuns(t) ==
  \/ OwnerPartition(t) \/ OwnerRead(t) \/ OwnerPartEnd(t)
  \/ OwnerLoad(t, To(t), "load to", "store to")
  \/ OwnerStore(t, To(t), val[t] + Amount, "store to", "load from")
  \/ OwnerLoad(t, From(t), "load from", "store from")
  \/ OwnerStore(t, From(t), val[t] - Amount, "store from", "read")

\* TM_END of the owner: no commit, SUPER_GL_UNLOCK.
OwnerEnd(t) ==
  /\ OwnerAt(t, "out") /\ initial[t] = TxLen
  /\ go_super_gl' = [go_super_gl EXCEPT ![t] = FALSE]
  /\ tm_super_glock' = FALSE
  /\ Move(t, "leave")
  /\ late' = {u \in late : gl[u] \in {"in", "leave"}}
  /\ tx_limit' = [tx_limit EXCEPT ![t] = @ + 1]
  /\ pc' = [pc EXCEPT ![t] = IF tx_limit[t] + 1 < NoTx THEN "begin" ELSE "done"]
  /\ loc' = [loc EXCEPT ![t] = NoLoc]
  /\ versions' = Append(versions, WithoutWritesOf({u \in Threads \ {t} : Uncommitted(u)}))
  /\ UNCHANGED <<timestamp, last_init, last_complete, ring_wf, start_time, rf, wf, index, entry, word,
                 committed, memory, initial, more, since, active_tx, owner>>

SuperStep(t) == \/ DrawLoc(t) \/ Acquire(t) \/ Drain(t) \/ Enter(t) \/ Inside(t) \/ GiveUp(t)
                \/ Leave(t) \/ OwnerRuns(t) \/ OwnerEnd(t)

SuperJoined == /\ \A t \in Threads : pc[t] = "done" /\ gl[t] = "out"
               /\ UNCHANGED allVars

SuperNext == (\E t \in Threads : SuperStep(t)) \/ SuperJoined

SuperSpec == SuperInit /\ [][SuperNext]_allVars

----------------------------------------------------------------------------
Transfers(t) == go_super_gl[t] /\ pc[t] = "run"

(* The lock's owner starts on the committed memory, but for what those who *)
(* came through the window have written: whoever was active before it has  *)
(* committed or undone its writes, and dropped its locks, before it left   *)
(* active_tx, and the only locks are those of who came late.               *)
OwnerStartsClean ==
  \A o \in Threads :
    Transfers(o) /\ more[o] =>
      /\ WithoutWritesOf({u \in late : Uncommitted(u)}) = Last(versions)
      /\ write_locks = UNION {wf[u] : u \in late}

(* While nobody who came through the window is inside or was inside with   *)
(* the owner, Part-HTM with its lock keeps to SerialHistory: the owner's   *)
(* transaction is one of the history as are those that commit through the  *)
(* ring.                                                                   *)
SerialButForLate == [][late = {} /\ late' = {} => [Serial!Next]_(Serial!vars)]_allVars

----------------------------------------------------------------------------
(* The inductive invariant behind OwnerStartsClean. *)
SuperTypeOK ==
  /\ TypeOK
  /\ tm_super_glock \in BOOLEAN
  /\ active_tx \in Nat
  /\ go_super_gl \in [Threads -> BOOLEAN]
  /\ gl \in [Threads -> {"out", "drain", "enter", "in", "leave"}]
  /\ stage \in [Threads -> {"out", "read", "load to", "store to", "load from", "store from"}]
  /\ item \in [Threads -> 0 .. TxLen]
  /\ \A t \in Threads : stage[t] \in {"load to", "store to", "load from", "store from"} => item[t] < TxLen
  /\ val \in [Threads -> Int]
  /\ late \subseteq Threads

\* Who has begun is inside, and one that wants the lock runs only when it has it.
PlaceOK ==
  \A t \in Threads :
    /\ pc[t] \notin {"begin", "done"} => gl[t] = "in"
    /\ gl[t] = "drain" => go_super_gl[t]
    /\ go_super_gl[t] => pc[t] \in {"begin", "run", "abort"}
    /\ stage[t] # "out" => Transfers(t) /\ ~more[t]

Active == {t \in Threads : gl[t] \in {"in", "leave"}}

LockInv ==
  /\ active_tx = Cardinality(Active)
  /\ tm_super_glock <=> \E t \in Threads : Owns(t)
  /\ \A t, u \in Threads : Owns(t) /\ Owns(u) => t = u
  /\ \A t \in Threads : Owns(t) /\ gl[t] \in {"enter", "in"} => Active \subseteq {t} \cup late

\* LocksAreExclusive but for the owner's writes, and no lock that nobody holds.
SuperLocksInv ==
  /\ \A t, u \in Threads : t # u => wf[t] \cap wf[u] = {}
  /\ write_locks = UNION {wf[t] : t \in Threads}
  /\ \A t \in Threads, a \in Addresses :
       Uncommitted(t) /\ a \in Logged(t) => Transfers(t) \/ hash(a) \in wf[t]
  /\ \A t \in Threads : pc[t] \in {"begin", "done"} \/ Transfers(t) => wf[t] = {}

\* An owner that has not started its partition has written nothing.
FirstReadInv == \A t \in Threads : Transfers(t) /\ more[t] => undo_log[t] = <<>>

\* While the owner writes beside a late one nothing is promised of the
\* committed memory; before and after it is what IntactInv says.
OwnerHasNotWritten == \A t \in Threads : Transfers(t) => undo_log[t] = <<>>

SuperInv == /\ SuperTypeOK /\ PlanInv /\ PlaceOK /\ LockInv /\ SuperLocksInv /\ FirstReadInv
            /\ OwnerHasNotWritten => IntactInv
=============================================================================
