--------------------------------- MODULE Rtm ---------------------------------
(***************************************************************************)
(* Hardware transactions as the programs use them (include/rtm.h): loads   *)
(* and stores of a transaction are tracked, its stores become visible      *)
(* together at _xend, and an access of another thread, in a transaction or *)
(* not, that conflicts with what it has loaded or stored dooms it.  A      *)
(* doomed transaction takes no step but its abort; the hardware may abort  *)
(* any transaction for reasons of its own.                                 *)
(***************************************************************************)
CONSTANT Threads

VARIABLES memory,  \* what a load outside of transactions finds
          htm,     \* "none", "running" or "doomed"
          readSet, \* the locations a transaction has loaded
          writeSet \* the values it has stored, by location

rtm == <<memory, htm, readSet, writeSet>>

NoWrites == [l \in {} |-> 0]

RtmInit(initial) ==
  /\ memory = initial
  /\ htm = [t \in Threads |-> "none"]
  /\ readSet = [t \in Threads |-> {}]
  /\ writeSet = [t \in Threads |-> NoWrites]

Value(t, l) == IF l \in DOMAIN writeSet[t] THEN writeSet[t][l] ELSE memory[l]

\* The transactions that an access of t to l conflicts with.
Losers(t, l, stores) ==
  {u \in Threads \ {t} : /\ htm[u] = "running"
                         /\ \/ l \in DOMAIN writeSet[u]
                            \/ stores /\ l \in readSet[u]}

Doom(losers) == htm' = [u \in Threads |-> IF u \in losers THEN "doomed" ELSE htm[u]]

Load(t, l) ==
  /\ htm[t] # "doomed"
  /\ Doom(Losers(t, l, FALSE))
  /\ readSet' = IF htm[t] = "running" THEN [readSet EXCEPT ![t] = @ \cup {l}] ELSE readSet
  /\ UNCHANGED <<memory, writeSet>>

Store(t, l, v) ==
  /\ htm[t] # "doomed"
  /\ Doom(Losers(t, l, TRUE))
  /\ IF htm[t] = "running"
       THEN /\ writeSet' = [writeSet EXCEPT ![t] =
                              [m \in DOMAIN @ \cup {l} |-> IF m = l THEN v ELSE @[m]]]
            /\ UNCHANGED memory
       ELSE /\ memory' = [memory EXCEPT ![l] = v]
            /\ UNCHANGED writeSet
  /\ UNCHANGED readSet

Ends(t, how) ==
  /\ htm' = [htm EXCEPT ![t] = how]
  /\ readSet' = [readSet EXCEPT ![t] = {}]
  /\ writeSet' = [writeSet EXCEPT ![t] = NoWrites]

XBegin(t) == htm[t] = "none" /\ Ends(t, "running") /\ UNCHANGED memory

XEnd(t) ==
  /\ htm[t] = "running"
  /\ memory' = [l \in DOMAIN memory |-> Value(t, l)]
  /\ Ends(t, "none")

\* By _xabort, by a conflict, or by the hardware.
XAbort(t) == htm[t] # "none" /\ Ends(t, "none") /\ UNCHANGED memory
=============================================================================
