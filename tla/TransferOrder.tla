--------------------------- MODULE TransferOrder ---------------------------
(***************************************************************************)
(* What the ticket scheduler of htm_sched.cpp promises, without tickets,   *)
(* locks or hardware transactions: a bank of accounts on which every       *)
(* thread runs one transaction at a time, a transfer (a writer) or an      *)
(* audit (a reader) of two accounts.  A transaction is first admitted;     *)
(* from then on the transactions admitted before it that conflict with it  *)
(* are ahead of it, and it executes, atomically, when none is left.        *)
(***************************************************************************)
EXTENDS Integers

CONSTANTS Threads,     \* the worker threads
          NumAccounts, \* ACCOUT_NUM
          Percentage,  \* of writers, as given on the command line
          Opening      \* the balance every account starts with

Accounts == 0 .. NumAccounts - 1
Slots    == 1 .. 2

\* (rand % 100) < percentage: TRUE is a writer.
Kinds == {w \in BOOLEAN : \E draw \in 0 .. 99 : w <=> draw < Percentage}

\* Two distinct accounts: the first is credited, the second debited.
AccountPairs == {p \in [Slots -> Accounts] : p[1] # p[2]}

Requests == [acc : AccountPairs, writer : Kinds]
NoRequest == [acc |-> <<0, 0>>, writer |-> FALSE]

Amount == 50
Delta == <<Amount, -Amount>>

Conflict(r, s) == /\ r.writer \/ s.writer
                  /\ \E i, j \in Slots : r.acc[i] = s.acc[j]

VARIABLES req,      \* req[t]: t's admitted request, NoRequest when it has none
          ahead,    \* ahead[t]: the threads t's request has to wait for
          accounts  \* the balances

vars == <<req, ahead, accounts>>

Init == /\ req = [t \in Threads |-> NoRequest]
        /\ ahead = [t \in Threads |-> {}]
        /\ accounts = [a \in Accounts |-> Opening]

Admit(t) ==
  /\ req[t] = NoRequest
  /\ \E r \in Requests :
       /\ req' = [req EXCEPT ![t] = r]
       /\ ahead' = [ahead EXCEPT ![t] = {u \in Threads : req[u] # NoRequest /\ Conflict(req[u], r)}]
  /\ UNCHANGED accounts

Effect(r) ==
  IF r.writer
  THEN [accounts EXCEPT ![r.acc[1]] = @ + Delta[1], ![r.acc[2]] = @ + Delta[2]]
  ELSE accounts

Execute(t) ==
  /\ req[t] # NoRequest
  /\ ahead[t] = {}
  /\ accounts' = Effect(req[t])
  /\ req' = [req EXCEPT ![t] = NoRequest]
  /\ ahead' = [u \in Threads |-> ahead[u] \ {t}]

Next == \E t \in Threads : Admit(t) \/ Execute(t)

\* An admitted transaction with nothing ahead of it is executed; whether a
\* thread ever asks for another one is its own affair.
Spec == Init /\ [][Next]_vars /\ \A t \in Threads : WF_vars(Execute(t))
=============================================================================
