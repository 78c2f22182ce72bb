--------------------------- MODULE PartHtmProofs ---------------------------
(***************************************************************************)
(* Proofs about PartHtm for any number of threads, array elements,         *)
(* transfers, ring entries and filter words: that it implements            *)
(* CommitRing, so that the theorems about the ring hold of it, that its    *)
(* write locks exclude each other and undoing restores the committed       *)
(* memory, and that it implements SerialHistory for the transfers that     *)
(* run, whatever pairs of elements the transactions draw; and, of          *)
(* SuperPartHtm, that an owner of the super global lock starts on the      *)
(* committed memory but for the writes of those who came through the       *)
(* window.                                                                 *)
(***************************************************************************)
EXTENDS SuperPartHtm, Lemmas, FiniteSetTheorems

RingProofs == INSTANCE CommitRingProofs

LEMMA RingSizes ==
  RingElements \in Nat \ {0} /\ Words \in Nat \ {0} /\ NoTx \in Nat \ {0}
  BY SizesAssumption

----------------------------------------------------------------------------
(* The ring of PartHtm and the ring the theorems are about are instances   *)
(* of one module with the same variables.                                  *)

LEMMA SameInit == Ring!Init <=> RingProofs!Init
  BY DEF Ring!Init, RingProofs!Init

LEMMA SameNext == [Ring!Next]_(Ring!vars) <=> [RingProofs!Next]_(RingProofs!vars)
  BY DEF Ring!vars, RingProofs!vars, Ring!counters, RingProofs!counters,
         Ring!filters, RingProofs!filters, Ring!scan, RingProofs!scan,
         Ring!CheckLabels, RingProofs!CheckLabels, Ring!CommitLabels, RingProofs!CommitLabels,
         Ring!PublishLabels, RingProofs!PublishLabels, Ring!Labels, RingProofs!Labels,
         Ring!Bits, RingProofs!Bits, Ring!Goto, RingProofs!Goto,
         Ring!ReadOnly, RingProofs!ReadOnly, Ring!Begin, RingProofs!Begin,
         Ring!PartitionWith, RingProofs!PartitionWith, Ring!Partition, RingProofs!Partition,
         Ring!Conflict, RingProofs!Conflict, Ring!StartScan, RingProofs!StartScan,
         Ring!Hit, RingProofs!Hit, Ring!Scan, RingProofs!Scan,
         Ring!AwaitComplete, RingProofs!AwaitComplete, Ring!Rollover, RingProofs!Rollover,
         Ring!CheckPartition, RingProofs!CheckPartition, Ring!PartitionScan, RingProofs!PartitionScan,
         Ring!PartitionAwait, RingProofs!PartitionAwait, Ring!PartitionRollover, RingProofs!PartitionRollover,
         Ring!FinishTx, RingProofs!FinishTx, Ring!CommitReadOnly, RingProofs!CommitReadOnly,
         Ring!CommitWriter, RingProofs!CommitWriter, Ring!CommitTime, RingProofs!CommitTime,
         Ring!AwaitInit, RingProofs!AwaitInit, Ring!CommitScan, RingProofs!CommitScan,
         Ring!CommitAwait, RingProofs!CommitAwait, Ring!CommitRollover, RingProofs!CommitRollover,
         Ring!CasSucceeds, RingProofs!CasSucceeds, Ring!CasFails, RingProofs!CasFails,
         Ring!Copy, RingProofs!Copy, Ring!SetInit, RingProofs!SetInit,
         Ring!SetComplete, RingProofs!SetComplete, Ring!Release, RingProofs!Release,
         Ring!Abort, RingProofs!Abort, Ring!Step, RingProofs!Step,
         Ring!Joined, RingProofs!Joined, Ring!Next, RingProofs!Next

LEMMA SameTypes == Ring!TypeOK <=> RingProofs!TypeOK
  BY DEF Ring!TypeOK, RingProofs!TypeOK, Ring!Labels, RingProofs!Labels,
         Ring!CheckLabels, RingProofs!CheckLabels, Ring!CommitLabels, RingProofs!CommitLabels,
         Ring!PublishLabels, RingProofs!PublishLabels, Ring!Bits, RingProofs!Bits

LEMMA SameCommitter == Ring!OneCommitter <=> RingProofs!OneCommitter
  BY DEF Ring!OneCommitter, RingProofs!OneCommitter, Ring!Publishing, RingProofs!Publishing,
         Ring!PublishLabels, RingProofs!PublishLabels

LEMMA RingInitTypes == Ring!Init => Ring!TypeOK
  BY RingSizes, SameInit, SameTypes, RingProofs!InitTypeOK

LEMMA RingNextTypes == Ring!TypeOK /\ [Ring!Next]_(Ring!vars) => Ring!TypeOK'
<1>1. Ring!TypeOK' <=> RingProofs!TypeOK'
  BY SameTypes, PTL
<1> QED
  BY <1>1, RingSizes, SameNext, SameTypes, RingProofs!NextTypeOK

----------------------------------------------------------------------------
(* What a transfer does to the memory. *)

LEMMA HashInBits == \A a \in Addresses : hash(a) \in Ring!Bits
  BY SizesAssumption DEF Addresses, hash, Ring!Bits

LEMMA ExecutedPlace == Executed \in Nat \ {0} /\ Executed \in 1 .. TxLen /\ TxLen \in Nat \ {0}
  BY SizesAssumption DEF Executed

LEMMA LimitIsInt == Limit \in Int /\ Amount \in Int
  BY DEF Limit, Amount

Memories == [Addresses -> Int]
Deeds == [array : Memories, reads : SUBSET Ring!Bits, writes : SUBSET Ring!Bits,
          log : Seq(LogEntries)]

\* s tells what has been done to m: its log has the old values of what it has
\* written, and it has the lock bit of each.
Tells(s, m) ==
  \A a \in Addresses :
    IF a \in Addrs(s.log) THEN hash(a) \in s.writes /\ Oldest(s.log, a) = m[a]
                          ELSE s.array[a] = m[a]

LEMMA WriteTells ==
  ASSUME NEW m \in Memories, NEW s \in Deeds, Tells(s, m), NEW a \in Addresses, NEW v \in Int
  PROVE  LET w == TmWrite(s, a, v) IN
         /\ w \in Deeds /\ Tells(w, m)
         /\ w.reads = s.reads /\ w.writes = s.writes \cup {hash(a)}
         /\ w.array = [s.array EXCEPT ![a] = v]
         /\ Addrs(w.log) = Addrs(s.log) \cup {a}
<1> DEFINE w == TmWrite(s, a, v)
           e == [addr |-> a, val |-> s.array[a]]
<1>1. /\ s.array \in Memories /\ s.reads \in SUBSET Ring!Bits /\ s.writes \in SUBSET Ring!Bits
      /\ s.log \in Seq(LogEntries)
  BY DEF Deeds
<1>2. e \in LogEntries
  BY <1>1 DEF LogEntries, Entries, Memories
<1>3. /\ w.array = [s.array EXCEPT ![a] = v] /\ w.reads = s.reads
      /\ w.writes = s.writes \cup {hash(a)} /\ w.log = Append(s.log, e)
  BY DEF TmWrite
<1>4. /\ Append(s.log, e) \in Seq(LogEntries)
      /\ Addrs(Append(s.log, e)) = Addrs(s.log) \cup {e.addr}
      /\ \A b \in Addrs(s.log) : Oldest(Append(s.log, e), b) = Oldest(s.log, b)
      /\ e.addr \notin Addrs(s.log) => Oldest(Append(s.log, e), e.addr) = e.val
  BY <1>1, <1>2, OldestOfAppend DEF LogEntries
<1>5. e.addr = a /\ e.val = s.array[a]
  OBVIOUS
<1>6. w \in Deeds
  <2>1. w.array \in Memories
    BY <1>1, <1>3 DEF Memories
  <2>2. w.writes \in SUBSET Ring!Bits
    BY <1>1, <1>3, HashInBits
  <2>3. w = [array |-> w.array, reads |-> w.reads, writes |-> w.writes, log |-> w.log]
    BY DEF TmWrite
  <2> HIDE DEF w
  <2> QED
    BY <1>1, <1>3, <1>4, <2>1, <2>2, <2>3 DEF Deeds
<1> HIDE DEF w, e
<1>7. ASSUME NEW b \in Addresses
      PROVE  IF b \in Addrs(w.log) THEN hash(b) \in w.writes /\ Oldest(w.log, b) = m[b]
                                   ELSE w.array[b] = m[b]
  <2>1. IF b \in Addrs(s.log) THEN hash(b) \in s.writes /\ Oldest(s.log, b) = m[b]
                              ELSE s.array[b] = m[b]
    BY DEF Tells
  <2>2. CASE b \in Addrs(s.log)
    BY <1>3, <1>4, <2>1, <2>2
  <2>3. CASE b \notin Addrs(s.log) /\ b = a
    BY <1>3, <1>4, <1>5, <2>1, <2>3
  <2>4. CASE b \notin Addrs(s.log) /\ b # a
    <3>1. w.array[b] = s.array[b]
      BY <1>1, <1>3, <2>4 DEF Memories
    <3> QED
      BY <1>3, <1>4, <1>5, <2>1, <2>4, <3>1
  <2> QED
    BY <2>2, <2>3, <2>4
<1> QED
  BY <1>3, <1>4, <1>5, <1>6, <1>7 DEF Tells, w

----------------------------------------------------------------------------
(* What transfers make of a memory, and of what has been done to one. *)

LEMMA TransferEffect ==
  ASSUME NEW m \in Memories, NEW p, p.from \in Addresses, p.to \in Addresses
  PROVE  /\ Serial!Transfer(m, p) \in Memories
         /\ ~(m[p.from] > Limit) => Serial!Transfer(m, p) = m
         /\ m[p.from] > Limit =>
              \A a \in Addresses : Serial!Transfer(m, p)[a] =
                m[a] + (IF a = p.to THEN Amount ELSE 0) - (IF a = p.from THEN Amount ELSE 0)
<1> DEFINE c == [m EXCEPT ![p.to] = @ + Amount]
           d == [c EXCEPT ![p.from] = @ - Amount]
<1>1. Serial!Transfer(m, p) = IF m[p.from] > Limit THEN d ELSE m
  BY DEF Serial!Transfer, Serial!Limit, Serial!Amount, Limit, Amount
<1>2. c \in Memories /\ \A a \in Addresses : c[a] = m[a] + (IF a = p.to THEN Amount ELSE 0)
  BY DEF Memories, Amount
<1> HIDE DEF c
<1>3. d \in Memories
  BY <1>2 DEF Memories, Amount
<1>4. ASSUME NEW a \in Addresses
      PROVE  d[a] = c[a] - (IF a = p.from THEN Amount ELSE 0)
  <2>1. c \in [Addresses -> Int] /\ c[a] \in Int
    BY <1>2 DEF Memories
  <2>2. CASE a = p.from
    BY <2>1, <2>2 DEF Amount
  <2>3. CASE a # p.from
    BY <2>1, <2>3
  <2> QED
    BY <2>2, <2>3
<1> HIDE DEF d
<1>5. m[p.from] > Limit => Serial!Transfer(m, p) = d
  BY <1>1
<1>6. ~(m[p.from] > Limit) => Serial!Transfer(m, p) = m
  BY <1>1
<1>7. ASSUME NEW a \in Addresses
      PROVE  d[a] = m[a] + (IF a = p.to THEN Amount ELSE 0) - (IF a = p.from THEN Amount ELSE 0)
  <2>1. m[a] \in Int /\ c[a] = m[a] + (IF a = p.to THEN Amount ELSE 0)
    BY <1>2 DEF Memories
  <2>2. d[a] = c[a] - (IF a = p.from THEN Amount ELSE 0)
    BY <1>4
  <2> QED
    BY <2>1, <2>2 DEF Amount
<1> QED
  BY <1>3, <1>5, <1>6, <1>7

LEMMA TransferTells ==
  ASSUME NEW m \in Memories, NEW s \in Deeds, Tells(s, m),
         NEW p, p.from \in Addresses, p.to \in Addresses
  PROVE  LET w == Transfer(s, p) IN
         /\ w \in Deeds /\ Tells(w, m)
         /\ w.array = Serial!Transfer(s.array, p)
         /\ w.reads = s.reads \cup {hash(p.from)}
         /\ s.writes \subseteq w.writes
         /\ s.array[p.from] > Limit => {hash(p.from), hash(p.to)} \subseteq w.writes
         /\ ~(s.array[p.from] > Limit) => w.writes = s.writes /\ w.log = s.log
<1> DEFINE w == Transfer(s, p)
           r == TmRead(s, p.from)
           c == TmWrite(r, p.to, s.array[p.to] + Amount)
           d == TmWrite(c, p.from, c.array[p.from] - Amount)
<1>1. /\ s.array \in Memories /\ s.reads \in SUBSET Ring!Bits /\ s.writes \in SUBSET Ring!Bits
      /\ s.log \in Seq(LogEntries)
  BY DEF Deeds
<1>2. /\ r.array = s.array /\ r.reads = s.reads \cup {hash(p.from)}
      /\ r.writes = s.writes /\ r.log = s.log
      /\ r \in [array : Memories, reads : SUBSET Ring!Bits, writes : SUBSET Ring!Bits,
                 log : Seq(LogEntries)]
  <2> DEFINE q == s.reads \cup {hash(p.from)}
  <2>1. q \in SUBSET Ring!Bits
    BY <1>1, HashInBits
  <2>2. r = [s EXCEPT !.reads = q]
    BY DEF TmRead
  <2> HIDE DEF q, r
  <2>3. s \in [array : Memories, reads : SUBSET Ring!Bits, writes : SUBSET Ring!Bits,
               log : Seq(LogEntries)]
    BY DEF Deeds
  <2>4. r.array = s.array /\ r.reads = q /\ r.writes = s.writes /\ r.log = s.log
    BY <2>2, <2>3
  <2>5. r \in [array : Memories, reads : SUBSET Ring!Bits, writes : SUBSET Ring!Bits,
               log : Seq(LogEntries)]
    BY <2>1, <2>2, <2>3
  <2> QED
    BY <2>4, <2>5 DEF q
<1>3. w = IF s.array[p.from] > Limit THEN d ELSE r
  BY DEF Transfer
<1> HIDE DEF r
<1>4. r \in Deeds /\ Tells(r, m)
  <2>1. r.reads \in SUBSET Ring!Bits
    BY <1>1, <1>2, HashInBits
  <2>2. Tells(r, m)
    BY <1>2 DEF Tells
  <2> QED
    BY <1>1, <1>2, <2>1, <2>2 DEF Deeds
<1>5. s.array[p.to] + Amount \in Int
  BY <1>1, LimitIsInt DEF Memories
<1>6. /\ c \in Deeds /\ Tells(c, m) /\ c.reads = r.reads
      /\ c.writes = r.writes \cup {hash(p.to)}
      /\ c.array = [r.array EXCEPT ![p.to] = s.array[p.to] + Amount]
  BY <1>4, <1>5, WriteTells
<1> HIDE DEF c
<1>7. c.array[p.from] - Amount \in Int
  BY <1>6, LimitIsInt DEF Memories, Deeds
<1>8. /\ d \in Deeds /\ Tells(d, m) /\ d.reads = c.reads
      /\ d.writes = c.writes \cup {hash(p.from)}
      /\ d.array = [c.array EXCEPT ![p.from] = c.array[p.from] - Amount]
  BY <1>6, <1>7, WriteTells
<1> HIDE DEF d
<1>9. Serial!Transfer(s.array, p) = IF s.array[p.from] > Limit THEN d.array ELSE s.array
  <2> DEFINE x == [s.array EXCEPT ![p.to] = s.array[p.to] + Amount]
  <2>1. Serial!Transfer(s.array, p) =
          IF s.array[p.from] > Limit THEN [x EXCEPT ![p.from] = x[p.from] - Amount] ELSE s.array
    BY DEF Serial!Transfer, Serial!Limit, Serial!Amount, Limit, Amount
  <2> QED
    BY <1>2, <1>6, <1>8, <2>1
<1> HIDE DEF w
<1> QED
  BY <1>2, <1>3, <1>4, <1>6, <1>8, <1>9 DEF w

----------------------------------------------------------------------------
(* The transfers of a partition one by one. *)

\* A transaction that runs has been drawn.
Drawn(t) == loc[t] \in [1 .. TxLen -> Pairs] /\ initial[t] \in 0 .. TxLen

LEMMA DrawnIs ==
  ASSUME TypeOK, PlanInv, NEW t \in Threads, pc[t] \notin {"begin", "done"}
  PROVE  Drawn(t) /\ PartEnd(t) \in 0 .. TxLen
<1>1. loc[t] \in Locs /\ initial[t] \in 0 .. TxLen
  BY DEF TypeOK, PlanInv
<1> QED
  BY <1>1, LocsAssumption, SizesAssumption DEF Drawn, PartEnd

LEMMA PairPlace ==
  ASSUME NEW t \in Threads, Drawn(t), NEW n \in 1 .. TxLen
  PROVE  /\ loc[t][n] \in Pairs
         /\ loc[t][n].from \in Addresses /\ loc[t][n].to \in Addresses
<1>1. loc[t][n] \in Pairs
  BY DEF Drawn
<1>2. loc[t][n] \in [from : Addresses, to : Addresses]
  BY <1>1, PairsAssumption
<1> QED
  BY <1>1, <1>2

LEMMA UntouchedTells ==
  ASSUME NEW m \in Memories
  PROVE  /\ Untouched(m) \in Deeds /\ Tells(Untouched(m), m)
         /\ Untouched(m).array = m /\ Untouched(m).log = <<>>
         /\ Untouched(m).reads = {} /\ Untouched(m).writes = {}
  BY DEF Untouched, Deeds, Tells, Addrs

\* The values Done defines by recursion.
LEMMA DoneSteps ==
  ASSUME NEW t \in Threads, Drawn(t), NEW m \in Memories
  PROVE  /\ \A n \in 0 .. TxLen : n <= initial[t] => Done(t, m)[n] = Untouched(m)
         /\ \A n \in 0 .. TxLen - 1 : n >= initial[t] =>
              Done(t, m)[n + 1] = Transfer(Done(t, m)[n], loc[t][n + 1])
<1>0. TxLen \in Nat /\ initial[t] \in 0 .. TxLen
  BY SizesAssumption DEF Drawn
<1> DEFINE T(x, n) == Transfer(x, loc[t][n])
           U == Untouched(m)
           i == initial[t]
           Told == {s \in Deeds : Tells(s, m)}
           G == [p \in Nat \X Told |->
                   IF p[1] >= i /\ p[1] < TxLen THEN T(p[2], p[1] + 1) ELSE U]
           Is(c) == c = [n \in 0 .. TxLen |-> IF n <= i THEN U ELSE T(c[n - 1], n)]
<1>1. \A x \in Told, n \in 1 .. TxLen : T(x, n) \in Told
  <2> SUFFICES ASSUME NEW x \in Told, NEW n \in 1 .. TxLen PROVE T(x, n) \in Told
    OBVIOUS
  <2>1. loc[t][n].from \in Addresses /\ loc[t][n].to \in Addresses
    BY PairPlace
  <2> QED
    BY <2>1, TransferTells
<1>2. U \in Told
  BY UntouchedTells
<1> HIDE DEF T, U, i
<1>3. G \in [Nat \X Told -> Told]
  <2> HIDE DEF Told
  <2> QED
    BY <1>0, <1>1, <1>2 DEF i
<1>4. PICK h \in [Nat -> Told] : h[0] = U /\ \A n \in Nat : h[n + 1] = G[<<n, h[n]>>]
  <2> HIDE DEF G, Told
  <2> DEFINE P(S) == \A b \in S : \A F \in [Nat \X S -> S] :
                       \E f \in [Nat -> S] : f[0] = b /\ \A n \in Nat : f[n + 1] = F[<<n, f[n]>>]
  <2>1. \A S : P(S)
    BY Recursion
  <2>2. P(Told)
    <3> HIDE DEF P
    <3> QED
      BY <2>1
  <2> QED
    BY <1>2, <1>3, <2>2
<1>5. ASSUME NEW n \in Nat
      PROVE  h[n + 1] = IF n >= i /\ n < TxLen THEN T(h[n], n + 1) ELSE U
  <2>1. <<n, h[n]>> \in Nat \X Told
    BY <1>4
  <2>2. G[<<n, h[n]>>] = IF n >= i /\ n < TxLen THEN T(h[n], n + 1) ELSE U
    <3> HIDE DEF Told
    <3> QED
      BY <2>1
  <2> HIDE DEF G
  <2> QED
    BY <1>4, <2>2
<1> HIDE DEF G, Told
<1> DEFINE c == [n \in 0 .. TxLen |-> h[n]]
<1>6. Is(c)
  <2>1. \A n \in 0 .. TxLen : c[n] = IF n <= i THEN U ELSE T(c[n - 1], n)
    <3> SUFFICES ASSUME NEW n \in 0 .. TxLen, n # 0
                 PROVE  c[n] = IF n <= i THEN U ELSE T(c[n - 1], n)
      BY <1>0, <1>4 DEF i
    <3>1. n - 1 \in Nat /\ (n - 1) + 1 = n /\ n - 1 \in 0 .. TxLen /\ n - 1 < TxLen
      BY <1>0
    <3>2. h[n] = IF n - 1 >= i /\ n - 1 < TxLen THEN T(h[n - 1], n) ELSE U
      BY <1>5, <3>1
    <3>3. n <= i <=> ~(n - 1 >= i)
      BY <1>0 DEF i
    <3> QED
      BY <3>1, <3>2, <3>3
  <2> QED
    BY <2>1
<1> HIDE DEF c
<1> DEFINE d == CHOOSE x : Is(x)
<1>7. Is(d)
  BY <1>6
<1>8. Done(t, m) = d
  BY DEF Done, T, U, i
<1> HIDE DEF d
<1>9. ASSUME NEW n \in 0 .. TxLen - 1, n >= i PROVE d[n + 1] = T(d[n], n + 1)
  <2>1. n + 1 \in 0 .. TxLen /\ ~(n + 1 <= i) /\ (n + 1) - 1 = n
    BY <1>0, <1>9 DEF i
  <2> QED
    BY <1>7, <2>1
<1>10. \A n \in 0 .. TxLen : n <= i => d[n] = U
  BY <1>7
<1> QED
  BY <1>8, <1>9, <1>10 DEF T, U, i

\* They tell what has been done, and what has been read and written grows.
LEMMA DoneTells ==
  ASSUME NEW t \in Threads, Drawn(t), NEW m \in Memories
  PROVE  \A n \in 0 .. TxLen :
           /\ Done(t, m)[n] \in Deeds /\ Tells(Done(t, m)[n], m)
           /\ \A k \in 0 .. n : /\ Done(t, m)[k].reads \subseteq Done(t, m)[n].reads
                                /\ Done(t, m)[k].writes \subseteq Done(t, m)[n].writes
<1>0. TxLen \in Nat /\ initial[t] \in 0 .. TxLen
  BY SizesAssumption DEF Drawn
<1> DEFINE d == Done(t, m)
           i == initial[t]
           Fine(n) == /\ d[n] \in Deeds /\ Tells(d[n], m)
                      /\ \A k \in 0 .. n : d[k].reads \subseteq d[n].reads
                                           /\ d[k].writes \subseteq d[n].writes
           Good == {n \in Nat : n <= TxLen => Fine(n)}
<1>1. /\ \A n \in 0 .. TxLen : n <= i => d[n] = Untouched(m)
      /\ \A n \in 0 .. TxLen - 1 : n >= i => d[n + 1] = Transfer(d[n], loc[t][n + 1])
  BY DoneSteps
<1> HIDE DEF d, i
<1>2. 0 \in Good
  <2>1. d[0] = Untouched(m)
    BY <1>0, <1>1 DEF i
  <2> QED
    BY <2>1, UntouchedTells
<1>3. ASSUME NEW n \in Nat, n \in Good PROVE n + 1 \in Good
  <2> SUFFICES ASSUME n + 1 <= TxLen PROVE Fine(n + 1)
    OBVIOUS
  <2>1. n \in 0 .. TxLen - 1 /\ n + 1 \in 0 .. TxLen /\ n + 1 \in 1 .. TxLen /\ n \in 0 .. TxLen
    BY <1>0
  <2>2. Fine(n)
    BY <1>3, <2>1
  <2>3. /\ d[n + 1] \in Deeds /\ Tells(d[n + 1], m)
        /\ d[n].reads \subseteq d[n + 1].reads /\ d[n].writes \subseteq d[n + 1].writes
    <3>1. CASE n >= i
      <4>1. d[n + 1] = Transfer(d[n], loc[t][n + 1])
        BY <1>1, <2>1, <3>1
      <4>2. loc[t][n + 1].from \in Addresses /\ loc[t][n + 1].to \in Addresses
        BY <2>1, PairPlace
      <4> HIDE DEF Good
      <4> QED
        BY <2>2, <4>1, <4>2, TransferTells
    <3>2. CASE ~(n >= i)
      <4>1. n <= i /\ n + 1 <= i
        BY <1>0, <2>1, <3>2 DEF i
      <4>2. d[n + 1] = Untouched(m) /\ d[n] = Untouched(m)
        BY <1>1, <2>1, <4>1
      <4> QED
        BY <4>2, UntouchedTells
    <3> QED
      BY <3>1, <3>2
  <2>4. ASSUME NEW k \in 0 .. n + 1
        PROVE  d[k].reads \subseteq d[n + 1].reads /\ d[k].writes \subseteq d[n + 1].writes
    <3>1. k \in 0 .. n \/ k = n + 1
      OBVIOUS
    <3> QED
      BY <2>2, <2>3, <3>1
  <2> QED
    BY <2>3, <2>4
<1>4. Nat \subseteq Good
  <2> HIDE DEF Good
  <2> QED
    BY <1>2, <1>3, Induct
<1>5. \A n \in 0 .. TxLen : Fine(n)
  BY <1>0, <1>4
<1> QED
  BY <1>5 DEF d

\* So does the partition.
LEMMA PartTells ==
  ASSUME TypeOK, PlanInv, NEW t \in Threads, pc[t] = "run"
  PROVE  /\ Part(t).array \in [Addresses -> Int] /\ Part(t).log \in Seq(LogEntries)
         /\ PartReads(t) \in SUBSET Ring!Bits /\ PartWrites(t) \in SUBSET Ring!Bits
         /\ \A a \in Addresses :
              /\ a \in Addrs(Part(t).log) =>
                   hash(a) \in PartWrites(t) /\ Oldest(Part(t).log, a) = array[a]
              /\ a \notin Addrs(Part(t).log) => Part(t).array[a] = array[a]
<1>1. Drawn(t) /\ PartEnd(t) \in 0 .. TxLen /\ array \in Memories
  BY DrawnIs DEF TypeOK, Memories
<1>2. Part(t) \in Deeds /\ Tells(Part(t), array)
  BY <1>1, DoneTells DEF Part
<1>3. Part(t).array \in Memories /\ Part(t).log \in Seq(LogEntries)
      /\ Part(t).reads \in SUBSET Ring!Bits /\ Part(t).writes \in SUBSET Ring!Bits
  BY <1>2 DEF Deeds
<1> QED
  BY <1>2, <1>3 DEF Tells, PartReads, PartWrites, Memories

----------------------------------------------------------------------------
(* Every step is a step of the ring or leaves its variables alone. *)

LEMMA StepIsRingStep ==
  ASSUME TypeOK, PlanInv, [Next]_vars
  PROVE  [Ring!Next]_(Ring!vars)
<1>1. CASE UNCHANGED ring
  BY <1>1 DEF ring, Ring!vars, Ring!counters, Ring!filters, Ring!scan
<1>2. ASSUME NEW t \in Threads, Ring!Step(t) PROVE Ring!Next
  BY <1>2 DEF Ring!Next
<1>3. ASSUME NEW t \in Threads, Partition(t) PROVE Ring!Step(t)
  <2>1. Ring!Partition(t)
    BY <1>3, PartTells DEF Partition, Ring!Partition, Ring!PartitionWith
  <2> QED
    BY <2>1 DEF Ring!Step
<1>4. ASSUME NEW t \in Threads, Draw(t) \/ Undo(t) \/ SkipPartition(t) PROVE UNCHANGED ring
  BY <1>4 DEF Draw, Undo, SkipPartition
<1>5. ASSUME NEW t \in Threads, TmBegin(t) \/ PartConflict(t) \/ CheckPartition(t) \/ TmAbort(t)
      PROVE Ring!Step(t)
  BY <1>5 DEF TmBegin, PartConflict, CheckPartition, TmAbort, Ring!Step
<1>6. ASSUME NEW t \in Threads, CommitReadOnly(t) \/ CommitWriter(t) \/ ValidateCommit(t)
      PROVE Ring!Step(t)
  BY <1>6 DEF CommitReadOnly, CommitWriter, ValidateCommit, Ring!Step
<1>7. ASSUME NEW t \in Threads, CasSucceeds(t) \/ Publish(t) \/ Release(t) PROVE Ring!Step(t)
  BY <1>7 DEF CasSucceeds, Publish, Release, Ring!Step
<1>8. UNCHANGED vars \/ Joined => UNCHANGED ring
  BY DEF vars, Joined
<1> QED
  BY <1>1, <1>2, <1>3, <1>4, <1>5, <1>6, <1>7, <1>8 DEF Next, Step

----------------------------------------------------------------------------
(* What a step of one thread leaves to the others. *)

\* The private variables and the ring's that the invariant is about.
Own(u) == <<pc[u], wf[u], undo_log[u], loc[u], initial[u], more[u]>>

LEMMA OthersKeep ==
  ASSUME TypeOK, NEW t \in Threads, Step(t), NEW u \in Threads, u # t
  PROVE  Own(u)' = Own(u)
<1> USE DEF Own, TypeOK, Ring!TypeOK, ring, memory, plan, Ring!Goto, Ring!filters, Ring!FinishTx
<1>1. CASE Draw(t) \/ Undo(t) \/ SkipPartition(t)
  BY <1>1 DEF Draw, Undo, SkipPartition
<1>2. CASE TmBegin(t) \/ PartConflict(t) \/ TmAbort(t) \/ Partition(t)
  BY <1>2 DEF TmBegin, PartConflict, TmAbort, Partition, Ring!Begin, Ring!Conflict, Ring!Abort,
     Ring!PartitionWith
<1>3. CASE CheckPartition(t) \/ ValidateCommit(t)
  BY <1>3 DEF CheckPartition, ValidateCommit, Ring!CheckPartition, Ring!PartitionScan, Ring!Scan,
     Ring!PartitionAwait, Ring!AwaitComplete, Ring!PartitionRollover, Ring!Rollover,
     Ring!CommitTime, Ring!AwaitInit, Ring!CommitScan, Ring!CommitAwait, Ring!CommitRollover,
     Ring!CasFails
<1>4. CASE CommitReadOnly(t) \/ CommitWriter(t) \/ Release(t)
  BY <1>4 DEF CommitReadOnly, CommitWriter, Release, Ring!CommitReadOnly, Ring!CommitWriter,
     Ring!Release
<1>5. CASE CasSucceeds(t) \/ Publish(t)
  BY <1>5 DEF CasSucceeds, Publish, Ring!CasSucceeds, Ring!Copy, Ring!SetInit, Ring!SetComplete
<1> QED
  BY <1>1, <1>2, <1>3, <1>4, <1>5 DEF Step

----------------------------------------------------------------------------
(* The committed memory as WithoutWritesOf computes it. *)

\* LocksAreExclusive as far as the logs of S are concerned.
Guarded(S) ==
  /\ \A t, u \in Threads : t # u => wf[t] \cap wf[u] = {}
  /\ \A t \in Threads : wf[t] \subseteq write_locks
  /\ \A t \in S, a \in Addresses : Uncommitted(t) /\ a \in Logged(t) => hash(a) \in wf[t]

LEMMA AllGuarded == LocksAreExclusive <=> Guarded(Threads)
  BY DEF LocksAreExclusive, Guarded

LEMMA WithoutWritesType ==
  ASSUME TypeOK, NEW S \in SUBSET Threads
  PROVE  WithoutWritesOf(S) \in [Addresses -> Int]
<1>1. \A t \in Threads : Logged(t) = Addrs(undo_log[t]) /\ undo_log[t] \in Seq(LogEntries)
  BY DEF Logged, Addrs, TypeOK
<1>2. ASSUME NEW a \in Addresses PROVE WithoutWritesOf(S)[a] \in Int
  <2>1. array[a] \in Int
    BY DEF TypeOK
  <2>2. ASSUME NEW t \in S, a \in Logged(t) PROVE Oldest(undo_log[t], a) \in Int
    BY <1>1, <2>2, OldestValue DEF LogEntries
  <2>3. CASE \E t \in S : a \in Logged(t)
    <3> DEFINE u == CHOOSE t \in S : a \in Logged(t)
    <3>1. u \in S /\ a \in Logged(u)
      BY <2>3
    <3>2. WithoutWritesOf(S)[a] = Oldest(undo_log[u], a)
      BY <2>3 DEF WithoutWritesOf
    <3> HIDE DEF u
    <3> QED
      BY <2>2, <3>1, <3>2
  <2>4. CASE ~\E t \in S : a \in Logged(t)
    BY <2>1, <2>4 DEF WithoutWritesOf
  <2> QED
    BY <2>3, <2>4
<1>3. WithoutWritesOf(S) = [a \in Addresses |-> WithoutWritesOf(S)[a]]
  BY DEF WithoutWritesOf
<1> QED
  BY <1>2, <1>3

\* What is restored when the transactions of S undo their writes.
LEMMA WithoutWritesIs ==
  ASSUME NEW S \in SUBSET {t \in Threads : Uncommitted(t)}, Guarded(S)
  PROVE  /\ \A a \in Addresses : \A t \in S :
              a \in Logged(t) => WithoutWritesOf(S)[a] = Oldest(undo_log[t], a)
         /\ \A a \in Addresses :
              (\A t \in S : a \notin Logged(t)) => WithoutWritesOf(S)[a] = array[a]
<1>1. ASSUME NEW a \in Addresses, NEW t \in S, NEW u \in S, a \in Logged(t), a \in Logged(u)
      PROVE  t = u
  BY <1>1 DEF Guarded
<1>2. ASSUME NEW a \in Addresses, NEW t \in S, a \in Logged(t)
      PROVE  WithoutWritesOf(S)[a] = Oldest(undo_log[t], a)
  <2>1. (CHOOSE u \in S : a \in Logged(u)) = t
    BY <1>1, <1>2
  <2> QED
    BY <1>2, <2>1 DEF WithoutWritesOf
<1>3. ASSUME NEW a \in Addresses, \A t \in S : a \notin Logged(t)
      PROVE  WithoutWritesOf(S)[a] = array[a]
  BY <1>3 DEF WithoutWritesOf
<1> QED
  BY <1>2, <1>3

LEMMA WithoutWrites ==
  ASSUME TypeOK, LocksAreExclusive, NEW S \in SUBSET {t \in Threads : Uncommitted(t)}
  PROVE  /\ WithoutWritesOf(S) \in [Addresses -> Int]
         /\ \A a \in Addresses : \A t \in S :
              a \in Logged(t) => WithoutWritesOf(S)[a] = Oldest(undo_log[t], a)
         /\ \A a \in Addresses :
              (\A t \in S : a \notin Logged(t)) => WithoutWritesOf(S)[a] = array[a]
<1>1. Guarded(S)
  BY DEF LocksAreExclusive, Guarded
<1> QED
  BY <1>1, WithoutWritesIs, WithoutWritesType

----------------------------------------------------------------------------
(* Types. *)

LEMMA StepTypes ==
  ASSUME TypeOK, PlanInv, NEW t \in Threads, Step(t)
  PROVE  TypeOK'
<1>1. TypeOK /\ PlanInv /\ Ring!TypeOK /\ Ring!TypeOK'
  BY StepIsRingStep, RingNextTypes DEF TypeOK, Next
<1> USE DEF TypeOK, memory, plan
<1>2. CASE Draw(t)
  BY <1>1, <1>2 DEF Draw
<1>3. CASE TmBegin(t)
  BY <1>1, <1>3, SizesAssumption DEF TmBegin
<1>4. CASE Partition(t)
  <2>1. pc[t] = "run"
    BY <1>4 DEF Partition, Ring!PartitionWith
  <2>2. PartEnd(t) \in 0 .. TxLen
    BY <1>1, <2>1, DrawnIs
  <2>3. /\ Part(t).array \in [Addresses -> Int] /\ Part(t).log \in Seq(LogEntries)
        /\ PartWrites(t) \in SUBSET Ring!Bits
    BY <1>1, <2>1, PartTells
  <2>4. array' \in [Addresses -> Int] /\ write_locks' \subseteq Ring!Bits
    BY <1>1, <1>4, <2>3 DEF Partition
  <2>5. undo_log' \in [Threads -> Seq(LogEntries)]
    BY <1>1, <1>4, <2>3 DEF Partition
  <2>6. initial' \in [Threads -> 0 .. TxLen] /\ more' \in [Threads -> BOOLEAN]
    BY <1>1, <1>4, <2>2 DEF Partition
  <2> QED
    BY <1>1, <1>4, <2>4, <2>5, <2>6 DEF Partition
<1>5. CASE Undo(t)
  <2>1. Front(undo_log[t]) \in Seq(LogEntries) /\ Last(undo_log[t]) \in LogEntries
    BY <1>1, <1>5, OldestOfFront DEF Undo, LogEntries
  <2>2. array' \in [Addresses -> Int] /\ undo_log' \in [Threads -> Seq(LogEntries)]
    BY <1>1, <1>5, <2>1 DEF Undo, LogEntries, Entries
  <2> QED
    BY <1>1, <1>5, <2>2 DEF Undo
<1>6. CASE TmAbort(t) \/ Release(t)
  BY <1>1, <1>6 DEF TmAbort, Release
<1>7. CASE CasSucceeds(t)
  <2> DEFINE S == {u \in Threads \ {t} : Uncommitted(u)}
             W == WithoutWritesOf(S)
  <2>1. W \in [Addresses -> Int]
    BY <1>1, WithoutWritesType
  <2>2. versions' = Append(versions, W) /\ UNCHANGED <<memory, plan>>
    BY <1>7 DEF CasSucceeds
  <2> HIDE DEF W
  <2>3. versions \in Seq([Addresses -> Int])
    BY <1>1
  <2>4. versions' \in Seq([Addresses -> Int]) /\ Len(versions') # 0
    BY <2>1, <2>2, <2>3
  <2>5. versions' # <<>>
    BY <2>4
  <2> QED
    BY <1>1, <2>2, <2>4, <2>5
<1>8. CASE PartConflict(t) \/ CheckPartition(t) \/ CommitWriter(t) \/ ValidateCommit(t) \/ Publish(t)
  BY <1>1, <1>8 DEF PartConflict, CheckPartition, CommitWriter, ValidateCommit, Publish
<1>9. CASE CommitReadOnly(t)
  BY <1>1, <1>9 DEF CommitReadOnly
<1>10. CASE SkipPartition(t)
  <2>1. PartEnd(t) \in 0 .. TxLen
    BY <1>1, <1>10, DrawnIs DEF SkipPartition
  <2> QED
    BY <1>1, <1>10, <2>1 DEF SkipPartition
<1> QED
  BY <1>2, <1>3, <1>4, <1>5, <1>6, <1>7, <1>8, <1>9, <1>10 DEF Step

----------------------------------------------------------------------------
(* The steps that matter to neither invariant. *)

LEMMA QuietSteps ==
  ASSUME TypeOK, NEW t \in Threads,
         \/ Draw(t) \/ PartConflict(t) \/ SkipPartition(t) \/ CheckPartition(t)
         \/ CommitWriter(t) \/ ValidateCommit(t) \/ Publish(t)
  PROVE  /\ Uncommitted(t)' <=> Uncommitted(t)
         /\ UNCHANGED <<wf, array, write_locks, undo_log, versions>>
<1> USE DEF TypeOK, Ring!TypeOK, ring, memory, Ring!Goto, Ring!filters, Uncommitted,
            Ring!CheckLabels, Ring!CommitLabels
<1>1. CASE Draw(t) \/ SkipPartition(t)
  BY <1>1 DEF Draw, SkipPartition
<1>2. CASE PartConflict(t) \/ CommitWriter(t)
  BY <1>2 DEF PartConflict, CommitWriter, Ring!Conflict, Ring!CommitWriter
<1>3. CASE CheckPartition(t)
  BY <1>3 DEF CheckPartition, Ring!CheckPartition, Ring!PartitionScan, Ring!Scan,
     Ring!PartitionAwait, Ring!AwaitComplete, Ring!PartitionRollover, Ring!Rollover
<1>4. CASE ValidateCommit(t)
  BY <1>4 DEF ValidateCommit, Ring!CommitTime, Ring!AwaitInit, Ring!CommitScan, Ring!Scan,
     Ring!CommitAwait, Ring!AwaitComplete, Ring!CommitRollover, Ring!Rollover, Ring!CasFails
<1>5. CASE Publish(t)
  BY <1>5 DEF Publish, Ring!Copy, Ring!SetInit, Ring!SetComplete
<1> QED
  BY <1>1, <1>2, <1>3, <1>4, <1>5

\* The labels and filters of the others.
LEMMA MovingSteps ==
  ASSUME TypeOK, NEW t \in Threads
  PROVE  /\ TmBegin(t) => ~Uncommitted(t) /\ wf' = wf
         /\ Partition(t) => /\ Uncommitted(t) /\ Uncommitted(t)'
                            /\ wf'[t] = wf[t] \cup PartWrites(t)
         /\ Undo(t) => Uncommitted(t) /\ Uncommitted(t)' /\ wf' = wf
         /\ TmAbort(t) => Uncommitted(t) /\ ~Uncommitted(t)' /\ wf'[t] = {}
         /\ CommitReadOnly(t) => ~Uncommitted(t)' /\ wf[t] = {} /\ wf'[t] = {}
         /\ CasSucceeds(t) => Uncommitted(t) /\ ~Uncommitted(t)' /\ wf' = wf
         /\ Release(t) => ~Uncommitted(t) /\ ~Uncommitted(t)' /\ wf'[t] = {}
<1> USE DEF TypeOK, Ring!TypeOK, ring, memory, Ring!Goto, Ring!filters, Uncommitted,
            Ring!CheckLabels, Ring!CommitLabels, Ring!FinishTx, Ring!ReadOnly
<1>1. TmBegin(t) => ~Uncommitted(t) /\ wf' = wf
  BY DEF TmBegin, Ring!Begin
<1>2. Partition(t) => /\ Uncommitted(t) /\ Uncommitted(t)' /\ wf'[t] = wf[t] \cup PartWrites(t)
  BY DEF Partition, Ring!PartitionWith
<1>3. Undo(t) => Uncommitted(t) /\ Uncommitted(t)' /\ wf' = wf
  BY DEF Undo
<1>4. TmAbort(t) => Uncommitted(t) /\ ~Uncommitted(t)' /\ wf'[t] = {}
  BY DEF TmAbort, Ring!Abort
<1>5. CommitReadOnly(t) => ~Uncommitted(t)' /\ wf[t] = {} /\ wf'[t] = {}
  BY DEF CommitReadOnly, Ring!CommitReadOnly
<1>6. CasSucceeds(t) => Uncommitted(t) /\ ~Uncommitted(t)' /\ wf' = wf
  BY DEF CasSucceeds, Ring!CasSucceeds
<1>7. Release(t) => ~Uncommitted(t) /\ ~Uncommitted(t)' /\ wf'[t] = {}
  BY DEF Release, Ring!Release
<1> QED
  BY <1>1, <1>2, <1>3, <1>4, <1>5, <1>6, <1>7

----------------------------------------------------------------------------
(* A transaction that runs has been drawn. *)

LEMMA StepPlanInv ==
  ASSUME TypeOK, PlanInv, NEW t \in Threads, Step(t)
  PROVE  PlanInv'
<1>1. TypeOK /\ PlanInv
  OBVIOUS
<1>2. ASSUME NEW u \in Threads, u # t, pc'[u] \notin {"begin", "done"} PROVE loc'[u] # NoLoc
  BY <1>1, <1>2, OthersKeep DEF PlanInv, Own
<1>3. pc'[t] \notin {"begin", "done"} => loc'[t] # NoLoc
  <2> USE DEF TypeOK, Ring!TypeOK, PlanInv, ring, memory, plan, Ring!Goto, Ring!FinishTx
  <2>1. CASE Draw(t) \/ Undo(t) \/ SkipPartition(t)
    BY <1>1, <2>1 DEF Draw, Undo, SkipPartition
  <2>2. CASE TmBegin(t) \/ TmAbort(t)
    BY <1>1, <2>2 DEF TmBegin, TmAbort, Ring!Begin, Ring!Abort
  <2>3. CASE Partition(t) \/ PartConflict(t) \/ CommitWriter(t)
    BY <1>1, <2>3 DEF Partition, PartConflict, CommitWriter, Ring!PartitionWith, Ring!Conflict,
       Ring!CommitWriter
  <2>4. CASE CheckPartition(t)
    BY <1>1, <2>4 DEF CheckPartition, Ring!CheckPartition, Ring!PartitionScan, Ring!Scan,
       Ring!PartitionAwait, Ring!AwaitComplete, Ring!PartitionRollover, Ring!Rollover
  <2>5. CASE ValidateCommit(t)
    BY <1>1, <2>5 DEF ValidateCommit, Ring!CommitTime, Ring!AwaitInit, Ring!CommitScan, Ring!Scan,
       Ring!CommitAwait, Ring!AwaitComplete, Ring!CommitRollover, Ring!Rollover, Ring!CasFails
  <2>6. CASE CasSucceeds(t) \/ Publish(t)
    BY <1>1, <2>6 DEF CasSucceeds, Publish, Ring!CasSucceeds, Ring!Copy, Ring!SetInit,
       Ring!SetComplete
  <2>7. CASE CommitReadOnly(t) \/ Release(t)
    BY <1>1, <2>7 DEF CommitReadOnly, Release, Ring!CommitReadOnly, Ring!Release
  <2> QED
    BY <2>1, <2>2, <2>3, <2>4, <2>5, <2>6, <2>7 DEF Step
<1> QED
  BY <1>2, <1>3 DEF PlanInv

----------------------------------------------------------------------------
(* The write locks. *)

LEMMA OthersLogs ==
  ASSUME TypeOK, NEW t \in Threads, Step(t), NEW u \in Threads, u # t
  PROVE  /\ wf'[u] = wf[u] /\ undo_log'[u] = undo_log[u]
         /\ Logged(u)' = Logged(u)
         /\ Uncommitted(u)' <=> Uncommitted(u)
  BY OthersKeep DEF Own, Logged, Uncommitted

LEMMA LoggedIsAddrs ==
  ASSUME NEW t \in Threads
  PROVE  Logged(t) = Addrs(undo_log[t]) /\ Logged(t)' = Addrs(undo_log'[t])
  BY DEF Logged, Addrs

\* What a partition and an undone write do to the log.
LEMMA PartitionLog ==
  ASSUME TypeOK, PlanInv, NEW t \in Threads, Partition(t)
  PROVE  /\ undo_log[t] \in Seq(LogEntries) /\ Part(t).log \in Seq(LogEntries)
         /\ undo_log'[t] = undo_log[t] \o Part(t).log
         /\ Logged(t)' = Logged(t) \cup Addrs(Part(t).log)
<1>1. undo_log[t] \in Seq(LogEntries) /\ undo_log'[t] = undo_log[t] \o Part(t).log
  BY DEF TypeOK, Partition
<1>2. Part(t).log \in Seq(LogEntries)
  BY PartTells DEF Partition, Ring!PartitionWith
<1>3. Addrs(undo_log[t] \o Part(t).log) = Addrs(undo_log[t]) \cup Addrs(Part(t).log)
  BY <1>1, <1>2, AddrsOfJoined DEF LogEntries
<1> QED
  BY <1>1, <1>2, <1>3, LoggedIsAddrs

LEMMA UndoLog ==
  ASSUME TypeOK, NEW t \in Threads, Undo(t)
  PROVE  /\ undo_log[t] \in Seq(LogEntries) /\ undo_log[t] # <<>>
         /\ undo_log'[t] = Front(undo_log[t])
         /\ array' = [array EXCEPT ![Last(undo_log[t]).addr] = Last(undo_log[t]).val]
         /\ Logged(t) = Logged(t)' \cup {Last(undo_log[t]).addr}
<1>1. undo_log[t] \in Seq(LogEntries) /\ undo_log[t] # <<>> /\ undo_log'[t] = Front(undo_log[t])
  BY DEF TypeOK, Undo
<1>2. Addrs(undo_log[t]) = Addrs(undo_log'[t]) \cup {Last(undo_log[t]).addr}
  BY <1>1, OldestOfFront DEF LogEntries
<1> QED
  BY <1>1, <1>2, LoggedIsAddrs DEF Undo

LEMMA StepLocks ==
  ASSUME TypeOK, PlanInv, NEW t \in Threads, Step(t), NEW S \in SUBSET Threads, Guarded(S)
  PROVE  Guarded(S)'
<1>1. TypeOK /\ PlanInv /\ Guarded(S)
  OBVIOUS
<1> DEFINE Others == Threads \ {t}
           Exclusive == \A u \in Others : wf'[t] \cap wf[u] = {}
           Kept == wf'[t] \subseteq write_locks' /\ \A u \in Others : wf[u] \subseteq write_locks'
           Covered == \A a \in Addresses : t \in S /\ Uncommitted(t)' /\ a \in Logged(t)' => hash(a) \in wf'[t]
<1>2. ASSUME Exclusive, Kept, Covered PROVE Guarded(S)'
  <2>1. \A u \in Others : /\ wf'[u] = wf[u] /\ Logged(u)' = Logged(u)
                          /\ Uncommitted(u)' <=> Uncommitted(u)
    BY <1>1, OthersLogs
  <2>2. \A u, v \in Threads : u # v => wf'[u] \cap wf'[v] = {}
    BY <1>1, <1>2, <2>1 DEF Guarded
  <2>3. \A u \in Threads : wf'[u] \subseteq write_locks'
    BY <1>2, <2>1
  <2>4. \A u \in S, a \in Addresses : Uncommitted(u)' /\ a \in Logged(u)' => hash(a) \in wf'[u]
    BY <1>1, <1>2, <2>1 DEF Guarded
  <2> HIDE DEF Exclusive, Kept, Covered
  <2>5. Addresses' = Addresses /\ \A a : hash(a)' = hash(a)
    BY DEF Addresses, hash
  <2> QED
    BY <2>2, <2>3, <2>4, <2>5 DEF Guarded
<1>3. CASE \/ Draw(t) \/ PartConflict(t) \/ SkipPartition(t) \/ CheckPartition(t)
           \/ CommitWriter(t) \/ ValidateCommit(t) \/ Publish(t)
  <2>1. /\ Uncommitted(t)' <=> Uncommitted(t)
        /\ UNCHANGED <<wf, array, write_locks, undo_log, versions>>
    BY <1>1, <1>3, QuietSteps
  <2>2. Logged(t)' = Logged(t)
    BY <2>1 DEF Logged
  <2> QED
    BY <1>1, <1>2, <2>1, <2>2 DEF Guarded
<1>4. CASE TmBegin(t)
  <2>1. wf' = wf /\ UNCHANGED write_locks /\ undo_log'[t] = <<>>
    BY <1>1, <1>4, MovingSteps DEF TmBegin, TypeOK
  <2>2. Logged(t)' = {}
    BY <2>1, LoggedIsAddrs DEF Addrs
  <2> QED
    BY <1>1, <1>2, <2>1, <2>2 DEF Guarded
<1>5. CASE Partition(t)
  <2>1. wf'[t] = wf[t] \cup PartWrites(t) /\ Uncommitted(t)
    BY <1>1, <1>5, MovingSteps
  <2>2. write_locks' = write_locks \cup PartWrites(t)
    BY <1>5 DEF Partition
  <2>3. PartWrites(t) \cap (write_locks \ wf[t]) = {}
    BY <1>5 DEF Partition, Conflicting, OthersLocks
  <2>4. Exclusive
    BY <1>1, <2>1, <2>3 DEF Guarded
  <2>5. Kept
    BY <1>1, <2>1, <2>2 DEF Guarded
  <2>6. ASSUME t \in S, NEW a \in Addresses, a \in Logged(t)' PROVE hash(a) \in wf'[t]
    <3>1. a \in Logged(t) \/ a \in Addrs(Part(t).log)
      BY <1>1, <1>5, <2>6, PartitionLog
    <3>2. a \in Logged(t) => hash(a) \in wf[t]
      BY <1>1, <2>1, <2>6 DEF Guarded
    <3>3. a \in Addrs(Part(t).log) => hash(a) \in PartWrites(t)
      BY <1>1, <1>5, PartTells DEF Partition, Ring!PartitionWith
    <3> QED
      BY <2>1, <3>1, <3>2, <3>3
  <2> QED
    BY <1>2, <2>4, <2>5, <2>6
<1>6. CASE Undo(t)
  <2>1. wf' = wf /\ Uncommitted(t) /\ UNCHANGED write_locks
    BY <1>1, <1>6, MovingSteps DEF Undo
  <2>2. Logged(t)' \subseteq Logged(t)
    BY <1>1, <1>6, UndoLog
  <2> QED
    BY <1>1, <1>2, <2>1, <2>2 DEF Guarded
<1>7. CASE TmAbort(t) \/ Release(t)
  <2>1. wf'[t] = {} /\ ~Uncommitted(t)' /\ write_locks' = write_locks \ wf[t]
    BY <1>1, <1>7, MovingSteps DEF TmAbort, Release
  <2> QED
    BY <1>1, <1>2, <2>1 DEF Guarded
<1>8. CASE CommitReadOnly(t)
  <2>1. wf'[t] = {} /\ ~Uncommitted(t)' /\ UNCHANGED write_locks
    BY <1>1, <1>8, MovingSteps DEF CommitReadOnly, memory
  <2> QED
    BY <1>1, <1>2, <2>1 DEF Guarded
<1>9. CASE CasSucceeds(t)
  <2>1. wf' = wf /\ ~Uncommitted(t)' /\ UNCHANGED write_locks
    BY <1>1, <1>9, MovingSteps DEF CasSucceeds, memory
  <2> QED
    BY <1>1, <1>2, <2>1 DEF Guarded
<1> QED
  BY <1>3, <1>4, <1>5, <1>6, <1>7, <1>8, <1>9 DEF Step

----------------------------------------------------------------------------
(* The committed memory. *)

LEMMA StepIntact ==
  ASSUME IInv, NEW t \in Threads, Step(t)
  PROVE  IntactInv'
<1>1. TypeOK /\ PlanInv /\ LocksAreExclusive /\ IntactInv
  BY DEF IInv
<1>2. \A u \in Threads \ {t} : /\ wf'[u] = wf[u] /\ undo_log'[u] = undo_log[u]
                               /\ Logged(u)' = Logged(u)
                               /\ Uncommitted(u)' <=> Uncommitted(u)
  BY <1>1, OthersLogs
<1> DEFINE Restored(a) ==
             \A u \in Threads : Uncommitted(u) /\ a \in Logged(u) =>
               Last(versions)[a] = Oldest(undo_log[u], a)
           Unwritten(a) ==
             (\A u \in Threads : Uncommitted(u) => a \notin Logged(u)) =>
               Last(versions)[a] = array[a]
<1>3. \A a \in Addresses : Restored(a) /\ Unwritten(a)
  BY <1>1 DEF IntactInv
<1>4. ASSUME \A a \in Addresses : Restored(a)' /\ Unwritten(a)' PROVE IntactInv'
  <2>1. Addresses' = Addresses
    BY DEF Addresses
  <2> QED
    BY <1>4, <2>1 DEF IntactInv
\* Steps that change neither the memory nor what is uncommitted in it.
<1>5. ASSUME UNCHANGED <<array, versions>>,
             \A a \in Addresses : Uncommitted(t) /\ a \in Logged(t) <=> (Uncommitted(t) /\ a \in Logged(t))',
             Uncommitted(t)' => undo_log'[t] = undo_log[t] \/ Logged(t)' = {}
      PROVE  IntactInv'
  <2>1. ASSUME NEW a \in Addresses PROVE Restored(a)' /\ Unwritten(a)'
    <3>1. Restored(a) /\ Unwritten(a)
      BY <1>3
    <3>2. Restored(a)'
      BY <1>2, <1>5, <3>1
    <3>3. Unwritten(a)'
      BY <1>2, <1>5, <3>1
    <3> QED
      BY <3>2, <3>3
  <2> HIDE DEF Restored, Unwritten
  <2> QED
    BY <1>4, <2>1
<1>6. CASE \/ Draw(t) \/ PartConflict(t) \/ SkipPartition(t) \/ CheckPartition(t)
           \/ CommitWriter(t) \/ ValidateCommit(t) \/ Publish(t)
  <2>1. /\ Uncommitted(t)' <=> Uncommitted(t)
        /\ UNCHANGED <<wf, array, write_locks, undo_log, versions>>
    BY <1>1, <1>6, QuietSteps
  <2>2. Logged(t)' = Logged(t)
    BY <2>1 DEF Logged
  <2> HIDE DEF Restored, Unwritten
  <2> QED
    BY <1>5, <2>1, <2>2
<1>7. CASE TmBegin(t)
  <2>1. ~Uncommitted(t) /\ UNCHANGED <<array, versions>> /\ undo_log'[t] = <<>>
    BY <1>1, <1>7, MovingSteps DEF TmBegin, TypeOK
  <2>2. Logged(t)' = {}
    BY <2>1, LoggedIsAddrs DEF Addrs
  <2> HIDE DEF Restored, Unwritten
  <2> QED
    BY <1>5, <2>1, <2>2
<1>8. CASE TmAbort(t)
  <2>1. ~Uncommitted(t)' /\ UNCHANGED <<array, versions>> /\ undo_log[t] = <<>>
    BY <1>1, <1>8, MovingSteps DEF TmAbort
  <2>2. Logged(t) = {}
    BY <2>1, LoggedIsAddrs DEF Addrs
  <2> HIDE DEF Restored, Unwritten
  <2> QED
    BY <1>5, <2>1, <2>2
<1>9. CASE CommitReadOnly(t)
  <2>1. ~Uncommitted(t)' /\ UNCHANGED <<array, versions>> /\ wf[t] = {}
    BY <1>1, <1>9, MovingSteps DEF CommitReadOnly, memory
  <2>2. \A a \in Addresses : ~(Uncommitted(t) /\ a \in Logged(t))
    BY <1>1, <2>1 DEF LocksAreExclusive
  <2> HIDE DEF Restored, Unwritten
  <2> QED
    BY <1>5, <2>1, <2>2
<1>10. CASE Release(t)
  <2>1. ~Uncommitted(t) /\ ~Uncommitted(t)' /\ UNCHANGED <<array, versions>>
    BY <1>1, <1>10, MovingSteps DEF Release
  <2> HIDE DEF Restored, Unwritten
  <2> QED
    BY <1>5, <2>1
<1>11. CASE CasSucceeds(t)
  <2> DEFINE S == {u \in Threads \ {t} : Uncommitted(u)}
             W == WithoutWritesOf(S)
  <2>1. /\ ~Uncommitted(t)' /\ UNCHANGED <<array, undo_log>> /\ versions' = Append(versions, W)
    BY <1>1, <1>11, MovingSteps DEF CasSucceeds, memory
  <2>2. /\ W \in [Addresses -> Int]
        /\ \A a \in Addresses : \A u \in S : a \in Logged(u) => W[a] = Oldest(undo_log[u], a)
        /\ \A a \in Addresses : (\A u \in S : a \notin Logged(u)) => W[a] = array[a]
    <3>1. S \in SUBSET {u \in Threads : Uncommitted(u)}
      OBVIOUS
    <3> HIDE DEF S
    <3> QED
      BY <1>1, <3>1, WithoutWrites
  <2>3. S = {u \in Threads : Uncommitted(u)'}
    BY <1>2, <2>1
  <2> HIDE DEF W
  <2>4. Last(versions') = W
    BY <1>1, <2>1, <2>2 DEF TypeOK, Last
  <2>5. ASSUME NEW a \in Addresses PROVE Restored(a)' /\ Unwritten(a)'
    <3>1. ASSUME NEW u \in Threads, Uncommitted(u)', a \in Logged(u)'
          PROVE  Last(versions')[a] = Oldest(undo_log'[u], a)
      <4>1. u \in S /\ a \in Logged(u)
        BY <1>2, <2>1, <2>3, <3>1
      <4> QED
        BY <2>1, <2>2, <2>4, <4>1
    <3>2. ASSUME \A u \in Threads : Uncommitted(u)' => a \notin Logged(u)'
          PROVE  Last(versions')[a] = array'[a]
      <4>1. \A u \in S : a \notin Logged(u)
        BY <1>2, <2>3, <3>2
      <4> QED
        BY <2>1, <2>2, <2>4, <4>1
    <3> QED
      BY <3>1, <3>2
  <2> HIDE DEF Restored, Unwritten
  <2> QED
    BY <1>4, <2>5
<1>12. CASE Partition(t)
  <2>1. /\ Uncommitted(t) /\ Uncommitted(t)' /\ UNCHANGED versions
        /\ pc[t] = "run" /\ array' = Part(t).array
    BY <1>1, <1>12, MovingSteps DEF Partition, Ring!PartitionWith
  <2>2. /\ undo_log[t] \in Seq(LogEntries) /\ Part(t).log \in Seq(LogEntries)
        /\ undo_log'[t] = undo_log[t] \o Part(t).log
        /\ Logged(t)' = Logged(t) \cup Addrs(Part(t).log)
    BY <1>1, <1>12, PartitionLog
  <2>3. \A a \in Addresses :
          /\ a \in Addrs(Part(t).log) =>
               hash(a) \in PartWrites(t) /\ Oldest(Part(t).log, a) = array[a]
          /\ a \notin Addrs(Part(t).log) => array'[a] = array[a]
    BY <1>1, <2>1, PartTells
  <2>4. ASSUME NEW a \in Addresses, a \in Logged(t)
        PROVE  Oldest(undo_log'[t], a) = Oldest(undo_log[t], a)
    <3>1. a \in Addrs(undo_log[t])
      BY <2>4, LoggedIsAddrs
    <3>2. \A log, added \in Seq(LogEntries) : \A b \in Addrs(log) :
            Oldest(log \o added, b) = Oldest(log, b)
      BY OldestOfLonger DEF LogEntries
    <3> QED
      BY <2>2, <3>1, <3>2
  <2>5. ASSUME NEW a \in Addresses, a \notin Logged(t), a \in Addrs(Part(t).log)
        PROVE  Oldest(undo_log'[t], a) = array[a]
    <3>1. a \notin Addrs(undo_log[t])
      BY <2>5, LoggedIsAddrs
    <3>2. \A log, added \in Seq(LogEntries) : \A b \in Addrs(added) \ Addrs(log) :
            Oldest(log \o added, b) = Oldest(added, b)
      BY OldestOfJoined DEF LogEntries
    <3> QED
      BY <2>2, <2>3, <2>5, <3>1, <3>2
  \* What the partition writes, no other transaction has written.
  <2>6. ASSUME NEW a \in Addresses, a \in Addrs(Part(t).log), NEW u \in Threads \ {t}, Uncommitted(u)
        PROVE  a \notin Logged(u)
    <3>1. hash(a) \in PartWrites(t)
      BY <2>3, <2>6
    <3>2. hash(a) \notin write_locks \ wf[t]
      BY <1>12, <3>1 DEF Partition, Conflicting, OthersLocks
    <3> QED
      BY <1>1, <2>6, <3>2 DEF LocksAreExclusive
  <2>7. ASSUME NEW a \in Addresses PROVE Restored(a)' /\ Unwritten(a)'
    <3>1. Restored(a) /\ Unwritten(a)
      BY <1>3
    <3>2. CASE a \notin Addrs(Part(t).log)
      <4>1. a \in Logged(t)' <=> a \in Logged(t)
        BY <2>2, <3>2
      <4>2. Restored(a)'
        BY <1>2, <2>1, <2>4, <3>1, <4>1
      <4>3. Unwritten(a)'
        BY <1>2, <2>1, <2>3, <3>1, <3>2, <4>1
      <4> QED
        BY <4>2, <4>3
    <3>3. CASE a \in Addrs(Part(t).log)
      <4>1. a \in Logged(t)' /\ \A u \in Threads \ {t} : Uncommitted(u) => a \notin Logged(u)
        BY <2>2, <2>6, <3>3
      <4>2. Last(versions)[a] = Oldest(undo_log'[t], a)
        <5>1. CASE a \in Logged(t)
          BY <2>1, <2>4, <3>1, <5>1
        <5>2. CASE a \notin Logged(t)
          BY <2>5, <3>1, <3>3, <4>1, <5>2
        <5> QED
          BY <5>1, <5>2
      <4>3. Restored(a)'
        BY <1>2, <2>1, <4>1, <4>2
      <4>4. Unwritten(a)'
        BY <2>1, <4>1
      <4> QED
        BY <4>3, <4>4
    <3> QED
      BY <3>2, <3>3
  <2> HIDE DEF Restored, Unwritten
  <2> QED
    BY <1>4, <2>7
<1>13. CASE Undo(t)
  <2> DEFINE log == undo_log[t]
             e == Last(log)
  <2>1. Uncommitted(t) /\ Uncommitted(t)' /\ UNCHANGED versions
    BY <1>1, <1>13, MovingSteps DEF Undo
  <2>2. /\ log \in Seq(LogEntries) /\ log # <<>> /\ undo_log'[t] = Front(log)
        /\ array' = [array EXCEPT ![e.addr] = e.val]
        /\ Logged(t) = Logged(t)' \cup {e.addr}
    BY <1>1, <1>13, UndoLog
  <2>3. /\ e \in LogEntries
        /\ \A a \in Logged(t)' : Oldest(undo_log'[t], a) = Oldest(log, a)
        /\ \A a \in Logged(t) \ Logged(t)' : Oldest(log, a) = e.val
    BY <2>2, LoggedIsAddrs, OldestOfFront DEF LogEntries
  <2> HIDE DEF log, e
  <2>4. ASSUME NEW a \in Addresses PROVE Restored(a)' /\ Unwritten(a)'
    <3>1. Restored(a) /\ Unwritten(a)
      BY <1>3
    <3>2. /\ a # e.addr => array'[a] = array[a]
          /\ a = e.addr => array'[a] = e.val
      BY <1>1, <2>2 DEF TypeOK
    <3>3. a \in Logged(t) => Last(versions)[a] = Oldest(log, a)
      BY <2>1, <3>1 DEF log
    <3>4. Restored(a)'
      BY <1>2, <2>1, <2>2, <2>3, <3>1, <3>3
    <3>5. ASSUME \A u \in Threads : Uncommitted(u)' => a \notin Logged(u)'
          PROVE  Last(versions')[a] = array'[a]
      <4>1. a \notin Logged(t)' /\ \A u \in Threads \ {t} : Uncommitted(u) => a \notin Logged(u)
        BY <1>2, <2>1, <3>5
      <4>2. CASE a = e.addr
        BY <2>1, <2>2, <2>3, <3>2, <3>3, <4>1, <4>2
      <4>3. CASE a # e.addr
        <5>1. a \notin Logged(t)
          BY <2>2, <4>1, <4>3
        <5>2. Last(versions)[a] = array[a]
          BY <3>1, <4>1, <5>1
        <5> QED
          BY <2>1, <3>2, <4>3, <5>2
      <4> QED
        BY <4>2, <4>3
    <3> QED
      BY <3>4, <3>5
  <2> HIDE DEF Restored, Unwritten
  <2> QED
    BY <1>4, <2>4
<1> HIDE DEF Restored, Unwritten
<1> QED
  BY <1>6, <1>7, <1>8, <1>9, <1>10, <1>11, <1>12, <1>13 DEF Step

----------------------------------------------------------------------------
(* The invariant and the theorems. *)

LEMMA InitIInv == Init => IInv
<1> SUFFICES ASSUME Init PROVE IInv
  OBVIOUS
<1>1. Ring!TypeOK
  BY RingInitTypes DEF Init
<1>2. Memory \in [Addresses -> Int]
  BY OpeningAssumption DEF Memory
<1>3. TypeOK
  BY <1>1, <1>2, SizesAssumption DEF Init, TypeOK
<1>4. \A t \in Threads : wf[t] = {} /\ pc[t] = "begin" /\ ~Uncommitted(t)
  BY DEF Init, Ring!Init, Uncommitted, Ring!CheckLabels, Ring!CommitLabels
<1>5. PlanInv
  BY <1>4 DEF PlanInv
<1>6. LocksAreExclusive
  BY <1>4 DEF LocksAreExclusive
<1>7. Last(versions) = array
  BY DEF Init, Last
<1>8. IntactInv
  BY <1>4, <1>7 DEF IntactInv
<1> QED
  BY <1>3, <1>5, <1>6, <1>8 DEF IInv

LEMMA NextIInv == IInv /\ [Next]_vars => IInv'
<1> SUFFICES ASSUME IInv, [Next]_vars PROVE IInv'
  OBVIOUS
<1>1. Ring!TypeOK'
  BY StepIsRingStep, RingNextTypes DEF IInv, TypeOK
<1>2. ASSUME NEW t \in Threads, Step(t) PROVE IInv'
  <2>1. Guarded(Threads)'
    BY <1>2, StepLocks, AllGuarded DEF IInv
  <2>2. LocksAreExclusive'
    BY <2>1 DEF Guarded, LocksAreExclusive
  <2> QED
    BY <1>2, <2>2, StepTypes, StepPlanInv, StepIntact DEF IInv
<1>3. CASE UNCHANGED vars
  <2>1. TypeOK'
    BY <1>1, <1>3 DEF IInv, TypeOK, vars, memory, plan
  <2>2. PlanInv'
    BY <1>3 DEF IInv, PlanInv, vars, ring, plan
  <2>3. LocksAreExclusive'
    BY <1>3 DEF IInv, LocksAreExclusive, Uncommitted, Logged, Addresses, hash, vars, ring, memory
  <2>4. IntactInv'
    BY <1>3 DEF IInv, IntactInv, Uncommitted, Logged, Addresses, vars, ring, memory
  <2> QED
    BY <2>1, <2>2, <2>3, <2>4 DEF IInv
<1> QED
  BY <1>2, <1>3 DEF Next, Joined

(* Types, a plan for every transaction that runs, exclusive locks and a    *)
(* committed memory that undoing restores.                                 *)
THEOREM IInvHolds == Spec => []IInv
  BY InitIInv, NextIInv, PTL DEF Spec

(* Every variable of Part-HTM keeps its type. *)
THEOREM TypeCorrect == Spec => []TypeOK
<1>1. IInv => TypeOK
  BY DEF IInv
<1> QED
  BY <1>1, IInvHolds, PTL

(* The write locks are locks: no element a transaction has written, or may *)
(* have to restore, is locked by another.                                  *)
THEOREM LocksExclude == Spec => []LocksAreExclusive
<1>1. IInv => LocksAreExclusive
  BY DEF IInv
<1> QED
  BY <1>1, IInvHolds, PTL

(* Undoing restores: at any moment the committed memory is the array with  *)
(* the writes of the unfinished transactions undone.                       *)
THEOREM UndoingRestores == Spec => []CommittedStateIntact
<1>1. IInv => CommittedStateIntact
  <2> SUFFICES ASSUME IInv PROVE CommittedStateIntact
    OBVIOUS
  <2> DEFINE S == {t \in Threads : Uncommitted(t)}
             W == WithoutWritesOf(S)
  <2>1. /\ W \in [Addresses -> Int]
        /\ \A a \in Addresses : \A t \in S : a \in Logged(t) => W[a] = Oldest(undo_log[t], a)
        /\ \A a \in Addresses : (\A t \in S : a \notin Logged(t)) => W[a] = array[a]
    BY WithoutWrites DEF IInv
  <2>2. versions \in Seq([Addresses -> Int]) /\ versions # <<>>
    BY DEF IInv, TypeOK
  <2>3. Last(versions) \in [Addresses -> Int]
    BY <2>2 DEF Last
  <2> HIDE DEF W
  <2>4. ASSUME NEW a \in Addresses PROVE W[a] = Last(versions)[a]
    BY <2>1 DEF IInv, IntactInv
  <2>5. W = Last(versions)
    BY <2>1, <2>3, <2>4
  <2> QED
    BY <2>5 DEF CommittedStateIntact, W
<1> QED
  BY <1>1, IInvHolds, PTL

(* Part-HTM implements its commit ring: what a transaction does to memory, *)
(* locks and log never takes the ring where CommitRing does not go.        *)
THEOREM ImplementsRing == Spec => Ring!Spec
<1>1. Init => Ring!Init
  BY DEF Init
<1>2. IInv /\ [Next]_vars => [Ring!Next]_(Ring!vars)
  BY StepIsRingStep DEF IInv
<1> QED
  BY <1>1, <1>2, IInvHolds, PTL DEF Spec, Ring!Spec

(* So the commits of Part-HTM are serial, and each is on current reads. *)
THEOREM CommitsOnCurrentReads == Spec => []Ring!OneCommitter /\ Ring!ReadsStayValid
<1>1. Ring!Spec => RingProofs!Spec
  BY SameInit, SameNext, PTL DEF Ring!Spec, RingProofs!Spec
<1>2. RingProofs!Spec => []RingProofs!OneCommitter
  BY RingSizes, RingProofs!CommitsAreSerial
<1>3. RingProofs!Spec => RingProofs!ReadsStayValid
  BY RingSizes, RingProofs!WritersCommitOnCurrentReads
<1>4. RingProofs!ReadsStayValid => Ring!ReadsStayValid
  BY DEF Ring!ReadsStayValid, RingProofs!ReadsStayValid, Ring!vars, RingProofs!vars,
     Ring!counters, RingProofs!counters, Ring!filters, RingProofs!filters,
     Ring!scan, RingProofs!scan
<1> QED
  BY <1>1, <1>2, <1>3, <1>4, ImplementsRing, SameCommitter, PTL

----------------------------------------------------------------------------
----------------------------------------------------------------------------
(* The refinement of SerialHistory: the memories and plans it speaks of. *)

Jobs == [1 .. Executed -> Pairs]

LEMMA JobPlace ==
  ASSUME NEW j \in Jobs, NEW n \in 1 .. Executed
  PROVE  j[n] \in Pairs /\ j[n].from \in Addresses /\ j[n].to \in Addresses
  BY PairsAssumption DEF Jobs

\* The job of a transaction is the transfers of its first partition.
LEMMA DrawnJob ==
  ASSUME NEW t \in Threads, Drawn(t)
  PROVE  /\ Job(t) \in Jobs /\ Job(t) # NoLoc
         /\ \A n \in 1 .. Executed : Job(t)[n] = loc[t][n] /\ n \in 1 .. TxLen
<1>1. Executed \in 1 .. TxLen /\ TxLen \in Nat /\ Executed \in Nat \ {0}
  BY ExecutedPlace
<1>2. \A n \in 1 .. Executed : n \in 1 .. TxLen /\ loc[t][n] \in Pairs
  BY <1>1 DEF Drawn
<1>3. Job(t) \in Jobs
  BY <1>2 DEF Job, Jobs
<1>4. 1 \in DOMAIN Job(t)
  BY <1>1 DEF Job
<1>5. Job(t) # NoLoc
  BY <1>4 DEF NoLoc
<1> QED
  BY <1>2, <1>3, <1>5 DEF Job

----------------------------------------------------------------------------
(* What a transaction makes of a memory, transfer by transfer. *)

\* The values After defines by recursion.
LEMMA AfterSteps ==
  ASSUME NEW j \in Jobs, NEW m \in Memories
  PROVE  /\ Serial!After(j, m) \in [0 .. Executed -> Memories]
         /\ Serial!After(j, m)[0] = m
         /\ \A n \in 0 .. Executed - 1 :
              Serial!After(j, m)[n + 1] = Serial!Transfer(Serial!After(j, m)[n], j[n + 1])
<1>0. Executed \in Nat
  BY ExecutedPlace
<1> DEFINE T(x, n) == Serial!Transfer(x, j[n])
           G == [p \in Nat \X Memories |-> IF p[1] < Executed THEN T(p[2], p[1] + 1) ELSE p[2]]
           Is(c) == c = [n \in 0 .. Executed |-> IF n = 0 THEN m ELSE T(c[n - 1], n)]
<1>1. \A x \in Memories, n \in 1 .. Executed : T(x, n) \in Memories
  BY JobPlace, TransferEffect
<1> HIDE DEF T
<1>2. G \in [Nat \X Memories -> Memories]
  BY <1>0, <1>1
<1>3. PICK h \in [Nat -> Memories] : h[0] = m /\ \A n \in Nat : h[n + 1] = G[<<n, h[n]>>]
  <2> HIDE DEF G
  <2> DEFINE P(S) == \A b \in S : \A F \in [Nat \X S -> S] :
                       \E f \in [Nat -> S] : f[0] = b /\ \A n \in Nat : f[n + 1] = F[<<n, f[n]>>]
  <2>1. \A S : P(S)
    BY Recursion
  <2>2. P(Memories)
    <3> HIDE DEF P
    <3> QED
      BY <2>1
  <2> QED
    BY <1>2, <2>2
<1>4. ASSUME NEW n \in 0 .. Executed - 1 PROVE h[n + 1] = T(h[n], n + 1)
  <2>1. n \in Nat /\ <<n, h[n]>> \in Nat \X Memories /\ n < Executed
    BY <1>0
  <2>2. G[<<n, h[n]>>] = T(h[n], n + 1)
    BY <2>1
  <2> HIDE DEF G
  <2> QED
    BY <1>3, <2>1, <2>2
<1> HIDE DEF G
<1> DEFINE c == [n \in 0 .. Executed |-> h[n]]
<1>5. Is(c)
  <2>1. \A n \in 0 .. Executed : c[n] = IF n = 0 THEN m ELSE T(c[n - 1], n)
    <3> SUFFICES ASSUME NEW n \in 0 .. Executed, n # 0 PROVE c[n] = T(c[n - 1], n)
      BY <1>3
    <3>1. n - 1 \in 0 .. Executed - 1 /\ (n - 1) + 1 = n /\ n - 1 \in 0 .. Executed
      BY <1>0
    <3>2. h[(n - 1) + 1] = T(h[n - 1], (n - 1) + 1)
      BY <1>4, <3>1
    <3> QED
      BY <3>1, <3>2
  <2> QED
    BY <2>1
<1> HIDE DEF c
<1> DEFINE d == CHOOSE x : Is(x)
<1>6. Is(d)
  BY <1>5
<1>7. Serial!After(j, m) = d
  BY DEF Serial!After, T
<1> HIDE DEF d
<1>8. d[0] = m
  BY <1>0, <1>6
<1>9. ASSUME NEW n \in 0 .. Executed - 1 PROVE d[n + 1] = T(d[n], n + 1)
  <2>1. n + 1 \in 0 .. Executed /\ n + 1 # 0 /\ (n + 1) - 1 = n
    BY <1>0
  <2> QED
    BY <1>6, <2>1
<1>10. d \in [0 .. Executed -> Memories]
  <2> DEFINE Good == {n \in Nat : n <= Executed => d[n] \in Memories}
  <2>1. 0 \in Good
    BY <1>8
  <2>2. ASSUME NEW n \in Nat, n \in Good PROVE n + 1 \in Good
    <3> SUFFICES ASSUME n + 1 <= Executed PROVE d[n + 1] \in Memories
      OBVIOUS
    <3>1. n \in 0 .. Executed - 1 /\ n + 1 \in 1 .. Executed /\ d[n] \in Memories
      BY <1>0, <2>2
    <3> HIDE DEF Good
    <3> QED
      BY <1>1, <1>9, <3>1
  <2>3. Nat \subseteq Good
    <3> HIDE DEF Good
    <3> QED
      BY <2>1, <2>2, Induct
  <2>4. \A n \in 0 .. Executed : d[n] \in Memories
    BY <2>3
  <2>5. d = [n \in 0 .. Executed |-> d[n]]
    BY <1>6
  <2> QED
    BY <2>4, <2>5
<1> QED
  BY <1>7, <1>8, <1>9, <1>10 DEF T

\* Where nothing is above the limit a transaction leaves the memory as it is.
Idle(j, m, N) == \A n \in 1 .. N : m[j[n].from] <= Limit

LEMMA IdleRun ==
  ASSUME NEW j \in Jobs, NEW m \in Memories, Idle(j, m, Executed)
  PROVE  Serial!Run(j, m) = m
<1>0. Executed \in Nat
  BY ExecutedPlace
<1> DEFINE s == Serial!After(j, m)
           Good == {n \in Nat : n <= Executed => s[n] = m}
<1>1. s[0] = m /\ \A n \in 0 .. Executed - 1 : s[n + 1] = Serial!Transfer(s[n], j[n + 1])
  BY AfterSteps
<1> HIDE DEF s
<1>2. 0 \in Good
  BY <1>1
<1>3. ASSUME NEW n \in Nat, n \in Good PROVE n + 1 \in Good
  <2> SUFFICES ASSUME n + 1 <= Executed PROVE s[n + 1] = m
    OBVIOUS
  <2>1. n \in 0 .. Executed - 1 /\ n + 1 \in 1 .. Executed /\ s[n] = m
    BY <1>0, <1>3
  <2>2. m[j[n + 1].from] <= Limit /\ m[j[n + 1].from] \in Int
    BY <2>1, JobPlace DEF Idle, Memories
  <2>3. Serial!Transfer(m, j[n + 1]) = m
    <3>1. ~(m[j[n + 1].from] > Limit)
      BY <2>2 DEF Limit
    <3> QED
      BY <2>1, <3>1, JobPlace, TransferEffect
  <2> QED
    BY <1>1, <2>1, <2>3
<1>4. Nat \subseteq Good
  <2> HIDE DEF Good
  <2> QED
    BY <1>2, <1>3, Induct
<1> QED
  BY <1>0, <1>4 DEF Serial!Run, s

\* Memories that agree on the elements with a bit in D, where the first N
\* transfers of j read and write nothing else.
Alike(j, m, w, D, N) ==
  /\ \A a \in Addresses : hash(a) \in D => m[a] = w[a]
  /\ \A n \in 1 .. N : hash(j[n].from) \in D
  /\ \A n \in 1 .. N : Serial!After(j, m)[n - 1][j[n].from] > Limit =>
                         {hash(j[n].from), hash(j[n].to)} \subseteq D

LEMMA Agreement ==
  ASSUME NEW j \in Jobs, NEW m \in Memories, NEW w \in Memories, NEW D, NEW N \in 0 .. Executed,
         Alike(j, m, w, D, N)
  PROVE  \A n \in 0 .. N : \A a \in Addresses :
           Serial!After(j, w)[n][a] = IF hash(a) \in D THEN Serial!After(j, m)[n][a] ELSE w[a]
<1>0. Executed \in Nat
  BY ExecutedPlace
<1> DEFINE s == Serial!After(j, m)
           r == Serial!After(j, w)
           Same(n) == \A a \in Addresses : r[n][a] = IF hash(a) \in D THEN s[n][a] ELSE w[a]
           Good == {n \in Nat : n <= N => Same(n)}
<1>1. /\ s \in [0 .. Executed -> Memories] /\ s[0] = m
      /\ \A n \in 0 .. Executed - 1 : s[n + 1] = Serial!Transfer(s[n], j[n + 1])
  BY AfterSteps
<1>2. /\ r \in [0 .. Executed -> Memories] /\ r[0] = w
      /\ \A n \in 0 .. Executed - 1 : r[n + 1] = Serial!Transfer(r[n], j[n + 1])
  BY AfterSteps
<1>3. /\ \A a \in Addresses : hash(a) \in D => m[a] = w[a]
      /\ \A n \in 1 .. N : hash(j[n].from) \in D
      /\ \A n \in 1 .. N : s[n - 1][j[n].from] > Limit =>
                             hash(j[n].from) \in D /\ hash(j[n].to) \in D
  BY DEF Alike
<1> HIDE DEF s, r
<1>4. 0 \in Good
  BY <1>1, <1>2, <1>3
<1>5. ASSUME NEW n \in Nat, n \in Good PROVE n + 1 \in Good
  <2> SUFFICES ASSUME n + 1 <= N PROVE Same(n + 1)
    OBVIOUS
  <2> DEFINE p == j[n + 1]
             x == s[n]
             y == r[n]
  <2>1. n \in 0 .. Executed - 1 /\ n \in 0 .. Executed /\ n + 1 \in 1 .. N /\ n + 1 \in 1 .. Executed
        /\ (n + 1) - 1 = n
    BY <1>0
  <2>2. x \in Memories /\ y \in Memories /\ p.from \in Addresses /\ p.to \in Addresses
    BY <1>1, <1>2, <2>1, JobPlace
  <2>3. s[n + 1] = Serial!Transfer(x, p) /\ r[n + 1] = Serial!Transfer(y, p)
    BY <1>1, <1>2, <2>1
  <2>4. \A a \in Addresses : y[a] = IF hash(a) \in D THEN x[a] ELSE w[a]
    BY <1>5
  <2>5. hash(p.from) \in D /\ (x[p.from] > Limit => hash(p.to) \in D)
    BY <1>3, <2>1
  <2> HIDE DEF p, x, y
  <2>6. y[p.from] = x[p.from] /\ x[p.from] \in Int
    BY <2>2, <2>4, <2>5 DEF Memories
  <2>7. CASE x[p.from] > Limit
    <3>1. ASSUME NEW a \in Addresses
          PROVE  r[n + 1][a] = IF hash(a) \in D THEN s[n + 1][a] ELSE w[a]
      <4> DEFINE Change == (IF a = p.to THEN Amount ELSE 0) - (IF a = p.from THEN Amount ELSE 0)
      <4>1. x[a] \in Int /\ y[a] \in Int
        BY <2>2 DEF Memories
      <4>2. Serial!Transfer(x, p)[a] = x[a] + (IF a = p.to THEN Amount ELSE 0)
                                            - (IF a = p.from THEN Amount ELSE 0)
        BY <2>2, <2>7, TransferEffect
      <4>3. Serial!Transfer(y, p)[a] = y[a] + (IF a = p.to THEN Amount ELSE 0)
                                            - (IF a = p.from THEN Amount ELSE 0)
        BY <2>2, <2>6, <2>7, TransferEffect
      <4>4. CASE hash(a) \in D
        <5>1. y[a] = x[a]
          BY <2>4, <4>4
        <5> QED
          BY <2>3, <4>2, <4>3, <4>4, <5>1
      <4>5. CASE hash(a) \notin D
        <5>1. a # p.from /\ a # p.to
          BY <2>5, <2>7, <4>5
        <5>2. Serial!Transfer(y, p)[a] = y[a]
          BY <4>1, <4>3, <5>1
        <5> QED
          BY <2>3, <2>4, <4>5, <5>2
      <4> QED
        BY <4>4, <4>5
    <3> QED
      BY <3>1
  <2>8. CASE ~(x[p.from] > Limit)
    <3>1. Serial!Transfer(x, p) = x /\ Serial!Transfer(y, p) = y
      BY <2>2, <2>6, <2>8, TransferEffect
    <3> QED
      BY <2>3, <2>4, <3>1
  <2> QED
    BY <2>7, <2>8
<1>6. Nat \subseteq Good
  <2> HIDE DEF Good
  <2> QED
    BY <1>4, <1>5, Induct
<1>7. \A n \in 0 .. N : Same(n)
  BY <1>0, <1>6
<1> QED
  BY <1>7 DEF s, r

----------------------------------------------------------------------------
(* What is used of the ring's invariant. *)

RingFacts ==
  /\ timestamp \in Nat /\ last_complete \in Nat /\ last_init \in Nat
  /\ last_complete <= last_init /\ last_init <= timestamp /\ timestamp <= last_complete + 1
  /\ committed \in Seq(SUBSET Ring!Bits) /\ Len(committed) = timestamp
  /\ \A t \in Threads :
       /\ start_time[t] \in Nat /\ start_time[t] <= last_complete
       /\ pc[t] \in Ring!CheckLabels =>
            index[t] \in Nat /\ start_time[t] <= index[t] /\ index[t] <= last_init
       /\ pc[t] = "cas" => start_time[t] = index[t]
       /\ Ring!Publishing(t) => timestamp = index[t] + 1 /\ committed[timestamp] = wf[t]

LEMMA RingInvFacts == RingProofs!IInv => RingFacts
<1> SUFFICES ASSUME RingProofs!IInv PROVE RingFacts
  OBVIOUS
<1>1. /\ RingProofs!TypeOK /\ RingProofs!CountersInv /\ RingProofs!IndexInv
      /\ RingProofs!PublishInv
  BY DEF RingProofs!IInv
<1>2. Ring!TypeOK
  BY <1>1, SameTypes
<1> QED
  BY <1>1, <1>2 DEF RingFacts, Ring!TypeOK, RingProofs!CountersInv, RingProofs!IndexInv,
     RingProofs!PublishInv, RingProofs!CheckLabels, Ring!CheckLabels, Ring!Publishing,
     RingProofs!Publishing, Ring!PublishLabels, RingProofs!PublishLabels, Ring!Bits

\* A start_time moves only past commits that do no harm.
LEMMA StartMoves ==
  ASSUME TypeOK, PlanInv, RingProofs!IInv, [Next]_vars, NEW t \in Threads, pc[t] # "begin"
  PROVE  \A k \in start_time[t] + 1 .. start_time'[t] : committed[k] \cap rf[t] = {}
<1>1. [RingProofs!Next]_(RingProofs!vars)
  BY StepIsRingStep, SameNext
<1> QED
  BY <1>1, RingSizes, RingProofs!StartTimeMoves

----------------------------------------------------------------------------
(* Versions. *)

LEMMA VersionTypes ==
  ASSUME TypeOK, VersionsInv, RingFacts
  PROVE  /\ \A k \in 0 .. timestamp : versions[k + 1] \in Memories
         /\ Last(versions) = versions[timestamp + 1] /\ Last(versions) \in Memories
<1>1. versions \in Seq(Memories) /\ Len(versions) = timestamp + 1 /\ timestamp \in Nat
  BY DEF TypeOK, VersionsInv, RingFacts, Memories
<1>2. ASSUME NEW k \in 0 .. timestamp PROVE versions[k + 1] \in Memories
  <2>1. k + 1 \in 1 .. Len(versions)
    BY <1>1
  <2> QED
    BY <1>1, <2>1
<1>3. Last(versions) = versions[timestamp + 1]
  BY <1>1 DEF Last
<1> QED
  BY <1>1, <1>2, <1>3

\* What no commit in between has written is the same in two versions.
LEMMA VersionsAgree ==
  ASSUME TypeOK, VersionsInv, RingFacts, NEW a \in Addresses,
         NEW k \in 0 .. timestamp, NEW l \in k .. timestamp,
         \A c \in k + 1 .. l : hash(a) \notin committed[c]
  PROVE  versions[l + 1][a] = versions[k + 1][a]
<1>0. timestamp \in Nat
  BY DEF RingFacts
<1> DEFINE Good == {n \in Nat : k + n <= l => versions[k + n + 1][a] = versions[k + 1][a]}
<1>1. 0 \in Good
  BY <1>0
<1>2. ASSUME NEW n \in Nat, n \in Good PROVE n + 1 \in Good
  <2> SUFFICES ASSUME k + (n + 1) <= l
               PROVE  versions[k + (n + 1) + 1][a] = versions[k + 1][a]
    OBVIOUS
  <2> DEFINE c == k + (n + 1)
  <2>1. c \in 1 .. timestamp /\ c \in k + 1 .. l /\ k + n <= l /\ k + n + 1 = c
    BY <1>0
  <2>2. versions[c][a] = versions[k + 1][a]
    BY <1>2, <2>1
  <2>3. hash(a) \notin committed[c]
    BY <2>1
  <2> HIDE DEF c
  <2>4. versions[c + 1][a] = versions[c][a]
    BY <2>1, <2>3 DEF VersionsInv
  <2> QED
    BY <2>2, <2>4 DEF c
<1>3. Nat \subseteq Good
  <2> HIDE DEF Good
  <2> QED
    BY <1>1, <1>2, Induct
<1>4. l - k \in Nat /\ k + (l - k) = l
  BY <1>0
<1> QED
  BY <1>3, <1>4

----------------------------------------------------------------------------
(* What a step of one thread leaves to the others, and to itself. *)

Place(u) == <<pc[u], rf[u], wf[u], start_time[u], index[u], undo_log[u], loc[u], initial[u],
              more[u], since[u]>>

LEMMA OthersStay ==
  ASSUME TypeOK, NEW t \in Threads, Step(t), NEW u \in Threads, u # t
  PROVE  Place(u)' = Place(u)
<1> USE DEF Place, TypeOK, Ring!TypeOK, ring, memory, plan, Ring!Goto, Ring!filters, Ring!FinishTx,
            Ring!scan
<1>1. CASE Draw(t) \/ Undo(t) \/ SkipPartition(t)
  BY <1>1 DEF Draw, Undo, SkipPartition
<1>2. CASE TmBegin(t) \/ PartConflict(t) \/ TmAbort(t) \/ Partition(t)
  BY <1>2 DEF TmBegin, PartConflict, TmAbort, Partition, Ring!Begin, Ring!Conflict, Ring!Abort,
     Ring!PartitionWith
<1>3. CASE CheckPartition(t) \/ ValidateCommit(t)
  BY <1>3 DEF CheckPartition, ValidateCommit, Ring!CheckPartition, Ring!PartitionScan, Ring!Scan,
     Ring!PartitionAwait, Ring!AwaitComplete, Ring!PartitionRollover, Ring!Rollover,
     Ring!CommitTime, Ring!AwaitInit, Ring!CommitScan, Ring!CommitAwait, Ring!CommitRollover,
     Ring!CasFails
<1>4. CASE CommitReadOnly(t) \/ CommitWriter(t) \/ Release(t)
  BY <1>4 DEF CommitReadOnly, CommitWriter, Release, Ring!CommitReadOnly, Ring!CommitWriter,
     Ring!Release
<1>5. CASE CasSucceeds(t) \/ Publish(t)
  BY <1>5 DEF CasSucceeds, Publish, Ring!CasSucceeds, Ring!Copy, Ring!SetInit, Ring!SetComplete
<1> QED
  BY <1>1, <1>2, <1>3, <1>4, <1>5 DEF Step

----------------------------------------------------------------------------
(* The history: only a successful compare-and-swap adds to it. *)

LEMMA HistoryStays ==
  ASSUME TypeOK, NEW t \in Threads, Step(t), ~CasSucceeds(t)
  PROVE  UNCHANGED <<versions, timestamp, committed>>
<1> USE DEF ring, memory, plan, Ring!counters, Ring!filters, Ring!scan
<1>1. CASE Draw(t) \/ Undo(t) \/ SkipPartition(t)
  BY <1>1 DEF Draw, Undo, SkipPartition
<1>2. CASE TmBegin(t) \/ PartConflict(t) \/ TmAbort(t) \/ Partition(t)
  BY <1>2 DEF TmBegin, PartConflict, TmAbort, Partition, Ring!Begin, Ring!Conflict, Ring!Abort,
     Ring!PartitionWith
<1>3. CASE CheckPartition(t) \/ ValidateCommit(t)
  BY <1>3 DEF CheckPartition, ValidateCommit, Ring!CheckPartition, Ring!PartitionScan, Ring!Scan,
     Ring!PartitionAwait, Ring!AwaitComplete, Ring!PartitionRollover, Ring!Rollover,
     Ring!CommitTime, Ring!AwaitInit, Ring!CommitScan, Ring!CommitAwait, Ring!CommitRollover,
     Ring!CasFails
<1>4. CASE CommitReadOnly(t) \/ CommitWriter(t) \/ Release(t)
  BY <1>4 DEF CommitReadOnly, CommitWriter, Release, Ring!CommitReadOnly, Ring!CommitWriter,
     Ring!Release
<1>5. CASE Publish(t)
  BY <1>5 DEF Publish, Ring!Copy, Ring!SetInit, Ring!SetComplete
<1> QED
  BY <1>1, <1>2, <1>3, <1>4, <1>5 DEF Step

\* The version a commit adds is the memory with its writes and nobody else's.
NewVersion(t) == WithoutWritesOf({u \in Threads \ {t} : Uncommitted(u)})

LEMMA NewVersionIs ==
  ASSUME IInv, VersionsInv, RingFacts, NEW t \in Threads, Uncommitted(t)
  PROVE  /\ NewVersion(t) \in Memories
         /\ \A a \in Addresses :
              NewVersion(t)[a] = IF a \in Logged(t) THEN array[a] ELSE Last(versions)[a]
<1> DEFINE S == {u \in Threads \ {t} : Uncommitted(u)}
           W == WithoutWritesOf(S)
<1>1. TypeOK /\ LocksAreExclusive /\ IntactInv
  BY DEF IInv
<1>2. /\ W \in [Addresses -> Int]
      /\ \A a \in Addresses : \A u \in S : a \in Logged(u) => W[a] = Oldest(undo_log[u], a)
      /\ \A a \in Addresses : (\A u \in S : a \notin Logged(u)) => W[a] = array[a]
  <2>1. S \in SUBSET {u \in Threads : Uncommitted(u)}
    OBVIOUS
  <2> HIDE DEF S
  <2> QED
    BY <1>1, <2>1, WithoutWrites
<1> HIDE DEF W
<1>3. ASSUME NEW a \in Addresses
      PROVE  W[a] = IF a \in Logged(t) THEN array[a] ELSE Last(versions)[a]
  <2>1. CASE \E u \in S : a \in Logged(u)
    <3>1. PICK u \in S : a \in Logged(u)
      BY <2>1
    <3>2. a \notin Logged(t)
      BY <1>1, <3>1 DEF LocksAreExclusive
    <3>3. Last(versions)[a] = Oldest(undo_log[u], a)
      BY <1>1, <3>1 DEF IntactInv
    <3> QED
      BY <1>2, <3>1, <3>2, <3>3
  <2>2. CASE \A u \in S : a \notin Logged(u)
    <3>1. W[a] = array[a]
      BY <1>2, <2>2
    <3>2. a \notin Logged(t) => Last(versions)[a] = array[a]
      BY <1>1, <2>2 DEF IntactInv
    <3> QED
      BY <3>1, <3>2
  <2> QED
    BY <2>1, <2>2
<1> QED
  BY <1>2, <1>3 DEF Memories, NewVersion, W

LEMMA CasHistory ==
  ASSUME IInv, VersionsInv, RingFacts, NEW t \in Threads, CasSucceeds(t)
  PROVE  /\ pc[t] = "cas" /\ pc'[t] = "copy" /\ timestamp' = timestamp + 1
         /\ committed' \in Seq(SUBSET Ring!Bits) /\ Len(committed') = timestamp + 1
         /\ committed'[timestamp + 1] = wf[t]
         /\ \A k \in 1 .. timestamp : committed'[k] = committed[k]
         /\ versions' \in Seq(Memories) /\ Len(versions') = timestamp + 2
         /\ versions'[timestamp + 2] = NewVersion(t) /\ Last(versions') = NewVersion(t)
         /\ \A k \in 1 .. timestamp + 1 : versions'[k] = versions[k]
<1>1. pc[t] = "cas" /\ timestamp' = timestamp + 1 /\ committed' = Append(committed, wf[t])
      /\ versions' = Append(versions, NewVersion(t)) /\ pc'[t] = "copy"
  BY DEF CasSucceeds, Ring!CasSucceeds, NewVersion, Ring!Goto, IInv, TypeOK, Ring!TypeOK
<1>2. Uncommitted(t)
  BY <1>1 DEF Uncommitted, Ring!CommitLabels
<1>3. wf[t] \in SUBSET Ring!Bits /\ versions \in Seq(Memories) /\ Len(versions) = timestamp + 1
  BY DEF IInv, TypeOK, Ring!TypeOK, VersionsInv, Memories
<1>4. NewVersion(t) \in Memories
  BY <1>2, NewVersionIs
<1>5. committed \in Seq(SUBSET Ring!Bits) /\ Len(committed) = timestamp /\ timestamp \in Nat
  BY DEF RingFacts
<1>6. /\ committed' \in Seq(SUBSET Ring!Bits) /\ Len(committed') = timestamp + 1
      /\ committed'[timestamp + 1] = wf[t] /\ \A k \in 1 .. timestamp : committed'[k] = committed[k]
  BY <1>1, <1>3, <1>5
<1>7. /\ versions' \in Seq(Memories) /\ Len(versions') = timestamp + 2
      /\ versions'[timestamp + 2] = NewVersion(t)
      /\ \A k \in 1 .. timestamp + 1 : versions'[k] = versions[k]
  BY <1>1, <1>3, <1>4, <1>5
<1>8. Last(versions') = NewVersion(t)
  BY <1>7 DEF Last
<1> QED
  BY <1>1, <1>6, <1>7, <1>8

LEMMA StepVersions ==
  ASSUME IInv, VersionsInv, RingFacts, NEW t \in Threads, Step(t)
  PROVE  VersionsInv'
<1>1. TypeOK /\ LocksAreExclusive /\ Addresses' = Addresses
  BY DEF IInv, Addresses
<1>2. \A u \in Threads : since[u] \in Nat /\ since[u] <= Len(versions) /\ Len(versions) \in Nat
  BY <1>1 DEF VersionsInv, TypeOK, RingFacts
<1>3. \A u \in Threads : since'[u] = since[u] \/ since'[u] = Len(versions)
  <2>1. \A u \in Threads \ {t} : since'[u] = since[u]
    BY <1>1, OthersStay DEF Place
  <2>2. Draw(t) => since'[t] = Len(versions)
    BY <1>1 DEF Draw, TypeOK
  <2>3. ~Draw(t) => since' = since
    BY DEF Step, TmBegin, Partition, PartConflict, SkipPartition, CheckPartition, Undo, TmAbort,
       CommitReadOnly, CommitWriter, ValidateCommit, CasSucceeds, Publish, Release, plan
  <2> QED
    BY <2>1, <2>2, <2>3
<1>4. CASE ~CasSucceeds(t)
  <2>1. UNCHANGED <<versions, timestamp, committed>>
    BY <1>1, <1>4, HistoryStays
  <2> QED
    BY <1>1, <1>2, <1>3, <2>1 DEF VersionsInv, hash
<1>5. CASE CasSucceeds(t)
  <2>0. timestamp \in Nat /\ Uncommitted(t)
    BY <1>5, CasHistory DEF RingFacts, Uncommitted, Ring!CommitLabels
  <2>1. /\ timestamp' = timestamp + 1 /\ committed'[timestamp + 1] = wf[t]
        /\ \A k \in 1 .. timestamp : committed'[k] = committed[k]
        /\ Len(versions') = timestamp + 2 /\ versions'[timestamp + 2] = NewVersion(t)
        /\ \A k \in 1 .. timestamp + 1 : versions'[k] = versions[k]
    BY <1>5, CasHistory
  <2>2. versions[timestamp + 1] = Last(versions)
    BY <1>1, VersionTypes
  <2>3. ASSUME NEW k \in 1 .. timestamp + 1, NEW a \in Addresses, versions'[k + 1][a] # versions'[k][a]
        PROVE  hash(a) \in committed'[k]
    <3>1. CASE k = timestamp + 1
      <4>1. NewVersion(t)[a] # Last(versions)[a]
        BY <2>0, <2>1, <2>2, <2>3, <3>1
      <4>2. a \in Logged(t)
        BY <2>0, <4>1, NewVersionIs
      <4>3. hash(a) \in wf[t]
        BY <1>1, <2>0, <4>2 DEF LocksAreExclusive
      <4> QED
        BY <2>1, <3>1, <4>3
    <3>2. CASE k # timestamp + 1
      <4>1. k \in 1 .. timestamp /\ k \in 1 .. timestamp + 1 /\ k + 1 \in 1 .. timestamp + 1
        BY <2>0, <3>2
      <4> QED
        BY <2>1, <2>3, <4>1 DEF VersionsInv
    <3> QED
      BY <3>1, <3>2
  <2>4. Len(versions') = timestamp' + 1 /\ \A u \in Threads : since'[u] <= Len(versions')
    BY <1>2, <1>3, <2>0, <2>1 DEF VersionsInv
  <2> QED
    BY <1>1, <2>1, <2>3, <2>4 DEF VersionsInv, hash
<1> QED
  BY <1>4, <1>5

----------------------------------------------------------------------------
(* Where a step leaves its own transaction. *)

\* Steps that compare reads with commits, or go on to commit.
Compares(t) == CheckPartition(t) \/ CommitWriter(t) \/ ValidateCommit(t)

LEMMA ComparingSteps ==
  ASSUME TypeOK, NEW t \in Threads, Compares(t)
  PROVE  /\ UNCHANGED <<rf, wf, array, undo_log, loc, initial, more, since, versions, timestamp,
                        committed, last_complete, last_init>>
         /\ Executing(t) \/ Validating(t)
         /\ Executing(t)' => CheckPartition(t) /\ Executing(t)
         /\ Validating(t)' => Validating(t) \/ (CommitWriter(t) /\ initial[t] = TxLen)
<1> USE DEF TypeOK, Ring!TypeOK, ring, memory, plan, Ring!Goto, Ring!counters, Ring!filters,
            Executing, Validating, Ring!CheckLabels, Ring!CommitLabels
<1>1. CASE CheckPartition(t)
  <2>1. CASE Ring!CheckPartition(t)
    BY <1>1, <2>1 DEF CheckPartition, Ring!CheckPartition
  <2>2. CASE Ring!PartitionScan(t)
    BY <1>1, <2>2 DEF CheckPartition, Ring!PartitionScan, Ring!Scan
  <2>3. CASE Ring!PartitionAwait(t) \/ Ring!PartitionRollover(t)
    BY <1>1, <2>3 DEF CheckPartition, Ring!PartitionAwait, Ring!AwaitComplete,
       Ring!PartitionRollover, Ring!Rollover
  <2> QED
    BY <1>1, <2>1, <2>2, <2>3 DEF CheckPartition
<1>2. CASE CommitWriter(t)
  BY <1>2 DEF CommitWriter, Ring!CommitWriter
<1>3. CASE ValidateCommit(t)
  <2>1. CASE Ring!CommitTime(t) \/ Ring!AwaitInit(t) \/ Ring!CasFails(t)
    BY <1>3, <2>1 DEF ValidateCommit, Ring!CommitTime, Ring!AwaitInit, Ring!CasFails
  <2>2. CASE Ring!CommitScan(t)
    BY <1>3, <2>2 DEF ValidateCommit, Ring!CommitScan, Ring!Scan
  <2>3. CASE Ring!CommitAwait(t) \/ Ring!CommitRollover(t)
    BY <1>3, <2>3 DEF ValidateCommit, Ring!CommitAwait, Ring!AwaitComplete, Ring!CommitRollover,
       Ring!Rollover
  <2> QED
    BY <1>3, <2>1, <2>2, <2>3 DEF ValidateCommit
<1> QED
  BY <1>1, <1>2, <1>3 DEF Compares

LEMMA LeavingSteps ==
  ASSUME TypeOK, NEW t \in Threads, Step(t), ~TmBegin(t), ~Partition(t),
         ~SkipPartition(t), ~Compares(t)
  PROVE  ~Executing(t)' /\ ~Validating(t)'
<1> USE DEF TypeOK, Ring!TypeOK, ring, memory, plan, Ring!Goto, Ring!FinishTx,
            Executing, Validating, Ring!CheckLabels, Ring!CommitLabels
<1>1. CASE Draw(t) \/ Undo(t)
  BY <1>1 DEF Draw, Undo
<1>2. CASE PartConflict(t) \/ TmAbort(t)
  BY <1>2 DEF PartConflict, TmAbort, Ring!Conflict, Ring!Abort
<1>3. CASE CommitReadOnly(t) \/ Release(t)
  BY <1>3 DEF CommitReadOnly, Release, Ring!CommitReadOnly, Ring!Release
<1>4. CASE CasSucceeds(t) \/ Publish(t)
  BY <1>4 DEF CasSucceeds, Publish, Ring!CasSucceeds, Ring!Copy, Ring!SetInit, Ring!SetComplete
<1> QED
  BY <1>1, <1>2, <1>3, <1>4 DEF Step, Compares

LEMMA BeginningStep ==
  ASSUME TypeOK, NEW t \in Threads, TmBegin(t)
  PROVE  /\ pc'[t] = "run" /\ initial'[t] = 0 /\ more'[t] /\ undo_log'[t] = <<>>
         /\ UNCHANGED <<rf, wf, array, loc, since, versions, timestamp, committed,
                        last_complete, last_init>>
         /\ Executing(t)' /\ ~Validating(t)'
  BY DEF TypeOK, Ring!TypeOK, TmBegin, Ring!Begin, Ring!Goto, Ring!counters, Ring!filters,
         Executing, Validating, Ring!CommitLabels

LEMMA PartitionStep ==
  ASSUME TypeOK, NEW t \in Threads, Partition(t)
  PROVE  /\ pc[t] = "run" /\ pc'[t] = "pIndex" /\ initial[t] < TxLen
         /\ more[t] /\ ~more'[t] /\ initial'[t] = PartEnd(t)
         /\ rf'[t] = rf[t] \cup PartReads(t) /\ wf'[t] = wf[t] \cup PartWrites(t)
         /\ UNCHANGED <<loc, since, versions, timestamp, committed, last_complete, last_init,
                        start_time>>
         /\ Executing(t) /\ Executing(t)' /\ ~Validating(t)'
<1> USE DEF TypeOK, Ring!TypeOK, Partition, Ring!PartitionWith, Ring!Goto, Ring!counters
<1>1. /\ pc[t] = "run" /\ pc'[t] = "pIndex" /\ initial[t] < TxLen /\ more[t]
      /\ rf'[t] = rf[t] \cup PartReads(t) /\ wf'[t] = wf[t] \cup PartWrites(t)
      /\ UNCHANGED <<loc, since, versions, timestamp, committed, last_complete, last_init,
                     start_time>>
  BY DEF Ring!Bits
<1>2. more'[t] = FALSE /\ initial'[t] = PartEnd(t)
  OBVIOUS
<1> QED
  BY <1>1, <1>2 DEF Executing, Validating, Ring!CommitLabels

\* Once a partition has run, the others are passed over.
LEMMA SkippingStep ==
  ASSUME TypeOK, NEW t \in Threads, SkipPartition(t)
  PROVE  /\ pc[t] = "run" /\ pc'[t] = "run" /\ ~more[t]
         /\ UNCHANGED <<rf, wf, array, undo_log, loc, more, since, versions, timestamp, committed,
                        last_complete, last_init, start_time, index>>
         /\ Executing(t) /\ Executing(t)' /\ ~Validating(t)'
  BY DEF SkipPartition, ring, memory, Executing, Validating, Ring!CommitLabels

LEMMA StepPending ==
  ASSUME TypeOK, RingFacts, PendingInv, NEW t \in Threads, Step(t)
  PROVE  PendingInv'
<1>0. \A u \in Threads \ {t} : pc'[u] = pc[u]
  BY OthersStay DEF Place
<1> USE DEF Ring!Publishing, Ring!PublishLabels
<1>1. CASE CasSucceeds(t)
  <2>1. pc'[t] = "copy"
    BY <1>1 DEF CasSucceeds, Ring!CasSucceeds, Ring!Goto, TypeOK, Ring!TypeOK
  <2> QED
    BY <2>1 DEF PendingInv
<1>2. CASE Publish(t)
  <2>1. CASE Ring!Copy(t) \/ Ring!SetInit(t)
    <3>1. pc'[t] \in {"copy", "init", "complete"}
      BY <2>1 DEF Ring!Copy, Ring!SetInit, Ring!Goto, TypeOK, Ring!TypeOK
    <3> QED
      BY <3>1 DEF PendingInv
  <2>2. CASE Ring!SetComplete(t)
    <3>1. pc[t] = "complete" /\ last_complete' = index[t] + 1 /\ timestamp' = timestamp
      BY <2>2 DEF Ring!SetComplete
    <3>2. timestamp = index[t] + 1
      BY <3>1 DEF RingFacts
    <3> QED
      BY <3>1, <3>2 DEF PendingInv
  <2> QED
    BY <1>2, <2>1, <2>2 DEF Publish
<1>3. CASE ~CasSucceeds(t) /\ ~Publish(t)
  <2>1. timestamp' = timestamp
    BY <1>3, HistoryStays
  <2>2. last_complete' = last_complete /\ ~Ring!Publishing(t)
    <3> USE DEF ring, memory, Ring!counters, Ring!CheckLabels, Ring!CommitLabels
    <3>1. CASE TmBegin(t) \/ Partition(t) \/ SkipPartition(t) \/ Compares(t)
      BY <3>1, BeginningStep, PartitionStep, SkippingStep, ComparingSteps DEF Executing, Validating, TmBegin,
         Ring!Begin
    <3>2. CASE Draw(t) \/ Undo(t) \/ PartConflict(t) \/ TmAbort(t)
      BY <3>2 DEF Draw, Undo, PartConflict, TmAbort, Ring!Conflict, Ring!Abort
    <3>3. CASE CommitReadOnly(t) \/ Release(t)
      BY <3>3 DEF CommitReadOnly, Release, Ring!CommitReadOnly, Ring!Release
    <3> QED
      BY <1>3, <3>1, <3>2, <3>3 DEF Step, Compares
  <2> QED
    BY <1>0, <2>1, <2>2 DEF PendingInv
<1> QED
  BY <1>1, <1>2, <1>3

----------------------------------------------------------------------------
(* The first partition makes of the memory what its transfers, one after   *)
(* the other, make of it.                                                  *)

LEMMA PartFollows ==
  ASSUME TypeOK, PlanInv, NEW t \in Threads, pc[t] = "run", initial[t] = 0
  PROVE  /\ PartEnd(t) = Executed
         /\ Part(t).array = Serial!After(Job(t), array)[Executed]
         /\ \A n \in 1 .. Executed :
              /\ hash(loc[t][n].from) \in PartReads(t)
              /\ Serial!After(Job(t), array)[n - 1][loc[t][n].from] > Limit =>
                   {hash(loc[t][n].from), hash(loc[t][n].to)} \subseteq PartWrites(t)
<1>0. /\ Drawn(t) /\ Job(t) \in Jobs /\ array \in Memories
      /\ TxLen \in Nat /\ Executed \in Nat /\ Executed <= TxLen /\ PartEnd(t) = Executed
  <2>1. Drawn(t) /\ array \in Memories
    BY DrawnIs DEF TypeOK, Memories
  <2>2. PartEnd(t) = Executed
    BY SizesAssumption DEF PartEnd, Executed
  <2> QED
    BY <2>1, <2>2, DrawnJob, ExecutedPlace
<1> DEFINE d == Done(t, array)
           s == Serial!After(Job(t), array)
<1>1. d[0] = Untouched(array) /\ \A n \in 0 .. TxLen - 1 : d[n + 1] = Transfer(d[n], loc[t][n + 1])
  BY <1>0, DoneSteps
<1>2. \A n \in 0 .. TxLen : d[n] \in Deeds /\ Tells(d[n], array)
  BY <1>0, DoneTells
<1>3. \A n \in 0 .. TxLen : \A k \in 0 .. n :
        d[k].reads \subseteq d[n].reads /\ d[k].writes \subseteq d[n].writes
  BY <1>0, DoneTells
<1>4. s[0] = array /\ \A n \in 0 .. Executed - 1 : s[n + 1] = Serial!Transfer(s[n], Job(t)[n + 1])
  BY <1>0, AfterSteps
<1>5. Part(t) = d[Executed] /\ PartReads(t) = d[Executed].reads /\ PartWrites(t) = d[Executed].writes
  BY <1>0 DEF Part, PartReads, PartWrites
<1> HIDE DEF d, s
<1>6. ASSUME NEW n \in 0 .. Executed - 1
      PROVE  /\ d[n + 1].array = Serial!Transfer(d[n].array, Job(t)[n + 1])
             /\ hash(loc[t][n + 1].from) \in d[n + 1].reads
             /\ d[n].array[loc[t][n + 1].from] > Limit =>
                  {hash(loc[t][n + 1].from), hash(loc[t][n + 1].to)} \subseteq d[n + 1].writes
  <2> DEFINE p == loc[t][n + 1]
  <2>1. n \in 0 .. TxLen /\ n \in 0 .. TxLen - 1 /\ n + 1 \in 1 .. Executed /\ n + 1 \in 1 .. TxLen
    BY <1>0
  <2>2. p.from \in Addresses /\ p.to \in Addresses /\ Job(t)[n + 1] = p
    BY <1>0, <2>1, PairPlace, DrawnJob
  <2>3. d[n] \in Deeds /\ Tells(d[n], array) /\ d[n + 1] = Transfer(d[n], p)
    BY <1>1, <1>2, <2>1
  <2> HIDE DEF p
  <2>4. /\ Transfer(d[n], p).array = Serial!Transfer(d[n].array, p)
        /\ Transfer(d[n], p).reads = d[n].reads \cup {hash(p.from)}
        /\ d[n].array[p.from] > Limit => {hash(p.from), hash(p.to)} \subseteq Transfer(d[n], p).writes
    BY <1>0, <2>2, <2>3, TransferTells
  <2> QED
    BY <2>2, <2>3, <2>4 DEF p
<1>7. \A n \in 0 .. Executed : d[n].array = s[n]
  <2> DEFINE Good == {n \in Nat : n <= Executed => d[n].array = s[n]}
  <2>1. 0 \in Good
    BY <1>0, <1>1, <1>4, UntouchedTells
  <2>2. ASSUME NEW n \in Nat, n \in Good PROVE n + 1 \in Good
    <3> SUFFICES ASSUME n + 1 <= Executed PROVE d[n + 1].array = s[n + 1]
      OBVIOUS
    <3>1. n \in 0 .. Executed - 1 /\ d[n].array = s[n]
      BY <1>0, <2>2
    <3> QED
      BY <1>4, <1>6, <3>1
  <2>3. Nat \subseteq Good
    <3> HIDE DEF Good
    <3> QED
      BY <2>1, <2>2, Induct
  <2> QED
    BY <1>0, <2>3
<1>8. ASSUME NEW n \in 1 .. Executed
      PROVE  /\ hash(loc[t][n].from) \in PartReads(t)
             /\ s[n - 1][loc[t][n].from] > Limit =>
                  {hash(loc[t][n].from), hash(loc[t][n].to)} \subseteq PartWrites(t)
  <2> DEFINE k == n - 1
  <2>1. k \in 0 .. Executed - 1 /\ k \in 0 .. Executed /\ k + 1 = n
    BY <1>0
  <2>2. Executed \in 0 .. TxLen /\ n \in 0 .. Executed
    BY <1>0
  <2>3. d[n].reads \subseteq d[Executed].reads /\ d[n].writes \subseteq d[Executed].writes
    BY <1>3, <2>2
  <2> HIDE DEF k
  <2>4. /\ hash(loc[t][k + 1].from) \in d[k + 1].reads
        /\ s[k][loc[t][k + 1].from] > Limit =>
             {hash(loc[t][k + 1].from), hash(loc[t][k + 1].to)} \subseteq d[k + 1].writes
    BY <1>6, <1>7, <2>1
  <2>5. /\ hash(loc[t][n].from) \in d[n].reads
        /\ s[k][loc[t][n].from] > Limit =>
             {hash(loc[t][n].from), hash(loc[t][n].to)} \subseteq d[n].writes
    BY <2>1, <2>4
  <2> QED
    BY <1>5, <2>3, <2>5 DEF k
<1>9. Part(t).array = s[Executed]
  BY <1>0, <1>5, <1>7
<1> QED
  BY <1>0, <1>8, <1>9 DEF s

\* Where it writes nothing there was nothing to transfer.
LEMMA IdleAfter ==
  ASSUME NEW j \in Jobs, NEW m \in Memories,
         \A n \in 1 .. Executed : ~(Serial!After(j, m)[n - 1][j[n].from] > Limit)
  PROVE  \A n \in 1 .. Executed : m[j[n].from] <= Limit
<1>0. Executed \in Nat
  BY ExecutedPlace
<1> DEFINE s == Serial!After(j, m)
           Good == {n \in Nat : n <= Executed => s[n] = m}
<1>1. s[0] = m /\ \A n \in 0 .. Executed - 1 : s[n + 1] = Serial!Transfer(s[n], j[n + 1])
  BY AfterSteps
<1>2. \A n \in 1 .. Executed : ~(s[n - 1][j[n].from] > Limit)
  OBVIOUS
<1> HIDE DEF s
<1>3. 0 \in Good
  BY <1>1
<1>4. ASSUME NEW n \in Nat, n \in Good PROVE n + 1 \in Good
  <2> SUFFICES ASSUME n + 1 <= Executed PROVE s[n + 1] = m
    OBVIOUS
  <2>1. n \in 0 .. Executed - 1 /\ n + 1 \in 1 .. Executed /\ (n + 1) - 1 = n /\ s[n] = m
    BY <1>0, <1>4
  <2>2. ~(m[j[n + 1].from] > Limit)
    BY <1>2, <2>1
  <2>3. Serial!Transfer(m, j[n + 1]) = m
    BY <2>1, <2>2, JobPlace, TransferEffect
  <2> QED
    BY <1>1, <2>1, <2>3
<1>5. Nat \subseteq Good
  <2> HIDE DEF Good
  <2> QED
    BY <1>3, <1>4, Induct
<1>6. ASSUME NEW n \in 1 .. Executed PROVE m[j[n].from] <= Limit
  <2>1. n - 1 \in Nat /\ n - 1 <= Executed
    BY <1>0
  <2>2. s[n - 1] = m
    BY <1>5, <2>1
  <2>3. ~(m[j[n].from] > Limit) /\ m[j[n].from] \in Int
    BY <1>2, <2>2, JobPlace DEF Memories
  <2> QED
    BY <2>3 DEF Limit
<1> QED
  BY <1>6

----------------------------------------------------------------------------
(* Where a transaction is in its partitions. *)

LEMMA StepPlace ==
  ASSUME IInv, PlaceInv, NEW t \in Threads, Step(t)
  PROVE  PlaceInv'
<1>0. TypeOK /\ PlanInv /\ Executed' = Executed
  BY DEF IInv, Executed
<1> DEFINE P(u) == /\ Validating(u) => ~more[u]
                   /\ Executing(u) /\ more[u] => initial[u] = 0 /\ undo_log[u] = <<>>
                   /\ Executing(u) \/ Validating(u) =>
                        \A n \in 1 .. Did(u) : hash(loc[u][n].from) \in rf[u]
<1>1. \A u \in Threads : P(u)
  BY DEF PlaceInv
<1>2. ASSUME NEW u \in Threads, u # t PROVE P(u)'
  <2>1. Place(u)' = Place(u) /\ P(u)
    BY <1>0, <1>1, <1>2, OthersStay
  <2> QED
    BY <1>0, <2>1 DEF Place, Did, Executing, Validating, hash
<1>3. P(t)'
  <2>1. CASE TmBegin(t)
    BY <1>0, <2>1, BeginningStep DEF Did
  <2>2. CASE Partition(t)
    <3>1. /\ ~more'[t] /\ more[t] /\ loc' = loc /\ Executing(t)
          /\ rf'[t] = rf[t] \cup PartReads(t) /\ ~Validating(t)'
      BY <1>0, <2>2, PartitionStep
    <3>2. \A n \in 1 .. Executed : hash(loc[t][n].from) \in PartReads(t)
      BY <1>0, <1>1, <2>2, <3>1, PartitionStep, PartFollows
    <3> QED
      BY <1>0, <3>1, <3>2 DEF Did, hash
  <2>3. CASE SkipPartition(t)
    BY <1>0, <1>1, <2>3, SkippingStep DEF Did, hash
  <2>4. CASE Compares(t)
    <3>1. UNCHANGED <<rf, loc, initial, more, undo_log>> /\ (Executing(t) \/ Validating(t))
          /\ (Executing(t)' => Executing(t))
      BY <1>0, <2>4, ComparingSteps
    <3>2. Validating(t)' => ~more[t]
      <4>1. CASE Validating(t)
        BY <1>1, <4>1
      <4>2. CASE ~Validating(t)
        <5>1. Executing(t) /\ (more[t] => initial[t] = 0) /\ TxLen # 0
          BY <1>1, <3>1, <4>2, SizesAssumption
        <5>2. Validating(t)' => initial[t] = TxLen
          BY <1>0, <2>4, <4>2, ComparingSteps
        <5> QED
          BY <5>1, <5>2
      <4> QED
        BY <4>1, <4>2
    <3> QED
      BY <1>0, <1>1, <3>1, <3>2 DEF Did, hash
  <2> QED
    BY <1>0, <2>1, <2>2, <2>3, <2>4, LeavingSteps
<1> HIDE DEF P
<1>4. \A u \in Threads : P(u)'
  BY <1>2, <1>3
<1> QED
  BY <1>4 DEF P, PlaceInv, Executing, Validating, hash

----------------------------------------------------------------------------
(* Replaying a transaction. *)

\* Replays, of the values it depends on.
Replaying(j, i, L, mem, W, m) ==
  /\ \A a \in Addresses : Serial!After(j, m)[i][a] = IF a \in L THEN mem[a] ELSE m[a]
  /\ \A n \in 1 .. i : Serial!After(j, m)[n - 1][j[n].from] > Limit =>
                             {hash(j[n].from), hash(j[n].to)} \subseteq W

LEMMA ReplaysIs ==
  ASSUME NEW t \in Threads
  PROVE  /\ Replays(t, Last(versions)) <=>
              Replaying(Job(t), Did(t), Logged(t), array, wf[t], Last(versions))
         /\ Replays(t, Last(versions))' <=>
              Replaying(Job(t)', Did(t)', Logged(t)', array', wf'[t], Last(versions'))
<1>0. Executed' = Executed /\ Executed \in Nat
  BY ExecutedPlace DEF Executed
<1>1. \A n \in 1 .. Executed : Job(t)[n] = loc[t][n] /\ Job(t)'[n] = loc'[t][n]
  BY <1>0 DEF Job
<1>2. \A n \in 1 .. Did(t) : n \in 1 .. Executed
  BY <1>0 DEF Did
<1>3. \A n \in 1 .. Did(t)' : n \in 1 .. Executed
  BY <1>0 DEF Did
<1> DEFINE A == Serial!After(Job(t), Last(versions))
           B == Serial!After(Job(t)', Last(versions'))
<1>4. A' = B
  BY <1>0 DEF Serial!After, Serial!Transfer, Serial!Limit, Serial!Amount, Last
<1>5. Last(versions)' = Last(versions') /\ Addresses' = Addresses
  BY DEF Last, Addresses
<1>6. Replays(t, Last(versions)) <=>
        /\ \A a \in Addresses : A[Did(t)][a] = IF a \in Logged(t) THEN array[a] ELSE Last(versions)[a]
        /\ \A n \in 1 .. Did(t) : A[n - 1][loc[t][n].from] > Limit =>
             {hash(loc[t][n].from), hash(loc[t][n].to)} \subseteq wf[t]
  BY DEF Replays
<1>7. Replays(t, Last(versions))' <=>
        /\ \A a \in Addresses : B[Did(t)'][a] = IF a \in Logged(t)' THEN array'[a] ELSE Last(versions')[a]
        /\ \A n \in 1 .. Did(t)' : B[n - 1][loc'[t][n].from] > Limit =>
             {hash(loc'[t][n].from), hash(loc'[t][n].to)} \subseteq wf'[t]
  BY <1>4, <1>5 DEF Replays, hash, Limit
<1> QED
  BY <1>1, <1>2, <1>3, <1>6, <1>7 DEF Replaying

\* It may as well be replayed on a memory that differs where it has no bits.
Elsewhere(j, i, L, W, R, m, w) ==
  /\ \A n \in 1 .. i : hash(j[n].from) \in R
  /\ \A a \in Addresses : a \in L => hash(a) \in W
  /\ \A a \in Addresses : hash(a) \in R \cup W => m[a] = w[a]

LEMMA ReplayOnNext ==
  ASSUME NEW j \in Jobs, NEW m \in Memories, NEW w \in Memories, NEW i \in 0 .. Executed,
         NEW L, NEW mem, NEW W, NEW R, Replaying(j, i, L, mem, W, m), Elsewhere(j, i, L, W, R, m, w)
  PROVE  Replaying(j, i, L, mem, W, w)
<1>0. Executed \in Nat /\ i \in 0 .. i
  BY ExecutedPlace
<1> DEFINE D == R \cup W
           s == Serial!After(j, m)
           r == Serial!After(j, w)
<1>1. Alike(j, m, w, D, i)
  BY DEF Alike, Elsewhere, Replaying
<1>2. \A n \in 0 .. i : \A a \in Addresses : r[n][a] = IF hash(a) \in D THEN s[n][a] ELSE w[a]
  <2> HIDE DEF D
  <2> QED
    BY <1>0, <1>1, Agreement
<1>3. /\ \A a \in Addresses : s[i][a] = IF a \in L THEN mem[a] ELSE m[a]
      /\ \A n \in 1 .. i : s[n - 1][j[n].from] > Limit => {hash(j[n].from), hash(j[n].to)} \subseteq W
  BY DEF Replaying
<1> HIDE DEF s, r
<1>4. ASSUME NEW a \in Addresses PROVE r[i][a] = IF a \in L THEN mem[a] ELSE w[a]
  <2>1. r[i][a] = IF hash(a) \in D THEN s[i][a] ELSE w[a]
    BY <1>0, <1>2
  <2>2. CASE hash(a) \in D
    <3>1. m[a] = w[a]
      BY <2>2 DEF Elsewhere
    <3> QED
      BY <1>3, <2>1, <2>2, <3>1
  <2>3. CASE hash(a) \notin D
    <3>1. a \notin L
      BY <2>3 DEF Elsewhere
    <3> QED
      BY <2>1, <2>3, <3>1
  <2> QED
    BY <2>2, <2>3
<1>5. ASSUME NEW n \in 1 .. i, r[n - 1][j[n].from] > Limit
      PROVE  {hash(j[n].from), hash(j[n].to)} \subseteq W
  <2>1. n \in 1 .. Executed /\ n - 1 \in 0 .. i
    BY <1>0
  <2>2. j[n].from \in Addresses /\ hash(j[n].from) \in D
    BY <2>1, JobPlace DEF Elsewhere
  <2>3. r[n - 1][j[n].from] = s[n - 1][j[n].from]
    BY <1>2, <2>1, <2>2
  <2> QED
    BY <1>3, <1>5, <2>3
<1> QED
  BY <1>4, <1>5 DEF Replaying, r

\* A partition whose elements nobody else has written does to the memory what
\* it would do to the last version, where it reads and writes.
LEMMA PartitionReplays ==
  ASSUME IInv, PlaceInv, NEW t \in Threads, Partition(t)
  PROVE  /\ Job(t) \in Jobs
         /\ \A n \in 1 .. Executed : Last(versions)[loc[t][n].from] = array[loc[t][n].from]
         /\ Last(versions) \in Memories =>
              Replaying(Job(t), Executed, Logged(t)', array', wf'[t], Last(versions))
<1>0. TypeOK /\ PlanInv /\ LocksAreExclusive /\ IntactInv
  BY DEF IInv
<1>1. /\ pc[t] = "run" /\ initial[t] = 0 /\ undo_log[t] = <<>> /\ Uncommitted(t)
      /\ wf'[t] = wf[t] \cup PartWrites(t)
  <2>1. pc[t] = "run" /\ more[t] /\ Executing(t) /\ wf'[t] = wf[t] \cup PartWrites(t)
    BY <1>0, PartitionStep
  <2> QED
    BY <2>1 DEF PlaceInv, Uncommitted
<1> DEFINE j == Job(t)
           w == Last(versions)
           D == PartReads(t) \cup PartWrites(t)
           s == Serial!After(j, array)
           r == Serial!After(j, w)
<1>2. /\ Drawn(t) /\ j \in Jobs /\ Executed \in Nat
      /\ \A n \in 1 .. Executed : /\ j[n] = loc[t][n]
                                  /\ loc[t][n].from \in Addresses /\ loc[t][n].to \in Addresses
  <2>1. Drawn(t)
    BY <1>0, <1>1, DrawnIs
  <2> QED
    BY <2>1, DrawnJob, PairPlace, ExecutedPlace
<1>3. /\ Part(t).array = s[Executed]
      /\ \A n \in 1 .. Executed :
           /\ hash(loc[t][n].from) \in PartReads(t)
           /\ s[n - 1][loc[t][n].from] > Limit =>
                {hash(loc[t][n].from), hash(loc[t][n].to)} \subseteq PartWrites(t)
  BY <1>0, <1>1, PartFollows
<1>4. ASSUME NEW a \in Addresses, hash(a) \in D PROVE w[a] = array[a]
  <2>1. hash(a) \notin write_locks \ wf[t]
    BY <1>4 DEF Partition, Conflicting, OthersLocks
  <2>2. a \notin Logged(t)
    BY <1>1 DEF Logged
  <2>3. \A u \in Threads : Uncommitted(u) => a \notin Logged(u)
    BY <1>0, <2>1, <2>2 DEF LocksAreExclusive
  <2> QED
    BY <1>0, <2>3 DEF IntactInv
<1>5. Logged(t)' = Addrs(Part(t).log) /\ array' = s[Executed]
  <2>1. Logged(t)' = Logged(t) \cup Addrs(Part(t).log)
    BY <1>0, PartitionLog
  <2> QED
    BY <1>1, <1>3, <2>1 DEF Logged, Partition
<1>6. \A a \in Addresses : /\ a \in Addrs(Part(t).log) => hash(a) \in PartWrites(t)
                           /\ a \notin Addrs(Part(t).log) => s[Executed][a] = array[a]
  BY <1>0, <1>1, <1>3, PartTells
<1>7. array \in Memories
  BY <1>0 DEF TypeOK, Memories
<1> HIDE DEF j, w, s, r
<1>8. ASSUME w \in Memories
      PROVE  Replaying(j, Executed, Logged(t)', array', wf'[t], w)
  <2>1. Alike(j, array, w, D, Executed)
    BY <1>2, <1>3, <1>4 DEF Alike, s
  <2>2. \A n \in 0 .. Executed : \A a \in Addresses :
          r[n][a] = IF hash(a) \in D THEN s[n][a] ELSE w[a]
    <3> HIDE DEF D
    <3>1. Executed \in 0 .. Executed
      BY <1>2
    <3> QED
      BY <1>2, <1>7, <1>8, <2>1, <3>1, Agreement DEF r, s
  <2>3. ASSUME NEW a \in Addresses
        PROVE  r[Executed][a] = IF a \in Logged(t)' THEN array'[a] ELSE w[a]
    <3>1. r[Executed][a] = IF hash(a) \in D THEN s[Executed][a] ELSE w[a]
      BY <1>2, <2>2
    <3> QED
      BY <1>4, <1>5, <1>6, <3>1
  <2>4. ASSUME NEW n \in 1 .. Executed, r[n - 1][j[n].from] > Limit
        PROVE  {hash(j[n].from), hash(j[n].to)} \subseteq wf'[t]
    <3>1. j[n] = loc[t][n] /\ j[n].from \in Addresses /\ hash(j[n].from) \in D
      BY <1>2, <1>3
    <3>2. n - 1 \in 0 .. Executed
      BY <1>2
    <3>3. r[n - 1][j[n].from] = s[n - 1][j[n].from]
      BY <2>2, <3>1, <3>2
    <3> QED
      BY <1>1, <1>3, <2>4, <3>1, <3>3
  <2> QED
    BY <2>3, <2>4 DEF Replaying, r
<1>9. \A n \in 1 .. Executed : w[loc[t][n].from] = array[loc[t][n].from]
  BY <1>2, <1>3, <1>4
<1> QED
  BY <1>2, <1>8, <1>9 DEF j, w

----------------------------------------------------------------------------
(* Nobody changes an element another has written. *)

LEMMA LogsUntouched ==
  ASSUME IInv, NEW t \in Threads, Step(t), NEW u \in Threads, u # t, Uncommitted(u),
         NEW a \in Addresses, a \in Logged(u)
  PROVE  array'[a] = array[a]
<1>0. TypeOK /\ PlanInv /\ LocksAreExclusive
  BY DEF IInv
<1>1. hash(a) \in wf[u] /\ hash(a) \in write_locks /\ hash(a) \notin wf[t]
  BY <1>0 DEF LocksAreExclusive
<1>2. CASE Partition(t)
  <2>1. hash(a) \notin PartReads(t) \cup PartWrites(t)
    BY <1>1, <1>2 DEF Partition, Conflicting, OthersLocks
  <2>2. a \in Addrs(Part(t).log) => hash(a) \in PartWrites(t)
    BY <1>0, <1>2, PartTells, PartitionStep
  <2>3. a \notin Addrs(Part(t).log) => Part(t).array[a] = array[a]
    BY <1>0, <1>2, PartTells, PartitionStep
  <2> QED
    BY <1>2, <2>1, <2>2, <2>3 DEF Partition
<1>3. CASE Undo(t)
  <2>1. /\ Last(undo_log[t]).addr \in Logged(t) /\ Uncommitted(t)
        /\ array' = [array EXCEPT ![Last(undo_log[t]).addr] = Last(undo_log[t]).val]
    BY <1>0, <1>3, UndoLog, MovingSteps
  <2>2. Last(undo_log[t]).addr # a
    BY <1>0, <1>1, <2>1 DEF LocksAreExclusive
  <2> QED
    BY <1>0, <2>1, <2>2 DEF TypeOK
<1>4. CASE ~Partition(t) /\ ~Undo(t)
  BY <1>4 DEF Step, Draw, TmBegin, PartConflict, SkipPartition, CheckPartition, TmAbort,
     CommitReadOnly, CommitWriter, ValidateCommit, CasSucceeds, Publish, Release, memory
<1> QED
  BY <1>2, <1>3, <1>4

\* All that the steps are proved from.
Before == IInv /\ RingProofs!IInv /\ RingFacts /\ SerialInv /\ [Next]_vars

Running(u) == Executing(u) \/ Validating(u)

LEMMA RunningPlace ==
  ASSUME TypeOK, PlanInv, NEW u \in Threads, Running(u)
  PROVE  /\ Uncommitted(u) /\ Job(u) \in Jobs /\ Did(u) \in 0 .. Executed
         /\ \A n \in 1 .. Did(u) : n \in 1 .. Executed /\ Job(u)[n] = loc[u][n]
         /\ pc[u] \notin {"begin", "abort", "release", "done"} /\ ~Ring!Publishing(u)
<1>1. /\ Uncommitted(u) /\ pc[u] \notin {"begin", "abort", "release", "done"}
      /\ ~Ring!Publishing(u)
  BY DEF Running, Executing, Validating, Uncommitted, Ring!CheckLabels, Ring!CommitLabels,
     Ring!Publishing, Ring!PublishLabels
<1>2. Drawn(u)
  BY <1>1, DrawnIs
<1>3. Did(u) \in 0 .. Executed /\ \A n \in 1 .. Did(u) : n \in 1 .. Executed
  BY ExecutedPlace DEF Did
<1> QED
  BY <1>1, <1>2, <1>3, DrawnJob

\* A job is drawn once.
LEMMA JobStays ==
  ASSUME NEW u \in Threads, loc'[u] = loc[u]
  PROVE  Job(u)' = Job(u)
<1>1. Executed' = Executed
  BY DEF Executed
<1> QED
  BY <1>1 DEF Job

LEMMA StepReplay ==
  ASSUME Before, NEW t \in Threads, Step(t)
  PROVE  ReplayInv'
<1>0. /\ IInv /\ RingFacts /\ RingProofs!IInv /\ [Next]_vars
      /\ TypeOK /\ PlanInv /\ LocksAreExclusive
      /\ VersionsInv /\ PlaceInv /\ ReplayInv
  BY DEF Before, SerialInv, IInv
<1> DEFINE R(u) == Replaying(Job(u), Did(u), Logged(u), array, wf[u], Last(versions))
           Q(u) == Running(u) /\ Unharmed(u, timestamp) => R(u)
<1>1. \A u \in Threads : Q(u)
  BY <1>0, ReplaysIs DEF ReplayInv, Running
<1>2. ASSUME NEW u \in Threads, Q(u)' PROVE
        Running(u)' /\ Unharmed(u, timestamp)' => Replays(u, Last(versions))'
  BY <1>2, ReplaysIs
<1>3. timestamp \in Nat /\ \A u \in Threads : start_time[u] \in Nat /\ start_time[u] <= timestamp
  BY <1>0 DEF RingFacts
<1>4. ASSUME NEW u \in Threads, u # t, Running(u)', Unharmed(u, timestamp)' PROVE R(u)'
  <2>1. Place(u)' = Place(u)
    BY <1>0, <1>4, OthersStay
  <2>2. Running(u) /\ Logged(u)' = Logged(u)
    BY <1>4, <2>1 DEF Place, Running, Executing, Validating, Logged
  <2>3. /\ Uncommitted(u) /\ Job(u) \in Jobs /\ Did(u) \in 0 .. Executed
        /\ \A n \in 1 .. Did(u) : Job(u)[n] = loc[u][n]
    BY <1>0, <2>2, RunningPlace
  <2>4. \A a \in Addresses : a \in Logged(u) => array'[a] = array[a]
    BY <1>0, <1>4, <2>3, LogsUntouched
  <2>7. Job(u)' = Job(u) /\ Did(u)' = Did(u)
    <3>1. Executed' = Executed
      BY DEF Executed
    <3> QED
      BY <2>1, <3>1, JobStays DEF Place, Did
  <2>5. CASE ~CasSucceeds(t)
    <3>1. UNCHANGED <<versions, timestamp, committed>>
      BY <1>0, <2>5, HistoryStays
    <3>2. Unharmed(u, timestamp)
      BY <1>4, <2>1, <3>1 DEF Place, Unharmed
    <3>3. R(u)
      BY <1>1, <2>2, <3>2
    <3> QED
      BY <2>1, <2>2, <2>4, <2>7, <3>1, <3>3 DEF Place, Replaying
  <2>6. CASE CasSucceeds(t)
    <3>1. /\ timestamp' = timestamp + 1 /\ committed'[timestamp + 1] = wf[t] /\ pc[t] = "cas"
          /\ \A k \in 1 .. timestamp : committed'[k] = committed[k]
          /\ Last(versions') = NewVersion(t)
      BY <1>0, <2>6, CasHistory
    <3>2. \A k \in start_time[u] + 1 .. timestamp + 1 : committed'[k] \cap rf[u] = {}
      BY <1>4, <2>1, <3>1 DEF Place, Unharmed
    <3>3. wf[t] \cap rf[u] = {}
      <4>1. timestamp + 1 \in start_time[u] + 1 .. timestamp + 1
        BY <1>3
      <4> QED
        BY <3>1, <3>2, <4>1
    <3>4. Unharmed(u, timestamp)
      <4>1. ASSUME NEW k \in start_time[u] + 1 .. timestamp PROVE committed[k] \cap rf[u] = {}
        <5>1. k \in start_time[u] + 1 .. timestamp + 1 /\ k \in 1 .. timestamp
          BY <1>3
        <5> QED
          BY <3>1, <3>2, <5>1
      <4> QED
        BY <4>1 DEF Unharmed
    <3>5. Uncommitted(t)
      BY <3>1 DEF Uncommitted, Ring!CommitLabels
    <3>6. /\ NewVersion(t) \in Memories /\ Last(versions) \in Memories
          /\ \A a \in Addresses : a \notin Logged(t) => NewVersion(t)[a] = Last(versions)[a]
      BY <1>0, <3>5, NewVersionIs, VersionTypes
    <3>7. Elsewhere(Job(u), Did(u), Logged(u), wf[u], rf[u], Last(versions), NewVersion(t))
      <4>1. \A n \in 1 .. Did(u) : hash(Job(u)[n].from) \in rf[u]
        BY <1>0, <2>2, <2>3 DEF PlaceInv, Running
      <4>2. \A a \in Addresses : a \in Logged(u) => hash(a) \in wf[u]
        BY <1>0, <2>3 DEF LocksAreExclusive
      <4>3. ASSUME NEW a \in Addresses, hash(a) \in rf[u] \cup wf[u]
            PROVE  Last(versions)[a] = NewVersion(t)[a]
        <5>1. wf[t] \cap wf[u] = {}
          BY <1>0, <1>4 DEF LocksAreExclusive
        <5>2. a \in Logged(t) => hash(a) \in wf[t]
          BY <1>0, <3>5 DEF LocksAreExclusive
        <5>3. a \notin Logged(t)
          BY <3>3, <4>3, <5>1, <5>2
        <5> QED
          BY <3>6, <5>3
      <4> QED
        BY <4>1, <4>2, <4>3 DEF Elsewhere
    <3>8. R(u)
      BY <1>1, <2>2, <3>4
    <3>9. Replaying(Job(u), Did(u), Logged(u), array, wf[u], NewVersion(t))
      BY <2>3, <3>6, <3>7, <3>8, ReplayOnNext
    <3> QED
      BY <2>1, <2>2, <2>4, <2>7, <3>1, <3>9 DEF Place, Replaying
  <2> QED
    BY <2>5, <2>6
<1>5. ASSUME Running(t)', Unharmed(t, timestamp)' PROVE R(t)'
  <2>0. Executed' = Executed /\ Executed \in Nat
    BY ExecutedPlace DEF Executed
  <2>1. CASE TmBegin(t)
    <3>1. more'[t] /\ undo_log'[t] = <<>> /\ loc' = loc /\ versions' = versions
      BY <1>0, <2>1, BeginningStep
    <3>2. Logged(t)' = {} /\ Did(t)' = 0 /\ Job(t)' = Job(t)
      BY <3>1, LoggedIsAddrs, JobStays DEF Addrs, Did
    <3>3. Job(t) \in Jobs /\ Last(versions) \in Memories
      <4>1. Drawn(t)
        BY <1>0, <2>1, LocsAssumption DEF Drawn, TmBegin, TypeOK
      <4> QED
        BY <1>0, <4>1, DrawnJob, VersionTypes
    <3>4. Serial!After(Job(t), Last(versions))[0] = Last(versions)
      BY <3>3, AfterSteps
    <3> QED
      BY <3>1, <3>2, <3>4 DEF Replaying
  <2>2. CASE Partition(t)
    <3>1. ~more'[t] /\ loc' = loc /\ versions' = versions
      BY <1>0, <2>2, PartitionStep
    <3>2. Did(t)' = Executed /\ Job(t)' = Job(t)
      BY <2>0, <3>1, JobStays DEF Did
    <3>3. Last(versions) \in Memories
      BY <1>0, VersionTypes
    <3>4. Replaying(Job(t), Executed, Logged(t)', array', wf'[t], Last(versions))
      BY <1>0, <2>2, <3>3, PartitionReplays
    <3> QED
      BY <3>1, <3>2, <3>4
  <2>4. CASE SkipPartition(t)
    <3>1. /\ UNCHANGED <<wf, array, undo_log, loc, more, versions, timestamp, committed, rf,
                         start_time>>
          /\ Running(t)
      BY <1>0, <2>4, SkippingStep DEF Running
    <3>2. Did(t)' = Did(t) /\ Job(t)' = Job(t) /\ Logged(t)' = Logged(t)
          /\ Last(versions') = Last(versions)
      BY <2>0, <3>1, JobStays DEF Did, Logged
    <3>3. Unharmed(t, timestamp)
      BY <1>5, <3>1 DEF Unharmed
    <3> QED
      BY <1>1, <3>1, <3>2, <3>3
  <2>3. CASE Compares(t)
    <3>1. /\ UNCHANGED <<rf, wf, array, undo_log, loc, more, versions, timestamp, committed>>
          /\ Running(t)
      BY <1>0, <2>3, ComparingSteps DEF Running
    <3>2. \A k \in start_time[t] + 1 .. start_time'[t] : committed[k] \cap rf[t] = {}
      BY <1>0, <3>1, RunningPlace, StartMoves
    <3>3. start_time'[t] \in Nat
      <4>1. Ring!TypeOK'
        BY <1>0, StepIsRingStep, RingNextTypes DEF TypeOK
      <4> QED
        BY <4>1 DEF Ring!TypeOK
    <3>4. Unharmed(t, timestamp)
      <4>1. \A k \in start_time'[t] + 1 .. timestamp : committed[k] \cap rf[t] = {}
        BY <1>5, <3>1 DEF Unharmed
      <4>2. ASSUME NEW k \in start_time[t] + 1 .. timestamp PROVE committed[k] \cap rf[t] = {}
        <5>1. k \in start_time[t] + 1 .. start_time'[t] \/ k \in start_time'[t] + 1 .. timestamp
          BY <1>3, <3>3
        <5> QED
          BY <3>2, <4>1, <5>1
      <4> QED
        BY <4>2 DEF Unharmed
    <3>5. R(t)
      BY <1>1, <3>1, <3>4
    <3>6. Logged(t)' = Logged(t) /\ Last(versions') = Last(versions)
          /\ Did(t)' = Did(t) /\ Job(t)' = Job(t)
      BY <2>0, <3>1, JobStays DEF Logged, Did
    <3> QED
      BY <3>1, <3>5, <3>6
  <2> QED
    BY <1>0, <1>5, <2>1, <2>2, <2>3, <2>4, LeavingSteps DEF Running
<1>6. \A u \in Threads : Running(u)' /\ Unharmed(u, timestamp)' => R(u)'
  BY <1>4, <1>5
<1> HIDE DEF R
<1>7. \A u \in Threads : Running(u)' /\ Unharmed(u, timestamp)' => Replays(u, Last(versions))'
  BY <1>2, <1>6
<1> QED
  BY <1>7 DEF ReplayInv, Running

----------------------------------------------------------------------------
(* What a transaction that has written nothing has seen. *)

LEMMA HistoryGrows ==
  ASSUME Before, NEW t \in Threads, Step(t)
  PROVE  /\ timestamp \in Nat /\ timestamp' \in Nat /\ timestamp <= timestamp'
         /\ last_complete' \in Nat /\ last_complete <= last_complete'
         /\ \A k \in 1 .. timestamp : committed'[k] = committed[k]
         /\ \A k \in 0 .. timestamp : versions'[k + 1] = versions[k + 1]
<1>0. IInv /\ RingFacts /\ TypeOK /\ VersionsInv /\ timestamp \in Nat /\ last_complete \in Nat
  BY DEF Before, SerialInv, IInv, RingFacts
<1>1. last_complete' \in Nat /\ last_complete <= last_complete'
  <2>1. CASE Ring!SetComplete(t)
    <3>1. pc[t] = "complete" /\ last_complete' = index[t] + 1
      BY <2>1 DEF Ring!SetComplete
    <3>2. last_complete' = timestamp
      BY <1>0, <3>1 DEF RingFacts, Ring!Publishing, Ring!PublishLabels
    <3> QED
      BY <1>0, <3>2 DEF RingFacts
  <2>2. CASE ~Ring!SetComplete(t)
    <3>1. last_complete' = last_complete
      <4> USE DEF ring, Ring!counters
      <4>1. CASE TmBegin(t) \/ Partition(t) \/ SkipPartition(t) \/ Compares(t)
        BY <1>0, <4>1, BeginningStep, PartitionStep, SkippingStep, ComparingSteps
      <4>2. CASE Draw(t) \/ Undo(t) \/ PartConflict(t) \/ TmAbort(t)
        BY <4>2 DEF Draw, Undo, PartConflict, TmAbort, Ring!Conflict, Ring!Abort
      <4>3. CASE CommitReadOnly(t) \/ Release(t) \/ CasSucceeds(t)
        BY <4>3 DEF CommitReadOnly, Release, CasSucceeds, Ring!CommitReadOnly, Ring!Release,
           Ring!CasSucceeds
      <4>4. CASE Publish(t)
        BY <2>2, <4>4 DEF Publish, Ring!Copy, Ring!SetInit
      <4> QED
        BY <4>1, <4>2, <4>3, <4>4 DEF Step, Compares
    <3> QED
      BY <1>0, <3>1
  <2> QED
    BY <2>1, <2>2
<1>2. CASE CasSucceeds(t)
  <2>1. /\ timestamp' = timestamp + 1
        /\ \A k \in 1 .. timestamp : committed'[k] = committed[k]
        /\ \A k \in 1 .. timestamp + 1 : versions'[k] = versions[k]
    BY <1>0, <1>2, CasHistory
  <2>2. \A k \in 0 .. timestamp : k + 1 \in 1 .. timestamp + 1
    BY <1>0
  <2> QED
    BY <1>0, <1>1, <2>1, <2>2
<1>3. CASE ~CasSucceeds(t)
  BY <1>0, <1>1, <1>3, HistoryStays
<1> QED
  BY <1>2, <1>3

\* Seen(u) follows for a transaction that no commit it knows of has harmed.
Seen(u) ==
  \A k \in start_time[u] .. timestamp : k = start_time[u] \/ k < since[u] =>
    \A n \in 1 .. Did(u) : versions[k + 1][loc[u][n].from] <= Limit

LEMMA KnownBounds ==
  ASSUME RingFacts, NEW u \in Threads
  PROVE  /\ start_time[u] \in Nat /\ Known(u) \in Nat /\ timestamp \in Nat
         /\ start_time[u] <= Known(u) /\ Known(u) <= timestamp
<1>1. /\ start_time[u] \in Nat /\ last_complete \in Nat /\ timestamp \in Nat /\ last_init \in Nat
      /\ start_time[u] <= last_complete /\ last_complete <= last_init /\ last_init <= timestamp
  BY DEF RingFacts
<1>2. CASE pc[u] \in Ring!CheckLabels
  <2>1. Known(u) = index[u] /\ index[u] \in Nat /\ start_time[u] <= index[u] /\ index[u] <= last_init
    BY <1>2 DEF Known, RingFacts, Ring!CheckLabels
  <2> QED
    BY <1>1, <2>1
<1>3. CASE pc[u] = "pIndex"
  BY <1>1, <1>3 DEF Known
<1>4. CASE pc[u] \notin Ring!CheckLabels /\ pc[u] # "pIndex"
  <2>1. Known(u) = start_time[u]
    BY <1>4 DEF Known
  <2> QED
    BY <1>1, <2>1
<1> QED
  BY <1>2, <1>3, <1>4

LEMMA ObservedByOthers ==
  ASSUME Before, NEW t \in Threads, Step(t), NEW u \in Threads, u # t,
         Executing(u)', wf'[u] = {}, Unharmed(u, Known(u))'
  PROVE  Seen(u)'
<1>0. RingFacts /\ TypeOK /\ VersionsInv /\ ObservedInv
  BY DEF Before, SerialInv, IInv
<1>1. Place(u)' = Place(u)
  BY <1>0, OthersStay
<1>2. /\ timestamp \in Nat /\ timestamp' \in Nat /\ timestamp <= timestamp'
      /\ last_complete' \in Nat /\ last_complete <= last_complete'
      /\ \A k \in 1 .. timestamp : committed'[k] = committed[k]
      /\ \A k \in 0 .. timestamp : versions'[k + 1] = versions[k + 1]
  BY HistoryGrows
<1>3. /\ start_time[u] \in Nat /\ Known(u) \in Nat /\ start_time[u] <= Known(u) /\ Known(u) <= timestamp
  BY <1>0, KnownBounds
<1>4. Executing(u) /\ wf[u] = {}
  BY <1>1 DEF Place, Executing
<1>5. Known(u)' \in Nat /\ Known(u) <= Known(u)'
  <2>1. CASE pc[u] \in Ring!CheckLabels
    <3>1. Known(u)' = Known(u)
      BY <1>1, <2>1 DEF Known, Place, Ring!CheckLabels
    <3> QED
      BY <1>3, <3>1
  <2>2. CASE pc[u] = "pIndex"
    BY <1>1, <1>2, <2>2 DEF Known, Place
  <2>3. CASE pc[u] \notin Ring!CheckLabels /\ pc[u] # "pIndex"
    <3>1. Known(u)' = Known(u)
      BY <1>1, <2>3 DEF Known, Place
    <3> QED
      BY <1>3, <3>1
  <2> QED
    BY <2>1, <2>2, <2>3
<1>6. Unharmed(u, Known(u))
  <2>1. \A k \in start_time[u] + 1 .. Known(u)' : committed'[k] \cap rf[u] = {}
    BY <1>1 DEF Place, Unharmed
  <2>2. ASSUME NEW k \in start_time[u] + 1 .. Known(u) PROVE committed[k] \cap rf[u] = {}
    <3>1. k \in start_time[u] + 1 .. Known(u)' /\ k \in 1 .. timestamp
      BY <1>2, <1>3, <1>5
    <3> QED
      BY <1>2, <2>1, <3>1
  <2> QED
    BY <2>2 DEF Unharmed
<1>7. Seen(u)
  BY <1>0, <1>4, <1>6 DEF ObservedInv, Seen
<1>8. ASSUME NEW k \in start_time[u] .. timestamp', k = start_time[u] \/ k < since[u],
             NEW n \in 1 .. Did(u)
      PROVE  versions'[k + 1][loc[u][n].from] <= Limit
  <2>1. since[u] \in Nat /\ since[u] <= timestamp + 1
    BY <1>0 DEF VersionsInv, TypeOK
  <2>2. k \in start_time[u] .. timestamp /\ k \in 0 .. timestamp
    BY <1>2, <1>3, <1>8, <2>1
  <2>3. versions[k + 1][loc[u][n].from] <= Limit
    BY <1>7, <1>8, <2>2 DEF Seen
  <2> QED
    BY <1>2, <2>2, <2>3
<1>9. Did(u)' = Did(u)
  BY <1>1 DEF Place, Did, Executed
<1> QED
  BY <1>1, <1>8, <1>9 DEF Place, Seen, Limit

LEMMA ObservedBySelf ==
  ASSUME Before, NEW t \in Threads, Step(t), Executing(t)', wf'[t] = {}, Unharmed(t, Known(t))'
  PROVE  Seen(t)'
<1>0. /\ IInv /\ RingFacts /\ RingProofs!IInv /\ [Next]_vars
      /\ TypeOK /\ PlanInv /\ LocksAreExclusive
      /\ VersionsInv /\ PendingInv /\ PlaceInv /\ ObservedInv
  BY DEF Before, SerialInv, IInv
<1>1. /\ timestamp \in Nat /\ start_time[t] \in Nat /\ start_time[t] <= Known(t)
      /\ Known(t) \in Nat /\ Known(t) <= timestamp
  BY <1>0, KnownBounds
<1>2. CASE TmBegin(t)
  <2>1. Did(t)' = 0
    BY <1>0, <1>2, BeginningStep DEF Did
  <2> QED
    BY <2>1 DEF Seen
<1>3. CASE Partition(t)
  <2>1. /\ pc[t] = "run" /\ pc'[t] = "pIndex" /\ more[t] /\ ~more'[t] /\ Executing(t)
        /\ rf'[t] = rf[t] \cup PartReads(t) /\ wf'[t] = wf[t] \cup PartWrites(t)
        /\ UNCHANGED <<loc, since, versions, timestamp, committed, last_complete, start_time>>
    BY <1>0, <1>3, PartitionStep
  <2>2. wf[t] = {} /\ PartWrites(t) = {}
    BY <2>1
  <2>3. Job(t) \in Jobs /\ initial[t] = 0 /\ array \in Memories /\ Drawn(t)
        /\ \A n \in 1 .. Executed : Job(t)[n] = loc[t][n] /\ n \in 1 .. TxLen
    <3>1. Drawn(t)
      BY <1>0, <2>1, DrawnIs
    <3> QED
      BY <1>0, <2>1, <3>1, DrawnJob DEF PlaceInv, TypeOK, Memories
  <2>4. \A n \in 1 .. Executed :
          /\ loc[t][n].from \in Addresses /\ hash(loc[t][n].from) \in PartReads(t)
          /\ ~(Serial!After(Job(t), array)[n - 1][loc[t][n].from] > Limit)
    BY <1>0, <2>1, <2>2, <2>3, PartFollows, PairPlace
  <2>5. \A n \in 1 .. Executed : array[loc[t][n].from] <= Limit
    <3>1. \A n \in 1 .. Executed : ~(Serial!After(Job(t), array)[n - 1][Job(t)[n].from] > Limit)
      BY <2>3, <2>4
    <3>2. \A n \in 1 .. Executed : array[Job(t)[n].from] <= Limit
      BY <2>3, <3>1, IdleAfter
    <3> QED
      BY <2>3, <3>2
  <2>6. \A n \in 1 .. Executed : Last(versions)[loc[t][n].from] = array[loc[t][n].from]
    BY <1>0, <1>3, PartitionReplays
  \* No commit since start_time, complete or not, has written what it reads.
  <2>7. ASSUME NEW n \in 1 .. Executed, NEW c \in start_time[t] + 1 .. timestamp
        PROVE  hash(loc[t][n].from) \notin committed[c]
    <3> DEFINE a == loc[t][n].from
    <3>1. hash(a) \in rf'[t] /\ hash(a) \in PartReads(t)
      BY <2>1, <2>4
    <3> HIDE DEF a
    <3>2. last_complete \in Nat /\ timestamp <= last_complete + 1
      BY <1>0 DEF RingFacts
    <3>3. CASE c <= last_complete
      <4>1. Known(t)' = last_complete
        BY <2>1 DEF Known
      <4>2. c \in start_time'[t] + 1 .. last_complete
        BY <1>1, <2>1, <3>2, <3>3
      <4>3. committed[c] \cap rf'[t] = {}
        BY <2>1, <4>1, <4>2 DEF Unharmed
      <4> QED
        BY <3>1, <4>3 DEF a
    <3>4. CASE ~(c <= last_complete)
      <4>1. c = timestamp /\ timestamp # last_complete
        BY <1>1, <3>2, <3>4
      <4>2. PICK u \in Threads : Ring!Publishing(u)
        BY <1>0, <4>1 DEF PendingInv
      <4>3. committed[c] = wf[u] /\ wf[u] \subseteq write_locks
        BY <1>0, <4>1, <4>2 DEF RingFacts, LocksAreExclusive
      <4>4. hash(a) \notin write_locks
        BY <1>3, <2>2, <3>1 DEF Partition, Conflicting, OthersLocks
      <4> QED
        BY <4>3, <4>4 DEF a
    <3> QED
      BY <3>3, <3>4
  <2>8. ASSUME NEW k \in start_time[t] .. timestamp, NEW n \in 1 .. Executed
        PROVE  versions[k + 1][loc[t][n].from] <= Limit
    <3> DEFINE a == loc[t][n].from
    <3>1. k \in 0 .. timestamp /\ timestamp \in k .. timestamp
      BY <1>1
    <3>2. \A c \in k + 1 .. timestamp : hash(a) \notin committed[c]
      BY <1>1, <2>7
    <3>3. a \in Addresses /\ Last(versions)[a] = array[a] /\ array[a] <= Limit
      BY <2>4, <2>5, <2>6
    <3> HIDE DEF a
    <3>4. versions[timestamp + 1][a] = versions[k + 1][a]
      BY <1>0, <3>1, <3>2, <3>3, VersionsAgree
    <3>5. Last(versions) = versions[timestamp + 1]
      BY <1>0, VersionTypes
    <3> QED
      BY <3>3, <3>4, <3>5 DEF a
  <2>9. Did(t)' = Executed
    BY <2>1 DEF Did, Executed
  <2> QED
    BY <2>1, <2>8, <2>9 DEF Seen, Limit
<1>5. CASE SkipPartition(t)
  <2>1. /\ pc[t] = "run" /\ pc'[t] = "run" /\ Executing(t)
        /\ UNCHANGED <<rf, wf, loc, more, since, versions, timestamp, committed, start_time>>
    BY <1>0, <1>5, SkippingStep
  <2>2. Known(t) = start_time[t] /\ Did(t)' = Did(t)
    BY <2>1 DEF Known, Did, Executed, Ring!CheckLabels
  <2>3. Unharmed(t, Known(t))
    BY <1>1, <2>2 DEF Unharmed
  <2>4. Seen(t)
    BY <1>0, <2>1, <2>3 DEF ObservedInv, Seen
  <2> QED
    BY <2>1, <2>2, <2>4 DEF Seen, Limit
<1>4. CASE Compares(t)
  <2>1. /\ UNCHANGED <<rf, wf, loc, more, since, versions, timestamp, committed, last_complete,
                       last_init>>
        /\ CheckPartition(t) /\ Executing(t)
    BY <1>0, <1>4, ComparingSteps
  <2>2. /\ \A k \in start_time[t] + 1 .. start_time'[t] : committed[k] \cap rf[t] = {}
        /\ start_time'[t] \in Nat
    <3>1. Ring!TypeOK'
      BY <1>0, StepIsRingStep, RingNextTypes DEF TypeOK
    <3>2. pc[t] # "begin"
      BY <1>0, <2>1, RunningPlace DEF Running
    <3> QED
      BY <1>0, <3>1, <3>2, StartMoves DEF Ring!TypeOK
  <2>3. \/ start_time'[t] = start_time[t] /\ Known(t) <= Known(t)' /\ Known(t)' \in Nat
        \/ start_time'[t] = Known(t)
    <3> USE DEF TypeOK, Ring!TypeOK, Ring!Goto, Executing, Ring!CheckLabels, Known
    <3>1. CASE Ring!CheckPartition(t)
      <4>1. /\ pc[t] = "pIndex" /\ index'[t] = last_init /\ start_time'[t] = start_time[t]
            /\ pc'[t] = IF last_init # start_time[t] THEN "pScan" ELSE "run"
        BY <1>0, <3>1 DEF Ring!CheckPartition
      <4>2. Known(t) = last_complete /\ Known(t)' = last_init
        BY <4>1
      <4> QED
        BY <1>0, <4>1, <4>2 DEF RingFacts
    <3>2. CASE Ring!PartitionScan(t)
      <4>1. /\ pc[t] = "pScan" /\ index'[t] = index[t] /\ start_time'[t] = start_time[t]
            /\ pc'[t] \in {"pScan", "pWait", "abort"}
        BY <1>0, <3>2 DEF Ring!PartitionScan, Ring!Scan
      <4>2. pc'[t] # "abort"
        BY <4>1
      <4>3. Known(t)' = Known(t)
        BY <4>1, <4>2
      <4> QED
        BY <1>1, <4>1, <4>3
    <3>3. CASE Ring!PartitionAwait(t)
      <4>1. /\ pc[t] = "pWait" /\ index'[t] = index[t] /\ start_time'[t] = start_time[t]
            /\ pc'[t] = "pRoll"
        BY <1>0, <3>3 DEF Ring!PartitionAwait, Ring!AwaitComplete
      <4>2. Known(t)' = Known(t)
        BY <4>1
      <4> QED
        BY <1>1, <4>1, <4>2
    <3>4. CASE Ring!PartitionRollover(t)
      <4>1. /\ pc[t] = "pRoll"
            /\ pc'[t] = "abort" \/ start_time'[t] = index[t]
        BY <1>0, <3>4 DEF Ring!PartitionRollover, Ring!Rollover
      <4>2. Known(t) = index[t]
        BY <4>1
      <4> QED
        BY <4>1, <4>2
    <3> QED
      BY <2>1, <3>1, <3>2, <3>3, <3>4 DEF CheckPartition
  <2>4. Unharmed(t, Known(t))
    <3>1. CASE start_time'[t] = Known(t)
      BY <2>2, <3>1 DEF Unharmed
    <3>2. CASE start_time'[t] = start_time[t] /\ Known(t) <= Known(t)' /\ Known(t)' \in Nat
      <4>1. \A k \in start_time[t] + 1 .. Known(t)' : committed[k] \cap rf[t] = {}
        BY <2>1, <3>2 DEF Unharmed
      <4>2. \A k \in start_time[t] + 1 .. Known(t) : k \in start_time[t] + 1 .. Known(t)'
        BY <1>1, <3>2
      <4> QED
        BY <4>1, <4>2 DEF Unharmed
    <3> QED
      BY <2>3, <3>1, <3>2
  <2>5. Seen(t)
    BY <1>0, <2>1, <2>4 DEF ObservedInv, Seen
  <2>6. start_time[t] <= start_time'[t] /\ start_time'[t] <= timestamp
    BY <1>1, <2>3
  <2>7. ASSUME NEW k \in start_time'[t] .. timestamp, k = start_time'[t] \/ k < since[t],
               NEW n \in 1 .. Did(t)
        PROVE  versions[k + 1][loc[t][n].from] <= Limit
    <3>1. k \in start_time[t] .. timestamp /\ start_time[t] \in start_time[t] .. timestamp
      BY <1>1, <2>2, <2>6, <2>7
    <3>2. CASE k < since[t]
      BY <2>5, <3>1, <3>2 DEF Seen
    <3>3. CASE k = start_time'[t]
      <4> DEFINE a == loc[t][n].from
      <4>1. a \in Addresses /\ hash(a) \in rf[t]
        <5>1. Job(t) \in Jobs /\ n \in 1 .. Executed /\ Job(t)[n] = loc[t][n]
          BY <1>0, <2>1, RunningPlace DEF Running
        <5>2. hash(a) \in rf[t]
          BY <1>0, <2>1 DEF PlaceInv
        <5>3. Job(t)[n].from \in Addresses
          BY <5>1, JobPlace
        <5> QED
          BY <5>1, <5>2, <5>3
      <4> HIDE DEF a
      <4>2. \A c \in start_time[t] + 1 .. k : hash(a) \notin committed[c]
        BY <2>2, <3>3, <4>1
      <4>3. start_time[t] \in 0 .. timestamp /\ k \in start_time[t] .. timestamp
        BY <1>1, <3>1
      <4>4. versions[k + 1][a] = versions[start_time[t] + 1][a]
        BY <1>0, <4>1, <4>2, <4>3, VersionsAgree
      <4>5. versions[start_time[t] + 1][a] <= Limit
        BY <2>5, <3>1 DEF Seen, a
      <4> QED
        BY <4>4, <4>5 DEF a
    <3> QED
      BY <2>7, <3>2, <3>3
  <2>8. Did(t)' = Did(t)
    BY <2>1 DEF Did, Executed
  <2> QED
    BY <2>1, <2>7, <2>8 DEF Seen, Limit
<1> QED
  BY <1>0, <1>2, <1>3, <1>4, <1>5, LeavingSteps

LEMMA StepObserved ==
  ASSUME Before, NEW t \in Threads, Step(t)
  PROVE  ObservedInv'
<1>1. ASSUME NEW u \in Threads, Executing(u)', wf'[u] = {}, Unharmed(u, Known(u))'
      PROVE  Seen(u)'
  BY <1>1, ObservedByOthers, ObservedBySelf
<1>2. \A u \in Threads : Executing(u)' /\ wf'[u] = {} /\ Unharmed(u, Known(u))' => Seen(u)'
  BY <1>1
<1> QED
  BY <1>2 DEF ObservedInv, Seen

----------------------------------------------------------------------------
(* The invariant. *)

LEMMA InitSerialInv == Init => SerialInv
<1> SUFFICES ASSUME Init PROVE SerialInv
  OBVIOUS
<1>1. /\ timestamp = 0 /\ last_complete = 0 /\ versions = <<Memory>>
      /\ \A t \in Threads : pc[t] = "begin" /\ since[t] = 1
  BY DEF Init, Ring!Init
<1>2. \A t \in Threads : ~Executing(t) /\ ~Validating(t)
  BY <1>1 DEF Executing, Validating, Ring!CheckLabels, Ring!CommitLabels
<1>3. VersionsInv
  <2>1. Len(versions) = 1
    BY <1>1
  <2> QED
    BY <1>1, <2>1 DEF VersionsInv
<1>4. PendingInv
  BY <1>1 DEF PendingInv
<1>5. PlaceInv
  BY <1>2 DEF PlaceInv
<1>6. ReplayInv
  BY <1>2 DEF ReplayInv
<1>7. ObservedInv
  BY <1>2 DEF ObservedInv
<1> QED
  BY <1>3, <1>4, <1>5, <1>6, <1>7 DEF SerialInv

LEMMA NextSerialInv == Before => SerialInv'
<1> SUFFICES ASSUME Before PROVE SerialInv'
  OBVIOUS
<1>0. /\ IInv /\ TypeOK /\ RingFacts
      /\ VersionsInv /\ PendingInv /\ PlaceInv /\ ReplayInv /\ ObservedInv /\ [Next]_vars
  BY DEF Before, SerialInv, IInv
<1>1. ASSUME NEW t \in Threads, Step(t) PROVE SerialInv'
  BY <1>0, <1>1, StepVersions, StepPending, StepPlace, StepReplay, StepObserved DEF SerialInv
<1>2. CASE UNCHANGED vars
  <2>1. /\ UNCHANGED <<timestamp, last_complete, pc, start_time, rf, wf, index, committed>>
        /\ UNCHANGED <<array, undo_log, loc, initial, more, since, versions>>
        /\ Executed' = Executed
    BY <1>2 DEF vars, ring, memory, plan, Executed
  <2>2. VersionsInv'
    BY <1>0, <2>1 DEF VersionsInv, Addresses, hash
  <2>3. PendingInv'
    BY <1>0, <2>1 DEF PendingInv, Ring!Publishing, Ring!PublishLabels
  <2>4. PlaceInv'
    BY <1>0, <2>1 DEF PlaceInv, Did, Executing, Validating, Ring!CheckLabels, Ring!CommitLabels,
       hash
  <2>5. ReplayInv'
    <3>1. ASSUME NEW u \in Threads, Running(u)', Unharmed(u, timestamp)'
          PROVE  Replays(u, Last(versions))'
      <4>1. Running(u) /\ Unharmed(u, timestamp)
        BY <2>1, <3>1 DEF Running, Executing, Validating, Unharmed, Ring!CheckLabels,
           Ring!CommitLabels
      <4>2. Replays(u, Last(versions))
        BY <1>0, <4>1 DEF ReplayInv, Running
      <4>3. Logged(u)' = Logged(u) /\ Last(versions') = Last(versions)
            /\ Did(u)' = Did(u) /\ Job(u)' = Job(u)
        BY <2>1, JobStays DEF Logged, Did
      <4> QED
        BY <2>1, <4>2, <4>3, ReplaysIs
    <3> QED
      BY <3>1 DEF ReplayInv, Running
  <2>6. ObservedInv'
    <3>1. ASSUME NEW u \in Threads, Executing(u)', wf'[u] = {}, Unharmed(u, Known(u))'
          PROVE  Seen(u)'
      <4>1. Executing(u) /\ wf[u] = {} /\ Unharmed(u, Known(u))
        BY <2>1, <3>1 DEF Executing, Unharmed, Known, Ring!CheckLabels
      <4>2. Seen(u)
        BY <1>0, <4>1 DEF ObservedInv, Seen
      <4> QED
        BY <2>1, <4>2 DEF Seen, Did, Limit
    <3>2. \A u \in Threads : Executing(u)' /\ wf'[u] = {} /\ Unharmed(u, Known(u))' => Seen(u)'
      BY <3>1
    <3> QED
      BY <3>2 DEF ObservedInv, Seen
  <2> QED
    BY <2>2, <2>3, <2>4, <2>5, <2>6 DEF SerialInv
<1> QED
  BY <1>0, <1>1, <1>2 DEF Next, Joined

\* Part-HTM drives the ring the theorems of CommitRingProofs are about.
LEMMA RingInvHolds == Spec => []RingProofs!IInv
<1>1. Ring!Spec => RingProofs!Spec
  BY SameInit, SameNext, PTL DEF Ring!Spec, RingProofs!Spec
<1>2. RingProofs!Spec => []RingProofs!IInv
  BY RingSizes, RingProofs!IInvHolds
<1> QED
  BY <1>1, <1>2, ImplementsRing, PTL

(* The version every commit makes differs from the one before only where   *)
(* it wrote; and a transaction that no commit has harmed has done what it  *)
(* would have done had it started just now.                                *)
THEOREM SerialInvHolds == Spec => []SerialInv
<1>1. IInv /\ RingProofs!IInv /\ SerialInv /\ [Next]_vars => SerialInv'
  BY NextSerialInv, RingInvFacts DEF Before
<1> QED
  BY <1>1, InitSerialInv, IInvHolds, RingInvHolds, PTL DEF Spec

----------------------------------------------------------------------------
(* Every step of Part-HTM is a step of the serial history, or none of it.  *)

\* The job of the refinement mapping.
JobOf(u) == IF pc[u] \in Ring!PublishLabels \cup {"release"} \/ loc[u] = NoLoc THEN NoLoc
            ELSE Job(u)

LEMMA SerialVariables ==
  /\ Serial!vars = <<versions, [u \in Threads |-> JobOf(u)], since>>
  /\ Serial!vars' = <<versions', [u \in Threads |-> JobOf(u)'], since'>>
  /\ Serial!Jobs = Jobs /\ Serial!NoJob = NoLoc
  BY DEF Serial!vars, JobOf, NoLoc, Serial!Jobs, Serial!NoJob, Jobs, Ring!PublishLabels

LEMMA StepJobs ==
  ASSUME TypeOK, NEW t \in Threads, Step(t), ~Draw(t), ~CasSucceeds(t), ~CommitReadOnly(t)
  PROVE  /\ UNCHANGED <<versions, since>> /\ \A u \in Threads : JobOf(u)' = JobOf(u)
<1>1. UNCHANGED <<versions, since>>
  BY HistoryStays DEF Step, TmBegin, Partition, PartConflict, SkipPartition, CheckPartition,
     Undo, TmAbort, CommitWriter, ValidateCommit, Publish, Release, plan
<1>2. ASSUME NEW u \in Threads, u # t PROVE JobOf(u)' = JobOf(u)
  BY <1>2, OthersStay, JobStays DEF Place, JobOf, Ring!PublishLabels
<1>3. JobOf(t)' = JobOf(t)
  <2> DEFINE Ended == pc[t] \in Ring!PublishLabels \cup {"release"}
             Same == (Ended' <=> Ended) /\ loc'[t] = loc[t]
  <2> USE DEF TypeOK, Ring!TypeOK, Ring!PublishLabels, Ring!Goto, Ring!FinishTx, ring,
              memory, plan
  <2>1. ASSUME TmBegin(t) \/ PartConflict(t) \/ TmAbort(t) \/ Partition(t) PROVE Same
    BY <2>1 DEF TmBegin, PartConflict, TmAbort, Partition, Ring!Begin, Ring!Conflict, Ring!Abort,
       Ring!PartitionWith
  <2>2. ASSUME CheckPartition(t) PROVE Same
    BY <2>2 DEF CheckPartition, Ring!CheckPartition, Ring!PartitionScan, Ring!Scan,
       Ring!PartitionAwait, Ring!AwaitComplete, Ring!PartitionRollover, Ring!Rollover
  <2>3. ASSUME ValidateCommit(t) PROVE Same
    BY <2>3 DEF ValidateCommit, Ring!CommitTime, Ring!AwaitInit, Ring!CommitScan, Ring!Scan,
       Ring!CommitAwait, Ring!AwaitComplete, Ring!CommitRollover, Ring!Rollover, Ring!CasFails
  <2>4. ASSUME CommitWriter(t) \/ Undo(t) \/ SkipPartition(t) PROVE Same
    BY <2>4 DEF CommitWriter, Undo, SkipPartition, Ring!CommitWriter
  <2>5. ASSUME Publish(t) PROVE Same
    BY <2>5 DEF Publish, Ring!Copy, Ring!SetInit, Ring!SetComplete
  <2>6. CASE Same
    <3>1. Job(t)' = Job(t)
      BY <2>6, JobStays
    <3> QED
      BY <2>6, <3>1 DEF JobOf, NoLoc
  <2>7. CASE Release(t)
    <3>1. Ended /\ loc'[t] = NoLoc
      BY <2>7 DEF Release, Ring!Release
    <3> QED
      BY <3>1 DEF JobOf, NoLoc
  <2> QED
    BY <2>1, <2>2, <2>3, <2>4, <2>5, <2>6, <2>7 DEF Step
<1> QED
  BY <1>1, <1>2, <1>3

LEMMA DrawStarts ==
  ASSUME TypeOK, NEW t \in Threads, Draw(t)
  PROVE  Serial!Start(t)
<1>1. /\ JobOf(t) = NoLoc /\ since' = [since EXCEPT ![t] = Len(versions)]
      /\ UNCHANGED <<versions, pc>>
  BY DEF Draw, JobOf, ring
<1>2. PICK l \in Locs : loc' = [loc EXCEPT ![t] = l]
  BY DEF Draw
<1>3. loc'[t] = l /\ \A u \in Threads \ {t} : loc'[u] = loc[u]
  BY <1>2 DEF TypeOK
<1>4. Job(t)' \in Jobs /\ loc'[t] # NoLoc
  <2>1. Executed' = Executed /\ Executed \in 1 .. TxLen /\ TxLen \in Nat
    BY ExecutedPlace DEF Executed
  <2>2. l \in [1 .. TxLen -> Pairs]
    BY LocsAssumption
  <2>3. Job(t)' \in Jobs
    BY <1>3, <2>1, <2>2 DEF Job, Jobs
  <2>4. 1 \in DOMAIN l
    BY <2>1, <2>2
  <2> QED
    BY <1>3, <2>3, <2>4 DEF NoLoc
<1>5. JobOf(t)' = Job(t)'
  BY <1>1, <1>4 DEF JobOf, Draw, NoLoc, Ring!PublishLabels
<1>6. \A u \in Threads : u # t => JobOf(u)' = JobOf(u)
  BY <1>1, <1>3, JobStays DEF JobOf, NoLoc, Ring!PublishLabels
<1> DEFINE job == [u \in Threads |-> JobOf(u)]
           j == Job(t)'
<1>7. [u \in Threads |-> JobOf(u)'] = [job EXCEPT ![t] = j] /\ job[t] = NoLoc
  BY <1>1, <1>5, <1>6
<1>8. j \in Jobs
  BY <1>4
<1> HIDE DEF j
<1> QED
  BY <1>1, <1>7, <1>8 DEF Serial!Start, JobOf, Jobs, Serial!Jobs, Serial!NoJob, NoLoc, Ring!PublishLabels

LEMMA JobEnds ==
  ASSUME TypeOK, PlanInv, NEW t \in Threads, CasSucceeds(t) \/ CommitReadOnly(t)
  PROVE  /\ JobOf(t) = Job(t) /\ Job(t) # NoLoc /\ Job(t) \in Jobs
         /\ \A u \in Threads : JobOf(u)' = IF u = t THEN NoLoc ELSE JobOf(u)
         /\ since' = since
<1>1. ASSUME NEW u \in Threads, u # t PROVE JobOf(u)' = JobOf(u)
  BY <1>1, OthersStay, JobStays DEF Place, JobOf, Ring!PublishLabels, Step
<1>2. /\ JobOf(t) = Job(t) /\ loc[t] # NoLoc /\ JobOf(t)' = NoLoc /\ since' = since
      /\ pc[t] \notin {"begin", "done"}
  <2> USE DEF TypeOK, Ring!TypeOK, PlanInv, JobOf, Ring!PublishLabels, Ring!Goto, Ring!FinishTx, plan
  <2>1. CASE CasSucceeds(t)
    BY <2>1 DEF CasSucceeds, Ring!CasSucceeds
  <2>2. CASE CommitReadOnly(t)
    BY <2>2 DEF CommitReadOnly, Ring!CommitReadOnly
  <2> QED
    BY <2>1, <2>2
<1>3. Drawn(t)
  BY <1>2, DrawnIs
<1> QED
  BY <1>1, <1>2, <1>3, DrawnJob

\* What the writes of a transaction make of the last version is its whole effect.
LEMMA CasCommits ==
  ASSUME Before, NEW t \in Threads, CasSucceeds(t)
  PROVE  Serial!Commit(t)
<1>0. /\ IInv /\ TypeOK /\ PlanInv /\ RingFacts
      /\ VersionsInv /\ PlaceInv /\ ReplayInv
  BY DEF Before, SerialInv, IInv
<1>1. pc[t] = "cas" /\ timestamp = index[t]
  BY DEF CasSucceeds, Ring!CasSucceeds
<1>2. Validating(t) /\ Uncommitted(t)
  BY <1>1 DEF Validating, Uncommitted, Ring!CommitLabels
<1>3. start_time[t] = timestamp /\ timestamp \in Nat
  BY <1>0, <1>1 DEF RingFacts
<1>4. Did(t) = Executed /\ Executed \in Nat
  BY <1>0, <1>2, ExecutedPlace DEF PlaceInv, Did
<1>5. Replays(t, Last(versions))
  <2>1. Unharmed(t, timestamp)
    BY <1>3 DEF Unharmed
  <2> QED
    BY <1>0, <1>2, <2>1 DEF ReplayInv
<1>6. /\ Job(t) \in Jobs /\ Last(versions) \in Memories
  BY <1>0, JobEnds, VersionTypes
<1>7. \A a \in Addresses : Serial!Run(Job(t), Last(versions))[a] =
                             IF a \in Logged(t) THEN array[a] ELSE Last(versions)[a]
  BY <1>4, <1>5 DEF Replays, Serial!Run
<1>8. Serial!Run(Job(t), Last(versions)) \in Memories
  <2>1. Executed \in 0 .. Executed
    BY <1>4
  <2>2. Serial!After(Job(t), Last(versions)) \in [0 .. Executed -> Memories]
    BY <1>6, AfterSteps
  <2> QED
    BY <2>1, <2>2 DEF Serial!Run
<1>9. NewVersion(t) = Serial!Run(Job(t), Last(versions))
  <2>1. /\ NewVersion(t) \in Memories
        /\ \A a \in Addresses :
              NewVersion(t)[a] = IF a \in Logged(t) THEN array[a] ELSE Last(versions)[a]
    BY <1>0, <1>2, NewVersionIs
  <2> QED
    BY <1>7, <1>8, <2>1 DEF Memories
<1>10. versions' = Append(versions, Serial!Run(Job(t), Serial!Last(versions)))
  BY <1>9 DEF CasSucceeds, NewVersion, Last, Serial!Last
<1> DEFINE job == [u \in Threads |-> JobOf(u)]
<1>11. job[t] = Job(t) /\ job[t] # NoLoc
       /\ [u \in Threads |-> JobOf(u)'] = [job EXCEPT ![t] = NoLoc] /\ since' = since
  BY <1>0, JobEnds
<1> QED
  BY <1>10, <1>11 DEF Serial!Commit, JobOf, Serial!NoJob, NoLoc, Ring!PublishLabels

\* The version a transaction that has written nothing may have seen.
LEMMA ReadOnlyObserves ==
  ASSUME Before, NEW t \in Threads, CommitReadOnly(t)
  PROVE  Serial!Observe(t)
<1>0. /\ IInv /\ TypeOK /\ PlanInv /\ RingFacts /\ VersionsInv /\ ObservedInv
  BY DEF Before, SerialInv, IInv
<1>1. pc[t] = "run" /\ wf[t] = {} /\ initial[t] = TxLen /\ UNCHANGED versions
  BY DEF CommitReadOnly, Ring!CommitReadOnly, Ring!ReadOnly
<1>2. Did(t) = Executed /\ Executed \in Nat
  <2>1. more[t] => initial[t] = 0
    BY <1>1 DEF Before, SerialInv, PlaceInv, Executing
  <2> QED
    BY <1>1, <2>1, ExecutedPlace DEF Did
<1>3. /\ start_time[t] \in Nat /\ timestamp \in Nat /\ start_time[t] <= timestamp
      /\ since[t] \in Nat /\ since[t] <= timestamp + 1 /\ Len(versions) = timestamp + 1
  BY <1>0 DEF RingFacts, VersionsInv, TypeOK
<1>4. Job(t) \in Jobs
  BY <1>0, JobEnds
<1>5. Seen(t)
  <2>1. Executing(t) /\ Known(t) = start_time[t]
    BY <1>1 DEF Executing, Known, Ring!CheckLabels
  <2>2. Unharmed(t, Known(t))
    BY <1>3, <2>1 DEF Unharmed
  <2> QED
    BY <1>0, <1>1, <2>1, <2>2 DEF ObservedInv, Seen
<1>6. PICK k \in start_time[t] .. timestamp : /\ k = start_time[t] \/ k < since[t]
                                             /\ since[t] <= k + 1
  <2>1. CASE since[t] <= start_time[t] + 1
    BY <1>3, <2>1
  <2>2. CASE ~(since[t] <= start_time[t] + 1)
    <3>1. since[t] - 1 \in start_time[t] .. timestamp /\ since[t] - 1 < since[t]
          /\ since[t] <= (since[t] - 1) + 1
      BY <1>3, <2>2
    <3> QED
      BY <3>1
  <2> QED
    BY <2>1, <2>2
<1>7. Idle(Job(t), versions[k + 1], Executed)
  <2>1. \A n \in 1 .. Executed : Job(t)[n] = loc[t][n]
    BY <1>2 DEF Job
  <2> QED
    BY <1>2, <1>5, <1>6, <2>1 DEF Seen, Idle
<1>8. k \in 0 .. timestamp /\ k + 1 \in since[t] .. Len(versions)
  BY <1>3, <1>6
<1>9. Serial!Run(Job(t), versions[k + 1]) = versions[k + 1]
  <2>1. versions[k + 1] \in Memories
    BY <1>0, <1>8, VersionTypes
  <2> QED
    BY <1>4, <1>7, <2>1, IdleRun
<1> DEFINE job == [u \in Threads |-> JobOf(u)]
<1>10. job[t] = Job(t) /\ job[t] # NoLoc
       /\ [u \in Threads |-> JobOf(u)'] = [job EXCEPT ![t] = NoLoc] /\ since' = since
  BY <1>0, JobEnds
<1> QED
  BY <1>1, <1>8, <1>9, <1>10 DEF Serial!Observe, JobOf, Serial!NoJob, NoLoc, Ring!PublishLabels

LEMMA StepIsSerialStep == Before => [Serial!Next]_(Serial!vars)
<1> SUFFICES ASSUME Before PROVE [Serial!Next]_(Serial!vars)
  OBVIOUS
<1>0. TypeOK /\ [Next]_vars
  BY DEF Before, IInv
<1>1. ASSUME NEW t \in Threads, Step(t) PROVE [Serial!Next]_(Serial!vars)
  <2>1. CASE Draw(t)
    BY <1>0, <2>1, DrawStarts DEF Serial!Next
  <2>2. CASE CasSucceeds(t)
    BY <2>2, CasCommits DEF Serial!Next
  <2>3. CASE CommitReadOnly(t)
    BY <2>3, ReadOnlyObserves DEF Serial!Next
  <2>4. CASE ~Draw(t) /\ ~CasSucceeds(t) /\ ~CommitReadOnly(t)
    <3>1. UNCHANGED <<versions, since>> /\ \A u \in Threads : JobOf(u)' = JobOf(u)
      BY <1>0, <1>1, <2>4, StepJobs
    <3>2. [u \in Threads |-> JobOf(u)'] = [u \in Threads |-> JobOf(u)]
      BY <3>1
    <3>3. Serial!vars' = Serial!vars
      BY <3>1, <3>2, SerialVariables
    <3> QED
      BY <3>3
  <2> QED
    BY <2>1, <2>2, <2>3, <2>4
<1>2. CASE UNCHANGED vars
  <2>1. UNCHANGED <<pc, loc, versions, since>>
    BY <1>2 DEF vars, ring, plan
  <2>2. \A u \in Threads : JobOf(u)' = JobOf(u)
    BY <2>1, JobStays DEF JobOf, Ring!PublishLabels
  <2>3. [u \in Threads |-> JobOf(u)'] = [u \in Threads |-> JobOf(u)]
    BY <2>2
  <2> QED
    BY <2>1, <2>3, SerialVariables
<1> QED
  BY <1>0, <1>1, <1>2 DEF Next, Joined

(* What the code executes of a transaction, the transfers of its first     *)
(* partition, is serialisable: undone and restarted however often, they    *)
(* take effect together when the compare-and-swap succeeds, on the version *)
(* before it; and a transaction that has written nothing has found nothing *)
(* to transfer in one version, the last one at some moment since it was    *)
(* drawn.                                                                  *)
THEOREM CommitsAreSerializable == Spec => ImplementsSerialHistory
<1>1. Init => Serial!Init
  <2> SUFFICES ASSUME Init PROVE Serial!Init
    OBVIOUS
  <2>1. \A u \in Threads : pc[u] = "begin" /\ loc[u] = NoLoc
    BY DEF Init, Ring!Init
  <2> QED
    BY <2>1 DEF Init, Serial!Init, Serial!NoJob, NoLoc, Ring!PublishLabels
<1>2. IInv /\ RingProofs!IInv /\ SerialInv /\ [Next]_vars => [Serial!Next]_(Serial!vars)
  BY StepIsSerialStep, RingInvFacts DEF Before
<1> QED
  BY <1>1, <1>2, SerialInvHolds, IInvHolds, RingInvHolds, PTL
     DEF Spec, ImplementsSerialHistory, Serial!Spec

----------------------------------------------------------------------------
(* Part-HTM with its lock: the owner, those who came late and the others.  *)

\* Who transfers as the owner holds no write lock, and nobody else transfers;
\* who is active beside it came through the window.
LEMMA OwnerAndLate ==
  ASSUME SuperInv, NEW o \in Threads, Transfers(o)
  PROVE  /\ gl[o] = "in" /\ Owns(o) /\ Uncommitted(o) /\ wf[o] = {}
         /\ \A u \in Threads \ {o} : ~Transfers(u)
         /\ \A u \in Threads \ ({o} \cup late) : ~Uncommitted(u) /\ wf[u] = {}
<1> USE DEF SuperInv, PlaceOK, SuperLocksInv
<1>1. gl[o] = "in" /\ Owns(o) /\ Uncommitted(o) /\ wf[o] = {}
  BY DEF Transfers, Owns, Uncommitted
<1>2. ASSUME NEW u \in Threads \ {o} PROVE ~Transfers(u)
  <2>1. Transfers(u) => Owns(u)
    BY DEF Transfers, Owns
  <2> QED
    BY <1>1, <2>1 DEF LockInv
<1>3. ASSUME NEW u \in Threads \ ({o} \cup late) PROVE ~Uncommitted(u) /\ wf[u] = {}
  <2>1. gl[u] \notin {"in", "leave"}
    BY <1>1 DEF LockInv, Active
  <2>2. pc[u] \in {"begin", "done"}
    BY <2>1
  <2> QED
    BY <2>2 DEF Uncommitted, Ring!CheckLabels, Ring!CommitLabels
<1> QED
  BY <1>1, <1>2, <1>3

LEMMA OthersGuarded ==
  ASSUME SuperInv, NEW S \in SUBSET {u \in Threads : ~Transfers(u)}
  PROVE  Guarded(S)
  BY DEF SuperInv, SuperLocksInv, Guarded

\* Until an owner stores, Part-HTM is as it is without the lock.
LEMMA BeforeOwnerStores ==
  ASSUME SuperInv, OwnerHasNotWritten
  PROVE  IInv
<1>1. ASSUME NEW u \in Threads, NEW a \in Addresses, Uncommitted(u), a \in Logged(u)
      PROVE  hash(a) \in wf[u]
  <2>1. ~Transfers(u)
    BY <1>1 DEF OwnerHasNotWritten, Logged
  <2> QED
    BY <1>1, <2>1 DEF SuperInv, SuperLocksInv
<1>2. LocksAreExclusive
  BY <1>1 DEF SuperInv, SuperLocksInv, LocksAreExclusive
<1> QED
  BY <1>2 DEF SuperInv, SuperTypeOK, IInv

LEMMA InsideIsAStep ==
  ASSUME SuperInv, NEW t \in Threads, Inside(t)
  PROVE  /\ Step(t) /\ TypeOK /\ PlanInv /\ TypeOK' /\ PlanInv'
         /\ OwnerHasNotWritten => IInv'
<1>1. Step(t)
  BY DEF Inside, Step
<1>2. TypeOK /\ PlanInv
  BY DEF SuperInv, SuperTypeOK
<1>3. TypeOK' /\ PlanInv'
  BY <1>1, <1>2, StepTypes, StepPlanInv
<1>4. OwnerHasNotWritten => IInv'
  BY <1>1, BeforeOwnerStores, NextIInv DEF Next
<1> QED
  BY <1>1, <1>2, <1>3, <1>4

\* Where a step of Part-HTM takes a thread that has entered.
LEMMA InsidePlace ==
  ASSUME SuperInv, NEW t \in Threads, Inside(t)
  PROVE  /\ gl[t] = "in" /\ stage[t] = "out" /\ UNCHANGED <<lock, go_super_gl, owner, late>>
         /\ gl' = [gl EXCEPT ![t] = IF pc'[t] \in {"begin", "done"} THEN "leave" ELSE "in"]
         /\ \A u \in Threads \ {t} : /\ pc'[u] = pc[u] /\ more'[u] = more[u]
                                     /\ undo_log'[u] = undo_log[u] /\ wf'[u] = wf[u]
         /\ go_super_gl[t] =>
              \/ pc[t] = "begin" /\ pc'[t] = "run" /\ undo_log'[t] = <<>>
              \/ /\ pc[t] = "run" /\ ~more[t]
                 /\ UNCHANGED <<pc, more, undo_log, wf>>
              \/ pc[t] = "abort" /\ pc'[t] \in {"abort", "begin"}
<1>1. Step(t) /\ TypeOK
  BY InsideIsAStep
<1>2. \A u \in Threads \ {t} : /\ pc'[u] = pc[u] /\ more'[u] = more[u]
                               /\ undo_log'[u] = undo_log[u] /\ wf'[u] = wf[u]
  BY <1>1, OthersKeep DEF Own
<1>3. ASSUME go_super_gl[t]
      PROVE  \/ pc[t] = "begin" /\ pc'[t] = "run" /\ undo_log'[t] = <<>>
             \/ /\ pc[t] = "run" /\ ~more[t] /\ stage[t] = "out"
                /\ UNCHANGED <<pc, more, undo_log, wf>>
             \/ pc[t] = "abort" /\ pc'[t] \in {"abort", "begin"}
  <2>1. CASE TmBegin(t)
    BY <1>1, <2>1 DEF TmBegin, Ring!Begin, Ring!Goto, TypeOK, Ring!TypeOK
  <2>2. CASE Undo(t)
    BY <1>1, <2>2 DEF Undo, ring
  <2>3. CASE TmAbort(t)
    BY <1>1, <2>3 DEF TmAbort, Ring!Abort, Ring!Goto, TypeOK, Ring!TypeOK
  <2>4. CASE stage[t] = "out" /\ SkipPartition(t)
    BY <2>4 DEF SkipPartition, ring, memory
  <2> QED
    BY <1>3, <2>1, <2>2, <2>3, <2>4 DEF Inside
<1>4. stage[t] = "out"
  <2>1. SUFFICES ASSUME stage[t] # "out" PROVE FALSE
    OBVIOUS
  <2>2. go_super_gl[t] /\ pc[t] = "run"
    BY <2>1 DEF SuperInv, PlaceOK, Transfers
  <2> QED
    BY <1>3, <2>1, <2>2
<1> QED
  BY <1>2, <1>3, <1>4 DEF Inside, Move

----------------------------------------------------------------------------
(* Types, and where the threads are. *)

Stages == {"out", "read", "load to", "store to", "load from", "store from"}

\* What the actions that are no step of Part-HTM leave alone.
LEMMA LockSteps ==
  ASSUME NEW t \in Threads, Acquire(t) \/ Drain(t) \/ Enter(t) \/ Leave(t)
  PROVE  UNCHANGED <<part, go_super_gl, owner>>
  BY DEF Acquire, Drain, Enter, Leave

\* A transfer the owner is in is one of its transaction.
LEMMA OwnerPlace ==
  ASSUME SuperInv, NEW t \in Threads, Transfers(t)
  PROVE  /\ initial[t] \in 0 .. TxLen /\ PartEnd(t) \in 0 .. TxLen
         /\ item[t] \in 0 .. TxLen /\ val[t] \in Int
         /\ item[t] < TxLen => /\ item[t] + 1 \in 0 .. TxLen
                               /\ From(t) \in Addresses /\ To(t) \in Addresses
<1>1. TypeOK /\ PlanInv /\ item[t] \in 0 .. TxLen /\ val[t] \in Int
  BY DEF SuperInv, SuperTypeOK
<1>2. Drawn(t) /\ PartEnd(t) \in 0 .. TxLen
  BY <1>1, DrawnIs DEF Transfers
<1>3. TxLen \in Nat
  BY SizesAssumption
<1>4. item[t] < TxLen => item[t] + 1 \in 0 .. TxLen /\ item[t] + 1 \in 1 .. TxLen
  BY <1>1, <1>3
<1> QED
  BY <1>1, <1>2, <1>4, PairPlace DEF Drawn, From, To

\* What a step of the owner does, by its kind.
LEMMA OwnerSteps ==
  ASSUME SuperInv, NEW t \in Threads, OwnerRuns(t)
  PROVE  /\ Transfers(t)
         /\ \/ OwnerPartition(t)
            \/ OwnerRead(t) /\ item[t] < TxLen
            \/ OwnerPartEnd(t)
            \/ \E a \in Addresses, here, next \in Stages \ {"out", "read"} :
                 OwnerLoad(t, a, here, next) /\ item[t] < TxLen
            \/ \E a \in Addresses, v \in Int, here \in Stages \ {"out", "read"},
                  next \in {"read", "load from"} :
                 OwnerStore(t, a, v, here, next) /\ item[t] < TxLen
<1>1. Transfers(t)
  BY DEF OwnerRuns, OwnerPartition, OwnerRead, OwnerPartEnd, OwnerLoad, OwnerStore, OwnerAt, Transfers
<1>2. /\ PartEnd(t) \in 0 .. TxLen /\ item[t] \in 0 .. TxLen /\ val[t] \in Int
      /\ item[t] < TxLen => From(t) \in Addresses /\ To(t) \in Addresses
  BY <1>1, OwnerPlace
<1>3. val[t] + Amount \in Int /\ val[t] - Amount \in Int
  BY <1>2, LimitIsInt
<1>4. stage[t] \in Stages \ {"out", "read"} => item[t] < TxLen
  BY DEF SuperInv, SuperTypeOK, Stages
<1>5. OwnerRead(t) => item[t] < TxLen
  <2>1. OwnerRead(t) => item[t] < PartEnd(t)
    BY DEF OwnerRead
  <2> QED
    BY <1>2, <2>1, SizesAssumption
<1>6. ASSUME NEW a, NEW here \in Stages \ {"out", "read"}, NEW next, OwnerLoad(t, a, here, next)
      PROVE  item[t] < TxLen
  BY <1>4, <1>6 DEF OwnerLoad, OwnerAt
<1>7. ASSUME NEW a, NEW v, NEW here \in Stages \ {"out", "read"}, NEW next, OwnerStore(t, a, v, here, next)
      PROVE  item[t] < TxLen
  BY <1>4, <1>7 DEF OwnerStore, OwnerAt
<1>8. {"load to", "store to", "load from", "store from"} = Stages \ {"out", "read"}
  BY DEF Stages
<1> QED
  BY <1>1, <1>2, <1>3, <1>5, <1>6, <1>7, <1>8 DEF OwnerRuns

\* A store of the owner, whatever it stores where.
LEMMA OwnerStoreEffect ==
  ASSUME SuperInv, NEW t \in Threads, NEW a \in Addresses, NEW v \in Int,
         NEW here, NEW next, OwnerStore(t, a, v, here, next)
  PROVE  /\ array' \in [Addresses -> Int]
         /\ undo_log'[t] # <<>>
         /\ undo_log' \in [Threads -> Seq(LogEntries)]
         /\ \A u \in Threads \ {t} : undo_log'[u] = undo_log[u]
<1>1. array \in [Addresses -> Int] /\ undo_log \in [Threads -> Seq(LogEntries)]
  BY DEF SuperInv, SuperTypeOK, TypeOK
<1>2. [addr |-> a, val |-> array[a]] \in LogEntries
  BY <1>1 DEF LogEntries, Entries
<1>3. Append(undo_log[t], [addr |-> a, val |-> array[a]]) \in Seq(LogEntries) \ {<<>>}
  BY <1>1, <1>2
<1> QED
  BY <1>1, <1>3 DEF OwnerStore

\* What the owner's steps keep; only those that store touch the memory.
OwnerKeeps(t) ==
  /\ TypeOK'
  /\ stage' \in [Threads -> Stages] /\ item' \in [Threads -> 0 .. TxLen] /\ val' \in [Threads -> Int]
  /\ \A u \in Threads : stage'[u] \in Stages \ {"out", "read"} => item'[u] < TxLen
  /\ UNCHANGED <<pc, wf, write_locks, loc, since, versions, lock, go_super_gl, gl, late>>
  /\ \A u \in Threads \ {t} : stage'[u] = stage[u] /\ more'[u] = more[u] /\ undo_log'[u] = undo_log[u]
  /\ ~more'[t]
  /\ undo_log'[t] = <<>> => UNCHANGED <<array, undo_log>>

LEMMA OwnerTypes ==
  ASSUME SuperInv, NEW t \in Threads, OwnerRuns(t)
  PROVE  OwnerKeeps(t)
<1>1. /\ TypeOK /\ Ring!TypeOK
      /\ stage \in [Threads -> Stages] /\ item \in [Threads -> 0 .. TxLen] /\ val \in [Threads -> Int]
      /\ \A u \in Threads : stage[u] \in Stages \ {"out", "read"} => item[u] < TxLen
      /\ stage[t] # "out" => ~more[t]
  BY DEF SuperInv, SuperTypeOK, TypeOK, PlaceOK, Stages
<1>2. /\ Transfers(t)
      /\ initial[t] \in 0 .. TxLen /\ PartEnd(t) \in 0 .. TxLen
      /\ item[t] < TxLen => item[t] + 1 \in 0 .. TxLen /\ From(t) \in Addresses
  BY OwnerSteps, OwnerPlace
<1>3. CASE OwnerPartition(t)
  <2> USE <1>3 DEF OwnerPartition, memory, ring
  <2>1. TypeOK'
    BY <1>1 DEF TypeOK, Ring!TypeOK
  <2>2. stage' \in [Threads -> Stages] /\ item' \in [Threads -> 0 .. TxLen]
    BY <1>1, <1>2 DEF Stages
  <2>3. \A u \in Threads : stage'[u] \in Stages \ {"out", "read"} => item'[u] < TxLen
    BY <1>1
  <2>4. ~more'[t]
    BY <1>1 DEF TypeOK
  <2> QED
    BY <1>1, <2>1, <2>2, <2>3, <2>4 DEF OwnerKeeps, TypeOK
<1>4. CASE OwnerRead(t) /\ item[t] < TxLen
  <2> USE <1>4 DEF OwnerRead, memory, plan
  <2>1. hash(From(t)) \in Ring!Bits
    BY <1>2, HashInBits
  <2>2. Ring!TypeOK'
    BY <1>1, <2>1 DEF Ring!TypeOK
  <2>3. TypeOK'
    BY <1>1, <2>2 DEF TypeOK
  <2>4. stage' \in [Threads -> Stages] /\ item' \in [Threads -> 0 .. TxLen]
    BY <1>1, <1>2 DEF Stages
  <2>5. \A u \in Threads : stage'[u] \in Stages \ {"out", "read"} => item'[u] < TxLen
    <3>1. stage[t] = "read"
      BY DEF OwnerAt
    <3> QED
      BY <1>1, <3>1
  <2>6. ~more'[t]
    BY <1>1 DEF OwnerAt
  <2> QED
    BY <1>1, <2>3, <2>4, <2>5, <2>6 DEF OwnerKeeps
<1>5. CASE OwnerPartEnd(t)
  <2> USE <1>5 DEF OwnerPartEnd, memory, ring
  <2>1. TypeOK'
    BY <1>1, <1>2 DEF TypeOK, Ring!TypeOK
  <2>2. stage' \in [Threads -> Stages]
    BY <1>1 DEF Stages
  <2>3. ~more'[t]
    BY <1>1 DEF OwnerAt
  <2> QED
    BY <1>1, <2>1, <2>2, <2>3 DEF OwnerKeeps
<1>6. ASSUME NEW a \in Addresses, NEW here \in Stages \ {"out", "read"}, NEW next \in Stages \ {"out", "read"},
             OwnerLoad(t, a, here, next), item[t] < TxLen
      PROVE  OwnerKeeps(t)
  <2> USE <1>6 DEF OwnerLoad, part, ring, memory, plan
  <2>1. TypeOK'
    BY <1>1 DEF TypeOK, Ring!TypeOK
  <2>2. array[a] \in Int
    BY <1>1 DEF TypeOK
  <2>3. stage' \in [Threads -> Stages] /\ val' \in [Threads -> Int]
    BY <1>1, <2>2
  <2>4. \A u \in Threads : stage'[u] \in Stages \ {"out", "read"} => item'[u] < TxLen
    BY <1>1
  <2>5. ~more'[t]
    BY <1>1 DEF OwnerAt
  <2> QED
    BY <1>1, <2>1, <2>3, <2>4, <2>5 DEF OwnerKeeps
<1>7. ASSUME NEW a \in Addresses, NEW v \in Int, NEW here \in Stages \ {"out", "read"},
             NEW next \in {"read", "load from"}, OwnerStore(t, a, v, here, next), item[t] < TxLen
      PROVE  OwnerKeeps(t)
  <2>1. /\ array' \in [Addresses -> Int] /\ undo_log' \in [Threads -> Seq(LogEntries)]
        /\ undo_log'[t] # <<>> /\ \A u \in Threads \ {t} : undo_log'[u] = undo_log[u]
    BY <1>7, OwnerStoreEffect
  <2> USE <1>7 DEF OwnerStore, ring, plan
  <2>2. TypeOK'
    BY <1>1, <2>1 DEF TypeOK, Ring!TypeOK
  <2>3. stage' \in [Threads -> Stages] /\ item' \in [Threads -> 0 .. TxLen]
    BY <1>1, <1>2 DEF Stages
  <2>4. \A u \in Threads : stage'[u] \in Stages \ {"out", "read"} => item'[u] < TxLen
    <3>1. next # "read" => item' = item
      BY <1>1
    <3>2. next = "read" => stage'[t] = "read" /\ \A u \in Threads \ {t} : item'[u] = item[u]
      BY <1>1
    <3> QED
      BY <1>1, <3>1, <3>2
  <2>5. ~more'[t]
    BY <1>1 DEF OwnerAt
  <2> QED
    BY <1>1, <2>1, <2>2, <2>3, <2>4, <2>5 DEF OwnerKeeps
<1> QED
  BY <1>3, <1>4, <1>5, <1>6, <1>7, OwnerSteps

\* When the owner ends, its writes are committed and those of the others are not.
LEMMA OwnerEndEffect ==
  ASSUME SuperInv, NEW t \in Threads, OwnerEnd(t)
  PROVE  /\ Transfers(t) /\ stage[t] = "out"
         /\ pc' = [pc EXCEPT ![t] = pc'[t]] /\ pc'[t] \in {"begin", "done"}
         /\ Last(versions') = WithoutWritesOf({u \in Threads \ {t} : Uncommitted(u)})
         /\ TypeOK'
         /\ UNCHANGED <<wf, memory, more, owner>>
<1> DEFINE W == WithoutWritesOf({u \in Threads \ {t} : Uncommitted(u)})
<1>1. TypeOK /\ Ring!TypeOK
  BY DEF SuperInv, SuperTypeOK, TypeOK
<1>2. Transfers(t) /\ stage[t] = "out"
  BY DEF OwnerEnd, OwnerAt, Transfers
<1>3. W \in [Addresses -> Int]
  BY <1>1, WithoutWritesType
<1>4. versions' = Append(versions, W)
  BY DEF OwnerEnd
<1> HIDE DEF W
<1>5. versions \in Seq([Addresses -> Int])
  BY <1>1 DEF TypeOK
<1>6. versions' \in Seq([Addresses -> Int]) \ {<<>>} /\ Last(versions') = W
  BY <1>3, <1>4, <1>5 DEF Last
<1>7. /\ pc' = [pc EXCEPT ![t] = IF tx_limit[t] + 1 < NoTx THEN "begin" ELSE "done"]
      /\ tx_limit' = [tx_limit EXCEPT ![t] = @ + 1]
      /\ pc[t] = "run"
  BY DEF OwnerEnd, OwnerAt
<1>8. pc' = [pc EXCEPT ![t] = pc'[t]] /\ pc'[t] \in {"begin", "done"}
  BY <1>1, <1>7 DEF Ring!TypeOK
<1>9. Ring!TypeOK'
  <2>1. tx_limit[t] \in 0 .. NoTx /\ tx_limit[t] < NoTx
    BY <1>1, <1>7 DEF Ring!TypeOK
  <2>2. tx_limit' \in [Threads -> 0 .. NoTx]
    BY <1>1, <1>7, <2>1, SizesAssumption DEF Ring!TypeOK
  <2>3. \A u \in Threads : pc'[u] # "done" => tx_limit'[u] < NoTx
    BY <1>1, <1>7, <2>1, SizesAssumption DEF Ring!TypeOK
  <2>4. pc' \in [Threads -> Ring!Labels]
    BY <1>1, <1>7 DEF Ring!TypeOK, Ring!Labels
  <2>5. UNCHANGED <<timestamp, last_init, last_complete, ring_wf, start_time, rf, wf, index, entry,
                    word, committed>>
    BY DEF OwnerEnd
  <2> QED
    BY <1>1, <2>2, <2>3, <2>4, <2>5 DEF Ring!TypeOK
<1>10. TypeOK'
  BY <1>1, <1>6, <1>9 DEF OwnerEnd, TypeOK, memory
<1> QED
  BY <1>2, <1>6, <1>8, <1>10 DEF OwnerEnd, W
----------------------------------------------------------------------------
(* Who is where. *)

LEMMA StepPlaceOK ==
  ASSUME SuperInv, NEW t \in Threads, SuperStep(t)
  PROVE  PlaceOK'
<1>1. /\ PlaceOK
      /\ pc \in [Threads -> Ring!Labels] /\ gl \in [Threads -> {"out", "drain", "enter", "in", "leave"}]
      /\ go_super_gl \in [Threads -> BOOLEAN] /\ stage \in [Threads -> Stages]
      /\ more \in [Threads -> BOOLEAN]
  BY DEF SuperInv, SuperTypeOK, TypeOK, Ring!TypeOK, Stages
<1> USE DEF PlaceOK, Move, Transfers
<1>2. CASE DrawLoc(t)
  BY <1>1, <1>2 DEF DrawLoc, Draw, ring, owner
<1>3. CASE Acquire(t)
  BY <1>1, <1>3 DEF Acquire, part, ring, plan, owner
<1>4. CASE Drain(t) \/ Enter(t)
  BY <1>1, <1>4 DEF Drain, Enter, part, ring, plan, owner
<1>5. CASE Leave(t)
  BY <1>1, <1>5 DEF Leave, part, ring, plan, owner
<1>6. CASE Inside(t)
  <2>1. pc' \in [Threads -> Ring!Labels]
    BY <1>6, InsideIsAStep DEF TypeOK, Ring!TypeOK
  <2>2. /\ gl[t] = "in" /\ stage[t] = "out" /\ go_super_gl' = go_super_gl /\ stage' = stage
        /\ gl' = [gl EXCEPT ![t] = IF pc'[t] \in {"begin", "done"} THEN "leave" ELSE "in"]
        /\ \A u \in Threads \ {t} : pc'[u] = pc[u] /\ more'[u] = more[u]
        /\ go_super_gl[t] => \/ pc'[t] = "run"
                             \/ pc[t] = "run" /\ pc' = pc
                             \/ pc'[t] \in {"abort", "begin"}
    BY <1>6, InsidePlace DEF owner
  <2> QED
    BY <1>1, <2>1, <2>2
<1>7. CASE GiveUp(t)
  BY <1>1, <1>7 DEF GiveUp, Ring!Conflict, Ring!Goto, plan, owner
<1>8. CASE OwnerRuns(t)
  <2>1. /\ UNCHANGED <<pc, go_super_gl, gl>> /\ ~more'[t] /\ Transfers(t)
        /\ \A u \in Threads \ {t} : stage'[u] = stage[u] /\ more'[u] = more[u]
    BY <1>8, OwnerTypes, OwnerSteps DEF OwnerKeeps
  <2> QED
    BY <1>1, <2>1
<1>9. CASE OwnerEnd(t)
  <2>1. /\ pc' = [pc EXCEPT ![t] = pc'[t]] /\ pc'[t] \in {"begin", "done"} /\ stage[t] = "out"
        /\ UNCHANGED <<more, stage>>
    BY <1>9, OwnerEndEffect DEF owner
  <2>2. go_super_gl' = [go_super_gl EXCEPT ![t] = FALSE] /\ gl' = [gl EXCEPT ![t] = "leave"]
    BY <1>9 DEF OwnerEnd, OwnerAt
  <2> QED
    BY <1>1, <2>1, <2>2
<1> QED
  BY <1>2, <1>3, <1>4, <1>5, <1>6, <1>7, <1>8, <1>9 DEF SuperStep

LEMMA FiniteActive ==
  ASSUME gl \in [Threads -> {"out", "drain", "enter", "in", "leave"}]
  PROVE  IsFiniteSet(Active) /\ Cardinality(Active) \in Nat
<1>1. Active \in SUBSET Threads
  BY DEF Active
<1> QED
  BY <1>1, ThreadsAssumption, FS_Subset, FS_CardinalityType

\* active_tx counts who has entered and not left.
LEMMA EntersAndLeaves ==
  ASSUME SuperInv, NEW t \in Threads, SuperStep(t)
  PROVE  \/ Active' = Active /\ active_tx' = active_tx
         \/ /\ Enter(t) /\ t \notin Active
            /\ Active' = Active \union {t} /\ active_tx' = active_tx + 1
         \/ t \in Active /\ Active' = Active \ {t} /\ active_tx' = active_tx - 1
<1>1. gl \in [Threads -> {"out", "drain", "enter", "in", "leave"}]
  BY DEF SuperInv, SuperTypeOK
<1> USE DEF Active, Move, lock
<1>2. CASE DrawLoc(t)
  BY <1>1, <1>2 DEF DrawLoc
<1>3. CASE Acquire(t)
  BY <1>1, <1>3 DEF Acquire
<1>4. CASE Drain(t)
  BY <1>1, <1>4 DEF Drain
<1>5. CASE Enter(t)
  BY <1>1, <1>5 DEF Enter
<1>6. CASE Leave(t)
  BY <1>1, <1>6 DEF Leave
<1>7. CASE Inside(t)
  BY <1>1, <1>7 DEF Inside
<1>8. CASE GiveUp(t)
  BY <1>1, <1>8 DEF GiveUp
<1>9. CASE OwnerRuns(t)
  BY <1>1, <1>9, OwnerTypes DEF OwnerKeeps
<1>10. CASE OwnerEnd(t)
  BY <1>1, <1>10 DEF OwnerEnd, OwnerAt
<1> QED
  BY <1>2, <1>3, <1>4, <1>5, <1>6, <1>7, <1>8, <1>9, <1>10 DEF SuperStep

LEMMA StepActive ==
  ASSUME SuperInv, NEW t \in Threads, SuperStep(t)
  PROVE  active_tx' = Cardinality(Active') /\ active_tx' \in Nat
<1>1. active_tx = Cardinality(Active) /\ active_tx \in Nat
  BY DEF SuperInv, SuperTypeOK, LockInv
<1>2. IsFiniteSet(Active) /\ Cardinality(Active) \in Nat
  BY FiniteActive DEF SuperInv, SuperTypeOK
<1>3. CASE Active' = Active /\ active_tx' = active_tx
  BY <1>1, <1>3
<1>4. CASE t \notin Active /\ Active' = Active \union {t} /\ active_tx' = active_tx + 1
  <2>1. Cardinality(Active \union {t}) = Cardinality(Active) + 1
    BY <1>2, <1>4, FS_AddElement
  <2> QED
    BY <1>1, <1>4, <2>1
<1>5. CASE t \in Active /\ Active' = Active \ {t} /\ active_tx' = active_tx - 1
  <2>1. Cardinality(Active \ {t}) = Cardinality(Active) - 1 /\ Cardinality(Active \ {t}) \in Nat
    BY <1>2, <1>5, FS_RemoveElement, FS_CardinalityType
  <2> QED
    BY <1>1, <1>5, <2>1
<1> QED
  BY <1>3, <1>4, <1>5, EntersAndLeaves

\* The lock changes hands where it is taken and where its owner ends.
LEMMA OwnersChange ==
  ASSUME SuperInv, NEW t \in Threads, SuperStep(t)
  PROVE  /\ \A u \in Threads \ {t} : gl'[u] = gl[u] /\ (Owns(u)' <=> Owns(u))
         /\ \/ tm_super_glock' = tm_super_glock /\ (Owns(t)' <=> Owns(t))
            \/ Acquire(t) /\ ~tm_super_glock /\ tm_super_glock' /\ gl'[t] = "drain"
            \/ Owns(t) /\ ~Owns(t)' /\ ~tm_super_glock'
<1>1. /\ PlaceOK
      /\ pc \in [Threads -> Ring!Labels] /\ gl \in [Threads -> {"out", "drain", "enter", "in", "leave"}]
      /\ go_super_gl \in [Threads -> BOOLEAN] /\ tm_super_glock \in BOOLEAN
  BY DEF SuperInv, SuperTypeOK, TypeOK, Ring!TypeOK
<1> USE DEF PlaceOK, Move, Owns, lock
<1>2. CASE DrawLoc(t)
  BY <1>1, <1>2 DEF DrawLoc, Draw, ring
<1>3. CASE Acquire(t)
  BY <1>1, <1>3 DEF Acquire, part, ring
<1>4. CASE Drain(t) \/ Enter(t)
  BY <1>1, <1>4 DEF Drain, Enter, part, ring
<1>5. CASE Leave(t)
  BY <1>1, <1>5 DEF Leave, part, ring
<1>6. CASE Inside(t)
  BY <1>1, <1>6, InsidePlace
<1>7. CASE GiveUp(t)
  BY <1>1, <1>7 DEF GiveUp, Ring!Conflict, Ring!Goto
<1>8. CASE OwnerRuns(t)
  BY <1>1, <1>8, OwnerTypes DEF OwnerKeeps
<1>9. CASE OwnerEnd(t)
  <2>1. pc' = [pc EXCEPT ![t] = pc'[t]] /\ pc'[t] \in {"begin", "done"}
    BY <1>9, OwnerEndEffect
  <2>2. /\ go_super_gl' = [go_super_gl EXCEPT ![t] = FALSE] /\ gl' = [gl EXCEPT ![t] = "leave"]
        /\ tm_super_glock' = FALSE /\ gl[t] = "in" /\ go_super_gl[t] /\ pc[t] = "run"
    BY <1>9 DEF OwnerEnd, OwnerAt
  <2> QED
    BY <1>1, <2>1, <2>2
<1> QED
  BY <1>2, <1>3, <1>4, <1>5, <1>6, <1>7, <1>8, <1>9 DEF SuperStep

\* Who is active beside an owner that has entered came through the window: nobody
\* was when the owner saw active_tx at zero.
LEMMA StepLock ==
  ASSUME SuperInv, NEW t \in Threads, SuperStep(t)
  PROVE  LockInv'
<1>1. /\ LockInv
      /\ gl \in [Threads -> {"out", "drain", "enter", "in", "leave"}]
      /\ go_super_gl \in [Threads -> BOOLEAN] /\ tm_super_glock \in BOOLEAN
      /\ active_tx = Cardinality(Active)
      /\ IsFiniteSet(Active)
  BY FiniteActive DEF SuperInv, SuperTypeOK, LockInv
<1>2. active_tx' = Cardinality(Active')
  BY StepActive
<1>3. /\ \A u \in Threads \ {t} : gl'[u] = gl[u] /\ (Owns(u)' <=> Owns(u))
      /\ \/ tm_super_glock' = tm_super_glock /\ (Owns(t)' <=> Owns(t))
         \/ Acquire(t) /\ ~tm_super_glock /\ tm_super_glock' /\ gl'[t] = "drain"
         \/ Owns(t) /\ ~Owns(t)' /\ ~tm_super_glock'
  BY OwnersChange
<1> DEFINE O(u) == Owns(u)
<1>4. /\ tm_super_glock <=> \E u \in Threads : O(u)
      /\ \A u, v \in Threads : O(u) /\ O(v) => u = v
  BY <1>1 DEF LockInv
<1>5. Acquire(t) /\ tm_super_glock' => O(t)'
  BY <1>1 DEF Acquire, Move, Owns, part, ring
<1>6. /\ tm_super_glock' <=> \E u \in Threads : O(u)'
      /\ \A u, v \in Threads : O(u)' /\ O(v)' => u = v
  <2> HIDE DEF O
  <2>1. /\ \A u \in Threads \ {t} : O(u)' <=> O(u)
        /\ \/ tm_super_glock' = tm_super_glock /\ (O(t)' <=> O(t))
           \/ Acquire(t) /\ ~tm_super_glock /\ tm_super_glock'
           \/ O(t) /\ ~O(t)' /\ ~tm_super_glock'
    BY <1>3 DEF O
  <2>2. CASE tm_super_glock' = tm_super_glock /\ (O(t)' <=> O(t))
    <3>1. \A u \in Threads : O(u)' <=> O(u)
      BY <2>1, <2>2
    <3> QED
      BY <1>4, <2>2, <3>1
  <2>3. CASE Acquire(t) /\ ~tm_super_glock /\ tm_super_glock'
    BY <1>4, <1>5, <2>1, <2>3
  <2>4. CASE O(t) /\ ~O(t)' /\ ~tm_super_glock'
    BY <1>4, <2>1, <2>4
  <2> QED
    BY <2>1, <2>2, <2>3, <2>4
<1>7. ASSUME NEW o \in Threads, Owns(o)', gl'[o] \in {"enter", "in"}
      PROVE  Active' \subseteq {o} \cup late'
  <2>1. CASE Drain(t) /\ o = t
    <3>1. Active = {}
      BY <1>1, <2>1, FS_EmptySet DEF Drain
    <3>2. Active' = Active
      BY <1>1, <2>1 DEF Drain, Active, Move
    <3> QED
      BY <3>1, <3>2
  <2>2. CASE ~(Drain(t) /\ o = t)
    <3>1. Owns(o) /\ gl[o] \in {"enter", "in"}
      <4>1. CASE o # t
        BY <1>3, <1>7, <4>1
      <4>2. CASE o = t /\ Inside(t)
        BY <1>1, <1>7, <4>2, InsidePlace, <1>3, <1>5 DEF Acquire, Inside
      <4>3. CASE o = t /\ OwnerRuns(t)
        BY <1>7, <4>3, OwnerTypes DEF OwnerKeeps, Owns
      <4>4. CASE o = t /\ ~Inside(t) /\ ~OwnerRuns(t)
        BY <1>1, <1>3, <1>7, <2>2, <4>4
           DEF SuperStep, DrawLoc, Acquire, Enter, Leave, GiveUp, OwnerEnd, Move, Owns
      <4> QED
        BY <4>1, <4>2, <4>3, <4>4
    <3>2. Active \subseteq {o} \cup late /\ OwnerIsThere
      BY <1>1, <3>1 DEF LockInv, OwnerIsThere
    <3>3. CASE Enter(t)
      <4>1. late' = IF ~go_super_gl[t] /\ OwnerIsThere THEN late \cup {t} ELSE late
        BY <3>3 DEF Enter, WindowEntry
      <4>2. go_super_gl[t] => t = o
        <5>1. SUFFICES ASSUME go_super_gl[t], t # o PROVE FALSE
          OBVIOUS
        <5>2. gl[t] = "enter" /\ pc[t] # "abort"
          BY <3>3 DEF Enter, SuperInv, PlaceOK
        <5>3. Owns(t)
          BY <5>1, <5>2 DEF Owns
        <5> QED
          BY <1>4, <3>1, <5>1, <5>3
      <4>3. Active' \subseteq Active \cup {t}
        BY EntersAndLeaves
      <4> QED
        BY <3>2, <4>1, <4>2, <4>3
    <3>4. CASE Leave(t)
      <4>1. late' = late
        BY <3>2, <3>4 DEF Leave
      <4>2. Active' \subseteq Active
        BY <3>4, EntersAndLeaves DEF Leave, Enter
      <4> QED
        BY <3>2, <4>1, <4>2
    <3>5. CASE ~Enter(t) /\ ~Leave(t)
      <4>1. Active' \subseteq Active
        BY <3>5, EntersAndLeaves
      <4>2. ~OwnerEnd(t)
        <5>1. OwnerEnd(t) => Owns(t) /\ ~Owns(t)'
          BY <1>1 DEF OwnerEnd, OwnerAt, Owns
        <5> QED
          BY <1>4, <1>7, <3>1, <5>1
      <4>3. late' = late
        <5>1. CASE Inside(t)
          BY <5>1 DEF Inside
        <5>2. CASE OwnerRuns(t)
          BY <5>2, OwnerTypes DEF OwnerKeeps
        <5> QED
          BY <3>5, <4>2, <5>1, <5>2 DEF SuperStep, DrawLoc, Acquire, Drain, GiveUp
      <4> QED
        BY <3>2, <4>1, <4>3
    <3> QED
      BY <3>3, <3>4, <3>5
  <2> QED
    BY <2>1, <2>2
<1>8. /\ tm_super_glock' <=> \E u \in Threads : Owns(u)'
      /\ \A u, v \in Threads : Owns(u)' /\ Owns(v)' => u = v
  BY <1>6
<1> QED
  BY <1>2, <1>7, <1>8 DEF LockInv

LEMMA StepSuperTypes ==
  ASSUME SuperInv, NEW t \in Threads, SuperStep(t)
  PROVE  SuperTypeOK'
<1>1. SuperTypeOK /\ TypeOK
  BY DEF SuperInv, SuperTypeOK
<1>2. active_tx' \in Nat
  BY StepActive
<1>3. TypeOK'
  <2>1. CASE DrawLoc(t)
    BY <1>1, <2>1 DEF DrawLoc, Draw, ring, memory, TypeOK, Ring!TypeOK
  <2>2. CASE Acquire(t) \/ Drain(t) \/ Enter(t) \/ Leave(t)
    BY <1>1, <2>2, LockSteps DEF part, ring, memory, plan, TypeOK, Ring!TypeOK
  <2>3. CASE Inside(t)
    BY <2>3, InsideIsAStep
  <2>4. CASE GiveUp(t)
    BY <1>1, <2>4 DEF GiveUp, Ring!Conflict, Ring!Goto, Ring!filters, Ring!scan, Ring!counters,
       Ring!Labels, memory, plan, TypeOK, Ring!TypeOK
  <2>5. CASE OwnerRuns(t) \/ OwnerEnd(t)
    BY <2>5, OwnerTypes, OwnerEndEffect DEF OwnerKeeps
  <2> QED
    BY <2>1, <2>2, <2>3, <2>4, <2>5 DEF SuperStep
<1>4. /\ tm_super_glock' \in BOOLEAN
      /\ go_super_gl' \in [Threads -> BOOLEAN]
      /\ gl' \in [Threads -> {"out", "drain", "enter", "in", "leave"}]
      /\ late' \subseteq Threads
  <2> USE <1>1 DEF SuperTypeOK, lock, owner, Move
  <2>1. CASE DrawLoc(t) \/ Acquire(t) \/ Drain(t) \/ Enter(t) \/ Leave(t)
    BY <2>1 DEF DrawLoc, Acquire, Drain, Enter, WindowEntry, Leave
  <2>2. CASE Inside(t) \/ GiveUp(t)
    BY <2>2, InsidePlace DEF GiveUp
  <2>3. CASE OwnerRuns(t)
    BY <2>3, OwnerTypes DEF OwnerKeeps
  <2>4. CASE OwnerEnd(t)
    BY <2>4 DEF OwnerEnd
  <2> QED
    BY <2>1, <2>2, <2>3, <2>4 DEF SuperStep
<1>5. /\ stage' \in [Threads -> Stages] /\ item' \in [Threads -> 0 .. TxLen] /\ val' \in [Threads -> Int]
      /\ \A u \in Threads : stage'[u] \in Stages \ {"out", "read"} => item'[u] < TxLen
  <2>1. CASE OwnerRuns(t)
    BY <2>1, OwnerTypes DEF OwnerKeeps
  <2>2. CASE ~OwnerRuns(t)
    <3>1. owner' = owner
      BY <2>2, InsidePlace DEF SuperStep, DrawLoc, Acquire, Drain, Enter, GiveUp, Leave, OwnerEnd
    <3> QED
      BY <1>1, <3>1 DEF SuperTypeOK, Stages, owner
  <2> QED
    BY <2>1, <2>2
<1> QED
  BY <1>2, <1>3, <1>4, <1>5 DEF SuperTypeOK, Stages

----------------------------------------------------------------------------
(* Memory, write locks and logs. *)

\* The steps that change nothing of it.
LEMMA QuietSuperSteps ==
  ASSUME SuperInv, NEW t \in Threads,
         DrawLoc(t) \/ Acquire(t) \/ Drain(t) \/ Enter(t) \/ Leave(t) \/ GiveUp(t)
  PROVE  /\ UNCHANGED <<array, write_locks, undo_log, versions, more, wf>>
         /\ \A u \in Threads : /\ Uncommitted(u)' <=> Uncommitted(u)
                               /\ Logged(u)' = Logged(u)
                               /\ Transfers(u)' <=> Transfers(u)
                               /\ pc'[u] \in {"begin", "done"} => pc[u] \in {"begin", "done"}
                               /\ pc'[u] = pc[u] \/ pc[u] = "run"
                               /\ loc'[u] = loc[u] \/ pc'[u] = "begin"
<1>1. pc \in [Threads -> Ring!Labels] /\ go_super_gl \in [Threads -> BOOLEAN]
      /\ loc \in [Threads -> {NoLoc} \cup Locs]
  BY DEF SuperInv, SuperTypeOK, TypeOK, Ring!TypeOK
<1> USE DEF Uncommitted, Logged, Transfers, Ring!CheckLabels, Ring!CommitLabels
<1>2. CASE DrawLoc(t)
  BY <1>1, <1>2 DEF DrawLoc, Draw, ring, memory
<1>3. CASE Acquire(t) \/ Drain(t) \/ Enter(t) \/ Leave(t)
  BY <1>3, LockSteps DEF part, ring, memory, plan
<1>4. CASE GiveUp(t)
  BY <1>1, <1>4 DEF GiveUp, Ring!Conflict, Ring!Goto, Ring!filters, memory, plan
<1> QED
  BY <1>2, <1>3, <1>4

LEMMA StepSuperPlan ==
  ASSUME SuperInv, NEW t \in Threads, SuperStep(t)
  PROVE  PlanInv'
<1> USE DEF PlanInv
<1>1. PlanInv
  BY DEF SuperInv
<1>2. CASE DrawLoc(t) \/ Acquire(t) \/ Drain(t) \/ Enter(t) \/ Leave(t) \/ GiveUp(t)
  BY <1>1, <1>2, QuietSuperSteps
<1>3. CASE Inside(t)
  BY <1>3, InsideIsAStep
<1>4. CASE OwnerRuns(t)
  BY <1>1, <1>4, OwnerTypes DEF OwnerKeeps
<1>5. CASE OwnerEnd(t)
  <2>1. /\ pc' = [pc EXCEPT ![t] = pc'[t]] /\ pc'[t] \in {"begin", "done"}
        /\ loc' = [loc EXCEPT ![t] = NoLoc]
        /\ pc \in [Threads -> Ring!Labels] /\ loc \in [Threads -> {NoLoc} \cup Locs]
    BY <1>5, OwnerEndEffect DEF OwnerEnd, SuperInv, SuperTypeOK, TypeOK, Ring!TypeOK
  <2> QED
    BY <1>1, <2>1
<1> QED
  BY <1>2, <1>3, <1>4, <1>5 DEF SuperStep

\* A step of Part-HTM drops and sets locks with the filter of its thread.
LEMMA LocksOfFilters ==
  ASSUME TypeOK, NEW t \in Threads, Step(t),
         \A u, v \in Threads : u # v => wf[u] \cap wf[v] = {},
         write_locks = UNION {wf[u] : u \in Threads}
  PROVE  write_locks' = UNION {wf'[u] : u \in Threads}
<1>1. \A u \in Threads \ {t} : wf'[u] = wf[u]
  BY OthersLogs
<1>2. CASE UNCHANGED write_locks /\ wf'[t] = wf[t]
  BY <1>1, <1>2
<1>3. CASE wf'[t] = {} /\ write_locks' = write_locks \ wf[t]
  BY <1>1, <1>3
<1>4. CASE wf'[t] = wf[t] \cup PartWrites(t) /\ write_locks' = write_locks \cup PartWrites(t)
  BY <1>1, <1>4
<1>5. \/ UNCHANGED write_locks /\ wf'[t] = wf[t]
      \/ wf'[t] = {} /\ write_locks' = write_locks \ wf[t]
      \/ wf'[t] = wf[t] \cup PartWrites(t) /\ write_locks' = write_locks \cup PartWrites(t)
  <2>1. CASE \/ Draw(t) \/ PartConflict(t) \/ SkipPartition(t) \/ CheckPartition(t)
             \/ CommitWriter(t) \/ ValidateCommit(t) \/ Publish(t)
    BY <2>1, QuietSteps
  <2>2. CASE TmBegin(t) \/ Undo(t) \/ CasSucceeds(t)
    BY <2>2, MovingSteps DEF TmBegin, Undo, CasSucceeds, memory
  <2>3. CASE Partition(t)
    BY <2>3, MovingSteps DEF Partition
  <2>4. CASE TmAbort(t) \/ Release(t)
    BY <2>4, MovingSteps DEF TmAbort, Release
  <2>5. CASE CommitReadOnly(t)
    BY <2>5, MovingSteps DEF CommitReadOnly, memory
  <2> QED
    BY <2>1, <2>2, <2>3, <2>4, <2>5 DEF Step
<1> QED
  BY <1>2, <1>3, <1>4, <1>5

\* Who has not begun, or is done, or transfers as the owner, holds no lock.
LEMMA FiltersDropped ==
  ASSUME SuperInv, NEW t \in Threads, Inside(t),
         pc'[t] \in {"begin", "done"} \/ Transfers(t)'
  PROVE  wf'[t] = {}
<1>1. /\ Step(t) /\ TypeOK /\ Ring!TypeOK
      /\ pc[t] \in {"begin", "done"} \/ Transfers(t) => wf[t] = {}
  BY InsideIsAStep DEF TypeOK, SuperInv, SuperLocksInv
<1>2. CASE go_super_gl[t]
  <2>1. CASE TmBegin(t)
    BY <1>1, <2>1, MovingSteps DEF TmBegin, Ring!Begin
  <2>2. CASE Undo(t)
    BY <2>2, <1>1 DEF Undo, ring, Transfers
  <2>3. CASE TmAbort(t)
    BY <1>1, <2>3, MovingSteps
  <2>4. CASE SkipPartition(t)
    BY <1>1, <1>2, <2>4 DEF SkipPartition, ring, Transfers
  <2> QED
    BY <1>2, <2>1, <2>2, <2>3, <2>4 DEF Inside
<1>3. CASE ~go_super_gl[t]
  <2>1. pc'[t] \in {"begin", "done"}
    BY <1>3, InsidePlace DEF Transfers
  <2> USE DEF Ring!TypeOK, ring, Ring!Goto
  <2>2. CASE CommitReadOnly(t) \/ Release(t) \/ TmAbort(t)
    BY <1>1, <2>2, MovingSteps
  <2>3. CASE \/ TmBegin(t) \/ Undo(t) \/ Partition(t) \/ PartConflict(t) \/ SkipPartition(t)
             \/ CommitWriter(t)
    BY <1>1, <2>1, <2>3 DEF TmBegin, Undo, Partition, PartConflict, SkipPartition, CommitWriter,
       Ring!Begin, Ring!PartitionWith, Ring!Conflict, Ring!CommitWriter
  <2>4. CASE CheckPartition(t)
    BY <1>1, <2>1, <2>4 DEF CheckPartition, Ring!CheckPartition, Ring!PartitionScan, Ring!Scan,
       Ring!PartitionAwait, Ring!AwaitComplete, Ring!PartitionRollover, Ring!Rollover
  <2>5. CASE ValidateCommit(t)
    BY <1>1, <2>1, <2>5 DEF ValidateCommit, Ring!CommitTime, Ring!AwaitInit, Ring!CommitScan, Ring!Scan,
       Ring!CommitAwait, Ring!AwaitComplete, Ring!CommitRollover, Ring!Rollover, Ring!CasFails
  <2>6. CASE CasSucceeds(t) \/ Publish(t)
    BY <1>1, <2>1, <2>6 DEF CasSucceeds, Publish, Ring!CasSucceeds, Ring!Copy, Ring!SetInit,
       Ring!SetComplete
  <2> QED
    BY <2>2, <2>3, <2>4, <2>5, <2>6 DEF Inside
<1> QED
  BY <1>2, <1>3

LEMMA StepSuperLocks ==
  ASSUME SuperInv, NEW t \in Threads, SuperStep(t)
  PROVE  SuperLocksInv'
<1>1. /\ SuperLocksInv /\ TypeOK /\ PlanInv
      /\ pc \in [Threads -> Ring!Labels] /\ go_super_gl \in [Threads -> BOOLEAN]
  BY DEF SuperInv, SuperTypeOK, TypeOK, Ring!TypeOK
<1>2. Addresses' = Addresses /\ \A a : hash(a)' = hash(a)
  BY DEF Addresses, hash
<1>3. CASE DrawLoc(t) \/ Acquire(t) \/ Drain(t) \/ Enter(t) \/ Leave(t) \/ GiveUp(t)
  BY <1>1, <1>2, <1>3, QuietSuperSteps DEF SuperLocksInv
<1>4. CASE Inside(t)
  <2> PICK S \in SUBSET Threads : S = {u \in Threads : ~Transfers(u)}
    OBVIOUS
  <2>1. Step(t) /\ UNCHANGED go_super_gl /\ \A u \in Threads \ {t} : pc'[u] = pc[u] /\ wf'[u] = wf[u]
    BY <1>4, InsideIsAStep, InsidePlace
  <2>2. Guarded(S)'
    <3>1. Guarded(S)
      BY OthersGuarded
    <3> QED
      BY <1>1, <2>1, <3>1, StepLocks
  <2>3. write_locks' = UNION {wf'[u] : u \in Threads}
    BY <1>1, <2>1, LocksOfFilters DEF SuperLocksInv
  <2>4. ASSUME NEW u \in Threads, pc'[u] \in {"begin", "done"} \/ Transfers(u)' PROVE wf'[u] = {}
    <3>1. CASE u = t
      BY <1>4, <2>4, <3>1, FiltersDropped
    <3>2. CASE u # t
      BY <1>1, <2>1, <2>4, <3>2 DEF SuperLocksInv, Transfers
    <3> QED
      BY <3>1, <3>2
  <2>5. ASSUME NEW u \in Threads, ~Transfers(u)' PROVE ~Transfers(u) \/ ~Uncommitted(u)'
    <3>1. CASE u # t
      BY <2>1, <2>5, <3>1 DEF Transfers
    <3>2. CASE u = t
      BY <1>4, <2>1, <2>5, <3>2, InsidePlace DEF Transfers
    <3> QED
      BY <3>1, <3>2
  <2> QED
    BY <1>2, <2>2, <2>3, <2>4, <2>5 DEF SuperLocksInv, Guarded
<1>5. CASE OwnerRuns(t)
  <2>1. UNCHANGED <<pc, wf, write_locks, go_super_gl>> /\ Transfers(t)
        /\ \A u \in Threads \ {t} : undo_log'[u] = undo_log[u]
    BY <1>5, OwnerTypes, OwnerSteps DEF OwnerKeeps
  <2>2. \A u \in Threads : /\ Transfers(u)' <=> Transfers(u)
                           /\ Uncommitted(u)' <=> Uncommitted(u)
                           /\ u # t => Logged(u)' = Logged(u)
    BY <2>1 DEF Transfers, Uncommitted, Logged
  <2> QED
    BY <1>1, <1>2, <2>1, <2>2 DEF SuperLocksInv
<1>6. CASE OwnerEnd(t)
  <2>1. /\ Transfers(t) /\ UNCHANGED <<wf, memory>>
        /\ pc' = [pc EXCEPT ![t] = pc'[t]] /\ pc'[t] \in {"begin", "done"}
    BY <1>6, OwnerEndEffect
  <2>2. go_super_gl' = [go_super_gl EXCEPT ![t] = FALSE]
    BY <1>6 DEF OwnerEnd
  <2>3. wf[t] = {} /\ ~Uncommitted(t)' /\ ~Transfers(t)'
    BY <1>1, <2>1, <2>2, OwnerAndLate
       DEF Uncommitted, Transfers, Ring!CheckLabels, Ring!CommitLabels
  <2>4. \A u \in Threads \ {t} : /\ Transfers(u)' <=> Transfers(u)
                                 /\ Uncommitted(u)' <=> Uncommitted(u)
                                 /\ Logged(u)' = Logged(u) /\ pc'[u] = pc[u]
    BY <1>1, <2>1, <2>2 DEF Transfers, Uncommitted, Logged, memory
  <2> QED
    BY <1>1, <1>2, <2>1, <2>3, <2>4 DEF SuperLocksInv, memory
<1> QED
  BY <1>3, <1>4, <1>5, <1>6 DEF SuperStep

LEMMA StepFirstRead ==
  ASSUME SuperInv, NEW t \in Threads, SuperStep(t)
  PROVE  FirstReadInv'
<1> USE DEF FirstReadInv
<1>1. FirstReadInv
  BY DEF SuperInv
<1>2. CASE DrawLoc(t) \/ Acquire(t) \/ Drain(t) \/ Enter(t) \/ Leave(t) \/ GiveUp(t)
  BY <1>1, <1>2, QuietSuperSteps
<1>3. CASE Inside(t)
  BY <1>1, <1>3, InsidePlace DEF Transfers
<1>4. CASE OwnerRuns(t)
  BY <1>1, <1>4, OwnerTypes DEF OwnerKeeps, Transfers
<1>5. CASE OwnerEnd(t)
  <2>1. /\ Transfers(t) /\ go_super_gl' = [go_super_gl EXCEPT ![t] = FALSE]
        /\ pc' = [pc EXCEPT ![t] = pc'[t]]
    BY <1>5, OwnerEndEffect DEF OwnerEnd
  <2>2. \A u \in Threads \ {t} : ~Transfers(u)
    BY <2>1, OwnerAndLate
  <2>3. pc \in [Threads -> Ring!Labels] /\ go_super_gl \in [Threads -> BOOLEAN]
    BY DEF SuperInv, SuperTypeOK, TypeOK, Ring!TypeOK
  <2> QED
    BY <2>1, <2>2, <2>3 DEF Transfers
<1> QED
  BY <1>2, <1>3, <1>4, <1>5 DEF SuperStep

\* When the owner ends nobody transfers, and the committed memory is what the
\* others' undoing leaves.
LEMMA OwnerEndIntact ==
  ASSUME SuperInv, NEW t \in Threads, OwnerEnd(t)
  PROVE  IntactInv'
<1> DEFINE V == Last(versions')
<1>1. /\ Transfers(t) /\ UNCHANGED memory
      /\ pc' = [pc EXCEPT ![t] = pc'[t]] /\ pc'[t] \in {"begin", "done"}
      /\ V = WithoutWritesOf({u \in Threads \ {t} : Uncommitted(u)})
  BY OwnerEndEffect
<1>2. pc \in [Threads -> Ring!Labels]
  BY DEF SuperInv, SuperTypeOK, TypeOK, Ring!TypeOK
<1> DEFINE S == {u \in Threads \ {t} : Uncommitted(u)}
<1>3. S \in SUBSET {u \in Threads : Uncommitted(u)} /\ Guarded(S)
  BY <1>1, OwnerAndLate, OthersGuarded
<1>4. /\ \A a \in Addresses : \A u \in S : a \in Logged(u) => V[a] = Oldest(undo_log[u], a)
      /\ \A a \in Addresses : (\A u \in S : a \notin Logged(u)) => V[a] = array[a]
  <2>1. V = WithoutWritesOf(S)
    BY <1>1
  <2> HIDE DEF S, V
  <2> QED
    BY <1>3, <2>1, WithoutWritesIs
<1>5. \A u \in Threads : /\ Uncommitted(u)' <=> u \in S
                         /\ Logged(u)' = Logged(u)
  BY <1>1, <1>2 DEF Uncommitted, Logged, memory, Ring!CheckLabels, Ring!CommitLabels
<1>6. Addresses' = Addresses /\ array' = array /\ undo_log' = undo_log
  BY <1>1 DEF Addresses, memory
<1>7. S \subseteq Threads
  OBVIOUS
<1> HIDE DEF S, V
<1>8. \A a \in Addresses :
        /\ \A u \in Threads : Uncommitted(u)' /\ a \in Logged(u)' => V[a] = Oldest(undo_log[u], a)
        /\ (\A u \in Threads : Uncommitted(u)' => a \notin Logged(u)') => V[a] = array[a]
  BY <1>4, <1>5, <1>7
<1> QED
  BY <1>6, <1>8 DEF IntactInv, V

\* The committed memory is kept until an owner stores; then nothing is said of
\* it before the owner ends.
LEMMA StepSuperIntact ==
  ASSUME SuperInv, NEW t \in Threads, SuperStep(t), OwnerHasNotWritten'
  PROVE  IntactInv'
<1>1. OwnerHasNotWritten => IntactInv
  BY DEF SuperInv
<1>2. Addresses' = Addresses
  BY DEF Addresses
<1>3. CASE DrawLoc(t) \/ Acquire(t) \/ Drain(t) \/ Enter(t) \/ Leave(t) \/ GiveUp(t)
  <2>1. OwnerHasNotWritten
    BY <1>3, QuietSuperSteps DEF OwnerHasNotWritten
  <2> QED
    BY <1>1, <1>2, <1>3, <2>1, QuietSuperSteps DEF IntactInv
<1>4. CASE Inside(t)
  <2>1. OwnerHasNotWritten
    <3>1. SUFFICES ASSUME NEW o \in Threads, Transfers(o) PROVE undo_log[o] = <<>>
      BY DEF OwnerHasNotWritten
    <3>2. Transfers(o)' /\ undo_log'[o] = undo_log[o]
      BY <1>4, <3>1, InsidePlace DEF Transfers
    <3> QED
      BY <3>2 DEF OwnerHasNotWritten
  <2> QED
    BY <1>4, <2>1, InsideIsAStep DEF IInv
<1>5. CASE OwnerRuns(t)
  <2>1. /\ UNCHANGED <<pc, go_super_gl, versions>> /\ Transfers(t)
        /\ \A u \in Threads \ {t} : undo_log'[u] = undo_log[u]
        /\ undo_log'[t] = <<>> => UNCHANGED <<array, undo_log>>
    BY <1>5, OwnerTypes, OwnerSteps DEF OwnerKeeps
  <2>2. UNCHANGED <<array, undo_log>>
    BY <2>1 DEF OwnerHasNotWritten, Transfers
  <2>3. OwnerHasNotWritten
    BY <2>1, <2>2 DEF OwnerHasNotWritten, Transfers
  <2> QED
    BY <1>1, <1>2, <2>1, <2>2, <2>3 DEF IntactInv, Uncommitted, Logged
<1>6. CASE OwnerEnd(t)
  BY <1>6, OwnerEndIntact
<1> QED
  BY <1>3, <1>4, <1>5, <1>6 DEF SuperStep

----------------------------------------------------------------------------
LEMMA InitSuperInv == SuperInit => SuperInv
<1> SUFFICES ASSUME SuperInit PROVE SuperInv
  OBVIOUS
<1>1. Init /\ IInv
  BY InitIInv DEF SuperInit
<1>2. SuperTypeOK
  <2>1. TypeOK
    BY <1>1 DEF IInv
  <2>2. /\ tm_super_glock \in BOOLEAN /\ active_tx \in Nat /\ late \subseteq Threads
        /\ go_super_gl \in [Threads -> BOOLEAN]
        /\ gl \in [Threads -> {"out", "drain", "enter", "in", "leave"}]
    BY DEF SuperInit
  <2>3. /\ stage \in [Threads -> Stages]
        /\ item \in [Threads -> 0 .. TxLen] /\ val \in [Threads -> Int]
        /\ \A t \in Threads : stage[t] = "out"
    BY SizesAssumption DEF SuperInit, Stages
  <2> QED
    BY <2>1, <2>2, <2>3 DEF SuperTypeOK, Stages
<1>3. \A t \in Threads : /\ pc[t] = "begin" /\ wf[t] = {} /\ gl[t] = "out" /\ stage[t] = "out"
                         /\ ~go_super_gl[t] /\ ~Owns(t) /\ ~Transfers(t)
  BY <1>1 DEF Init, Ring!Init, SuperInit, Owns, Transfers
<1>4. PlaceOK /\ FirstReadInv
  BY <1>3 DEF PlaceOK, FirstReadInv
<1>5. LockInv
  <2>1. Active = {}
    BY <1>3 DEF Active
  <2> QED
    BY <1>3, <2>1, FS_EmptySet DEF SuperInit, LockInv
<1>6. SuperLocksInv
  BY <1>1, <1>3 DEF Init, SuperLocksInv, Uncommitted, Ring!CheckLabels, Ring!CommitLabels
<1> QED
  BY <1>1, <1>2, <1>4, <1>5, <1>6 DEF SuperInv, IInv

LEMMA NextSuperInv == SuperInv /\ [SuperNext]_allVars => SuperInv'
<1> SUFFICES ASSUME SuperInv, [SuperNext]_allVars PROVE SuperInv'
  OBVIOUS
<1>1. ASSUME NEW t \in Threads, SuperStep(t) PROVE SuperInv'
  BY <1>1, StepSuperTypes, StepSuperPlan, StepSuperIntact, StepPlaceOK, StepLock,
     StepSuperLocks, StepFirstRead DEF SuperInv
<1>2. CASE UNCHANGED allVars
  <2> USE <1>2 DEF SuperInv, allVars, part, lock, owner, ring, memory, plan
  <2>1. SuperTypeOK'
    BY DEF SuperTypeOK, TypeOK, Ring!TypeOK
  <2>2. PlanInv' /\ PlaceOK' /\ FirstReadInv'
    BY DEF PlanInv, PlaceOK, FirstReadInv, Transfers
  <2>3. OwnerHasNotWritten' => IntactInv'
    BY DEF OwnerHasNotWritten, Transfers, IntactInv, Uncommitted, Logged, Addresses
  <2>4. LockInv'
    BY DEF LockInv, Active, Owns
  <2>5. SuperLocksInv'
    BY DEF SuperLocksInv, Uncommitted, Logged, Addresses, hash, Transfers
  <2> QED
    BY <2>1, <2>2, <2>3, <2>4, <2>5
<1> QED
  BY <1>1, <1>2 DEF SuperNext, SuperJoined

(* With the lock around it Part-HTM keeps its types, one owner, beside     *)
(* which only those are active who came through the window, write locks    *)
(* that are somebody's, and, while no owner has written, a committed       *)
(* memory that undoing restores.                                           *)
THEOREM SuperInvHolds == SuperSpec => []SuperInv
  BY InitSuperInv, NextSuperInv, PTL DEF SuperSpec

(* An owner starts on the committed memory, but for what those who came    *)
(* through the window have written: whoever was inside before has          *)
(* committed, or undone its writes, and dropped its locks.                 *)
THEOREM OwnersStartClean == SuperSpec => []OwnerStartsClean
<1>1. SuperInv => OwnerStartsClean
  <2> SUFFICES ASSUME SuperInv, NEW o \in Threads, Transfers(o), more[o]
               PROVE  /\ WithoutWritesOf({u \in late : Uncommitted(u)}) = Last(versions)
                      /\ write_locks = UNION {wf[u] : u \in late}
    BY DEF OwnerStartsClean
  <2> DEFINE S == {u \in late : Uncommitted(u)}
  <2>1. /\ undo_log[o] = <<>> /\ wf[o] = {} /\ late \subseteq Threads
        /\ \A u \in Threads \ {o} : ~Transfers(u)
        /\ \A u \in Threads \ ({o} \cup late) : ~Uncommitted(u) /\ wf[u] = {}
    BY OwnerAndLate DEF SuperInv, SuperTypeOK, FirstReadInv
  <2>2. write_locks = UNION {wf[u] : u \in late}
    BY <2>1 DEF SuperInv, SuperLocksInv
  <2>3. IInv
    BY <2>1, BeforeOwnerStores DEF OwnerHasNotWritten
  <2>4. TypeOK /\ LocksAreExclusive /\ IntactInv /\ S \in SUBSET {u \in Threads : Uncommitted(u)}
    BY <2>1, <2>3 DEF IInv
  <2>5. \A u \in Threads : Uncommitted(u) => u \in S \/ Logged(u) = {}
    BY <2>1 DEF Logged
  <2> HIDE DEF S
  <2>6. /\ WithoutWritesOf(S) \in [Addresses -> Int]
        /\ \A a \in Addresses : \A u \in S :
             a \in Logged(u) => WithoutWritesOf(S)[a] = Oldest(undo_log[u], a)
        /\ \A a \in Addresses : (\A u \in S : a \notin Logged(u)) => WithoutWritesOf(S)[a] = array[a]
    BY <2>4, WithoutWrites
  <2>7. \A a \in Addresses : WithoutWritesOf(S)[a] = Last(versions)[a]
    BY <2>4, <2>5, <2>6 DEF IntactInv
  <2>8. Last(versions) \in [Addresses -> Int]
    BY <2>4 DEF TypeOK, Last
  <2>9. WithoutWritesOf(S) = Last(versions)
    BY <2>6, <2>7, <2>8
  <2> QED
    BY <2>2, <2>9 DEF S
<1> QED
  BY <1>1, SuperInvHolds, PTL
=============================================================================
