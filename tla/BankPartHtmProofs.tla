------------------------- MODULE BankPartHtmProofs -------------------------
(***************************************************************************)
(* Proofs about BankPartHtm for any number of threads, array elements,     *)
(* pairs, attempts, ring entries and filter words: whatever mixture of     *)
(* hardware transactions and partitions the programs run and however they  *)
(* go on after an abort, the balances are those of the committed           *)
(* transactions and their sum is what it was.                              *)
(***************************************************************************)
EXTENDS BankPartHtm, Lemmas

LEMMA Sizes ==
  /\ RingElements \in Nat \ {0} /\ Words \in Nat \ {0} /\ NoTx \in Nat \ {0}
  /\ ArraySize \in Nat \ {0} /\ HtmRetry \in Nat \ {0} /\ Opening \in Int
  BY SizesAssumption, OpeningAssumption

----------------------------------------------------------------------------
(* What transfers make of an array, filters and a log. *)

Memories == [Addresses -> Int]
Places == [from : Addresses, to : Addresses]
States == [array : Memories, reads : SUBSET Ring!Bits, writes : SUBSET Ring!Bits,
           log : Seq(Entries(Addresses))]

\* The values before a transfer, as it logs them.
Entry(m, a) == [addr |-> a, val |-> m[a]]

LEMMA HashInBits == \A a \in Addresses : hash(a) \in Ring!Bits
  BY Sizes DEF Addresses, hash, Ring!Bits

LEMMA LocPlace ==
  ASSUME NEW l \in Locs
  PROVE  /\ l \in Seq(Places) /\ Len(l) \in Nat \ {0} /\ DOMAIN l = 1 .. Len(l)
         /\ \A n \in 1 .. Len(l) : l[n] \in Places
<1>1. l \in Seq(Places) /\ l # <<>>
  BY LocsAssumption DEF Places
<1> QED
  BY <1>1

LEMMA TransferEffect ==
  ASSUME NEW s \in States, NEW p \in Places
  PROVE  /\ Transfer(s, p) \in States
         /\ s.array[p.from] > 50 =>
              /\ Transfer(s, p).array = Moved(s.array, p)
              /\ Transfer(s, p).reads = s.reads \cup Reads(p)
              /\ Transfer(s, p).writes = s.writes \cup {hash(p.from), hash(p.to)}
              /\ Transfer(s, p).log = s.log \o <<Entry(s.array, p.from), Entry(s.array, p.to)>>
         /\ ~(s.array[p.from] > 50) =>
              /\ Transfer(s, p).array = s.array
              /\ Transfer(s, p).reads = s.reads \cup {hash(p.from)}
              /\ Transfer(s, p).writes = s.writes
              /\ Transfer(s, p).log = s.log
<1> DEFINE m == s.array
           n == Moved(m, p)
           d == Entry(m, p.from)
           e == Entry(m, p.to)
           b == [array |-> n, reads |-> s.reads \cup Reads(p),
                 writes |-> s.writes \cup {hash(p.from), hash(p.to)}, log |-> s.log \o <<d, e>>]
           c == [array |-> m, reads |-> s.reads \cup {hash(p.from)}, writes |-> s.writes,
                 log |-> s.log]
<1>1. /\ s = [array |-> m, reads |-> s.reads, writes |-> s.writes, log |-> s.log]
      /\ m \in Memories /\ s.reads \in SUBSET Ring!Bits /\ s.writes \in SUBSET Ring!Bits
      /\ s.log \in Seq(Entries(Addresses))
      /\ p.from \in Addresses /\ p.to \in Addresses
  BY DEF States, Places
<1>2. Transfer(s, p) = IF m[p.from] > 50 THEN b ELSE c
  <2>1. [s EXCEPT !.reads = s.reads \cup {hash(p.from)}] = c
    <3>1. PICK x, y, z, w : s = [array |-> x, reads |-> y, writes |-> z, log |-> w]
      BY <1>1
    <3>2. m = x /\ s.reads = y /\ s.writes = z /\ s.log = w
      BY <3>1
    <3>3. \A v : [s EXCEPT !.reads = v] = [array |-> x, reads |-> v, writes |-> z, log |-> w]
      BY <3>1
    <3> QED
      BY <3>2, <3>3
  <2> QED
    BY <2>1 DEF Transfer, Entry
<1>3. n \in Memories
  BY <1>1 DEF Memories, Moved
<1>4. d \in Entries(Addresses) /\ e \in Entries(Addresses)
  BY <1>1 DEF Entry, Entries, Memories
<1>5. s.log \o <<d, e>> \in Seq(Entries(Addresses))
  BY <1>1, <1>4
<1>6. Reads(p) \in SUBSET Ring!Bits /\ hash(p.from) \in Ring!Bits /\ hash(p.to) \in Ring!Bits
  BY <1>1, HashInBits DEF Reads
<1> HIDE DEF m, n, d, e
<1>7. b \in States /\ c \in States
  BY <1>1, <1>3, <1>5, <1>6 DEF States
<1> QED
  BY <1>1, <1>2, <1>7 DEF m, n, d, e

LEMMA UntouchedState == \A m \in Memories : Untouched(m) \in States
<1>1. <<>> \in Seq(Entries(Addresses))
  OBVIOUS
<1> QED
  BY <1>1 DEF Untouched, States


\* The values After defines by recursion.
LEMMA AfterSteps ==
  ASSUME NEW t \in Threads, loc[t] \in Locs, NEW m \in Memories
  PROVE  /\ After(t, m) \in [0 .. Len(loc[t]) -> States]
         /\ After(t, m)[0] = Untouched(m)
         /\ \A n \in 0 .. Len(loc[t]) - 1 :
              After(t, m)[n + 1] = Transfer(After(t, m)[n], loc[t][n + 1])
<1> DEFINE N == Len(loc[t])
           T(x, n) == Transfer(x, loc[t][n])
           G == [p \in Nat \X States |-> IF p[1] < N THEN T(p[2], p[1] + 1) ELSE p[2]]
           Is(c) == c = [n \in 0 .. N |-> IF n = 0 THEN Untouched(m) ELSE T(c[n - 1], n)]
<1>0. N \in Nat
  BY LocPlace
<1>1. \A x \in States, n \in 1 .. N : T(x, n) \in States
  BY LocPlace, TransferEffect
<1>u. Untouched(m) \in States
  BY UntouchedState
<1>a. After(t, m) = CHOOSE x : Is(x)
  BY DEF After
<1>l. \A n \in 0 .. N - 1 : T(After(t, m)[n], n + 1) = Transfer(After(t, m)[n], loc[t][n + 1])
  OBVIOUS
<1> HIDE DEF T
<1>2. G \in [Nat \X States -> States]
  BY <1>0, <1>1
<1>3. PICK h \in [Nat -> States] :
        h[0] = Untouched(m) /\ \A n \in Nat : h[n + 1] = G[<<n, h[n]>>]
  <2> HIDE DEF G
  <2> DEFINE P(S) == \A b \in S : \A F \in [Nat \X S -> S] :
                       \E f \in [Nat -> S] : f[0] = b /\ \A n \in Nat : f[n + 1] = F[<<n, f[n]>>]
  <2>1. \A S : P(S)
    BY Recursion
  <2>2. P(States)
    <3> HIDE DEF P
    <3> QED
      BY <2>1
  <2> QED
    BY <1>2, <1>u, <2>2
<1>4. ASSUME NEW n \in 0 .. N - 1 PROVE h[n + 1] = T(h[n], n + 1)
  <2>1. n \in Nat /\ <<n, h[n]>> \in Nat \X States /\ n < N
    BY <1>0
  <2>2. G[<<n, h[n]>>] = T(h[n], n + 1)
    BY <2>1
  <2> HIDE DEF G
  <2> QED
    BY <1>3, <2>1, <2>2
<1> HIDE DEF G
<1> DEFINE c == [n \in 0 .. N |-> h[n]]
<1>5. Is(c)
  <2>1. \A n \in 0 .. N : c[n] = IF n = 0 THEN Untouched(m) ELSE T(c[n - 1], n)
    <3> SUFFICES ASSUME NEW n \in 0 .. N, n # 0 PROVE c[n] = T(c[n - 1], n)
      BY <1>3
    <3>1. n - 1 \in 0 .. N - 1 /\ (n - 1) + 1 = n /\ n - 1 \in 0 .. N
      BY <1>0
    <3>2. h[(n - 1) + 1] = T(h[n - 1], (n - 1) + 1)
      BY <1>4, <3>1
    <3> HIDE DEF N
    <3> QED
      BY <3>1, <3>2
  <2> QED
    BY <2>1
<1> HIDE DEF c
<1> DEFINE d == CHOOSE x : Is(x)
<1>6. Is(d)
  BY <1>5
<1> HIDE DEF d
<1>8. d[0] = Untouched(m)
  BY <1>0, <1>6
<1>9. ASSUME NEW n \in 0 .. N - 1 PROVE d[n + 1] = T(d[n], n + 1)
  <2>1. n + 1 \in 0 .. N /\ n + 1 # 0 /\ (n + 1) - 1 = n
    BY <1>0
  <2> HIDE DEF N
  <2> QED
    BY <1>6, <2>1
<1>10. d \in [0 .. N -> States]
  <2> DEFINE Good == {n \in Nat : n <= N => d[n] \in States}
  <2>1. 0 \in Good
    BY <1>8, <1>u
  <2>2. ASSUME NEW n \in Nat, n \in Good PROVE n + 1 \in Good
    <3> SUFFICES ASSUME n + 1 <= N PROVE d[n + 1] \in States
      OBVIOUS
    <3>1. n \in 0 .. N - 1 /\ n + 1 \in 1 .. N /\ d[n] \in States
      BY <1>0, <2>2
    <3> HIDE DEF Good, N
    <3> QED
      BY <1>1, <1>9, <3>1
  <2>3. Nat \subseteq Good
    <3> HIDE DEF Good
    <3> QED
      BY <2>1, <2>2, Induct
  <2>4. \A n \in 0 .. N : d[n] \in States
    BY <1>0, <2>3
  <2>5. d = [n \in 0 .. N |-> d[n]]
    BY <1>6
  <2> HIDE DEF N
  <2> QED
    BY <2>4, <2>5
<1>11. After(t, m) = d
  BY <1>a DEF d
<1> QED
  BY <1>8, <1>9, <1>10, <1>11, <1>l

----------------------------------------------------------------------------
(* A transaction that has run whole on two memories which agree where it   *)
(* has read or written has done the same to both, and kept their sums.     *)

Touched(s) == s.reads \cup s.writes

LEMMA MovedSum ==
  ASSUME NEW m \in Memories, NEW p \in Places
  PROVE  Moved(m, p) \in Memories /\ Total(Moved(m, p), ArraySize) = Total(m, ArraySize)
<1>1. p.from \in Addresses /\ p.to \in Addresses
  BY DEF Places
<1>2. Moved(m, p) \in Memories
  BY <1>1 DEF Moved, Memories
<1>3. CASE p.from = p.to
  <2> DEFINE c == [m EXCEPT ![p.to] = @ + 50]
  <2>1. c \in Memories /\ c[p.to] = m[p.to] + 50 /\ m[p.to] \in Int
    BY <1>1 DEF Memories
  <2>2. \A a \in Addresses : a # p.to => c[a] = m[a]
    BY <1>1 DEF Memories
  <2>3. Moved(m, p) = [c EXCEPT ![p.to] = c[p.to] - 50]
    BY <1>3 DEF Moved
  <2> HIDE DEF c
  <2>4. c[p.to] - 50 = m[p.to]
    BY <2>1
  <2>5. \A a \in Addresses : Moved(m, p)[a] = m[a]
    BY <1>1, <2>1, <2>2, <2>3, <2>4 DEF Memories
  <2>6. Moved(m, p) = m
    BY <1>2, <2>5 DEF Memories
  <2> QED
    BY <1>2, <2>6
<1>4. CASE p.from # p.to
  <2>1. Moved(m, p) = [m EXCEPT ![p.to] = @ + 50, ![p.from] = @ - 50]
    BY <1>1, <1>4 DEF Moved, Memories
  <2>2. Transferred(ArraySize, m, Moved(m, p), p.to, p.from, 50)
    BY <1>1, <1>4, <2>1 DEF Transferred, Memories, Addresses
  <2> QED
    BY <1>2, <2>2, Sizes, SumOfTransfer
<1> QED
  BY <1>3, <1>4

LEMMA TransferSum ==
  ASSUME NEW s \in States, NEW p \in Places
  PROVE  /\ Transfer(s, p).array \in Memories
         /\ Total(Transfer(s, p).array, ArraySize) = Total(s.array, ArraySize)
         /\ Touched(s) \subseteq Touched(Transfer(s, p))
         /\ hash(p.from) \in Touched(Transfer(s, p))
         /\ s.array[p.from] > 50 => hash(p.to) \in Touched(Transfer(s, p))
<1> DEFINE m == s.array
           r == Transfer(s, p)
<1>1. m \in Memories /\ r.array \in Memories /\ p.from \in Addresses /\ p.to \in Addresses
  BY TransferEffect DEF States, Places
<1>2. Touched(s) \subseteq Touched(r) /\ hash(p.from) \in Touched(r)
  <2>1. CASE m[p.from] > 50
    <3>1. /\ r.reads = s.reads \cup Reads(p)
          /\ r.writes = s.writes \cup {hash(p.from), hash(p.to)}
      BY <2>1, TransferEffect
    <3> HIDE DEF r
    <3> QED
      BY <3>1 DEF Touched
  <2>2. CASE ~(m[p.from] > 50)
    <3>1. r.reads = s.reads \cup {hash(p.from)} /\ r.writes = s.writes
      BY <2>2, TransferEffect
    <3> HIDE DEF r
    <3> QED
      BY <3>1 DEF Touched
  <2> HIDE DEF m, r
  <2> QED
    BY <2>1, <2>2
<1>3. m[p.from] > 50 => hash(p.to) \in Touched(r)
  BY TransferEffect DEF Touched
<1>4. Total(r.array, ArraySize) = Total(m, ArraySize)
  <2>1. CASE ~(m[p.from] > 50)
    BY <2>1, TransferEffect
  <2>2. CASE m[p.from] > 50
    <3>1. r.array = Moved(m, p)
      BY <2>2, TransferEffect
    <3> QED
      BY <1>1, <3>1, MovedSum
  <2> QED
    BY <2>1, <2>2
<1> QED
  BY <1>1, <1>2, <1>3, <1>4


LEMMA MovedValue ==
  ASSUME NEW m \in Memories, NEW n \in Memories, NEW p \in Places, NEW a \in Addresses
  PROVE  /\ m[a] = n[a] => Moved(m, p)[a] = Moved(n, p)[a]
         /\ a \notin {p.from, p.to} => Moved(m, p)[a] = m[a]
<1>1. p.from \in Addresses /\ p.to \in Addresses
  BY DEF Places
<1>2. CASE a # p.from /\ a # p.to
  BY <1>1, <1>2 DEF Moved, Memories
<1>3. CASE a = p.from /\ a # p.to
  BY <1>1, <1>3 DEF Moved, Memories
<1>4. CASE a = p.to /\ a # p.from
  BY <1>1, <1>4 DEF Moved, Memories
<1>5. CASE a = p.to /\ a = p.from
  BY <1>1, <1>5 DEF Moved, Memories
<1> QED
  BY <1>2, <1>3, <1>4, <1>5

LEMMA Agreement ==
  ASSUME NEW t \in Threads, loc[t] \in Locs, NEW m \in Memories, NEW b \in Memories,
         \A a \in Addresses : hash(a) \in Touched(Whole(t, m)) => m[a] = b[a]
  PROVE  /\ Whole(t, m) \in States /\ Whole(t, b) \in States
         /\ Total(Whole(t, b).array, ArraySize) = Total(b, ArraySize)
         /\ \A a \in Addresses :
              /\ hash(a) \in Touched(Whole(t, m)) => Whole(t, b).array[a] = Whole(t, m).array[a]
              /\ hash(a) \notin Touched(Whole(t, m)) =>
                   Whole(t, m).array[a] = m[a] /\ Whole(t, b).array[a] = b[a]
<1> DEFINE N == Len(loc[t])
           f == After(t, m)
           g == After(t, b)
           W == Touched(f[N])
<1>1. /\ N \in Nat /\ f \in [0 .. N -> States] /\ g \in [0 .. N -> States]
      /\ f[0] = Untouched(m) /\ g[0] = Untouched(b)
      /\ \A n \in 0 .. N - 1 : loc[t][n + 1] \in Places
      /\ \A n \in 0 .. N - 1 : f[n + 1] = Transfer(f[n], loc[t][n + 1])
      /\ \A n \in 0 .. N - 1 : g[n + 1] = Transfer(g[n], loc[t][n + 1])
  <2>1. N \in Nat /\ \A n \in 0 .. N - 1 : loc[t][n + 1] \in Places
    BY LocPlace
  <2> QED
    BY <2>1, AfterSteps
<1>2. Whole(t, m) = f[N] /\ Whole(t, b) = g[N]
  BY DEF Whole
<1>3. \A a \in Addresses : hash(a) \in W => m[a] = b[a]
  BY <1>2
<1> HIDE DEF f, g, N
\* The filters only grow.
<1> DEFINE Grown(k) == \A n \in 0 .. k : Touched(f[n]) \subseteq Touched(f[k])
           Growing == {k \in Nat : k <= N => Grown(k)}
<1>4. Nat \subseteq Growing
  <2>1. 0 \in Growing
    <3>1. \A n \in 0 .. 0 : n = 0
      OBVIOUS
    <3> QED
      BY <3>1
  <2>2. ASSUME NEW k \in Nat, k \in Growing PROVE k + 1 \in Growing
    <3> SUFFICES ASSUME k + 1 <= N PROVE Grown(k + 1)
      OBVIOUS
    <3>1. k \in 0 .. N - 1 /\ k \in 0 .. N /\ Grown(k)
      BY <1>1, <2>2
    <3>2. Touched(f[k]) \subseteq Touched(f[k + 1])
      BY <1>1, <3>1, TransferSum
    <3>3. ASSUME NEW n \in 0 .. k + 1 PROVE Touched(f[n]) \subseteq Touched(f[k + 1])
      <4>1. n \in 0 .. k \/ n = k + 1
        OBVIOUS
      <4> QED
        BY <3>1, <3>2, <4>1
    <3> QED
      BY <3>3
  <2> HIDE DEF Growing
  <2> QED
    BY <2>1, <2>2, Induct
<1>5. \A n \in 0 .. N : Touched(f[n]) \subseteq W
  <2>1. N \in Growing
    BY <1>1, <1>4
  <2> QED
    BY <1>1, <2>1
<1> HIDE DEF Growing, W
<1> DEFINE Same(n) == \A a \in Addresses :
             /\ hash(a) \in W => f[n].array[a] = g[n].array[a]
             /\ hash(a) \notin W => f[n].array[a] = m[a] /\ g[n].array[a] = b[a]
           Kept(n) == Total(g[n].array, ArraySize) = Total(b, ArraySize)
           Good == {n \in Nat : n <= N => Same(n) /\ Kept(n)}
<1>6. 0 \in Good
  <2>1. f[0].array = m /\ g[0].array = b
    BY <1>1 DEF Untouched
  <2> QED
    BY <1>3, <2>1
<1>7. ASSUME NEW n \in Nat, n \in Good PROVE n + 1 \in Good
  <2> SUFFICES ASSUME n + 1 <= N PROVE Same(n + 1) /\ Kept(n + 1)
    OBVIOUS
  <2> DEFINE p == loc[t][n + 1]
             x == f[n]
             y == g[n]
  <2>1. n \in 0 .. N - 1 /\ n \in 0 .. N /\ n + 1 \in 0 .. N /\ Same(n) /\ Kept(n)
    BY <1>1, <1>7
  <2>2. /\ p \in Places /\ x \in States /\ y \in States
        /\ f[n + 1] = Transfer(x, p) /\ g[n + 1] = Transfer(y, p)
    BY <1>1, <2>1
  <2>3. Kept(n + 1)
    BY <2>1, <2>2, TransferSum
  <2>4. /\ p.from \in Addresses /\ p.to \in Addresses
        /\ x.array \in Memories /\ y.array \in Memories
    BY <2>2 DEF Places, States
  <2>5. hash(p.from) \in W /\ (x.array[p.from] > 50 => hash(p.to) \in W)
    <3>1. Touched(f[n + 1]) \subseteq W
      BY <1>5, <2>1
    <3> HIDE DEF p, x
    <3> QED
      BY <2>2, <3>1, TransferSum
  <2>6. x.array[p.from] = y.array[p.from]
    BY <2>1, <2>4, <2>5
  <2> HIDE DEF p, x, y
  <2>7. CASE x.array[p.from] > 50
    <3>1. f[n + 1].array = Moved(x.array, p) /\ g[n + 1].array = Moved(y.array, p)
      <4>1. Transfer(x, p).array = Moved(x.array, p)
        BY <2>2, <2>7, TransferEffect
      <4>2. y.array[p.from] > 50
        BY <2>6, <2>7
      <4>3. Transfer(y, p).array = Moved(y.array, p)
        BY <2>2, <4>2, TransferEffect
      <4> QED
        BY <2>2, <4>1, <4>3
    <3>2. ASSUME NEW a \in Addresses
          PROVE  /\ hash(a) \in W => f[n + 1].array[a] = g[n + 1].array[a]
                 /\ hash(a) \notin W => f[n + 1].array[a] = m[a] /\ g[n + 1].array[a] = b[a]
      <4>1. hash(a) \in W => x.array[a] = y.array[a]
        BY <2>1 DEF x, y
      <4>2. hash(a) \notin W => x.array[a] = m[a] /\ y.array[a] = b[a] /\ a \notin {p.from, p.to}
        BY <2>1, <2>5, <2>7 DEF x, y
      <4> HIDE DEF Same
      <4> QED
        BY <2>2, <2>4, <3>1, <4>1, <4>2, MovedValue
    <3> QED
      BY <2>3, <3>2
  <2>8. CASE ~(x.array[p.from] > 50)
    <3>1. f[n + 1].array = x.array /\ g[n + 1].array = y.array
      <4>1. Transfer(x, p).array = x.array
        BY <2>2, <2>8, TransferEffect
      <4>2. ~(y.array[p.from] > 50)
        BY <2>6, <2>8
      <4>3. Transfer(y, p).array = y.array
        BY <2>2, <4>2, TransferEffect
      <4> QED
        BY <2>2, <4>1, <4>3
    <3> QED
      BY <2>1, <2>3, <3>1 DEF x, y
  <2> QED
    BY <2>7, <2>8
<1>8. N \in Good
  <2> HIDE DEF Good
  <2> QED
    BY <1>1, <1>6, <1>7, Induct
<1>9. Same(N) /\ Kept(N) /\ f[N] \in States /\ g[N] \in States
  BY <1>1, <1>8
<1> QED
  BY <1>2, <1>9 DEF W


----------------------------------------------------------------------------
(* The two views of the ring, with start_time and with tx->start_time in   *)
(* its place, and those that the theorems about the ring hold of.          *)

RingProofs == INSTANCE CommitRingProofs
LateProofs == INSTANCE CommitRingProofs WITH start_time <- tx_start

LEMMA SameNext == [Ring!Next]_(Ring!vars) <=> [RingProofs!Next]_(RingProofs!vars)
  BY DEF Ring!vars, RingProofs!vars, Ring!counters, RingProofs!counters,
         Ring!filters, RingProofs!filters, Ring!scan, RingProofs!scan,
         Ring!CheckLabels, RingProofs!CheckLabels, Ring!CommitLabels, RingProofs!CommitLabels,
         Ring!PublishLabels, RingProofs!PublishLabels, Ring!Labels, RingProofs!Labels,
         Ring!Bits, RingProofs!Bits, Ring!Goto, RingProofs!Goto,
         Ring!ReadOnly, RingProofs!ReadOnly, Ring!Begin, RingProofs!Begin,
         Ring!PartitionWith, RingProofs!PartitionWith, Ring!Partition, RingProofs!Partition,
         Ring!Conflict, RingProofs!Conflict, Ring!StartScan, RingProofs!StartScan,
         Ring!Hit, RingProofs!Hit, Ring!Scan, RingProofs!Scan,
         Ring!AwaitComplete, RingProofs!AwaitComplete, Ring!Rollover, RingProofs!Rollover,
         Ring!CheckPartition, RingProofs!CheckPartition, Ring!PartitionScan, RingProofs!PartitionScan,
         Ring!PartitionAwait, RingProofs!PartitionAwait, Ring!PartitionRollover, RingProofs!PartitionRollover,
         Ring!FinishTx, RingProofs!FinishTx, Ring!CommitReadOnly, RingProofs!CommitReadOnly,
         Ring!CommitWriter, RingProofs!CommitWriter, Ring!CommitTime, RingProofs!CommitTime,
         Ring!AwaitInit, RingProofs!AwaitInit, Ring!CommitScan, RingProofs!CommitScan,
         Ring!CommitAwait, RingProofs!CommitAwait, Ring!CommitRollover, RingProofs!CommitRollover,
         Ring!CasSucceeds, RingProofs!CasSucceeds, Ring!CasFails, RingProofs!CasFails,
         Ring!Copy, RingProofs!Copy, Ring!SetInit, RingProofs!SetInit,
         Ring!SetComplete, RingProofs!SetComplete, Ring!Release, RingProofs!Release,
         Ring!Abort, RingProofs!Abort, Ring!Step, RingProofs!Step,
         Ring!Joined, RingProofs!Joined, Ring!Next, RingProofs!Next

LEMMA SameLateNext == [RingLate!Next]_(RingLate!vars) <=> [LateProofs!Next]_(LateProofs!vars)
  BY DEF RingLate!vars, LateProofs!vars, RingLate!counters, LateProofs!counters,
         RingLate!filters, LateProofs!filters, RingLate!scan, LateProofs!scan,
         RingLate!CheckLabels, LateProofs!CheckLabels, RingLate!CommitLabels, LateProofs!CommitLabels,
         RingLate!PublishLabels, LateProofs!PublishLabels, RingLate!Labels, LateProofs!Labels,
         RingLate!Bits, LateProofs!Bits, RingLate!Goto, LateProofs!Goto,
         RingLate!ReadOnly, LateProofs!ReadOnly, RingLate!Begin, LateProofs!Begin,
         RingLate!PartitionWith, LateProofs!PartitionWith, RingLate!Partition, LateProofs!Partition,
         RingLate!Conflict, LateProofs!Conflict, RingLate!StartScan, LateProofs!StartScan,
         RingLate!Hit, LateProofs!Hit, RingLate!Scan, LateProofs!Scan,
         RingLate!AwaitComplete, LateProofs!AwaitComplete, RingLate!Rollover, LateProofs!Rollover,
         RingLate!CheckPartition, LateProofs!CheckPartition, RingLate!PartitionScan, LateProofs!PartitionScan,
         RingLate!PartitionAwait, LateProofs!PartitionAwait, RingLate!PartitionRollover, LateProofs!PartitionRollover,
         RingLate!FinishTx, LateProofs!FinishTx, RingLate!CommitReadOnly, LateProofs!CommitReadOnly,
         RingLate!CommitWriter, LateProofs!CommitWriter, RingLate!CommitTime, LateProofs!CommitTime,
         RingLate!AwaitInit, LateProofs!AwaitInit, RingLate!CommitScan, LateProofs!CommitScan,
         RingLate!CommitAwait, LateProofs!CommitAwait, RingLate!CommitRollover, LateProofs!CommitRollover,
         RingLate!CasSucceeds, LateProofs!CasSucceeds, RingLate!CasFails, LateProofs!CasFails,
         RingLate!Copy, LateProofs!Copy, RingLate!SetInit, LateProofs!SetInit,
         RingLate!SetComplete, LateProofs!SetComplete, RingLate!Release, LateProofs!Release,
         RingLate!Abort, LateProofs!Abort, RingLate!Step, LateProofs!Step,
         RingLate!Joined, LateProofs!Joined, RingLate!Next, LateProofs!Next

LEMMA SameTypes == Ring!TypeOK <=> RingProofs!TypeOK
  BY DEF Ring!TypeOK, RingProofs!TypeOK, Ring!Labels, RingProofs!Labels,
         Ring!CheckLabels, RingProofs!CheckLabels, Ring!CommitLabels, RingProofs!CommitLabels,
         Ring!PublishLabels, RingProofs!PublishLabels, Ring!Bits, RingProofs!Bits

LEMMA SameLateTypes == RingLate!TypeOK <=> LateProofs!TypeOK
  BY DEF RingLate!TypeOK, LateProofs!TypeOK, RingLate!Labels, LateProofs!Labels,
         RingLate!CheckLabels, LateProofs!CheckLabels, RingLate!CommitLabels, LateProofs!CommitLabels,
         RingLate!PublishLabels, LateProofs!PublishLabels, RingLate!Bits, LateProofs!Bits

LEMMA RingStepTypes ==
  ASSUME Ring!TypeOK, NEW t \in Threads, Ring!Step(t)
  PROVE  Ring!TypeOK'
<1>1. Ring!TypeOK' <=> RingProofs!TypeOK'
  BY SameTypes, PTL
<1>2. [Ring!Next]_(Ring!vars)
  BY DEF Ring!Next
<1> QED
  BY <1>1, <1>2, Sizes, SameNext, SameTypes, RingProofs!NextTypeOK

LEMMA LateStepTypes ==
  ASSUME RingLate!TypeOK, NEW t \in Threads, RingLate!Step(t)
  PROVE  RingLate!TypeOK'
<1>1. RingLate!TypeOK' <=> LateProofs!TypeOK'
  BY SameLateTypes, PTL
<1>2. [RingLate!Next]_(RingLate!vars)
  BY DEF RingLate!Next
<1> QED
  BY <1>1, <1>2, Sizes, SameLateNext, SameLateTypes, LateProofs!NextTypeOK

\* They differ in start_time alone.
LEMMA ViewTypes ==
  start_time \in [Threads -> Nat] /\ tx_start \in [Threads -> Nat] =>
    (RingLate!TypeOK <=> Ring!TypeOK)
  BY DEF Ring!TypeOK, RingLate!TypeOK, Ring!Labels, RingLate!Labels,
         Ring!CheckLabels, RingLate!CheckLabels, Ring!CommitLabels, RingLate!CommitLabels,
         Ring!PublishLabels, RingLate!PublishLabels, Ring!Bits, RingLate!Bits

----------------------------------------------------------------------------
(* Types. *)

LEMMA Started ==
  ASSUME TypeOK, NEW t \in Threads, Unfinished(t)
  PROVE  /\ loc[t] \in Locs /\ initial[t] \in 1 .. Len(loc[t])
         /\ loc[t][initial[t]] \in Places
<1>1. initial[t] \in DOMAIN loc[t] /\ loc[t] \in Locs \cup {NoLoc}
  BY DEF TypeOK
<1>2. loc[t] \in Locs
  BY <1>1 DEF NoLoc
<1> QED
  BY <1>1, <1>2, LocPlace

\* What a partition does.
LEMMA PartEffect ==
  ASSUME TypeOK, NEW t \in Threads, Unfinished(t)
  PROVE  LET p == loc[t][initial[t]] IN
         /\ Part(t) \in States
         /\ array[p.from] > 50 =>
              /\ Part(t).array = Moved(array, p)
              /\ Part(t).writes = {hash(p.from), hash(p.to)}
              /\ Part(t).log = <<Entry(array, p.from), Entry(array, p.to)>>
         /\ ~(array[p.from] > 50) =>
              Part(t).array = array /\ Part(t).writes = {} /\ Part(t).log = <<>>
<1> DEFINE p == loc[t][initial[t]]
           s == Untouched(array)
<1>1. p \in Places /\ array \in Memories
  BY Started DEF TypeOK, Memories
<1>2. /\ s \in States /\ s.array = array /\ s.writes = {} /\ s.log = <<>>
      /\ Part(t) = Transfer(s, p)
  BY <1>1, UntouchedState DEF Untouched, Part
<1> HIDE DEF p, s
<1>3. Part(t) \in States
  BY <1>1, <1>2, TransferEffect
<1>4. ASSUME array[p.from] > 50
      PROVE  /\ Part(t).array = Moved(array, p)
             /\ Part(t).writes = {hash(p.from), hash(p.to)}
             /\ Part(t).log = <<Entry(array, p.from), Entry(array, p.to)>>
  <2>1. /\ Part(t).array = Moved(array, p)
        /\ Part(t).writes = {} \cup {hash(p.from), hash(p.to)}
        /\ Part(t).log = <<>> \o <<Entry(array, p.from), Entry(array, p.to)>>
    <3>1. s.array[p.from] > 50
      BY <1>2, <1>4
    <3>2. /\ Transfer(s, p).array = Moved(s.array, p)
          /\ Transfer(s, p).writes = s.writes \cup {hash(p.from), hash(p.to)}
          /\ Transfer(s, p).log = s.log \o <<Entry(s.array, p.from), Entry(s.array, p.to)>>
      BY <1>1, <1>2, <3>1, TransferEffect
    <3> QED
      BY <1>2, <3>2
  <2>2. \A d, e : <<>> \o <<d, e>> = <<d, e>>
    OBVIOUS
  <2> QED
    BY <2>1, <2>2
<1>5. ASSUME ~(array[p.from] > 50)
      PROVE  Part(t).array = array /\ Part(t).writes = {} /\ Part(t).log = <<>>
  BY <1>1, <1>2, <1>5, TransferEffect
<1> QED
  BY <1>3, <1>4, <1>5 DEF p


----------------------------------------------------------------------------
(* What a step of one thread leaves to the others. *)

LEMMA OthersKeep ==
  ASSUME TypeOK, NEW t \in Threads, Step(t), NEW u \in Threads, u # t
  PROVE  /\ pc'[u] = pc[u] /\ wf'[u] = wf[u] /\ undo_log'[u] = undo_log[u]
         /\ loc'[u] = loc[u] /\ initial'[u] = initial[u] /\ htm_retry'[u] = htm_retry[u]
         /\ start_time'[u] = start_time[u] /\ tx_start'[u] = tx_start[u]
         /\ index'[u] = index[u] /\ read_only'[u] = read_only[u]
         /\ program' = program
<1> USE DEF TypeOK, Ring!TypeOK, ring, memory, plan, context, Ring!Goto, Ring!filters,
            Ring!FinishTx, Ring!counters, Ring!scan
<1>1. CASE Draw(t) \/ HtmAbort(t) \/ Undo(t)
  BY <1>1 DEF Draw, HtmAbort, Undo
<1>2. CASE HtmCommit(t) \/ CommitReadOnly(t) \/ EndParts(t)
  BY <1>2 DEF HtmCommit, CommitReadOnly, EndParts
<1>3. CASE Retry(t) \/ PartConflict(t)
  BY <1>3 DEF Retry, PartConflict, Ring!Begin, Ring!Conflict
<1>4. CASE Partition(t)
  BY <1>4 DEF Partition, Ring!PartitionWith
<1>5. CASE CheckPartition(t)
  BY <1>5 DEF CheckPartition, Ring!CheckPartition, Ring!PartitionScan, Ring!Scan,
     Ring!PartitionAwait, Ring!AwaitComplete, Ring!PartitionRollover, Ring!Rollover
<1>6. CASE ValidateCommit(t)
  BY <1>6 DEF ValidateCommit, Ring!CommitTime, Ring!AwaitInit, Ring!CommitScan, Ring!Scan,
     Ring!CommitAwait, Ring!AwaitComplete, Ring!CommitRollover, Ring!Rollover, Ring!CasFails
<1>7. CASE ValidateLate(t)
  BY <1>7 DEF ValidateLate, RingLate!CommitTime, RingLate!AwaitInit, RingLate!CommitScan,
     RingLate!Scan, RingLate!CommitAwait, RingLate!AwaitComplete, RingLate!CommitRollover,
     RingLate!Rollover, RingLate!CasFails, RingLate!Goto, RingLate!filters
<1>8. CASE CasSucceeds(t) \/ Publish(t)
  BY <1>8 DEF CasSucceeds, Publish, Ring!CasSucceeds, Ring!Copy, Ring!SetInit, Ring!SetComplete
<1>9. CASE Undone(t) \/ Release(t)
  BY <1>9 DEF Undone, Release, Ring!Abort, Ring!Release
<1> QED
  BY <1>1, <1>2, <1>3, <1>4, <1>5, <1>6, <1>7, <1>8, <1>9 DEF Step

----------------------------------------------------------------------------
(* The counters. *)

\* What CommitInv says of a thread.
Follows(u) == /\ start_time[u] <= last_complete
              /\ tx_start[u] <= last_complete
              /\ pc[u] \in {"pRoll", "cRoll", "cas"} => index[u] <= last_complete

Announces(u) == /\ timestamp = index[u] + 1 /\ last_complete = index[u]
                /\ last_init = IF pc[u] = "complete" THEN index[u] + 1 ELSE index[u]

\* The steps that write neither the counters nor enter or leave the publication.
LEMMA QuietSteps ==
  ASSUME TypeOK, NEW t \in Threads, Follows(t), Step(t), ~CasSucceeds(t), ~Publish(t)
  PROVE  /\ UNCHANGED <<timestamp, last_init, last_complete>>
         /\ ~Ring!Publishing(t) /\ ~Ring!Publishing(t)'
         /\ Follows(t)'
<1> USE DEF TypeOK, Ring!TypeOK, ring, memory, plan, context, Ring!Goto, Ring!filters,
            Ring!FinishTx, Ring!counters, Ring!scan, Follows, Ring!Publishing, Ring!PublishLabels
<1>1. CASE Draw(t) \/ HtmAbort(t) \/ Undo(t)
  BY <1>1 DEF Draw, HtmAbort, Undo, Attempting
<1>2. CASE HtmCommit(t) \/ CommitReadOnly(t) \/ EndParts(t)
  BY <1>2 DEF HtmCommit, CommitReadOnly, EndParts, Attempting
<1>3. CASE Retry(t) \/ PartConflict(t)
  BY <1>3 DEF Retry, PartConflict, Ring!Begin, Ring!Conflict
<1>4. CASE Partition(t)
  BY <1>4 DEF Partition, Ring!PartitionWith
<1>5. CASE CheckPartition(t)
  <2>1. CASE Ring!CheckPartition(t)
    BY <1>5, <2>1 DEF CheckPartition, Ring!CheckPartition
  <2>2. CASE Ring!PartitionScan(t)
    BY <1>5, <2>2 DEF CheckPartition, Ring!PartitionScan, Ring!Scan
  <2>3. CASE Ring!PartitionAwait(t)
    BY <1>5, <2>3 DEF CheckPartition, Ring!PartitionAwait, Ring!AwaitComplete
  <2>4. CASE Ring!PartitionRollover(t)
    BY <1>5, <2>4 DEF CheckPartition, Ring!PartitionRollover, Ring!Rollover
  <2> QED
    BY <1>5, <2>1, <2>2, <2>3, <2>4 DEF CheckPartition
<1>6. CASE ValidateCommit(t)
  <2>1. CASE Ring!CommitTime(t)
    BY <1>6, <2>1 DEF ValidateCommit, Ring!CommitTime
  <2>2. CASE Ring!AwaitInit(t) \/ Ring!CasFails(t)
    BY <1>6, <2>2 DEF ValidateCommit, Ring!AwaitInit, Ring!CasFails
  <2>3. CASE Ring!CommitScan(t)
    BY <1>6, <2>3 DEF ValidateCommit, Ring!CommitScan, Ring!Scan
  <2>4. CASE Ring!CommitAwait(t)
    BY <1>6, <2>4 DEF ValidateCommit, Ring!CommitAwait, Ring!AwaitComplete
  <2>5. CASE Ring!CommitRollover(t)
    BY <1>6, <2>5 DEF ValidateCommit, Ring!CommitRollover, Ring!Rollover
  <2> QED
    BY <1>6, <2>1, <2>2, <2>3, <2>4, <2>5 DEF ValidateCommit
<1>7. CASE ValidateLate(t)
  <2> USE DEF RingLate!Goto, RingLate!filters, RingLate!counters, RingLate!scan
  <2>1. CASE RingLate!CommitTime(t)
    BY <1>7, <2>1 DEF ValidateLate, RingLate!CommitTime
  <2>2. CASE RingLate!AwaitInit(t) \/ RingLate!CasFails(t)
    BY <1>7, <2>2 DEF ValidateLate, RingLate!AwaitInit, RingLate!CasFails
  <2>3. CASE RingLate!CommitScan(t)
    BY <1>7, <2>3 DEF ValidateLate, RingLate!CommitScan, RingLate!Scan
  <2>4. CASE RingLate!CommitAwait(t)
    BY <1>7, <2>4 DEF ValidateLate, RingLate!CommitAwait, RingLate!AwaitComplete
  <2>5. CASE RingLate!CommitRollover(t)
    BY <1>7, <2>5 DEF ValidateLate, RingLate!CommitRollover, RingLate!Rollover
  <2> QED
    BY <1>7, <2>1, <2>2, <2>3, <2>4, <2>5 DEF ValidateLate
<1>8. CASE Undone(t) \/ Release(t)
  BY <1>8 DEF Undone, Release, Ring!Abort, Ring!Release
<1> QED
  BY <1>1, <1>2, <1>3, <1>4, <1>5, <1>6, <1>7, <1>8 DEF Step


\* Nobody publishes when the compare-and-swap succeeds.
LEMMA CasAlone ==
  ASSUME TypeOK, CommitInv, NEW t \in Threads, pc[t] = "cas", timestamp = index[t]
  PROVE  /\ \A u \in Threads : ~Ring!Publishing(u)
         /\ last_init = timestamp /\ last_complete = timestamp
<1>1. index[t] <= last_complete /\ index[t] \in Nat /\ last_complete \in Nat
  BY DEF CommitInv, TypeOK, Ring!TypeOK
<1>2. ASSUME NEW u \in Threads, Ring!Publishing(u) PROVE FALSE
  <2>1. timestamp = index[u] + 1 /\ last_complete = index[u] /\ index[u] \in Nat
    BY <1>2 DEF CommitInv, TypeOK, Ring!TypeOK
  <2> QED
    BY <1>1, <2>1
<1> QED
  BY <1>2 DEF CommitInv

\* What is left of CommitInv when all but t are as before.
LEMMA CommitFrame ==
  ASSUME TypeOK, CommitInv, NEW t \in Threads, Step(t),
         Follows(t)', last_complete <= last_complete', last_complete' \in Nat,
         NEW u \in Threads, u # t
  PROVE  /\ Follows(u)' /\ (Ring!Publishing(u)' <=> Ring!Publishing(u))
         /\ index'[u] = index[u] /\ pc'[u] = pc[u]
<1>1. /\ pc'[u] = pc[u] /\ index'[u] = index[u]
      /\ start_time'[u] = start_time[u] /\ tx_start'[u] = tx_start[u]
  BY OthersKeep
<1>2. /\ start_time[u] <= last_complete /\ tx_start[u] <= last_complete
      /\ pc[u] \in {"pRoll", "cRoll", "cas"} => index[u] <= last_complete
      /\ start_time[u] \in Nat /\ tx_start[u] \in Nat /\ index[u] \in Nat /\ last_complete \in Nat
  BY DEF TypeOK, CommitInv, Ring!TypeOK
<1> QED
  BY <1>1, <1>2 DEF Follows, Ring!Publishing, Ring!PublishLabels

\* What CommitInv says, once more.
LEMMA CommitForm ==
  CommitInv /\ (\A u \in Threads : tx_start[u] <= last_complete) <=>
    /\ Ring!OneCommitter
    /\ \A u \in Threads : Follows(u) /\ (Ring!Publishing(u) => Announces(u))
    /\ (\A u \in Threads : ~Ring!Publishing(u)) =>
         last_init = timestamp /\ last_complete = timestamp
  BY DEF CommitInv, Follows, Announces

LEMMA StepCommit ==
  ASSUME TypeOK, CommitInv, NEW t \in Threads, Step(t)
  PROVE  CommitInv' /\ (\A u \in Threads : tx_start'[u] <= last_complete')
<1>f. /\ Ring!OneCommitter
      /\ \A u \in Threads : Follows(u) /\ (Ring!Publishing(u) => Announces(u))
      /\ (\A u \in Threads : ~Ring!Publishing(u)) =>
           last_init = timestamp /\ last_complete = timestamp
  BY CommitForm DEF TypeOK
<1>g. ASSUME /\ Ring!OneCommitter'
             /\ \A u \in Threads : Follows(u)' /\ (Ring!Publishing(u)' => Announces(u)')
             /\ (\A u \in Threads : ~Ring!Publishing(u)') =>
                  last_init' = timestamp' /\ last_complete' = timestamp'
      PROVE  CommitInv' /\ (\A u \in Threads : tx_start'[u] <= last_complete')
  BY <1>g DEF CommitInv, Follows, Announces
<1>t. /\ timestamp \in Nat /\ last_complete \in Nat /\ last_init \in Nat
      /\ index[t] \in Nat /\ pc \in [Threads -> Ring!Labels]
      /\ index \in [Threads -> Nat]
      /\ start_time[t] \in Nat /\ tx_start[t] \in Nat
  BY DEF TypeOK, Ring!TypeOK
<1>1. CASE ~CasSucceeds(t) /\ ~Publish(t)
  <2>1. /\ UNCHANGED <<timestamp, last_init, last_complete>>
        /\ ~Ring!Publishing(t) /\ ~Ring!Publishing(t)' /\ Follows(t)'
    BY <1>1, <1>f, QuietSteps
  <2>2. \A u \in Threads : u # t => /\ Follows(u)' /\ (Ring!Publishing(u)' <=> Ring!Publishing(u))
                                     /\ index'[u] = index[u] /\ pc'[u] = pc[u]
    BY <1>t, <2>1, CommitFrame
  <2>3. \A u \in Threads : Ring!Publishing(u)' => Announces(u)'
    BY <1>f, <2>1, <2>2 DEF Announces
  <2>4. Ring!OneCommitter'
    BY <1>f, <2>1, <2>2 DEF Ring!OneCommitter
  <2> QED
    BY <1>f, <1>g, <2>1, <2>2, <2>3, <2>4
<1>2. CASE CasSucceeds(t)
  <2>1. /\ pc[t] = "cas" /\ timestamp = index[t] /\ timestamp' = timestamp + 1
        /\ pc'[t] = "copy"
        /\ UNCHANGED <<last_init, last_complete, index, start_time, tx_start>>
    BY <1>2, <1>t DEF CasSucceeds, Ring!CasSucceeds, Ring!Goto, context
  <2>2. /\ \A u \in Threads : ~Ring!Publishing(u)
        /\ last_init = timestamp /\ last_complete = timestamp
    BY <2>1, CasAlone
  <2>3. Follows(t)' /\ Announces(t)'
    BY <1>f, <1>t, <2>1, <2>2 DEF Follows, Announces
  <2>4. \A u \in Threads : u # t => Follows(u)' /\ ~Ring!Publishing(u)'
    BY <1>t, <2>1, <2>2, <2>3, CommitFrame
  <2>5. Ring!Publishing(t)'
    BY <2>1 DEF Ring!Publishing, Ring!PublishLabels
  <2>6. Ring!OneCommitter'
    BY <2>4 DEF Ring!OneCommitter
  <2> QED
    BY <1>g, <2>3, <2>4, <2>5, <2>6
<1>3. CASE Publish(t)
  <2>1. Ring!Publishing(t) /\ Announces(t) /\ Follows(t)
    BY <1>f, <1>3 DEF Publish, Ring!Copy, Ring!SetInit, Ring!SetComplete, Ring!Publishing,
       Ring!PublishLabels
  <2>2. \A u \in Threads : u # t => ~Ring!Publishing(u)
    BY <1>f, <2>1 DEF Ring!OneCommitter
  <2>3. /\ UNCHANGED <<timestamp, index, start_time, tx_start>> /\ last_complete <= last_complete'
        /\ Follows(t)' /\ last_complete' \in Nat
        /\ Ring!Publishing(t)' => Announces(t)'
        /\ ~Ring!Publishing(t)' => last_init' = timestamp' /\ last_complete' = timestamp'
    <3> USE DEF Ring!Goto, context, Announces, Follows, Ring!Publishing, Ring!PublishLabels
    <3>1. CASE Ring!Copy(t)
      BY <1>3, <1>t, <2>1, <3>1 DEF Publish, Ring!Copy, Ring!counters
    <3>2. CASE Ring!SetInit(t)
      BY <1>3, <1>t, <2>1, <3>2 DEF Publish, Ring!SetInit
    <3>3. CASE Ring!SetComplete(t)
      BY <1>3, <1>t, <2>1, <3>3 DEF Publish, Ring!SetComplete
    <3> QED
      BY <1>3, <3>1, <3>2, <3>3 DEF Publish
  <2>4. \A u \in Threads : u # t => Follows(u)' /\ ~Ring!Publishing(u)'
    BY <2>2, <2>3, CommitFrame
  <2>5. Ring!OneCommitter'
    BY <2>4 DEF Ring!OneCommitter
  <2> QED
    BY <1>g, <2>3, <2>4, <2>5
<1> QED
  BY <1>1, <1>2, <1>3


----------------------------------------------------------------------------
(* Every step keeps the ring's types; most are steps of the ring. *)

LEMMA StepRing ==
  ASSUME TypeOK, LocksInv, NEW t \in Threads, Step(t)
  PROVE  Ring!TypeOK' /\ tx_start' \in [Threads -> Nat]
<1>t. /\ Ring!TypeOK /\ tx_start \in [Threads -> Nat] /\ start_time \in [Threads -> Nat]
      /\ RingLate!TypeOK
  BY ViewTypes DEF TypeOK, Ring!TypeOK
\* The steps of the ring, and those that write none of its variables.
<1>r. ASSUME Ring!Step(t) PROVE Ring!TypeOK'
  BY <1>r, <1>t, RingStepTypes
<1>u. ASSUME UNCHANGED ring PROVE Ring!TypeOK'
  BY <1>u, <1>t DEF ring, Ring!TypeOK
<1>1. CASE Draw(t) \/ HtmAbort(t) \/ Undo(t)
  BY <1>1, <1>t, <1>u DEF Draw, HtmAbort, Undo, context
<1>2. CASE HtmCommit(t)
  <2>1. Ring!FinishTx(t) /\ UNCHANGED <<timestamp, last_init, last_complete, ring_wf, start_time,
          index, entry, word, committed, context>> /\ pc[t] = "begin"
    BY <1>2 DEF HtmCommit, Attempting
  <2>2. tx_limit[t] < NoTx
    BY <1>t, <2>1 DEF Ring!TypeOK
  <2> QED
    BY <1>t, <2>1, <2>2, Sizes DEF Ring!TypeOK, Ring!FinishTx, Ring!Goto, Ring!Labels, context
<1>3. CASE EndParts(t)
  BY <1>3, <1>t DEF EndParts, Ring!Goto, Ring!TypeOK, Ring!Labels, Ring!CommitLabels, context, plan
<1>4. CASE CommitReadOnly(t)
  <2>1. wf[t] = {}
    BY <1>4 DEF CommitReadOnly, LocksInv
  <2>2. Ring!CommitReadOnly(t)
    BY <1>4, <2>1 DEF CommitReadOnly, Ring!CommitReadOnly, Ring!ReadOnly, Ring!counters, Ring!scan
  <2> QED
    BY <1>4, <1>t, <1>r, <2>2 DEF Ring!Step, CommitReadOnly, context
<1>5. CASE Retry(t) \/ PartConflict(t)
  BY <1>5, <1>t, <1>r DEF Retry, PartConflict, Ring!Step, context
<1>6. CASE Partition(t)
  <2>1. Unfinished(t)
    BY <1>6 DEF Partition, Unfinished, Ring!PublishLabels
  <2>2. Part(t).reads \in SUBSET Ring!Bits /\ Part(t).writes \in SUBSET Ring!Bits
    BY <2>1, PartEffect DEF States
  <2>3. Ring!PartitionWith(t, Part(t).reads, Part(t).writes) /\ tx_start' = tx_start
    BY <1>6 DEF Partition
  <2>4. Ring!Partition(t)
    <3> HIDE DEF Ring!PartitionWith, Part
    <3> QED
      BY <2>2, <2>3 DEF Ring!Partition
  <2> QED
    BY <1>t, <1>r, <2>3, <2>4 DEF Ring!Step
<1>7. CASE CheckPartition(t)
  BY <1>7, <1>t, <1>r DEF CheckPartition, Ring!Step, context
<1>8. CASE Undone(t)
  BY <1>8, <1>t, <1>r DEF Undone, Ring!Step, context
<1>9. CASE ValidateCommit(t)
  BY <1>9, <1>t, <1>r DEF ValidateCommit, Ring!Step, context
<1>10. CASE ValidateLate(t)
  <2>1. RingLate!Step(t) /\ start_time' = start_time
    BY <1>10 DEF ValidateLate, RingLate!Step
  <2>2. RingLate!TypeOK'
    BY <1>t, <2>1, LateStepTypes
  <2>3. tx_start' \in [Threads -> Nat] /\ start_time' \in [Threads -> Nat]
    BY <1>t, <2>1, <2>2 DEF RingLate!TypeOK
  <2> QED
    BY <2>2, <2>3 DEF Ring!TypeOK, RingLate!TypeOK, Ring!Labels, RingLate!Labels,
       Ring!CheckLabels, RingLate!CheckLabels, Ring!CommitLabels, RingLate!CommitLabels,
       Ring!PublishLabels, RingLate!PublishLabels, Ring!Bits, RingLate!Bits
<1>11. CASE CasSucceeds(t)
  BY <1>11, <1>t, <1>r DEF CasSucceeds, Ring!Step, context
<1>12. CASE Publish(t)
  BY <1>12, <1>t, <1>r DEF Publish, Ring!Step, context
<1>13. CASE Release(t)
  BY <1>13, <1>t, <1>r DEF Release, Ring!Step, context
<1> QED
  BY <1>1, <1>2, <1>3, <1>4, <1>5, <1>6, <1>7, <1>8, <1>9, <1>10, <1>11, <1>12, <1>13 DEF Step


----------------------------------------------------------------------------
(* What the steps of a thread are to the memory: those that leave it and   *)
(* the plan alone, and the others one by one.                              *)

Idle(t) == \/ PartConflict(t) \/ CheckPartition(t) \/ EndParts(t) \/ ValidateCommit(t)
           \/ ValidateLate(t)

LEMMA IdleSteps ==
  ASSUME TypeOK, NEW t \in Threads, Idle(t)
  PROVE  /\ Unfinished(t) /\ Unfinished(t)' /\ pc[t] # "abort"
         /\ UNCHANGED <<wf, array, write_locks, undo_log, loc, initial, htm_retry,
                        program, read_only, balances>>
<1> USE DEF TypeOK, Ring!TypeOK, memory, plan, context, Ring!Goto, Ring!filters,
            Unfinished, Ring!PublishLabels
<1>1. CASE PartConflict(t)
  BY <1>1 DEF PartConflict, Ring!Conflict
<1>2. CASE EndParts(t)
  BY <1>2 DEF EndParts
<1>3. CASE CheckPartition(t)
  <2>1. CASE Ring!CheckPartition(t)
    BY <1>3, <2>1 DEF CheckPartition, Ring!CheckPartition
  <2>2. CASE Ring!PartitionScan(t)
    BY <1>3, <2>2 DEF CheckPartition, Ring!PartitionScan, Ring!Scan
  <2>3. CASE Ring!PartitionAwait(t)
    BY <1>3, <2>3 DEF CheckPartition, Ring!PartitionAwait, Ring!AwaitComplete
  <2>4. CASE Ring!PartitionRollover(t)
    BY <1>3, <2>4 DEF CheckPartition, Ring!PartitionRollover, Ring!Rollover
  <2> QED
    BY <1>3, <2>1, <2>2, <2>3, <2>4 DEF CheckPartition
<1>4. CASE ValidateCommit(t)
  <2>1. CASE Ring!CommitTime(t)
    BY <1>4, <2>1 DEF ValidateCommit, Ring!CommitTime
  <2>2. CASE Ring!AwaitInit(t) \/ Ring!CasFails(t)
    BY <1>4, <2>2 DEF ValidateCommit, Ring!AwaitInit, Ring!CasFails
  <2>3. CASE Ring!CommitScan(t)
    BY <1>4, <2>3 DEF ValidateCommit, Ring!CommitScan, Ring!Scan
  <2>4. CASE Ring!CommitAwait(t)
    BY <1>4, <2>4 DEF ValidateCommit, Ring!CommitAwait, Ring!AwaitComplete
  <2>5. CASE Ring!CommitRollover(t)
    BY <1>4, <2>5 DEF ValidateCommit, Ring!CommitRollover, Ring!Rollover
  <2> QED
    BY <1>4, <2>1, <2>2, <2>3, <2>4, <2>5 DEF ValidateCommit
<1>5. CASE ValidateLate(t)
  <2> USE DEF RingLate!Goto, RingLate!filters
  <2>1. CASE RingLate!CommitTime(t)
    BY <1>5, <2>1 DEF ValidateLate, RingLate!CommitTime
  <2>2. CASE RingLate!AwaitInit(t) \/ RingLate!CasFails(t)
    BY <1>5, <2>2 DEF ValidateLate, RingLate!AwaitInit, RingLate!CasFails
  <2>3. CASE RingLate!CommitScan(t)
    BY <1>5, <2>3 DEF ValidateLate, RingLate!CommitScan, RingLate!Scan
  <2>4. CASE RingLate!CommitAwait(t)
    BY <1>5, <2>4 DEF ValidateLate, RingLate!CommitAwait, RingLate!AwaitComplete
  <2>5. CASE RingLate!CommitRollover(t)
    BY <1>5, <2>5 DEF ValidateLate, RingLate!CommitRollover, RingLate!Rollover
  <2> QED
    BY <1>5, <2>1, <2>2, <2>3, <2>4, <2>5 DEF ValidateLate
<1> QED
  BY <1>1, <1>2, <1>3, <1>4, <1>5 DEF Idle

LEMMA MovingSteps ==
  ASSUME TypeOK, StartInv, NEW t \in Threads
  PROVE  /\ Draw(t) =>
              /\ ~Unfinished(t) /\ ~Unfinished(t)' /\ pc'[t] = "begin"
              /\ loc' \in [Threads -> Locs \cup {NoLoc}] /\ htm_retry'[t] = 0
              /\ UNCHANGED <<wf, array, write_locks, undo_log, initial, balances, read_only, pc>>
         /\ HtmCommit(t) =>
              /\ ~Unfinished(t) /\ ~Unfinished(t)' /\ pc[t] = "begin"
              /\ loc[t] \in Locs /\ wf'[t] = {} /\ loc'[t] = NoLoc
              /\ loc' \in [Threads -> Locs \cup {NoLoc}]
              /\ UNCHANGED <<write_locks, undo_log, initial, htm_retry, read_only>>
         /\ HtmAbort(t) =>
              /\ ~Unfinished(t) /\ ~Unfinished(t)' /\ pc[t] = "begin" /\ pc'[t] = "begin"
              /\ loc[t] # NoLoc /\ htm_retry[t] < HtmRetry /\ htm_retry'[t] = htm_retry[t] + 1
              /\ initial'[t] = 1 /\ undo_log'[t] = <<>>
              /\ UNCHANGED <<wf, array, write_locks, loc, balances, read_only>>
         /\ Retry(t) =>
              /\ ~Unfinished(t) /\ Unfinished(t)' /\ pc'[t] = "run"
              /\ initial[t] \in DOMAIN loc[t] /\ initial'[t] \in {1, initial[t]}
              /\ undo_log[t] = <<>>
              /\ UNCHANGED <<wf, array, write_locks, undo_log, loc, htm_retry, balances, read_only>>
         /\ Partition(t) =>
              /\ Unfinished(t) /\ Unfinished(t)' /\ pc[t] = "run" /\ pc'[t] = "pIndex"
              /\ wf'[t] = wf[t] \cup Part(t).writes
              /\ UNCHANGED <<loc, htm_retry, balances>>
         /\ Undo(t) =>
              /\ Unfinished(t) /\ Unfinished(t)' /\ pc[t] = "abort" /\ pc'[t] = "abort"
              /\ UNCHANGED <<wf, write_locks, loc, initial, htm_retry, balances, read_only>>
         /\ Undone(t) =>
              /\ Unfinished(t) /\ ~Unfinished(t)' /\ pc[t] = "abort" /\ pc'[t] = "begin"
              /\ undo_log[t] = <<>> /\ wf'[t] = {} /\ write_locks' = write_locks \ wf[t]
              /\ UNCHANGED <<array, undo_log, loc, initial, htm_retry, balances, read_only>>
         /\ CommitReadOnly(t) =>
              /\ Unfinished(t) /\ ~Unfinished(t)' /\ ReadOnly(t) /\ wf'[t] = {}
              /\ loc'[t] = NoLoc /\ loc' \in [Threads -> Locs \cup {NoLoc}]
              /\ UNCHANGED <<array, write_locks, undo_log, initial, htm_retry, balances, read_only>>
         /\ CasSucceeds(t) =>
              /\ Unfinished(t) /\ ~Unfinished(t)' /\ pc[t] = "cas" /\ pc'[t] = "copy"
              /\ timestamp = index[t]
              /\ UNCHANGED <<wf, array, write_locks, undo_log, loc, initial, htm_retry, read_only>>
         /\ Publish(t) =>
              /\ ~Unfinished(t) /\ ~Unfinished(t)' /\ pc'[t] \notin {"begin", "done"}
              /\ UNCHANGED <<wf, array, write_locks, undo_log, loc, initial, htm_retry, balances,
                             read_only>>
         /\ Release(t) =>
              /\ ~Unfinished(t) /\ ~Unfinished(t)' /\ wf'[t] = {}
              /\ write_locks' = write_locks \ wf[t]
              /\ loc'[t] = NoLoc /\ loc' \in [Threads -> Locs \cup {NoLoc}]
              /\ UNCHANGED <<array, undo_log, initial, htm_retry, balances, read_only>>
<1>t. /\ pc \in [Threads -> Ring!Labels] /\ wf \in [Threads -> SUBSET Ring!Bits]
      /\ loc \in [Threads -> Locs \cup {NoLoc}] /\ htm_retry \in [Threads -> 0 .. HtmRetry]
      /\ initial \in [Threads -> Nat] /\ DOMAIN undo_log = Threads
  BY DEF TypeOK, Ring!TypeOK
<1> USE <1>t DEF ring, memory, plan, context, Ring!Goto, Ring!filters, Ring!FinishTx,
                 Unfinished, Ring!PublishLabels
<1>1. ASSUME Draw(t) PROVE /\ ~Unfinished(t) /\ ~Unfinished(t)' /\ pc'[t] = "begin"
              /\ loc' \in [Threads -> Locs \cup {NoLoc}] /\ htm_retry'[t] = 0
              /\ UNCHANGED <<wf, array, write_locks, undo_log, initial, balances, read_only, pc>>
  BY <1>1 DEF Draw
<1>2. ASSUME HtmCommit(t) PROVE
              /\ ~Unfinished(t) /\ ~Unfinished(t)' /\ pc[t] = "begin"
              /\ loc[t] \in Locs /\ wf'[t] = {} /\ loc'[t] = NoLoc
              /\ loc' \in [Threads -> Locs \cup {NoLoc}]
              /\ UNCHANGED <<write_locks, undo_log, initial, htm_retry, read_only>>
  BY <1>2 DEF HtmCommit, Attempting
<1>3. ASSUME HtmAbort(t) PROVE
              /\ ~Unfinished(t) /\ ~Unfinished(t)' /\ pc[t] = "begin" /\ pc'[t] = "begin"
              /\ loc[t] # NoLoc /\ htm_retry[t] < HtmRetry /\ htm_retry'[t] = htm_retry[t] + 1
              /\ initial'[t] = 1 /\ undo_log'[t] = <<>>
              /\ UNCHANGED <<wf, array, write_locks, loc, balances, read_only>>
  BY <1>3 DEF HtmAbort, Attempting
<1>4. ASSUME Retry(t) PROVE
              /\ ~Unfinished(t) /\ Unfinished(t)' /\ pc'[t] = "run"
              /\ initial[t] \in DOMAIN loc[t] /\ initial'[t] \in {1, initial[t]}
              /\ undo_log[t] = <<>>
              /\ UNCHANGED <<wf, array, write_locks, undo_log, loc, htm_retry, balances, read_only>>
  <2>1. pc[t] = "begin" /\ loc[t] # NoLoc /\ htm_retry[t] = HtmRetry
    BY <1>4 DEF Retry, Ring!Begin
  <2>2. initial[t] \in DOMAIN loc[t] /\ undo_log[t] = <<>>
    BY <2>1, Sizes DEF StartInv
  <2> QED
    BY <1>4, <2>1, <2>2 DEF Retry, Ring!Begin
<1>5. ASSUME Partition(t) PROVE
              /\ Unfinished(t) /\ Unfinished(t)' /\ pc[t] = "run" /\ pc'[t] = "pIndex"
              /\ wf'[t] = wf[t] \cup Part(t).writes
              /\ UNCHANGED <<loc, htm_retry, balances>>
  BY <1>5 DEF Partition, Ring!PartitionWith
<1>6. ASSUME Undo(t) PROVE
              /\ Unfinished(t) /\ Unfinished(t)' /\ pc[t] = "abort" /\ pc'[t] = "abort"
              /\ UNCHANGED <<wf, write_locks, loc, initial, htm_retry, balances, read_only>>
  BY <1>6 DEF Undo
<1>7. ASSUME Undone(t) PROVE
              /\ Unfinished(t) /\ ~Unfinished(t)' /\ pc[t] = "abort" /\ pc'[t] = "begin"
              /\ undo_log[t] = <<>> /\ wf'[t] = {} /\ write_locks' = write_locks \ wf[t]
              /\ UNCHANGED <<array, undo_log, loc, initial, htm_retry, balances, read_only>>
  BY <1>7 DEF Undone, Ring!Abort
<1>8. ASSUME CommitReadOnly(t) PROVE
              /\ Unfinished(t) /\ ~Unfinished(t)' /\ ReadOnly(t) /\ wf'[t] = {}
              /\ loc'[t] = NoLoc /\ loc' \in [Threads -> Locs \cup {NoLoc}]
              /\ UNCHANGED <<array, write_locks, undo_log, initial, htm_retry, balances, read_only>>
  BY <1>8 DEF CommitReadOnly
<1>9. ASSUME CasSucceeds(t) PROVE
              /\ Unfinished(t) /\ ~Unfinished(t)' /\ pc[t] = "cas" /\ pc'[t] = "copy"
              /\ timestamp = index[t]
              /\ UNCHANGED <<wf, array, write_locks, undo_log, loc, initial, htm_retry, read_only>>
  BY <1>9 DEF CasSucceeds, Ring!CasSucceeds
<1>10. ASSUME Publish(t) PROVE
              /\ ~Unfinished(t) /\ ~Unfinished(t)' /\ pc'[t] \notin {"begin", "done"}
              /\ UNCHANGED <<wf, array, write_locks, undo_log, loc, initial, htm_retry, balances,
                             read_only>>
  BY <1>10 DEF Publish, Ring!Copy, Ring!SetInit, Ring!SetComplete
<1>11. ASSUME Release(t) PROVE
              /\ ~Unfinished(t) /\ ~Unfinished(t)' /\ wf'[t] = {}
              /\ write_locks' = write_locks \ wf[t]
              /\ loc'[t] = NoLoc /\ loc' \in [Threads -> Locs \cup {NoLoc}]
              /\ UNCHANGED <<array, undo_log, initial, htm_retry, balances, read_only>>
  BY <1>11 DEF Release, Ring!Release
<1> HIDE <1>t DEF ring, memory, plan, context, Ring!Goto, Ring!filters, Ring!FinishTx,
                 Unfinished, Ring!PublishLabels
<1> QED
  BY <1>1, <1>2, <1>3, <1>4, <1>5, <1>6, <1>7, <1>8, <1>9, <1>10, <1>11


\* The locks of others keep a transaction in hardware away from what may be undone.
LEMMA HtmMeetsNothing ==
  ASSUME TypeOK, StartInv, LocksInv, IntactInv, NEW t \in Threads, HtmCommit(t)
  PROVE  /\ \A a \in Addresses : hash(a) \in Touched(Whole(t, array)) =>
              /\ array[a] = balances[a]
              /\ \A u \in Threads : Unfinished(u) => a \notin Logged(u)
         /\ array \in Memories /\ balances \in Memories
<1>1. /\ ~Unfinished(t) /\ pc[t] = "begin" /\ loc[t] \in Locs
  BY MovingSteps
<1>2. wf[t] = {}
  BY <1>1 DEF LocksInv
<1>3. (rf[t] \cup Touched(Whole(t, array))) \cap (write_locks \ wf[t]) = {}
  <2>1. (rf[t] \cup Whole(t, array).reads \cup Whole(t, array).writes)
          \cap (write_locks \ wf[t]) = {}
    BY DEF HtmCommit, MeetsLocks
  <2> QED
    BY <2>1 DEF Touched
<1>4. array \in Memories /\ balances \in Memories
  BY DEF TypeOK, Memories
<1>5. ASSUME NEW a \in Addresses, hash(a) \in Touched(Whole(t, array))
      PROVE  /\ array[a] = balances[a]
             /\ \A u \in Threads : Unfinished(u) => a \notin Logged(u)
  <2>1. hash(a) \notin write_locks
    BY <1>2, <1>3, <1>5
  <2>2. ASSUME NEW u \in Threads, Unfinished(u), a \in Logged(u) PROVE FALSE
    <3>1. hash(a) \in wf[u]
      BY <2>2 DEF LocksInv
    <3> QED
      BY <2>1, <3>1 DEF LocksInv
  <2> QED
    BY <2>2 DEF IntactInv
<1> QED
  BY <1>4, <1>5

LEMMA StepMemoryTypes ==
  ASSUME TypeOK, StartInv, LocksInv, IntactInv, NEW t \in Threads, Step(t)
  PROVE  /\ array' \in [Addresses -> Int] /\ balances' \in [Addresses -> Int]
         /\ write_locks' \subseteq Ring!Bits
         /\ undo_log' \in [Threads -> Seq(Entries(Addresses))]
<1>t. /\ array \in [Addresses -> Int] /\ balances \in [Addresses -> Int]
      /\ write_locks \subseteq Ring!Bits
      /\ undo_log \in [Threads -> Seq(Entries(Addresses))]
  BY DEF TypeOK
<1>1. CASE Idle(t) \/ Draw(t) \/ Retry(t) \/ CommitReadOnly(t) \/ Publish(t)
  <2>1. UNCHANGED <<array, balances, write_locks, undo_log>>
    BY <1>1, IdleSteps, MovingSteps
  <2> QED
    BY <1>t, <2>1
<1>2. CASE Undone(t) \/ Release(t)
  <2>1. UNCHANGED <<array, balances, undo_log>> /\ write_locks' = write_locks \ wf[t]
    BY <1>2, MovingSteps
  <2> QED
    BY <1>t, <2>1
<1>3. CASE HtmAbort(t)
  <2>1. UNCHANGED <<array, balances, write_locks>> /\ undo_log' = [undo_log EXCEPT ![t] = <<>>]
    BY <1>3 DEF HtmAbort
  <2>2. <<>> \in Seq(Entries(Addresses))
    OBVIOUS
  <2> QED
    BY <1>t, <2>1, <2>2
<1>4. CASE HtmCommit(t)
  <2>1. UNCHANGED <<write_locks, undo_log>> /\ loc[t] \in Locs
    BY <1>4, MovingSteps
  <2>2. Whole(t, array) \in States /\ Whole(t, balances) \in States
    BY <1>4, <2>1, HtmMeetsNothing, Agreement
  <2>3. array' = Whole(t, array).array /\ balances' = Whole(t, balances).array
    BY <1>4 DEF HtmCommit
  <2> QED
    BY <1>t, <2>1, <2>2, <2>3 DEF States, Memories
<1>5. CASE Partition(t)
  <2>1. Part(t) \in States
    BY <1>5, MovingSteps, PartEffect
  <2>2. /\ array' = Part(t).array /\ write_locks' = write_locks \cup Part(t).writes
        /\ undo_log' = [undo_log EXCEPT ![t] = @ \o Part(t).log] /\ UNCHANGED balances
    BY <1>5 DEF Partition
  <2>3. undo_log[t] \o Part(t).log \in Seq(Entries(Addresses))
    BY <1>t, <2>1 DEF States
  <2>4. /\ Part(t).array \in [Addresses -> Int] /\ Part(t).writes \subseteq Ring!Bits
    BY <2>1 DEF States, Memories
  <2> HIDE DEF Part
  <2> QED
    BY <1>t, <2>2, <2>3, <2>4
<1>6. CASE Undo(t)
  <2> DEFINE e == Last(undo_log[t])
  <2>1. /\ undo_log[t] \in Seq(Entries(Addresses)) /\ undo_log[t] # <<>>
        /\ array' = [array EXCEPT ![e.addr] = e.val]
        /\ undo_log' = [undo_log EXCEPT ![t] = Front(@)]
        /\ UNCHANGED <<write_locks, balances>>
    BY <1>6, <1>t, MovingSteps DEF Undo
  <2>2. Front(undo_log[t]) \in Seq(Entries(Addresses)) /\ e \in Entries(Addresses)
    BY <2>1, OldestOfFront
  <2>3. e.addr \in Addresses /\ e.val \in Int
    BY <2>2 DEF Entries
  <2> HIDE DEF e
  <2> QED
    BY <1>t, <2>1, <2>2, <2>3
<1>7. CASE CasSucceeds(t)
  <2>1. UNCHANGED <<array, write_locks, undo_log>>
    BY <1>7, MovingSteps
  <2>2. balances' = [a \in Addresses |-> balances[a] +
                      (IF a \in Logged(t) THEN array[a] - Oldest(undo_log[t], a) ELSE 0)]
    BY <1>7 DEF CasSucceeds
  <2>3. ASSUME NEW a \in Logged(t) PROVE Oldest(undo_log[t], a) \in Int
    BY <1>t, OldestValue DEF Logged
  <2>4. \A a \in Addresses : balances[a] +
          (IF a \in Logged(t) THEN array[a] - Oldest(undo_log[t], a) ELSE 0) \in Int
    BY <1>t, <2>3
  <2> HIDE DEF Logged
  <2> QED
    BY <1>t, <2>1, <2>2, <2>4
<1> QED
  BY <1>1, <1>2, <1>3, <1>4, <1>5, <1>6, <1>7 DEF Step, Idle

LEMMA StepPlanTypes ==
  ASSUME TypeOK, StartInv, NEW t \in Threads, Step(t)
  PROVE  /\ loc' \in [Threads -> Locs \cup {NoLoc}]
         /\ initial' \in [Threads -> Nat] /\ more' \in [Threads -> BOOLEAN]
         /\ \A u \in Threads : Unfinished(u)' => initial'[u] \in DOMAIN loc'[u]
         /\ htm_retry' \in [Threads -> 0 .. HtmRetry]
         /\ program' \in Programs
         /\ read_only' \in [Threads -> BOOLEAN]
         /\ StartInv'
<1>t. /\ loc \in [Threads -> Locs \cup {NoLoc}]
      /\ initial \in [Threads -> Nat] /\ more \in [Threads -> BOOLEAN]
      /\ \A u \in Threads : Unfinished(u) => initial[u] \in DOMAIN loc[u]
      /\ htm_retry \in [Threads -> 0 .. HtmRetry]
      /\ program \in Programs
      /\ read_only \in [Threads -> BOOLEAN]
      /\ undo_log \in [Threads -> Seq(Entries(Addresses))]
      /\ pc \in [Threads -> Ring!Labels]
  BY DEF TypeOK, Ring!TypeOK
<1> DEFINE Placed(u) == Unfinished(u) => initial[u] \in DOMAIN loc[u]
           Ready(u) == pc[u] = "begin" /\ loc[u] # NoLoc /\ htm_retry[u] > 0 =>
                         initial[u] \in DOMAIN loc[u] /\ undo_log[u] = <<>>
\* The other threads.
<1>o. \A u \in Threads \ {t} :
        /\ pc'[u] = pc[u] /\ undo_log'[u] = undo_log[u]
        /\ loc'[u] = loc[u] /\ initial'[u] = initial[u] /\ htm_retry'[u] = htm_retry[u]
  BY OthersKeep
<1>g. ASSUME Placed(t)', Ready(t)' PROVE (\A u \in Threads : Placed(u)') /\ StartInv'
  <2>1. \A u \in Threads : Placed(u) /\ Ready(u)
    BY <1>t DEF StartInv
  <2>2. \A u \in Threads \ {t} : Unfinished(u)' <=> Unfinished(u)
    BY <1>o DEF Unfinished, Ring!PublishLabels
  <2>3. \A u \in Threads \ {t} : Placed(u)' /\ Ready(u)'
    BY <1>o, <2>1, <2>2
  <2>4. \A u \in Threads : Ready(u)'
    BY <1>g, <2>3
  <2>5. \A u \in Threads : Placed(u)'
    BY <1>g, <2>3
  <2>6. StartInv'
    BY <2>4 DEF StartInv
  <2> QED
    BY <2>5, <2>6
\* Where a transaction that is unfinished may not begin.
<1>b. Unfinished(t)' => pc'[t] # "begin"
  BY DEF Unfinished
<1>p. ASSUME NEW l \in Locs PROVE 1 \in DOMAIN l /\ l # NoLoc
  <2>1. Len(l) \in Nat \ {0} /\ DOMAIN l = 1 .. Len(l) /\ l \in Seq(Places)
    BY LocPlace
  <2>2. 1 \in 1 .. Len(l)
    BY <2>1
  <2> QED
    BY <2>1, <2>2 DEF NoLoc
<1>1. CASE Idle(t)
  <2>1. UNCHANGED <<loc, initial, htm_retry, program, read_only>> /\ Unfinished(t) /\ Unfinished(t)'
    BY <1>1, IdleSteps
  <2>2. more' \in [Threads -> BOOLEAN]
    BY <1>1, <1>t DEF Idle, PartConflict, CheckPartition, EndParts, ValidateCommit, ValidateLate,
       plan
  <2>3. Placed(t)' /\ Ready(t)'
    BY <1>t, <1>b, <2>1
  <2> HIDE DEF Placed, Ready
  <2> QED
    BY <1>g, <1>t, <2>1, <2>2, <2>3 DEF Placed
<1>2. CASE Draw(t)
  <2>1. /\ UNCHANGED <<initial, more, program, read_only, undo_log>> /\ ~Unfinished(t)'
        /\ loc' \in [Threads -> Locs \cup {NoLoc}]
        /\ htm_retry' = [htm_retry EXCEPT ![t] = 0] /\ htm_retry'[t] = 0
    BY <1>2, MovingSteps DEF Draw, context
  <2>2. Placed(t)' /\ Ready(t)'
    BY <2>1
  <2>3. htm_retry' \in [Threads -> 0 .. HtmRetry]
    BY <1>t, <2>1, Sizes
  <2> HIDE DEF Placed, Ready
  <2> QED
    BY <1>g, <1>t, <2>1, <2>2, <2>3 DEF Placed
<1>3. CASE HtmCommit(t) \/ CommitReadOnly(t) \/ Release(t)
  <2>1. /\ ~Unfinished(t)' /\ loc' \in [Threads -> Locs \cup {NoLoc}]
        /\ loc'[t] = NoLoc /\ UNCHANGED <<initial, htm_retry, read_only>>
    BY <1>3, MovingSteps
  <2>2. UNCHANGED <<more, program>>
    BY <1>3 DEF HtmCommit, CommitReadOnly, Release, context
  <2>3. Placed(t)' /\ Ready(t)'
    BY <2>1
  <2> HIDE DEF Placed, Ready
  <2> QED
    BY <1>g, <1>t, <2>1, <2>2, <2>3 DEF Placed
<1>4. CASE HtmAbort(t)
  <2>1. /\ ~Unfinished(t)' /\ loc[t] # NoLoc /\ htm_retry[t] < HtmRetry
        /\ initial'[t] = 1 /\ undo_log'[t] = <<>> /\ UNCHANGED <<loc, read_only>>
    BY <1>4, MovingSteps
  <2>2. /\ htm_retry' = [htm_retry EXCEPT ![t] = @ + 1] /\ initial' = [initial EXCEPT ![t] = 1]
        /\ more' = [more EXCEPT ![t] = TRUE] /\ program' = program
    BY <1>4 DEF HtmAbort, context
  <2>3. 1 \in DOMAIN loc[t]
    BY <1>p, <1>t, <2>1
  <2>4. htm_retry' \in [Threads -> 0 .. HtmRetry]
    BY <1>t, <2>1, <2>2, Sizes
  <2>5. Placed(t)' /\ Ready(t)'
    BY <2>1, <2>3
  <2>6. initial' \in [Threads -> Nat] /\ more' \in [Threads -> BOOLEAN]
    BY <1>t, <2>2
  <2> HIDE DEF Placed, Ready
  <2> QED
    BY <1>g, <1>t, <2>1, <2>2, <2>4, <2>5, <2>6 DEF Placed
<1>5. CASE Retry(t)
  <2>1. /\ Unfinished(t)' /\ initial[t] \in DOMAIN loc[t]
        /\ initial'[t] \in {1, initial[t]} /\ UNCHANGED <<loc, htm_retry, read_only>>
    BY <1>5, MovingSteps
  <2>2. /\ more' = [more EXCEPT ![t] = @ \/ program = "macro"]
        /\ initial' = [initial EXCEPT ![t] = IF program = "inner" THEN 1 ELSE @]
        /\ program' = program
    BY <1>5 DEF Retry, context
  <2>3. loc[t] # NoLoc
    BY <1>5 DEF Retry
  <2>4. 1 \in DOMAIN loc[t]
    BY <1>p, <1>t, <2>3
  <2>5. Placed(t)' /\ Ready(t)'
    BY <1>b, <2>1, <2>4
  <2>6. initial' \in [Threads -> Nat] /\ more' \in [Threads -> BOOLEAN]
    BY <1>t, <2>2
  <2> HIDE DEF Placed, Ready
  <2> QED
    BY <1>g, <1>t, <2>1, <2>2, <2>5, <2>6 DEF Placed
<1>6. CASE Partition(t)
  <2>1. /\ Unfinished(t) /\ Unfinished(t)' /\ UNCHANGED <<loc, htm_retry>>
    BY <1>6, MovingSteps
  <2>2. /\ more' = [more EXCEPT ![t] = initial[t] < Len(loc[t])]
        /\ initial' = [initial EXCEPT ![t] = IF @ < Len(loc[t]) THEN @ + 1 ELSE @]
        /\ read_only' = [read_only EXCEPT ![t] = @ /\ (program = "inner" => undo_log'[t] = <<>>)]
        /\ program' = program
    BY <1>6 DEF Partition
  <2>3. /\ DOMAIN loc[t] = 1 .. Len(loc[t]) /\ Len(loc[t]) \in Nat
        /\ initial[t] \in 1 .. Len(loc[t])
    BY <2>1, Started, LocPlace
  <2>4. initial'[t] \in DOMAIN loc'[t] /\ initial' \in [Threads -> Nat]
    <3>1. initial'[t] = IF initial[t] < Len(loc[t]) THEN initial[t] + 1 ELSE initial[t]
      BY <1>t, <2>2
    <3>2. initial'[t] \in 1 .. Len(loc[t])
      BY <2>3, <3>1
    <3> QED
      BY <1>t, <2>1, <2>2, <2>3, <3>2
  <2>5. Placed(t)' /\ Ready(t)'
    BY <1>b, <2>1, <2>4
  <2>6. more' \in [Threads -> BOOLEAN]
    <3>1. (initial[t] < Len(loc[t])) \in BOOLEAN
      BY <2>3
    <3> QED
      BY <1>t, <2>2, <3>1
  <2>7. read_only' \in [Threads -> BOOLEAN]
    BY <1>t, <2>2
  <2> HIDE DEF Placed, Ready
  <2> QED
    BY <1>g, <1>t, <2>1, <2>2, <2>4, <2>5, <2>6, <2>7 DEF Placed
<1>7. CASE Undo(t)
  <2>1. /\ Unfinished(t) /\ Unfinished(t)' /\ UNCHANGED <<loc, initial, htm_retry, read_only>>
    BY <1>7, MovingSteps
  <2>2. UNCHANGED <<more, program>>
    BY <1>7 DEF Undo, plan, context
  <2>3. Placed(t)' /\ Ready(t)'
    BY <1>t, <1>b, <2>1
  <2> HIDE DEF Placed, Ready
  <2> QED
    BY <1>g, <1>t, <2>1, <2>2, <2>3 DEF Placed
<1>8. CASE Undone(t)
  <2>1. /\ Unfinished(t) /\ ~Unfinished(t)' /\ undo_log[t] = <<>>
        /\ UNCHANGED <<undo_log, loc, initial, htm_retry, read_only>>
    BY <1>8, MovingSteps
  <2>2. UNCHANGED <<more, program>>
    BY <1>8 DEF Undone, plan, context
  <2>3. Placed(t)' /\ Ready(t)'
    BY <1>t, <2>1
  <2> HIDE DEF Placed, Ready
  <2> QED
    BY <1>g, <1>t, <2>1, <2>2, <2>3 DEF Placed
<1>9. CASE CasSucceeds(t) \/ Publish(t)
  <2>1. /\ ~Unfinished(t)' /\ pc'[t] # "begin" /\ UNCHANGED <<loc, initial, htm_retry, read_only>>
    BY <1>9, MovingSteps
  <2>2. UNCHANGED <<more, program>>
    BY <1>9 DEF CasSucceeds, Publish, plan, context
  <2>3. Placed(t)' /\ Ready(t)'
    BY <2>1
  <2> HIDE DEF Placed, Ready
  <2> QED
    BY <1>g, <1>t, <2>1, <2>2, <2>3 DEF Placed
<1> QED
  BY <1>1, <1>2, <1>3, <1>4, <1>5, <1>6, <1>7, <1>8, <1>9 DEF Step, Idle


----------------------------------------------------------------------------
(* The write locks. *)

LEMMA OthersLogs ==
  ASSUME TypeOK, NEW t \in Threads, Step(t), NEW u \in Threads, u # t
  PROVE  /\ wf'[u] = wf[u] /\ undo_log'[u] = undo_log[u] /\ pc'[u] = pc[u]
         /\ Logged(u)' = Logged(u)
         /\ Unfinished(u)' <=> Unfinished(u)
  BY OthersKeep DEF Logged, Unfinished, Ring!PublishLabels

\* The pair a thread is about to transfer between.
Pair(t) == loc[t][initial[t]]

\* What a partition does to the memory and the log.
LEMMA PartitionLog ==
  ASSUME TypeOK, StartInv, NEW t \in Threads, Partition(t)
  PROVE  LET p == Pair(t)  d == Entry(array, p.from)  e == Entry(array, p.to) IN
         /\ p.from \in Addresses /\ p.to \in Addresses /\ p \in Places
         /\ array \in Memories /\ undo_log[t] \in Seq(Entries(Addresses))
         /\ Part(t).writes \cap (write_locks \ wf[t]) = {}
         /\ write_locks' = write_locks \cup Part(t).writes
         /\ array[p.from] > 50 =>
              /\ array' = Moved(array, p) /\ Part(t).writes = {hash(p.from), hash(p.to)}
              /\ d \in Entries(Addresses) /\ e \in Entries(Addresses)
              /\ undo_log'[t] = undo_log[t] \o <<d, e>>
              /\ Logged(t)' = Logged(t) \cup {p.from, p.to}
         /\ ~(array[p.from] > 50) =>
              /\ array' = array /\ Part(t).writes = {}
              /\ undo_log'[t] = undo_log[t] /\ Logged(t)' = Logged(t)
<1> DEFINE p == Pair(t)
           d == Entry(array, p.from)
           e == Entry(array, p.to)
<1>1. /\ Unfinished(t) /\ p \in Places /\ array \in Memories
      /\ undo_log[t] \in Seq(Entries(Addresses))
      /\ undo_log \in [Threads -> Seq(Entries(Addresses))]
  BY MovingSteps, Started DEF TypeOK, Memories, Pair
<1>2. p.from \in Addresses /\ p.to \in Addresses
  BY <1>1 DEF Places
<1>3. /\ array' = Part(t).array /\ write_locks' = write_locks \cup Part(t).writes
      /\ undo_log'[t] = undo_log[t] \o Part(t).log
      /\ Part(t).writes \cap (write_locks \ wf[t]) = {}
  BY <1>1 DEF Partition, MeetsLocks
<1>4. ASSUME array[p.from] > 50
      PROVE  /\ array' = Moved(array, p) /\ Part(t).writes = {hash(p.from), hash(p.to)}
             /\ d \in Entries(Addresses) /\ e \in Entries(Addresses)
             /\ undo_log'[t] = undo_log[t] \o <<d, e>>
             /\ Logged(t)' = Logged(t) \cup {p.from, p.to}
  <2>1. /\ Part(t).array = Moved(array, p) /\ Part(t).writes = {hash(p.from), hash(p.to)}
        /\ Part(t).log = <<d, e>>
    BY <1>1, <1>4, PartEffect DEF Pair
  <2>2. /\ d \in Entries(Addresses) /\ e \in Entries(Addresses)
        /\ d.addr = p.from /\ e.addr = p.to
    BY <1>1, <1>2 DEF Entry, Entries, Memories
  <2> HIDE DEF p, d, e, Part
  <2>3. Addrs(undo_log'[t]) = Addrs(undo_log[t]) \cup {p.from, p.to}
    BY <1>1, <1>3, <2>1, <2>2, AddrsOfLonger
  <2> QED
    BY <1>3, <2>1, <2>2, <2>3 DEF Logged
<1>5. ASSUME ~(array[p.from] > 50)
      PROVE  /\ array' = array /\ Part(t).writes = {}
             /\ undo_log'[t] = undo_log[t] /\ Logged(t)' = Logged(t)
  <2>1. Part(t).array = array /\ Part(t).writes = {} /\ Part(t).log = <<>>
    BY <1>1, <1>5, PartEffect DEF Pair
  <2> HIDE DEF p, d, e, Part
  <2>2. undo_log'[t] = undo_log[t]
    BY <1>1, <1>3, <2>1
  <2> QED
    BY <1>3, <2>1, <2>2 DEF Logged
<1> QED
  BY <1>1, <1>2, <1>3, <1>4, <1>5 DEF p, d, e

LEMMA UndoEffect ==
  ASSUME TypeOK, NEW t \in Threads, Undo(t)
  PROVE  LET log == undo_log[t]  e == Last(undo_log[t]) IN
         /\ e.addr \in Addresses /\ e.val \in Int
         /\ array' = [array EXCEPT ![e.addr] = e.val]
         /\ Logged(t) = Logged(t)' \cup {e.addr}
         /\ \A a \in Logged(t)' : Oldest(undo_log'[t], a) = Oldest(log, a)
         /\ \A a \in Logged(t) \ Logged(t)' : Oldest(log, a) = e.val
<1>1. undo_log[t] \in Seq(Entries(Addresses)) /\ undo_log[t] # <<>> /\ undo_log'[t] = Front(undo_log[t])
  BY DEF TypeOK, Undo
<1>2. Last(undo_log[t]).addr \in Addresses /\ Last(undo_log[t]).val \in Int
  BY <1>1, OldestOfFront DEF Entries
<1> QED
  BY <1>1, <1>2, OldestOfFront DEF Undo, Logged

LEMMA StepLocks ==
  ASSUME TypeOK, StartInv, LocksInv, NEW t \in Threads, Step(t), DOMAIN wf' = Threads
  PROVE  LocksInv'
<1> DEFINE Others == Threads \ {t}
           Exclusive == \A u \in Others : wf'[t] \cap wf[u] = {}
           Kept == write_locks' = wf'[t] \cup UNION {wf[u] : u \in Others}
           Empty == pc'[t] \in {"begin", "done"} => wf'[t] = {}
           Covered == \A a \in Addresses : Unfinished(t)' /\ a \in Logged(t)' => hash(a) \in wf'[t]
           Written0 == program = "inner" /\ read_only'[t] => wf'[t] = {} /\ undo_log'[t] = <<>>
<1>t. DOMAIN wf = Threads
  BY DEF TypeOK, Ring!TypeOK
<1>o. \A u \in Others : /\ wf'[u] = wf[u] /\ undo_log'[u] = undo_log[u] /\ pc'[u] = pc[u]
                        /\ Logged(u)' = Logged(u) /\ (Unfinished(u)' <=> Unfinished(u))
                        /\ read_only'[u] = read_only[u] /\ program' = program
  BY OthersLogs, OthersKeep
<1>p. program' = program
  <2>1. CASE Idle(t)
    BY <2>1, IdleSteps
  <2>2. CASE ~Idle(t)
    BY <2>2 DEF Step, Idle, Draw, HtmCommit, HtmAbort, Retry, Partition, Undo, Undone,
       CommitReadOnly, CasSucceeds, Publish, Release, context
  <2> QED
    BY <2>1, <2>2
<1>w. write_locks = wf[t] \cup UNION {wf[u] : u \in Others}
  BY DEF LocksInv
<1>g. ASSUME Exclusive, Kept, Empty, Covered, Written0 PROVE LocksInv'
  <2>1. \A u, v \in Threads : u # v => wf'[u] \cap wf'[v] = {}
    BY <1>o, <1>g DEF LocksInv
  <2>2. write_locks' = UNION {wf'[u] : u \in Threads}
    BY <1>o, <1>g
  <2>3. \A u \in Threads : pc'[u] \in {"begin", "done"} => wf'[u] = {}
    BY <1>o, <1>g DEF LocksInv
  <2>4. \A u \in Threads, a \in Addresses : Unfinished(u)' /\ a \in Logged(u)' => hash(a) \in wf'[u]
    BY <1>o, <1>g DEF LocksInv
  <2>5. \A u \in Threads : program' = "inner" /\ read_only'[u] => wf'[u] = {} /\ undo_log'[u] = <<>>
    BY <1>o, <1>p, <1>g DEF LocksInv, ReadOnly
  <2>6. Addresses' = Addresses /\ \A a : hash(a)' = hash(a)
    BY DEF Addresses, hash
  <2> HIDE DEF Exclusive, Kept, Empty, Covered, Written0
  <2> QED
    BY <2>1, <2>2, <2>3, <2>4, <2>5, <2>6 DEF LocksInv, ReadOnly
<1>l. /\ \A u \in Others : wf[t] \cap wf[u] = {}
      /\ pc[t] \in {"begin", "done"} => wf[t] = {}
      /\ \A a \in Addresses : Unfinished(t) /\ a \in Logged(t) => hash(a) \in wf[t]
      /\ program = "inner" /\ read_only[t] => wf[t] = {} /\ undo_log[t] = <<>>
  BY DEF LocksInv, ReadOnly
<1>u. Unfinished(t)' => pc'[t] \notin {"begin", "done"}
  BY DEF Unfinished
<1>1. CASE Idle(t)
  <2>1. /\ Unfinished(t) /\ Unfinished(t)' /\ UNCHANGED <<wf, write_locks, undo_log, read_only>>
    BY <1>1, IdleSteps
  <2>2. Logged(t)' = Logged(t)
    BY <2>1 DEF Logged
  <2> QED
    BY <1>g, <1>l, <1>u, <1>w, <2>1, <2>2
<1>2. CASE Draw(t) \/ CasSucceeds(t) \/ Publish(t)
  <2>1. /\ ~Unfinished(t)' /\ UNCHANGED <<wf, write_locks, undo_log, read_only>>
        /\ pc'[t] \in {"begin", "done"} => pc'[t] = pc[t]
    BY <1>2, MovingSteps
  <2> QED
    BY <1>g, <1>l, <1>w, <2>1
<1>3. CASE HtmAbort(t)
  <2>1. /\ ~Unfinished(t)' /\ UNCHANGED <<wf, write_locks, read_only>>
        /\ pc[t] = "begin" /\ undo_log'[t] = <<>>
    BY <1>3, MovingSteps
  <2> QED
    BY <1>g, <1>l, <1>w, <2>1
<1>4. CASE HtmCommit(t)
  <2>1. /\ ~Unfinished(t)' /\ UNCHANGED <<write_locks, read_only, undo_log>>
        /\ pc[t] = "begin" /\ wf'[t] = {}
    BY <1>4, MovingSteps
  <2> QED
    BY <1>g, <1>l, <1>w, <2>1
<1>5. CASE Retry(t)
  <2>1. /\ Unfinished(t)' /\ UNCHANGED <<wf, write_locks, undo_log, read_only>> /\ undo_log[t] = <<>>
    BY <1>5, MovingSteps
  <2>2. Logged(t)' = {}
    BY <2>1 DEF Logged, Addrs
  <2> QED
    BY <1>g, <1>l, <1>u, <1>w, <2>1, <2>2
<1>6. CASE Partition(t)
  <2> DEFINE W == Part(t).writes
  <2>1. /\ wf'[t] = wf[t] \cup W /\ Unfinished(t) /\ Unfinished(t)'
    BY <1>6, MovingSteps
  <2>2. write_locks' = write_locks \cup W /\ W \cap (write_locks \ wf[t]) = {}
    BY <1>6, PartitionLog
  <2>3. ASSUME NEW a \in Addresses, a \in Logged(t)' PROVE hash(a) \in wf'[t]
    <3>1. a \in Logged(t) \/ hash(a) \in W
      <4>1. CASE array[Pair(t).from] > 50
        <5>1. /\ Logged(t)' = Logged(t) \cup {Pair(t).from, Pair(t).to}
              /\ W = {hash(Pair(t).from), hash(Pair(t).to)}
          BY <1>6, <4>1, PartitionLog
        <5> QED
          BY <2>3, <5>1
      <4>2. CASE ~(array[Pair(t).from] > 50)
        BY <1>6, <2>3, <4>2, PartitionLog
      <4> QED
        BY <4>1, <4>2
    <3> QED
      BY <1>l, <2>1, <3>1
  <2>4. program = "inner" /\ read_only'[t] => W = {} /\ wf[t] = {} /\ undo_log'[t] = <<>>
    <3> SUFFICES ASSUME program = "inner", read_only'[t]
                 PROVE  W = {} /\ wf[t] = {} /\ undo_log'[t] = <<>>
      OBVIOUS
    <3>1. read_only[t] /\ undo_log'[t] = <<>>
      BY <1>6 DEF Partition, TypeOK
    <3>2. wf[t] = {} /\ undo_log[t] = <<>>
      BY <1>l, <3>1
    <3>3. W = {}
      <4>1. CASE array[Pair(t).from] > 50
        <5>1. Pair(t).from \in Logged(t)'
          BY <1>6, <4>1, PartitionLog
        <5>2. Logged(t)' = {}
          BY <3>1 DEF Logged, Addrs
        <5> QED
          BY <5>1, <5>2
      <4>2. CASE ~(array[Pair(t).from] > 50)
        BY <1>6, <4>2, PartitionLog
      <4> QED
        BY <4>1, <4>2
    <3> QED
      BY <3>1, <3>2, <3>3
  <2> HIDE DEF W
  <2>5. Exclusive
    BY <1>l, <1>w, <2>1, <2>2 DEF LocksInv
  <2>6. Kept
    BY <1>w, <2>1, <2>2
  <2>7. Empty /\ Covered /\ Written0
    BY <1>u, <2>1, <2>3, <2>4
  <2> HIDE DEF Exclusive, Kept, Empty, Covered, Written0
  <2> QED
    BY <1>g, <2>5, <2>6, <2>7
<1>7. CASE Undo(t)
  <2>1. /\ Unfinished(t) /\ Unfinished(t)' /\ UNCHANGED <<wf, write_locks, read_only>>
    BY <1>7, MovingSteps
  <2>2. Logged(t)' \subseteq Logged(t)
    BY <1>7, UndoEffect
  <2>3. undo_log[t] # <<>>
    BY <1>7 DEF Undo
  <2> QED
    BY <1>g, <1>l, <1>u, <1>w, <2>1, <2>2, <2>3
<1>8. CASE Undone(t) \/ CommitReadOnly(t) \/ Release(t)
  <2>1. /\ ~Unfinished(t)' /\ wf'[t] = {} /\ UNCHANGED <<undo_log, read_only>>
        /\ write_locks' = write_locks \ wf[t] \/ (write_locks' = write_locks /\ ReadOnly(t))
    BY <1>8, MovingSteps
  <2>2. write_locks' = write_locks \ wf[t]
    BY <1>l, <2>1 DEF ReadOnly
  <2>3. Kept
    BY <1>l, <1>w, <2>1, <2>2
  <2>4. Exclusive /\ Empty /\ Covered /\ Written0
    BY <1>l, <2>1
  <2> HIDE DEF Exclusive, Kept, Empty, Covered, Written0
  <2> QED
    BY <1>g, <2>3, <2>4
<1> QED
  BY <1>1, <1>2, <1>3, <1>4, <1>5, <1>6, <1>7, <1>8 DEF Step, Idle


----------------------------------------------------------------------------
(* The balances. *)

\* A transaction cannot have logged what another has.
LEMMA LogsApart ==
  ASSUME LocksInv, NEW t \in Threads, NEW u \in Threads \ {t}, NEW a \in Addresses,
         Unfinished(t), Unfinished(u), a \in Logged(t)
  PROVE  a \notin Logged(u)
<1>1. hash(a) \in wf[t] /\ (a \in Logged(u) => hash(a) \in wf[u])
  BY DEF LocksInv
<1> QED
  BY <1>1 DEF LocksInv

\* What a partition writes, no other transaction has logged.
LEMMA PartApart ==
  ASSUME TypeOK, StartInv, LocksInv, NEW t \in Threads, Partition(t), array[Pair(t).from] > 50,
         NEW a \in {Pair(t).from, Pair(t).to}, NEW u \in Threads \ {t}, Unfinished(u)
  PROVE  a \notin Logged(u)
<1>1. hash(a) \in Part(t).writes /\ a \in Addresses
  <2>1. /\ Part(t).writes = {hash(Pair(t).from), hash(Pair(t).to)}
        /\ Pair(t).from \in Addresses /\ Pair(t).to \in Addresses
    BY PartitionLog
  <2> HIDE DEF Part
  <2> QED
    BY <2>1
<1>2. hash(a) \notin write_locks \ wf[t]
  BY <1>1, PartitionLog
<1> QED
  BY <1>1, <1>2 DEF LocksInv

\* The first entries of the log after a partition that has written.
LEMMA PartOldest ==
  ASSUME TypeOK, StartInv, NEW t \in Threads, Partition(t), array[Pair(t).from] > 50
  PROVE  /\ \A a \in Logged(t) : Oldest(undo_log'[t], a) = Oldest(undo_log[t], a)
         /\ \A a \in {Pair(t).from, Pair(t).to} \ Logged(t) : Oldest(undo_log'[t], a) = array[a]
<1> DEFINE log == undo_log[t]
           d == Entry(array, Pair(t).from)
           e == Entry(array, Pair(t).to)
<1>1. /\ log \in Seq(Entries(Addresses)) /\ d \in Entries(Addresses) /\ e \in Entries(Addresses)
      /\ undo_log'[t] = log \o <<d, e>>
  BY PartitionLog
<1>2. /\ d.addr = Pair(t).from /\ e.addr = Pair(t).to
      /\ d.val = array[Pair(t).from] /\ e.val = array[Pair(t).to]
  BY DEF Entry
<1> HIDE DEF log, d, e
<1>3. ASSUME NEW a \in Addrs(log) PROVE Oldest(log \o <<d, e>>, a) = Oldest(log, a)
  <2>1. <<d, e>> \in Seq(Entries(Addresses))
    BY <1>1
  <2> QED
    BY <1>1, <2>1, OldestOfLonger
<1>4. ASSUME NEW a, a \notin Addrs(log), a \in {d.addr, e.addr}
      PROVE  Oldest(log \o <<d, e>>, a) = IF a = d.addr THEN d.val ELSE e.val
  BY <1>1, <1>4, OldestOfAdded
<1>5. \A a \in Addrs(log) : Oldest(undo_log'[t], a) = Oldest(log, a)
  BY <1>1, <1>3
<1>6. ASSUME NEW a \in {Pair(t).from, Pair(t).to} \ Addrs(log)
      PROVE  Oldest(undo_log'[t], a) = array[a]
  BY <1>1, <1>2, <1>4, <1>6
<1> QED
  BY <1>5, <1>6 DEF Logged, log

LEMMA StepIntact ==
  ASSUME TypeOK, StartInv, LocksInv, IntactInv, NEW t \in Threads, Step(t)
  PROVE  IntactInv'
<1>o. \A u \in Threads \ {t} : /\ undo_log'[u] = undo_log[u] /\ Logged(u)' = Logged(u)
                               /\ Unfinished(u)' <=> Unfinished(u)
  BY OthersLogs
<1> DEFINE Restored(a) ==
             \A u \in Threads : Unfinished(u) /\ a \in Logged(u) =>
               balances[a] = Oldest(undo_log[u], a)
           Clean(a) ==
             (\A u \in Threads : Unfinished(u) => a \notin Logged(u)) => balances[a] = array[a]
<1>i. \A a \in Addresses : Restored(a) /\ Clean(a)
  BY DEF IntactInv
<1>g. ASSUME \A a \in Addresses : Restored(a)' /\ Clean(a)' PROVE IntactInv'
  <2>1. Addresses' = Addresses
    BY DEF Addresses
  <2> QED
    BY <1>g, <2>1 DEF IntactInv
\* Steps that change neither the memory nor what is unfinished in it.
<1>s. ASSUME UNCHANGED <<array, balances>>,
             \A a \in Addresses : Unfinished(t) /\ a \in Logged(t) <=> (Unfinished(t) /\ a \in Logged(t))',
             Unfinished(t)' => undo_log'[t] = undo_log[t]
      PROVE  IntactInv'
  <2>1. ASSUME NEW a \in Addresses PROVE Restored(a)' /\ Clean(a)'
    <3>1. Restored(a) /\ Clean(a)
      BY <1>i
    <3>2. Restored(a)'
      BY <1>o, <1>s, <3>1
    <3>3. Clean(a)'
      BY <1>o, <1>s, <3>1
    <3> QED
      BY <3>2, <3>3
  <2> HIDE DEF Restored, Clean
  <2> QED
    BY <1>g, <2>1
<1>1. CASE Idle(t)
  <2>1. /\ Unfinished(t) /\ Unfinished(t)' /\ UNCHANGED <<array, balances, undo_log>>
    BY <1>1, IdleSteps
  <2>2. Logged(t)' = Logged(t)
    BY <2>1 DEF Logged
  <2> HIDE DEF Restored, Clean
  <2> QED
    BY <1>s, <2>1, <2>2
<1>2. CASE Draw(t) \/ HtmAbort(t) \/ Publish(t) \/ Release(t)
  <2>1. /\ ~Unfinished(t) /\ ~Unfinished(t)' /\ UNCHANGED <<array, balances>>
    BY <1>2, MovingSteps
  <2> HIDE DEF Restored, Clean
  <2> QED
    BY <1>s, <2>1
<1>3. CASE Retry(t)
  <2>1. /\ ~Unfinished(t) /\ UNCHANGED <<array, balances, undo_log>> /\ undo_log[t] = <<>>
    BY <1>3, MovingSteps
  <2>2. Logged(t)' = {}
    BY <2>1 DEF Logged, Addrs
  <2> HIDE DEF Restored, Clean
  <2> QED
    BY <1>s, <2>1, <2>2
<1>4. CASE Undone(t) \/ CommitReadOnly(t)
  <2>1. /\ ~Unfinished(t)' /\ UNCHANGED <<array, balances>>
        /\ undo_log[t] = <<>> \/ ReadOnly(t)
    BY <1>4, MovingSteps
  <2>2. Logged(t) = {}
    BY <2>1 DEF LocksInv, Logged, Addrs
  <2> HIDE DEF Restored, Clean
  <2> QED
    BY <1>s, <2>1, <2>2
<1>5. CASE HtmCommit(t)
  <2>1. /\ ~Unfinished(t) /\ ~Unfinished(t)' /\ loc[t] \in Locs
        /\ array' = Whole(t, array).array /\ balances' = Whole(t, balances).array
    BY <1>5, MovingSteps DEF HtmCommit
  <2> DEFINE W == Touched(Whole(t, array))
  <2>2. /\ array \in Memories /\ balances \in Memories
        /\ \A a \in Addresses : hash(a) \in W =>
             array[a] = balances[a] /\ \A u \in Threads : Unfinished(u) => a \notin Logged(u)
    BY <1>5, HtmMeetsNothing
  <2>3. \A a \in Addresses :
          /\ hash(a) \in W => balances'[a] = array'[a]
          /\ hash(a) \notin W => array'[a] = array[a] /\ balances'[a] = balances[a]
    BY <2>1, <2>2, Agreement
  <2> HIDE DEF W
  <2>4. ASSUME NEW a \in Addresses PROVE Restored(a)' /\ Clean(a)'
    <3>1. Restored(a) /\ Clean(a)
      BY <1>i
    <3>2. \A u \in Threads : /\ Unfinished(u)' <=> Unfinished(u)
                             /\ Unfinished(u) => Logged(u)' = Logged(u) /\ undo_log'[u] = undo_log[u]
      BY <1>o, <2>1
    <3>3. CASE hash(a) \in W
      BY <2>2, <2>3, <3>2, <3>3
    <3>4. CASE hash(a) \notin W
      BY <2>3, <3>1, <3>2, <3>4
    <3> QED
      BY <3>3, <3>4
  <2> HIDE DEF Restored, Clean
  <2> QED
    BY <1>g, <2>4
<1>6. CASE CasSucceeds(t)
  <2>1. /\ Unfinished(t) /\ ~Unfinished(t)' /\ UNCHANGED <<array, undo_log>>
    BY <1>6, MovingSteps
  <2>2. \A a \in Addresses :
          balances'[a] = balances[a] + (IF a \in Logged(t) THEN array[a] - Oldest(undo_log[t], a) ELSE 0)
    BY <1>6 DEF CasSucceeds
  <2>3. ASSUME NEW a \in Addresses PROVE Restored(a)' /\ Clean(a)'
    <3>1. Restored(a) /\ Clean(a)
      BY <1>i
    <3>2. balances[a] \in Int /\ array[a] \in Int
      BY DEF TypeOK
    <3>3. CASE a \in Logged(t)
      <4>1. balances[a] = Oldest(undo_log[t], a)
        BY <2>1, <3>1, <3>3
      <4>2. balances'[a] = array[a]
        BY <2>2, <3>2, <3>3, <4>1
      <4>3. \A u \in Threads : Unfinished(u)' => a \notin Logged(u)'
        BY <1>o, <2>1, <3>3, LogsApart
      <4> QED
        BY <2>1, <4>2, <4>3
    <3>4. CASE a \notin Logged(t)
      <4>1. balances'[a] = balances[a]
        BY <2>2, <3>2, <3>4
      <4>2. Restored(a)'
        BY <1>o, <2>1, <3>1, <4>1
      <4>3. Clean(a)'
        BY <1>o, <2>1, <3>1, <3>4, <4>1
      <4> QED
        BY <4>2, <4>3
    <3> QED
      BY <3>3, <3>4
  <2> HIDE DEF Restored, Clean
  <2> QED
    BY <1>g, <2>3
<1>7. CASE Partition(t)
  <2>1. /\ Unfinished(t) /\ Unfinished(t)' /\ UNCHANGED balances
    BY <1>7, MovingSteps
  <2>2. CASE ~(array[Pair(t).from] > 50)
    <3>1. array' = array /\ undo_log'[t] = undo_log[t] /\ Logged(t)' = Logged(t)
      BY <1>7, <2>2, PartitionLog
    <3> HIDE DEF Restored, Clean
    <3> QED
      BY <1>s, <2>1, <3>1
  <2>3. CASE array[Pair(t).from] > 50
    <3> DEFINE T == {Pair(t).from, Pair(t).to}
    <3>1. /\ array' = Moved(array, Pair(t)) /\ array \in Memories /\ Pair(t) \in Places
          /\ Logged(t)' = Logged(t) \cup T
      BY <1>7, <2>3, PartitionLog
    <3>2. \A a \in Addresses \ T : array'[a] = array[a]
      BY <3>1, MovedValue
    <3>3. /\ \A a \in Logged(t) : Oldest(undo_log'[t], a) = Oldest(undo_log[t], a)
          /\ \A a \in T \ Logged(t) : Oldest(undo_log'[t], a) = array[a]
      BY <1>7, <2>3, PartOldest
    <3>4. \A a \in T : \A u \in Threads \ {t} : Unfinished(u) => a \notin Logged(u)
      BY <1>7, <2>3, PartApart
    <3> HIDE DEF T
    <3>5. ASSUME NEW a \in Addresses PROVE Restored(a)' /\ Clean(a)'
      <4>1. Restored(a) /\ Clean(a)
        BY <1>i
      <4>2. CASE a \notin T
        <5>1. a \in Logged(t)' <=> a \in Logged(t)
          BY <3>1, <4>2
        <5>2. Restored(a)'
          BY <1>o, <2>1, <3>3, <4>1, <5>1
        <5>3. Clean(a)'
          BY <1>o, <2>1, <3>2, <4>1, <4>2, <5>1
        <5> QED
          BY <5>2, <5>3
      <4>3. CASE a \in T
        <5>1. a \in Logged(t)' /\ \A u \in Threads \ {t} : Unfinished(u) => a \notin Logged(u)
          BY <3>1, <3>4, <4>3
        <5>2. balances[a] = Oldest(undo_log'[t], a)
          <6>1. CASE a \in Logged(t)
            BY <2>1, <3>3, <4>1, <6>1
          <6>2. CASE a \notin Logged(t)
            BY <3>3, <4>1, <4>3, <5>1, <6>2
          <6> QED
            BY <6>1, <6>2
        <5>3. Restored(a)'
          BY <1>o, <2>1, <5>1, <5>2
        <5>4. Clean(a)'
          BY <2>1, <5>1
        <5> QED
          BY <5>3, <5>4
      <4> QED
        BY <4>2, <4>3
    <3> HIDE DEF Restored, Clean
    <3> QED
      BY <1>g, <3>5
  <2> HIDE DEF Restored, Clean
  <2> QED
    BY <2>2, <2>3
<1>8. CASE Undo(t)
  <2> DEFINE log == undo_log[t]
             e == Last(log)
  <2>1. Unfinished(t) /\ Unfinished(t)' /\ UNCHANGED balances
    BY <1>8, MovingSteps
  <2>2. /\ e.addr \in Addresses /\ array' = [array EXCEPT ![e.addr] = e.val]
        /\ Logged(t) = Logged(t)' \cup {e.addr}
        /\ \A a \in Logged(t)' : Oldest(undo_log'[t], a) = Oldest(log, a)
        /\ \A a \in Logged(t) \ Logged(t)' : Oldest(log, a) = e.val
    BY <1>8, UndoEffect
  <2> HIDE DEF log, e
  <2>4. ASSUME NEW a \in Addresses PROVE Restored(a)' /\ Clean(a)'
    <3>1. Restored(a) /\ Clean(a)
      BY <1>i
    <3>2. /\ a # e.addr => array'[a] = array[a]
          /\ a = e.addr => array'[a] = e.val
      BY <2>2 DEF TypeOK
    <3>3. a \in Logged(t) => balances[a] = Oldest(log, a)
      BY <2>1, <3>1 DEF log
    <3>4. Restored(a)'
      BY <1>o, <2>1, <2>2, <3>1, <3>3
    <3>5. ASSUME \A u \in Threads : Unfinished(u)' => a \notin Logged(u)'
          PROVE  balances'[a] = array'[a]
      <4>1. a \notin Logged(t)' /\ \A u \in Threads \ {t} : Unfinished(u) => a \notin Logged(u)
        BY <1>o, <2>1, <3>5
      <4>2. CASE a = e.addr
        BY <2>1, <2>2, <3>2, <3>3, <4>1, <4>2
      <4>3. CASE a # e.addr
        <5>1. a \notin Logged(t)
          BY <2>2, <4>1, <4>3
        <5>2. balances[a] = array[a]
          BY <3>1, <4>1, <5>1
        <5> QED
          BY <2>1, <3>2, <4>3, <5>2
      <4> QED
        BY <4>2, <4>3
    <3> QED
      BY <3>4, <3>5
  <2> HIDE DEF Restored, Clean
  <2> QED
    BY <1>g, <2>4
<1> HIDE DEF Restored, Clean
<1> QED
  BY <1>1, <1>2, <1>3, <1>4, <1>5, <1>6, <1>7, <1>8 DEF Step, Idle


----------------------------------------------------------------------------
(* The sum. *)

LEMMA WrittenIs ==
  ASSUME NEW m \in Memories, NEW b \in Memories, NEW S
  PROVE  [a \in Addresses |-> IF a \in S THEN m[a] ELSE b[a]] \in Memories
  BY DEF Memories

\* Memories of the same sum, changed alike, have the same sum.
LEMMA ChangedAlike ==
  ASSUME NEW f \in Memories, NEW g \in Memories, NEW h \in Memories, NEW i \in Memories,
         \A a \in Addresses : f[a] + i[a] = g[a] + h[a],
         Total(g, ArraySize) = Total(i, ArraySize)
  PROVE  Total(f, ArraySize) = Total(h, ArraySize)
<1>1. Memories = [0 .. ArraySize - 1 -> Int] /\ Addresses = 0 .. ArraySize - 1
  BY DEF Memories, Addresses
<1>2. Total(f, ArraySize) + Total(i, ArraySize) = Total(g, ArraySize) + Total(h, ArraySize)
  <2>1. /\ ArraySize \in Nat
        /\ f \in [0 .. ArraySize - 1 -> Int] /\ g \in [0 .. ArraySize - 1 -> Int]
        /\ h \in [0 .. ArraySize - 1 -> Int] /\ i \in [0 .. ArraySize - 1 -> Int]
        /\ \A o \in 0 .. ArraySize - 1 : f[o] + i[o] = g[o] + h[o]
    BY <1>1, Sizes
  <2> DEFINE P(n, x, y, z, w) == Total(x, n) + Total(y, n) = Total(z, n) + Total(w, n)
  <2>2. \A n \in Nat : \A x, y, z, w \in [0 .. n - 1 -> Int] :
          (\A o \in 0 .. n - 1 : x[o] + y[o] = z[o] + w[o]) => P(n, x, y, z, w)
    BY SumsAddUp
  <2> HIDE DEF P
  <2>3. P(ArraySize, f, i, g, h)
    BY <2>1, <2>2
  <2> QED
    BY <2>3 DEF P
<1>3. /\ Total(f, ArraySize) \in Int /\ Total(g, ArraySize) \in Int
      /\ Total(h, ArraySize) \in Int /\ Total(i, ArraySize) \in Int
  BY <1>1, Sizes, SumIsInt
<1> QED
  BY <1>2, <1>3

\* What a partition makes of the balances its transaction would leave.
LEMMA PartWritten ==
  ASSUME TypeOK, StartInv, LocksInv, IntactInv, NEW t \in Threads, Partition(t)
  PROVE  /\ Written(t) \in Memories
         /\ Written(t)' = IF array[Pair(t).from] > 50 THEN Moved(Written(t), Pair(t)) ELSE Written(t)
<1> DEFINE p == Pair(t)
           T == {p.from, p.to}
<1>1. /\ Unfinished(t) /\ UNCHANGED balances
      /\ array \in Memories /\ balances \in Memories
  BY MovingSteps DEF TypeOK, Memories
<1>2. Written(t) \in Memories
  BY <1>1, WrittenIs DEF Written
<1>n. Addresses' = Addresses
  BY DEF Addresses
<1>3. CASE ~(array[p.from] > 50)
  <2>1. array' = array /\ Logged(t)' = Logged(t)
    BY <1>3, PartitionLog
  <2> QED
    BY <1>1, <1>2, <1>3, <1>n, <2>1 DEF Written
<1>4. CASE array[p.from] > 50
  <2>1. /\ array' = Moved(array, p) /\ Logged(t)' = Logged(t) \cup T /\ p \in Places
        /\ T \subseteq Addresses
    BY <1>4, PartitionLog
  <2>2. ASSUME NEW a \in T PROVE Written(t)[a] = array[a]
    <3>1. CASE a \in Logged(t)
      BY <2>1, <3>1 DEF Written
    <3>2. CASE a \notin Logged(t)
      <4>1. \A u \in Threads : Unfinished(u) => a \notin Logged(u)
        BY <1>4, <3>2, PartApart
      <4>2. balances[a] = array[a]
        BY <2>1, <4>1 DEF IntactInv
      <4> QED
        BY <2>1, <3>2, <4>2 DEF Written
    <3> QED
      BY <3>1, <3>2
  <2> DEFINE w == Written(t)
             v == Moved(w, p)
  <2>3. v \in Memories
    BY <1>2, <2>1, MovedSum
  <2>4. Written(t)' = [a \in Addresses |-> IF a \in Logged(t) \cup T THEN array'[a] ELSE balances[a]]
    BY <1>1, <1>n, <2>1 DEF Written
  <2>5. ASSUME NEW a \in Addresses
        PROVE  v[a] = IF a \in Logged(t) \cup T THEN array'[a] ELSE balances[a]
    <3>1. CASE a \in T
      <4>1. w[a] = array[a]
        BY <2>2, <3>1
      <4>2. v[a] = array'[a]
        <5> HIDE DEF w, p
        <5> QED
          BY <1>1, <1>2, <2>1, <4>1, MovedValue DEF w
      <4> QED
        BY <3>1, <4>2
    <3>2. CASE a \notin T
      <4>1. v[a] = w[a] /\ array'[a] = array[a]
        <5> HIDE DEF w, p
        <5>1. a \notin {p.from, p.to}
          BY <3>2
        <5> QED
          BY <1>1, <1>2, <2>1, <5>1, MovedValue DEF w
      <4>2. w[a] = IF a \in Logged(t) THEN array[a] ELSE balances[a]
        BY DEF Written
      <4> QED
        BY <3>2, <4>1, <4>2
    <3> QED
      BY <3>1, <3>2
  <2> HIDE DEF w, v, T, p
  <2>6. v = [a \in Addresses |-> v[a]]
    BY <2>3 DEF Memories
  <2>7. Written(t)' = v
    BY <2>4, <2>5, <2>6
  <2> QED
    BY <1>2, <1>4, <2>7 DEF v, w, p
<1> QED
  BY <1>2, <1>3, <1>4 DEF p

LEMMA StepSum ==
  ASSUME TypeOK, StartInv, LocksInv, IntactInv, SumInv, NEW t \in Threads, Step(t),
         array' \in Memories, balances' \in Memories
  PROVE  SumInv'
<1> DEFINE K == ArraySize * Opening
           Kept(u) == Unfinished(u) /\ pc[u] # "abort" => Total(Written(u), ArraySize) = K
<1>t. /\ array \in Memories /\ balances \in Memories
      /\ \A u \in Threads : Written(u) \in Memories /\ Written(u)' \in Memories
  <2>1. array \in Memories /\ balances \in Memories
    BY DEF TypeOK, Memories
  <2>2. ASSUME NEW u \in Threads PROVE Written(u) \in Memories /\ Written(u)' \in Memories
    <3>1. Written(u) \in Memories
      BY <2>1, WrittenIs DEF Written
    <3>2. Written(u)' = [a \in Addresses |-> IF a \in Logged(u)' THEN array'[a] ELSE balances'[a]]
      BY DEF Written, Addresses
    <3>3. Written(u)' \in Memories
      BY <3>2, WrittenIs
    <3> QED
      BY <3>1, <3>3
  <2> QED
    BY <2>1, <2>2
<1>n. Addresses' = Addresses
  BY DEF Addresses
<1>o. \A u \in Threads \ {t} : /\ Logged(u)' = Logged(u) /\ pc'[u] = pc[u]
                               /\ Unfinished(u)' <=> Unfinished(u)
  BY OthersLogs
<1>i. Total(balances, ArraySize) = K /\ \A u \in Threads : Kept(u)
  BY DEF SumInv
<1>g. ASSUME Total(balances', ArraySize) = K, \A u \in Threads : Kept(u)' PROVE SumInv'
  BY <1>g DEF SumInv
\* Steps that change neither the memory nor the log of a transaction that may commit.
<1>s. ASSUME UNCHANGED <<array, balances>>,
             Unfinished(t)' /\ pc'[t] # "abort" =>
               Unfinished(t) /\ pc[t] # "abort" /\ Logged(t)' = Logged(t)
      PROVE  SumInv'
  <2>1. ASSUME NEW u \in Threads, (Unfinished(u) /\ pc[u] # "abort")'
        PROVE  Total(Written(u), ArraySize)' = K
    <3>1. Logged(u)' = Logged(u) /\ Unfinished(u) /\ pc[u] # "abort"
      BY <1>o, <1>s, <2>1
    <3>2. Written(u)' = Written(u)
      BY <1>n, <1>s, <3>1 DEF Written
    <3> QED
      BY <1>i, <3>1, <3>2
  <2> QED
    BY <1>g, <1>i, <1>s, <2>1
\* Steps that change the balances, and not what other transactions have written.
<1>b. ASSUME ~(Unfinished(t) /\ pc[t] # "abort")', Total(balances', ArraySize) = K,
             \A u \in Threads \ {t} : \A a \in Addresses :
               Unfinished(u) /\ a \in Logged(u) => array'[a] = array[a] /\ balances'[a] = balances[a]
      PROVE  SumInv'
  <2>1. ASSUME NEW u \in Threads, (Unfinished(u) /\ pc[u] # "abort")'
        PROVE  Total(Written(u), ArraySize)' = K
    <3>1. u # t /\ Logged(u)' = Logged(u) /\ Unfinished(u) /\ pc[u] # "abort"
      BY <1>b, <1>o, <2>1
    <3> DEFINE w == Written(u)
               v == Written(u)'
    <3>2. w \in Memories /\ v \in Memories /\ Total(w, ArraySize) = K
      BY <1>i, <1>t, <3>1
    <3>3. ASSUME NEW a \in Addresses PROVE v[a] + balances[a] = w[a] + balances'[a]
      <4>1. /\ w[a] = IF a \in Logged(u) THEN array[a] ELSE balances[a]
            /\ v[a] = IF a \in Logged(u) THEN array'[a] ELSE balances'[a]
        BY <1>n, <3>1 DEF Written
      <4>2. /\ array[a] \in Int /\ array'[a] \in Int /\ balances[a] \in Int /\ balances'[a] \in Int
        BY <1>t DEF Memories
      <4> HIDE DEF w, v
      <4>3. CASE a \in Logged(u)
        <5>1. array'[a] = array[a] /\ balances'[a] = balances[a]
          BY <1>b, <3>1, <4>3
        <5> QED
          BY <4>1, <4>2, <4>3, <5>1
      <4>4. CASE a \notin Logged(u)
        BY <4>1, <4>2, <4>4
      <4> QED
        BY <4>3, <4>4
    <3> HIDE DEF w, v, K
    <3>4. Total(v, ArraySize) = Total(balances', ArraySize)
      BY <1>i, <1>t, <3>2, <3>3, ChangedAlike
    <3> QED
      BY <1>b, <3>4 DEF v
  <2> QED
    BY <1>b, <1>g, <2>1
<1>1. CASE Idle(t)
  <2>1. Unfinished(t) /\ pc[t] # "abort" /\ UNCHANGED <<array, balances, undo_log>>
    BY <1>1, IdleSteps
  <2> HIDE DEF K, Kept
  <2> QED
    BY <1>s, <2>1 DEF Logged
<1>2. CASE \/ Draw(t) \/ HtmAbort(t) \/ Publish(t) \/ Release(t)
           \/ Undone(t) \/ CommitReadOnly(t)
  <2>1. ~Unfinished(t)' /\ UNCHANGED <<array, balances>>
    BY <1>2, MovingSteps
  <2> HIDE DEF K, Kept
  <2> QED
    BY <1>s, <2>1
<1>3. CASE Retry(t)
  <2>1. UNCHANGED <<array, balances, undo_log>> /\ undo_log[t] = <<>>
    BY <1>3, MovingSteps
  <2>2. Logged(t)' = {}
    BY <2>1 DEF Logged, Addrs
  <2>3. Written(t)' = balances
    <3>1. Written(t)' = [a \in Addresses |-> balances[a]]
      BY <1>n, <2>1, <2>2 DEF Written
    <3> QED
      BY <1>t, <3>1 DEF Memories
  <2>4. ASSUME NEW u \in Threads, (Unfinished(u) /\ pc[u] # "abort")'
        PROVE  Total(Written(u), ArraySize)' = K
    <3>1. CASE u = t
      BY <1>i, <2>3, <3>1
    <3>2. CASE u # t
      <4>1. Logged(u)' = Logged(u) /\ Unfinished(u) /\ pc[u] # "abort"
        BY <1>o, <2>4, <3>2
      <4>2. Written(u)' = Written(u)
        BY <1>n, <2>1, <4>1 DEF Written
      <4> QED
        BY <1>i, <4>1, <4>2
    <3> QED
      BY <3>1, <3>2
  <2> QED
    BY <1>g, <1>i, <2>1, <2>4
<1>4. CASE HtmCommit(t)
  <2>1. /\ ~Unfinished(t)' /\ loc[t] \in Locs
        /\ array' = Whole(t, array).array /\ balances' = Whole(t, balances).array
    BY <1>4, MovingSteps DEF HtmCommit
  <2> DEFINE W == Touched(Whole(t, array))
  <2>2. \A a \in Addresses : hash(a) \in W =>
          array[a] = balances[a] /\ \A u \in Threads : Unfinished(u) => a \notin Logged(u)
    BY <1>4, HtmMeetsNothing
  <2>3. /\ \A a \in Addresses :
             hash(a) \notin W => array'[a] = array[a] /\ balances'[a] = balances[a]
        /\ Total(balances', ArraySize) = Total(balances, ArraySize)
    BY <1>t, <2>1, <2>2, Agreement
  <2> HIDE DEF W, K, Kept
  <2>4. ASSUME NEW u \in Threads \ {t}, NEW a \in Addresses, Unfinished(u), a \in Logged(u)
        PROVE  array'[a] = array[a] /\ balances'[a] = balances[a]
    BY <2>2, <2>3, <2>4
  <2> QED
    BY <1>b, <1>i, <2>1, <2>3, <2>4
<1>5. CASE CasSucceeds(t)
  <2>1. /\ Unfinished(t) /\ pc[t] # "abort" /\ ~Unfinished(t)' /\ UNCHANGED array
    BY <1>5, MovingSteps
  <2>2. \A a \in Addresses :
          balances'[a] = balances[a] + (IF a \in Logged(t) THEN array[a] - Oldest(undo_log[t], a) ELSE 0)
    BY <1>5 DEF CasSucceeds
  <2>3. ASSUME NEW a \in Addresses PROVE balances'[a] = Written(t)[a]
    <3>1. balances[a] \in Int /\ array[a] \in Int
      BY <1>t DEF Memories
    <3>2. a \in Logged(t) => balances[a] = Oldest(undo_log[t], a)
      BY <2>1 DEF IntactInv
    <3> QED
      BY <2>2, <3>1, <3>2 DEF Written
  <2>4. balances' = Written(t)
    BY <1>t, <2>3 DEF Memories
  <2>5. ASSUME NEW u \in Threads \ {t}, NEW a \in Addresses, Unfinished(u), a \in Logged(u)
        PROVE  array'[a] = array[a] /\ balances'[a] = balances[a]
    <3>1. a \notin Logged(t)
      BY <2>1, <2>5, LogsApart
    <3> QED
      BY <2>1, <2>3, <3>1 DEF Written
  <2>6. Total(balances', ArraySize) = K
    BY <1>i, <2>1, <2>4
  <2> HIDE DEF K, Kept
  <2> QED
    BY <1>b, <2>1, <2>5, <2>6
<1>6. CASE Undo(t)
  <2> DEFINE e == Last(undo_log[t])
  <2>1. Unfinished(t) /\ pc'[t] = "abort" /\ UNCHANGED balances
    BY <1>6, MovingSteps
  <2>2. array' = [array EXCEPT ![e.addr] = e.val] /\ e.addr \in Addresses /\ e.addr \in Logged(t)
    BY <1>6, UndoEffect
  <2> HIDE DEF e, K, Kept
  <2>3. ASSUME NEW u \in Threads \ {t}, NEW a \in Addresses, Unfinished(u), a \in Logged(u)
        PROVE  array'[a] = array[a] /\ balances'[a] = balances[a]
    <3>1. a # e.addr
      BY <2>1, <2>2, <2>3, LogsApart
    <3> QED
      BY <1>t, <2>1, <2>2, <3>1 DEF Memories
  <2> QED
    BY <1>b, <1>i, <2>1, <2>3
<1>7. CASE Partition(t)
  <2> DEFINE p == Pair(t)
             T == {p.from, p.to}
  <2>1. /\ Unfinished(t) /\ pc[t] # "abort" /\ UNCHANGED balances
    BY <1>7, MovingSteps
  <2>2. /\ p \in Places
        /\ array[p.from] > 50 => array' = Moved(array, p)
        /\ ~(array[p.from] > 50) => array' = array
    BY <1>7, PartitionLog
  <2>3. Total(Written(t)', ArraySize) = K
    <3>1. Written(t)' = Moved(Written(t), p) \/ Written(t)' = Written(t)
      BY <1>7, PartWritten
    <3>2. Total(Moved(Written(t), p), ArraySize) = Total(Written(t), ArraySize)
      BY <1>t, <2>2, MovedSum
    <3> QED
      BY <1>i, <2>1, <3>1, <3>2
  <2>4. ASSUME NEW u \in Threads \ {t}, NEW a \in Addresses, Unfinished(u), a \in Logged(u)
        PROVE  array'[a] = array[a]
    <3>1. CASE array[p.from] > 50
      <4>1. a \notin T
        BY <1>7, <2>4, <3>1, PartApart
      <4> HIDE DEF p
      <4> QED
        BY <1>t, <2>2, <3>1, <4>1, MovedValue
    <3>2. CASE ~(array[p.from] > 50)
      BY <2>2, <3>2
    <3> QED
      BY <3>1, <3>2
  <2>5. ASSUME NEW u \in Threads, (Unfinished(u) /\ pc[u] # "abort")'
        PROVE  Total(Written(u), ArraySize)' = K
    <3>1. CASE u = t
      BY <2>3, <3>1
    <3>2. CASE u # t
      <4>1. Logged(u)' = Logged(u) /\ Unfinished(u) /\ pc[u] # "abort"
        BY <1>o, <2>5, <3>2
      <4>2. \A a \in Addresses : a \in Logged(u) => array'[a] = array[a]
        BY <2>4, <3>2, <4>1
      <4>3. Written(u)' = Written(u)
        BY <1>n, <2>1, <4>1, <4>2 DEF Written
      <4> QED
        BY <1>i, <4>1, <4>3
    <3> QED
      BY <3>1, <3>2
  <2> QED
    BY <1>g, <1>i, <2>1, <2>5
<1> HIDE DEF K, Kept
<1> QED
  BY <1>1, <1>2, <1>3, <1>4, <1>5, <1>6, <1>7 DEF Step, Idle


----------------------------------------------------------------------------
(* The invariant and the theorems. *)

LEMMA InitIInv == Init => IInv
<1> SUFFICES ASSUME Init PROVE IInv
  OBVIOUS
<1>1. /\ pc = [t \in Threads |-> "begin"] /\ wf = [t \in Threads |-> {}]
      /\ undo_log = [t \in Threads |-> <<>>] /\ loc = [t \in Threads |-> NoLoc]
      /\ array = [a \in Addresses |-> Opening] /\ balances = array
      /\ start_time = [t \in Threads |-> 0] /\ tx_start = [t \in Threads |-> 0]
      /\ timestamp = 0 /\ last_init = 0 /\ last_complete = 0 /\ write_locks = {}
  BY DEF Init, Ring!Init
<1>2. \A t \in Threads : ~Unfinished(t) /\ ~Ring!Publishing(t) /\ pc[t] = "begin" /\ wf[t] = {}
  BY <1>1 DEF Unfinished, Ring!Publishing, Ring!PublishLabels
<1>3. TypeOK
  <2>1. Ring!TypeOK
    BY Sizes DEF Init, Ring!Init, Ring!TypeOK, Ring!Labels, Ring!Bits
  <2>2. \A t \in Threads : <<>> \in Seq(Entries(Addresses))
    OBVIOUS
  <2>3. /\ array \in [Addresses -> Int] /\ balances \in [Addresses -> Int]
        /\ undo_log \in [Threads -> Seq(Entries(Addresses))]
        /\ tx_start \in [Threads -> Nat] /\ \A t \in Threads : tx_start[t] <= last_complete
    BY <1>1, <2>2, Sizes
  <2>4. /\ write_locks \subseteq Ring!Bits /\ loc \in [Threads -> Locs \cup {NoLoc}]
        /\ initial \in [Threads -> Nat] /\ more \in [Threads -> BOOLEAN]
        /\ htm_retry \in [Threads -> 0 .. HtmRetry]
        /\ program \in Programs /\ read_only \in [Threads -> BOOLEAN]
    BY <1>1, Sizes DEF Init
  <2> QED
    BY <1>2, <2>1, <2>3, <2>4 DEF TypeOK
<1>4. StartInv
  BY <1>1 DEF StartInv
<1>5. LocksInv
  BY <1>1, <1>2 DEF LocksInv, ReadOnly
<1>6. IntactInv
  BY <1>1, <1>2 DEF IntactInv
<1>7. SumInv
  <2>1. \A n \in Nat : \A v \in Int : Total([o \in 0 .. n - 1 |-> v], n) = n * v
    BY SumOfEqual
  <2>2. Total([o \in 0 .. ArraySize - 1 |-> Opening], ArraySize) = ArraySize * Opening
    BY <2>1, Sizes
  <2> QED
    BY <1>1, <1>2, <2>2 DEF SumInv, Addresses
<1>8. CommitInv
  BY <1>1, <1>2 DEF CommitInv, Ring!OneCommitter
<1> QED
  BY <1>3, <1>4, <1>5, <1>6, <1>7, <1>8 DEF IInv

LEMMA StepIInv ==
  ASSUME IInv, NEW t \in Threads, Step(t)
  PROVE  IInv'
<1>1. TypeOK /\ StartInv /\ LocksInv /\ IntactInv /\ SumInv /\ CommitInv
  BY DEF IInv
<1>2. Ring!TypeOK' /\ tx_start' \in [Threads -> Nat]
  BY <1>1, StepRing
<1>3. CommitInv' /\ \A u \in Threads : tx_start'[u] <= last_complete'
  BY <1>1, StepCommit
<1>4. /\ array' \in [Addresses -> Int] /\ balances' \in [Addresses -> Int]
      /\ write_locks' \subseteq Ring!Bits
      /\ undo_log' \in [Threads -> Seq(Entries(Addresses))]
  BY <1>1, StepMemoryTypes
<1>5. /\ loc' \in [Threads -> Locs \cup {NoLoc}]
      /\ initial' \in [Threads -> Nat] /\ more' \in [Threads -> BOOLEAN]
      /\ \A u \in Threads : Unfinished(u)' => initial'[u] \in DOMAIN loc'[u]
      /\ htm_retry' \in [Threads -> 0 .. HtmRetry]
      /\ program' \in Programs
      /\ read_only' \in [Threads -> BOOLEAN]
      /\ StartInv'
  BY <1>1, StepPlanTypes
<1>6. TypeOK'
  <2>1. /\ Addresses' = Addresses /\ NoLoc' = NoLoc
        /\ Entries(Addresses)' = Entries(Addresses) /\ Ring!Bits' = Ring!Bits
    BY DEF Addresses, NoLoc, Entries, Ring!Bits
  <2> QED
    BY <1>2, <1>3, <1>4, <1>5, <2>1 DEF TypeOK
<1>7. DOMAIN wf' = Threads
  BY <1>2 DEF Ring!TypeOK
<1>8. LocksInv'
  BY <1>1, <1>7, StepLocks
<1>9. IntactInv'
  BY <1>1, StepIntact
<1>10. SumInv'
  BY <1>1, <1>4, StepSum DEF Memories
<1> QED
  BY <1>3, <1>5, <1>6, <1>8, <1>9, <1>10 DEF IInv

LEMMA NextIInv == IInv /\ [Next]_vars => IInv'
<1> SUFFICES ASSUME IInv, [Next]_vars PROVE IInv'
  OBVIOUS
<1>1. ASSUME NEW t \in Threads, Step(t) PROVE IInv'
  BY <1>1, StepIInv
<1>2. CASE UNCHANGED vars
  <2> USE <1>2 DEF vars, ring, memory, plan, context
  <2>1. TypeOK'
    BY DEF IInv, TypeOK, Ring!TypeOK, Unfinished, Ring!PublishLabels
  <2>2. StartInv' /\ LocksInv'
    BY DEF IInv, StartInv, LocksInv, ReadOnly, Logged, Unfinished
  <2>3. IntactInv' /\ SumInv'
    BY DEF IInv, IntactInv, SumInv, Written, Logged, Unfinished
  <2>4. CommitInv'
    BY DEF IInv, CommitInv, Ring!OneCommitter, Ring!Publishing
  <2> QED
    BY <2>1, <2>2, <2>3, <2>4 DEF IInv
<1> QED
  BY <1>1, <1>2 DEF Next, Joined

(* The invariant is inductive: the locks keep what unfinished transactions *)
(* have written apart, so that undoing or committing any of them leaves    *)
(* the balances and the other logs in order, whatever a transaction takes  *)
(* up again after an abort.                                                *)
THEOREM IInvHolds == Spec => []IInv
<1>1. Init => IInv
  BY InitIInv
<1>2. IInv /\ [Next]_vars => IInv'
  BY NextIInv
<1> QED
  BY <1>1, <1>2, PTL DEF Spec

\* Nothing is ever out of its range: no thread transfers beyond its pairs.
THEOREM TypeCorrect == Spec => []TypeOK
<1>1. IInv => TypeOK
  BY DEF IInv
<1> QED
  BY <1>1, IInvHolds, PTL

\* What undoing every unfinished transaction would leave is what was committed.
THEOREM CommittedBalancesStay == Spec => []BalancesAddUp
<1>1. IInv => BalancesAddUp
  <2> SUFFICES ASSUME IntactInv PROVE BalancesAddUp
    BY DEF IInv
  <2>1. ASSUME NEW a \in Addresses,
               \E t \in Threads : Unfinished(t) /\ a \in Logged(t)
        PROVE  LET t == CHOOSE u \in Threads : Unfinished(u) /\ a \in Logged(u)
               IN  balances[a] = Oldest(undo_log[t], a)
    <3> DEFINE t == CHOOSE u \in Threads : Unfinished(u) /\ a \in Logged(u)
    <3>1. t \in Threads /\ Unfinished(t) /\ a \in Logged(t)
      BY <2>1
    <3> HIDE DEF t
    <3>2. balances[a] = Oldest(undo_log[t], a)
      BY <3>1 DEF IntactInv
    <3> QED
      BY <3>2 DEF t
  <2>2. ASSUME NEW a \in Addresses,
               ~(\E t \in Threads : Unfinished(t) /\ a \in Logged(t))
        PROVE  balances[a] = array[a]
    BY <2>2 DEF IntactInv
  <2> QED
    BY <2>1, <2>2 DEF BalancesAddUp
<1> QED
  BY <1>1, IInvHolds, PTL

\* The sum that main prints after the join is the one it printed before.
THEOREM SumIsConserved == Spec => []FinalSum
<1>1. IInv => FinalSum
  <2> SUFFICES ASSUME IInv, AllDone
               PROVE  /\ Total(array, ArraySize) = ArraySize * Opening
                      /\ write_locks = {}
                      /\ last_init = timestamp /\ last_complete = timestamp
    BY DEF FinalSum
  <2>1. \A t \in Threads : ~Unfinished(t) /\ ~Ring!Publishing(t) /\ wf[t] = {}
    BY DEF AllDone, IInv, LocksInv, Unfinished, Ring!Publishing, Ring!PublishLabels
  <2>2. balances = array
    <3>1. \A a \in Addresses : balances[a] = array[a]
      BY <2>1 DEF IInv, IntactInv
    <3> QED
      BY <3>1 DEF IInv, TypeOK
  <2>3. write_locks = {}
    BY <2>1 DEF IInv, LocksInv
  <2> QED
    BY <2>1, <2>2, <2>3 DEF IInv, SumInv, CommitInv
<1> QED
  BY <1>1, IInvHolds, PTL
=============================================================================
