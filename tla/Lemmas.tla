------------------------------- MODULE Lemmas -------------------------------
(***************************************************************************)
(* What several proofs need: induction on natural numbers and functions    *)
(* defined by recursion on them, stated with sets and functions in the     *)
(* place of operators, so that they can be used like any other fact; sums; *)
(* undo logs.                                                              *)
(***************************************************************************)
EXTENDS Sums, UndoLog, SequencesExt, SequenceTheorems, WellFoundedInduction, TLAPS

Smaller == {ss \in Nat \X Nat : ss[1] < ss[2]}

LEMMA SmallerIsWellFounded == IsWellFoundedOn(Smaller, Nat)
BY NatLessThanWellFounded DEF OpToRel, Smaller

\* A set of natural numbers that is not empty has a least element.
LEMMA Least == \A T \in SUBSET Nat : T # {} => \E m \in T : \A n \in T : m <= n
<1> SUFFICES ASSUME NEW T \in SUBSET Nat, T # {}
             PROVE  \E m \in T : \A n \in T : m <= n
  OBVIOUS
<1>1. PICK m \in T : \A n \in T : <<n, m>> \notin Smaller
  BY SmallerIsWellFounded, WFMin
<1>2. \A n \in T : ~(n < m)
  BY <1>1 DEF Smaller
<1> QED
  BY <1>2

\* The principle of induction.
LEMMA Induct == \A S : 0 \in S /\ (\A n \in Nat : n \in S => n + 1 \in S) => Nat \subseteq S
<1> SUFFICES ASSUME NEW S, 0 \in S, \A n \in Nat : n \in S => n + 1 \in S, Nat \ S # {}
             PROVE  FALSE
  OBVIOUS
<1>1. PICK m \in Nat \ S : \A n \in Nat \ S : m <= n
  BY Least
<1>2. m - 1 \in Nat /\ m - 1 \in S
  BY <1>1
<1> QED
  BY <1>1, <1>2

----------------------------------------------------------------------------
(* The values of a recursion that starts with b and goes on with G, as far *)
(* as n.                                                                   *)
Chains(S, b, G, n) ==
  {g \in [0 .. n -> S] : g[0] = b /\ \A k \in 0 .. n - 1 : g[k + 1] = G[<<k, g[k]>>]}

LEMMA ChainsExist ==
  ASSUME NEW S, NEW b \in S, NEW G \in [Nat \X S -> S], NEW n \in Nat
  PROVE  Chains(S, b, G, n) # {}
<1> DEFINE Good == {m \in Nat : Chains(S, b, G, m) # {}}
<1>1. 0 \in Good
  <2>1. [k \in 0 .. 0 |-> b] \in Chains(S, b, G, 0)
    BY DEF Chains
  <2> QED
    BY <2>1
<1>2. ASSUME NEW m \in Nat, m \in Good PROVE m + 1 \in Good
  <2>1. PICK g \in Chains(S, b, G, m) : TRUE
    BY <1>2
  <2>2. /\ g \in [0 .. m -> S] /\ g[0] = b
        /\ \A k \in 0 .. m - 1 : g[k + 1] = G[<<k, g[k]>>]
    BY <2>1 DEF Chains
  <2> DEFINE h == [k \in 0 .. m + 1 |-> IF k = m + 1 THEN G[<<m, g[m]>>] ELSE g[k]]
  <2>3. G[<<m, g[m]>>] \in S
    BY <2>2
  <2>4. h \in [0 .. m + 1 -> S] /\ h[0] = b
    BY <2>2, <2>3
  <2>5. ASSUME NEW k \in 0 .. m PROVE h[k + 1] = G[<<k, h[k]>>]
    <3>1. CASE k = m
      <4>1. m \in 0 .. m + 1 /\ m + 1 \in 0 .. m + 1 /\ m # m + 1
        OBVIOUS
      <4>2. h[m] = g[m] /\ h[m + 1] = G[<<m, g[m]>>]
        BY <4>1
      <4> QED
        BY <3>1, <4>2
    <3>2. CASE k # m
      <4>1. k \in 0 .. m - 1 /\ k + 1 \in 0 .. m + 1 /\ k + 1 # m + 1
        BY <3>2
      <4> QED
        BY <2>2, <4>1
    <3> QED
      BY <3>1, <3>2
  <2>6. h \in Chains(S, b, G, m + 1)
    <3>1. (m + 1) - 1 = m
      OBVIOUS
    <3> HIDE DEF h
    <3> QED
      BY <2>4, <2>5, <3>1 DEF Chains
  <2> QED
    BY <2>6
<1> HIDE DEF Good
<1>3. Nat \subseteq Good
  BY <1>1, <1>2, Induct
<1> QED
  BY <1>3 DEF Good

LEMMA ChainsAgree ==
  ASSUME NEW S, NEW b \in S, NEW G \in [Nat \X S -> S], NEW m \in Nat, NEW n \in Nat, m <= n,
         NEW g \in Chains(S, b, G, m), NEW h \in Chains(S, b, G, n)
  PROVE  \A k \in 0 .. m : g[k] = h[k]
<1> DEFINE Good == {k \in Nat : k <= m => g[k] = h[k]}
<1>1. 0 \in Good
  BY DEF Chains
<1>2. ASSUME NEW k \in Nat, k \in Good PROVE k + 1 \in Good
  <2>1. CASE k + 1 <= m
    <3>1. g[k] = h[k] /\ k \in 0 .. m - 1 /\ k \in 0 .. n - 1
      BY <1>2, <2>1
    <3>2. g[k + 1] = G[<<k, g[k]>>] /\ h[k + 1] = G[<<k, h[k]>>]
      BY <3>1 DEF Chains
    <3> QED
      BY <3>1, <3>2
  <2> QED
    BY <2>1
<1> HIDE DEF Good
<1>3. Nat \subseteq Good
  BY <1>1, <1>2, Induct
<1> QED
  BY <1>3 DEF Good

\* A recursion on the natural numbers defines a function.
LEMMA Recursion ==
  \A S : \A b \in S : \A G \in [Nat \X S -> S] :
    \E f \in [Nat -> S] : f[0] = b /\ \A n \in Nat : f[n + 1] = G[<<n, f[n]>>]
<1> SUFFICES ASSUME NEW S, NEW b \in S, NEW G \in [Nat \X S -> S]
             PROVE  \E f \in [Nat -> S] : f[0] = b /\ \A n \in Nat : f[n + 1] = G[<<n, f[n]>>]
  OBVIOUS
<1> DEFINE c(n) == CHOOSE g \in Chains(S, b, G, n) : TRUE
           f == [n \in Nat |-> c(n)[n]]
<1>1. \A n \in Nat : c(n) \in Chains(S, b, G, n)
  BY ChainsExist
<1> HIDE DEF c
<1>2. ASSUME NEW n \in Nat PROVE f[n] \in S
  <2>1. c(n) \in [0 .. n -> S]
    BY <1>1 DEF Chains
  <2> QED
    BY <2>1
<1>3. f[0] = b
  <2>1. c(0)[0] = b
    BY <1>1 DEF Chains
  <2> QED
    BY <2>1
<1>4. ASSUME NEW n \in Nat PROVE f[n + 1] = G[<<n, f[n]>>]
  <2>1. c(n)[n] = c(n + 1)[n]
    <3> HIDE DEF f
    <3>1. c(n) \in Chains(S, b, G, n) /\ c(n + 1) \in Chains(S, b, G, n + 1)
      BY <1>1
    <3>2. \A k \in 0 .. n : c(n)[k] = c(n + 1)[k]
      BY <3>1, ChainsAgree
    <3> QED
      BY <3>2
  <2>2. c(n + 1)[n + 1] = G[<<n, c(n + 1)[n]>>]
    BY <1>1, n + 1 \in Nat, n \in 0 .. (n + 1) - 1 DEF Chains
  <2> QED
    BY <2>1, <2>2
<1>5. f \in [Nat -> S]
  BY <1>2
<1> QED
  BY <1>3, <1>4, <1>5

----------------------------------------------------------------------------
(* Sums. *)

\* The values that the loop's variable takes.
Counts(f, n, c) == /\ c \in [0 .. n -> Int] /\ c[0] = 0
                   /\ \A o \in 0 .. n - 1 : c[o + 1] = c[o] + f[o]

LEMMA SumCounts ==
  ASSUME NEW n \in Nat, NEW f \in [0 .. n - 1 -> Int]
  PROVE  \E c : Counts(f, n, c) /\ Total(f, n) = c[n]
<1> DEFINE G == [p \in Nat \X Int |-> p[2] + (IF p[1] < n THEN f[p[1]] ELSE 0)]
           Is(c) == c = [o \in 0 .. n |-> IF o = 0 THEN 0 ELSE c[o - 1] + f[o - 1]]
<1>1. G \in [Nat \X Int -> Int]
  OBVIOUS
<1>2. PICK h \in [Nat -> Int] : h[0] = 0 /\ \A o \in Nat : h[o + 1] = G[<<o, h[o]>>]
  <2> HIDE DEF G
  <2>1. 0 \in Int
    OBVIOUS
  <2>2. \A b \in Int : \A F \in [Nat \X Int -> Int] :
          \E h \in [Nat -> Int] : h[0] = b /\ \A o \in Nat : h[o + 1] = F[<<o, h[o]>>]
    <3> DEFINE P(S) == \A b \in S : \A F \in [Nat \X S -> S] :
                         \E h \in [Nat -> S] : h[0] = b /\ \A o \in Nat : h[o + 1] = F[<<o, h[o]>>]
    <3>1. \A S : P(S)
      BY Recursion
    <3>2. P(Int)
      <4> HIDE DEF P
      <4> QED
        BY <3>1
    <3> QED
      BY <3>2
  <2> QED
    BY <1>1, <2>1, <2>2
<1>3. ASSUME NEW o \in 0 .. n - 1 PROVE h[o + 1] = h[o] + f[o]
  <2>1. <<o, h[o]>> \in Nat \X Int /\ o < n
    OBVIOUS
  <2>2. G[<<o, h[o]>>] = h[o] + f[o]
    BY <2>1
  <2> HIDE DEF G
  <2> QED
    BY <1>2, <2>2
<1> HIDE DEF G
<1> DEFINE c == [o \in 0 .. n |-> h[o]]
<1>4. Is(c)
  <2>1. \A o \in 0 .. n : c[o] = IF o = 0 THEN 0 ELSE c[o - 1] + f[o - 1]
    <3> SUFFICES ASSUME NEW o \in 0 .. n, o # 0 PROVE c[o] = c[o - 1] + f[o - 1]
      BY <1>2
    <3>1. o - 1 \in 0 .. n - 1 /\ (o - 1) + 1 = o
      OBVIOUS
    <3> QED
      BY <1>3, <3>1
  <2> QED
    BY <2>1
<1> HIDE DEF c
<1> DEFINE d == CHOOSE x : Is(x)
<1>5. Is(d)
  BY <1>4
<1>6. Total(f, n) = d[n]
  BY DEF Total
<1> HIDE DEF d
<1>7. d[0] = 0
  BY <1>5
<1>8. ASSUME NEW o \in 0 .. n - 1 PROVE d[o + 1] = d[o] + f[o]
  <2>1. o + 1 \in 0 .. n /\ o + 1 # 0 /\ (o + 1) - 1 = o
    OBVIOUS
  <2> QED
    BY <1>5, <2>1
<1>9. d \in [0 .. n -> Int]
  <2> DEFINE Good == {o \in Nat : o <= n => d[o] \in Int}
  <2>1. 0 \in Good
    BY <1>7
  <2>2. ASSUME NEW o \in Nat, o \in Good PROVE o + 1 \in Good
    <3>1. o + 1 <= n => o \in 0 .. n - 1 /\ d[o] \in Int /\ f[o] \in Int
      BY <2>2
    <3> QED
      BY <1>8, <3>1
  <2>3. Nat \subseteq Good
    <3> HIDE DEF Good
    <3> QED
      BY <2>1, <2>2, Induct
  <2>4. \A o \in 0 .. n : d[o] \in Int
    BY <2>3
  <2>5. d = [o \in 0 .. n |-> d[o]]
    BY <1>5
  <2> QED
    BY <2>4, <2>5
<1> QED
  BY <1>6, <1>7, <1>8, <1>9 DEF Counts

\* n times the same.
LEMMA SumOfEqual ==
  ASSUME NEW n \in Nat, NEW v \in Int
  PROVE  Total([o \in 0 .. n - 1 |-> v], n) = n * v
<1> DEFINE f == [o \in 0 .. n - 1 |-> v]
<1>1. PICK c : Counts(f, n, c) /\ Total(f, n) = c[n]
  BY SumCounts
<1> DEFINE Good == {o \in Nat : o <= n => c[o] = o * v}
<1>2. 0 \in Good
  BY <1>1 DEF Counts
<1>3. ASSUME NEW o \in Nat, o \in Good PROVE o + 1 \in Good
  <2>1. (o + 1) * v = o * v + v
    OBVIOUS
  <2>2. o + 1 <= n => c[o + 1] = c[o] + v
    BY <1>1 DEF Counts
  <2> QED
    BY <1>3, <2>1, <2>2
<1>4. Nat \subseteq Good
  <2> HIDE DEF Good
  <2> QED
    BY <1>2, <1>3, Induct
<1> QED
  BY <1>1, <1>4

\* A transfer between two elements leaves the sum as it is.
Transferred(n, f, g, a, b, d) ==
  /\ f \in [0 .. n - 1 -> Int]
  /\ a \in 0 .. n - 1 /\ b \in 0 .. n - 1 /\ a # b /\ d \in Int
  /\ g = [f EXCEPT ![a] = @ + d, ![b] = @ - d]

(***************************************************************************)
(* The arithmetic of one step of the sum below: x is the old count, z the  *)
(* new one, p and q what has been moved so far.                            *)
(***************************************************************************)
LEMMA ShiftsAddUp ==
  ASSUME NEW x \in Int, NEW z \in Int, NEW p \in Int, NEW q \in Int,
         NEW i \in Int, NEW j \in Int, NEW y \in Int, z = x + p - q
  PROVE  z + (y + i - j) = (x + y) + (p + i) - (q + j)
  OBVIOUS

LEMMA SumOfTransfer ==
  ASSUME NEW n \in Nat, NEW f, NEW h, NEW a, NEW b, NEW d, Transferred(n, f, h, a, b, d)
  PROVE  Total(h, n) = Total(f, n)
<1> SUFFICES ASSUME f \in [0 .. n - 1 -> Int],
                    a \in 0 .. n - 1, b \in 0 .. n - 1, a # b, d \in Int
             PROVE  Total([f EXCEPT ![a] = @ + d, ![b] = @ - d], n) = Total(f, n)
  BY DEF Transferred
<1> DEFINE g == [f EXCEPT ![a] = @ + d, ![b] = @ - d]
<1>0. g \in [0 .. n - 1 -> Int]
  OBVIOUS
<1>1. PICK c : Counts(f, n, c) /\ Total(f, n) = c[n]
  BY SumCounts
<1>2. PICK e : Counts(g, n, e) /\ Total(g, n) = e[n]
  BY <1>0, SumCounts
<1>3. ASSUME NEW o \in 0 .. n - 1
      PROVE  g[o] = f[o] + (IF o = a THEN d ELSE 0) - (IF o = b THEN d ELSE 0)
  <2>1. f[o] \in Int
    OBVIOUS
  <2>2. CASE o = a
    BY <2>1, <2>2
  <2>3. CASE o = b
    BY <2>1, <2>3
  <2>4. CASE o # a /\ o # b
    BY <2>1, <2>4
  <2> QED
    BY <2>2, <2>3, <2>4
<1> HIDE DEF g
<1> DEFINE Shift(x, o) == IF x < o THEN d ELSE 0
<1>s. ASSUME NEW x \in 0 .. n - 1, NEW o \in Nat
      PROVE  /\ Shift(x, o) \in Int
             /\ Shift(x, o + 1) = Shift(x, o) + (IF o = x THEN d ELSE 0)
  <2>1. CASE x < o
    BY <2>1
  <2>2. CASE x = o
    BY <2>2
  <2>3. CASE x > o
    BY <2>3
  <2> QED
    BY <2>1, <2>2, <2>3
<1>z. Shift(a, 0) = 0 /\ Shift(b, 0) = 0 /\ Shift(a, n) = d /\ Shift(b, n) = d
  OBVIOUS
<1> HIDE DEF Shift
<1> DEFINE Good == {o \in Nat : o <= n => e[o] = c[o] + Shift(a, o) - Shift(b, o)}
<1>4. 0 \in Good
  BY <1>1, <1>2, <1>z DEF Counts
<1>5. ASSUME NEW o \in Nat, o \in Good PROVE o + 1 \in Good
  <2> SUFFICES ASSUME o + 1 <= n
               PROVE  e[o + 1] = c[o + 1] + Shift(a, o + 1) - Shift(b, o + 1)
    OBVIOUS
  <2>1. o \in 0 .. n - 1 /\ o \in 0 .. n
    OBVIOUS
  <2> DEFINE da == IF o = a THEN d ELSE 0
             db == IF o = b THEN d ELSE 0
  <2>2. c[o] \in Int /\ e[o] \in Int /\ f[o] \in Int
    BY <1>0, <1>1, <1>2, <2>1 DEF Counts
  <2>8. da \in Int /\ db \in Int
    OBVIOUS
  <2>3. c[o + 1] = c[o] + f[o] /\ e[o + 1] = e[o] + g[o]
    BY <1>1, <1>2, <2>1 DEF Counts
  <2>4. e[o] = c[o] + Shift(a, o) - Shift(b, o)
    BY <1>5
  <2>5. g[o] = f[o] + da - db
    BY <1>3, <2>1
  <2>6. Shift(a, o) \in Int /\ Shift(b, o) \in Int
    BY <1>s
  <2>7. Shift(a, o + 1) = Shift(a, o) + da /\ Shift(b, o + 1) = Shift(b, o) + db
    BY <1>s
  <2> HIDE DEF Good, da, db
  <2>9. e[o] + (f[o] + da - db) = (c[o] + f[o]) + (Shift(a, o) + da) - (Shift(b, o) + db)
    <3> DEFINE Fits(x, z, p, q, y, i, j) ==
          z + (y + i - j) = (x + y) + (p + i) - (q + j)
    <3>1. \A x, z, p, q, y, i, j \in Int : z = x + p - q => Fits(x, z, p, q, y, i, j)
      BY ShiftsAddUp
    <3> HIDE DEF Fits
    <3>2. Fits(c[o], e[o], Shift(a, o), Shift(b, o), f[o], da, db)
      BY <2>2, <2>4, <2>6, <2>8, <3>1
    <3> QED
      BY <3>2 DEF Fits
  <2> QED
    BY <2>3, <2>5, <2>7, <2>9, Zenon
<1>6. Nat \subseteq Good
  <2> HIDE DEF Good
  <2> QED
    BY <1>4, <1>5, Induct
<1>7. e[n] = c[n]
  <2>1. c[n] \in Int
    BY <1>1 DEF Counts
  <2> QED
    BY <1>6, <1>z, <2>1
<1> QED
  BY <1>1, <1>2, <1>7 DEF g

LEMMA PairsAddUp ==
  ASSUME NEW a \in Int, NEW b \in Int, NEW c \in Int, NEW d \in Int,
         NEW f \in Int, NEW g \in Int, NEW h \in Int, NEW i \in Int,
         a + b = c + d, f + g = h + i
  PROVE  (a + f) + (b + g) = (c + h) + (d + i)
  OBVIOUS

\* Sums of functions whose values add up alike at every place.
LEMMA SumsAddUp ==
  ASSUME NEW n \in Nat, NEW f \in [0 .. n - 1 -> Int], NEW g \in [0 .. n - 1 -> Int],
         NEW h \in [0 .. n - 1 -> Int], NEW i \in [0 .. n - 1 -> Int],
         \A o \in 0 .. n - 1 : f[o] + g[o] = h[o] + i[o]
  PROVE  Total(f, n) + Total(g, n) = Total(h, n) + Total(i, n)
<1>1. PICK a : Counts(f, n, a) /\ Total(f, n) = a[n]
  BY SumCounts
<1>2. PICK b : Counts(g, n, b) /\ Total(g, n) = b[n]
  BY SumCounts
<1>3. PICK c : Counts(h, n, c) /\ Total(h, n) = c[n]
  BY SumCounts
<1>4. PICK d : Counts(i, n, d) /\ Total(i, n) = d[n]
  BY SumCounts
<1> DEFINE Good == {o \in Nat : o <= n => a[o] + b[o] = c[o] + d[o]}
<1>5. 0 \in Good
  BY <1>1, <1>2, <1>3, <1>4 DEF Counts
<1>6. ASSUME NEW o \in Nat, o \in Good PROVE o + 1 \in Good
  <2> SUFFICES ASSUME o + 1 <= n PROVE a[o + 1] + b[o + 1] = c[o + 1] + d[o + 1]
    OBVIOUS
  <2>1. o \in 0 .. n - 1 /\ o \in 0 .. n
    OBVIOUS
  <2>2. /\ a[o] \in Int /\ b[o] \in Int /\ c[o] \in Int /\ d[o] \in Int
        /\ f[o] \in Int /\ g[o] \in Int /\ h[o] \in Int /\ i[o] \in Int
    BY <1>1, <1>2, <1>3, <1>4, <2>1 DEF Counts
  <2>3. /\ a[o + 1] = a[o] + f[o] /\ b[o + 1] = b[o] + g[o]
        /\ c[o + 1] = c[o] + h[o] /\ d[o + 1] = d[o] + i[o]
    BY <1>1, <1>2, <1>3, <1>4, <2>1 DEF Counts
  <2>4. a[o] + b[o] = c[o] + d[o] /\ f[o] + g[o] = h[o] + i[o]
    BY <1>6, <2>1
  <2> HIDE DEF Good
  <2>5. (a[o] + f[o]) + (b[o] + g[o]) = (c[o] + h[o]) + (d[o] + i[o])
    <3> DEFINE Fits(p, q, r, s, t, u, v, w) == (p + t) + (q + u) = (r + v) + (s + w)
    <3>1. \A p, q, r, s, t, u, v, w \in Int :
            p + q = r + s /\ t + u = v + w => Fits(p, q, r, s, t, u, v, w)
      BY PairsAddUp
    <3> HIDE DEF Fits
    <3>2. Fits(a[o], b[o], c[o], d[o], f[o], g[o], h[o], i[o])
      BY <2>2, <2>4, <3>1
    <3> QED
      BY <3>2 DEF Fits
  <2> QED
    BY <2>3, <2>5, Zenon
<1>7. Nat \subseteq Good
  <2> HIDE DEF Good
  <2> QED
    BY <1>5, <1>6, Induct
<1> QED
  BY <1>1, <1>2, <1>3, <1>4, <1>7

LEMMA SumIsInt ==
  ASSUME NEW n \in Nat, NEW f \in [0 .. n - 1 -> Int]
  PROVE  Total(f, n) \in Int
<1>1. PICK c : Counts(f, n, c) /\ Total(f, n) = c[n]
  BY SumCounts
<1> QED
  BY <1>1 DEF Counts

----------------------------------------------------------------------------
(* Logs: the first entry for an element, and what adding to a log or       *)
(* taking its last entry does to it.                                       *)

LEMMA FirstExists ==
  ASSUME NEW A, NEW log \in Seq(Entries(A)), NEW a \in Addrs(log)
  PROVE  \E k \in DOMAIN log : First(log, a, k)
<1> DEFINE T == {k \in DOMAIN log : log[k].addr = a}
           R == OpToRel(<, Nat)
<1>1. T \subseteq Nat /\ T # {}
  BY DEF Addrs
<1>2. IsWellFoundedOn(R, Nat)
  BY NatLessThanWellFounded
<1> HIDE DEF R
<1>3. PICK k \in T : \A j \in T : ~(<<j, k>> \in R)
  BY <1>1, <1>2, WFMin
<1>4. \A j \in T : ~(j < k)
  BY <1>1, <1>3 DEF R, OpToRel
<1>5. ASSUME NEW j \in 1 .. k - 1, log[j].addr = a PROVE FALSE
  BY <1>4, <1>5
<1> QED
  BY <1>5 DEF First

LEMMA OldestIsFirst ==
  ASSUME NEW A, NEW log \in Seq(Entries(A)), NEW a, NEW k, First(log, a, k)
  PROVE  Oldest(log, a) = log[k].val
<1>1. ASSUME NEW m \in DOMAIN log, First(log, a, m) PROVE m = k
  BY <1>1 DEF First
<1>2. k \in DOMAIN log
  BY DEF First
<1> DEFINE c == CHOOSE m \in DOMAIN log : First(log, a, m)
<1>3. c \in DOMAIN log /\ First(log, a, c)
  BY <1>2
<1>4. c = k
  BY <1>1, <1>3
<1> QED
  BY <1>4 DEF Oldest

LEMMA OldestValue ==
  ASSUME NEW A, NEW log \in Seq(Entries(A)), NEW a \in Addrs(log)
  PROVE  Oldest(log, a) \in Int
<1>1. PICK k \in DOMAIN log : First(log, a, k)
  BY FirstExists
<1>2. log[k] \in Entries(A)
  BY ElementOfSeq
<1> QED
  BY <1>1, <1>2, OldestIsFirst DEF Entries

\* Adding entries keeps the first entry of an element that had one.
LEMMA OldestOfLonger ==
  ASSUME NEW A, NEW log \in Seq(Entries(A)), NEW added \in Seq(Entries(A)), NEW a \in Addrs(log)
  PROVE  Oldest(log \o added, a) = Oldest(log, a)
<1>1. PICK k \in DOMAIN log : First(log, a, k)
  BY FirstExists
<1>2. First(log \o added, a, k) /\ (log \o added)[k] = log[k]
  BY <1>1 DEF First
<1>3. log \o added \in Seq(Entries(A))
  OBVIOUS
<1>4. Oldest(log, a) = log[k].val
  BY <1>1, OldestIsFirst
<1>5. Oldest(log \o added, a) = (log \o added)[k].val
  BY <1>2, <1>3, OldestIsFirst
<1> QED
  BY <1>2, <1>4, <1>5

LEMMA AddrsOfJoined ==
  ASSUME NEW A, NEW log \in Seq(Entries(A)), NEW added \in Seq(Entries(A))
  PROVE  Addrs(log \o added) = Addrs(log) \cup Addrs(added)
<1> DEFINE l == log \o added
           n == Len(log)
<1>1. /\ n \in Nat /\ Len(added) \in Nat /\ DOMAIN l = 1 .. n + Len(added)
      /\ DOMAIN log = 1 .. n /\ DOMAIN added = 1 .. Len(added)
      /\ \A k \in 1 .. n : l[k] = log[k]
      /\ \A k \in n + 1 .. n + Len(added) : l[k] = added[k - n]
  OBVIOUS
<1> HIDE DEF l, n
<1>2. ASSUME NEW k \in DOMAIN added PROVE k + n \in DOMAIN l /\ l[k + n] = added[k]
  <2>1. k + n \in n + 1 .. n + Len(added) /\ (k + n) - n = k
    BY <1>1
  <2> QED
    BY <1>1, <2>1
<1>3. ASSUME NEW k \in DOMAIN l
      PROVE  (k \in DOMAIN log /\ l[k] = log[k]) \/ (k - n \in DOMAIN added /\ l[k] = added[k - n])
  BY <1>1
<1>4. \A k \in DOMAIN log : k \in DOMAIN l /\ l[k] = log[k]
  BY <1>1
<1>5. Addrs(l) = Addrs(log) \cup Addrs(added)
  BY <1>2, <1>3, <1>4 DEF Addrs
<1> QED
  BY <1>5 DEF l

\* The first entry of an element that had none is the first of those added.
LEMMA OldestOfJoined ==
  ASSUME NEW A, NEW log \in Seq(Entries(A)), NEW added \in Seq(Entries(A)),
         NEW a \in Addrs(added) \ Addrs(log)
  PROVE  Oldest(log \o added, a) = Oldest(added, a)
<1> DEFINE l == log \o added
           n == Len(log)
<1>1. /\ l \in Seq(Entries(A)) /\ n \in Nat /\ Len(added) \in Nat
      /\ DOMAIN l = 1 .. n + Len(added)
      /\ DOMAIN log = 1 .. n /\ DOMAIN added = 1 .. Len(added)
      /\ \A k \in 1 .. n : l[k] = log[k]
      /\ \A k \in n + 1 .. n + Len(added) : l[k] = added[k - n]
  OBVIOUS
<1>2. \A k \in 1 .. n : l[k].addr # a
  BY <1>1 DEF Addrs
<1> HIDE DEF l, n
<1>3. PICK k \in DOMAIN added : First(added, a, k)
  BY FirstExists
<1>4. k + n \in DOMAIN l /\ l[k + n] = added[k]
  <2>1. k + n \in n + 1 .. n + Len(added) /\ (k + n) - n = k
    BY <1>1
  <2> QED
    BY <1>1, <2>1
<1>5. ASSUME NEW j \in 1 .. (k + n) - 1 PROVE l[j].addr # a
  <2>1. CASE j <= n
    BY <1>1, <1>2, <2>1
  <2>2. CASE j > n
    <3>1. j - n \in 1 .. k - 1 /\ j \in n + 1 .. n + Len(added)
      BY <1>1, <2>2
    <3> QED
      BY <1>1, <1>3, <3>1 DEF First
  <2> QED
    BY <1>1, <2>1, <2>2
<1>6. First(l, a, k + n)
  <2>1. l[k + n].addr = a
    BY <1>3, <1>4 DEF First
  <2> DEFINE q == k + n
  <2>2. \A j \in 1 .. q - 1 : l[j].addr # a
    BY <1>5
  <2>3. q \in DOMAIN l /\ l[q].addr = a
    BY <1>4, <2>1
  <2> HIDE DEF q
  <2>4. First(l, a, q)
    BY <2>2, <2>3 DEF First
  <2> QED
    BY <2>4 DEF q
<1>7. Oldest(l, a) = l[k + n].val /\ Oldest(added, a) = added[k].val
  BY <1>1, <1>3, <1>6, OldestIsFirst
<1> QED
  BY <1>4, <1>7 DEF l

LEMMA AddrsOfLonger ==
  ASSUME NEW A, NEW log \in Seq(Entries(A)), NEW d \in Entries(A), NEW e \in Entries(A)
  PROVE  Addrs(log \o <<d, e>>) = Addrs(log) \cup {d.addr, e.addr}
<1> DEFINE l == log \o <<d, e>>
<1>1. /\ DOMAIN l = DOMAIN log \cup {Len(log) + 1, Len(log) + 2}
      /\ \A k \in DOMAIN log : l[k] = log[k]
      /\ l[Len(log) + 1] = d /\ l[Len(log) + 2] = e
  OBVIOUS
<1> HIDE DEF l
<1>2. Addrs(l) = Addrs(log) \cup {d.addr, e.addr}
  BY <1>1 DEF Addrs
<1> QED
  BY <1>2 DEF l

\* The first entry of an element that had none is one of those added.
LEMMA OldestOfAdded ==
  ASSUME NEW A, NEW log \in Seq(Entries(A)), NEW d \in Entries(A), NEW e \in Entries(A),
         NEW a, a \notin Addrs(log)
  PROVE  /\ a = d.addr => Oldest(log \o <<d, e>>, a) = d.val
         /\ a = e.addr /\ a # d.addr => Oldest(log \o <<d, e>>, a) = e.val
<1> DEFINE l == log \o <<d, e>>
           n == Len(log)
<1>1. /\ l \in Seq(Entries(A)) /\ n \in Nat /\ DOMAIN l = 1 .. n + 2
      /\ \A k \in 1 .. n : l[k] = log[k] /\ k \in DOMAIN log
      /\ l[n + 1] = d /\ l[n + 2] = e
  OBVIOUS
<1>2. \A k \in 1 .. n : l[k].addr # a
  BY <1>1 DEF Addrs
<1> HIDE DEF l, n
<1>3. a = d.addr => First(l, a, n + 1)
  BY <1>1, <1>2 DEF First
<1>4. a = e.addr /\ a # d.addr => First(l, a, n + 2)
  BY <1>1, <1>2 DEF First
<1>5. /\ a = d.addr => Oldest(l, a) = d.val
      /\ a = e.addr /\ a # d.addr => Oldest(l, a) = e.val
  BY <1>1, <1>3, <1>4, OldestIsFirst
<1> QED
  BY <1>5 DEF l

\* Taking the last entry takes the only entry of its element or keeps the first.
LEMMA OldestOfFront ==
  ASSUME NEW A, NEW log \in Seq(Entries(A)), log # <<>>
  PROVE  /\ Front(log) \in Seq(Entries(A)) /\ Last(log) \in Entries(A)
         /\ Addrs(log) = Addrs(Front(log)) \cup {Last(log).addr}
         /\ \A a \in Addrs(Front(log)) : Oldest(Front(log), a) = Oldest(log, a)
         /\ \A a \in Addrs(log) \ Addrs(Front(log)) : Oldest(log, a) = Last(log).val
<1> DEFINE n == Len(log)
           f == Front(log)
<1>1. /\ n \in Nat \ {0} /\ DOMAIN log = 1 .. n
      /\ \A k \in 1 .. n : log[k] \in Entries(A)
  OBVIOUS
<1>2. f \in Seq(Entries(A)) /\ DOMAIN f = 1 .. n - 1 /\ \A k \in 1 .. n - 1 : f[k] = log[k]
  BY <1>1 DEF Front
<1>3. Last(log) = log[n] /\ Last(log) \in Entries(A)
  BY <1>1 DEF Last
<1> HIDE DEF n, f
<1>4. Addrs(log) = Addrs(f) \cup {Last(log).addr}
  BY <1>1, <1>2, <1>3 DEF Addrs
<1>5. ASSUME NEW a \in Addrs(f) PROVE Oldest(f, a) = Oldest(log, a)
  <2>1. PICK k \in DOMAIN f : First(f, a, k)
    BY <1>2, <1>5, FirstExists
  <2>2. First(log, a, k) /\ log[k] = f[k]
    BY <1>1, <1>2, <2>1 DEF First
  <2>3. Oldest(f, a) = f[k].val
    BY <1>2, <2>1, OldestIsFirst
  <2>4. Oldest(log, a) = log[k].val
    BY <2>2, OldestIsFirst
  <2> QED
    BY <2>2, <2>3, <2>4
<1>6. ASSUME NEW a \in Addrs(log) \ Addrs(f) PROVE Oldest(log, a) = Last(log).val
  <2>1. First(log, a, n)
    BY <1>1, <1>2, <1>3, <1>4, <1>6 DEF First, Addrs
  <2> QED
    BY <1>3, <2>1, OldestIsFirst
<1> QED
  BY <1>2, <1>3, <1>4, <1>5, <1>6 DEF f


\* Adding one entry keeps the first entries and is the first if there was none.
LEMMA OldestOfAppend ==
  ASSUME NEW A, NEW log \in Seq(Entries(A)), NEW e \in Entries(A)
  PROVE  /\ Append(log, e) \in Seq(Entries(A))
         /\ Addrs(Append(log, e)) = Addrs(log) \cup {e.addr}
         /\ \A a \in Addrs(log) : Oldest(Append(log, e), a) = Oldest(log, a)
         /\ e.addr \notin Addrs(log) => Oldest(Append(log, e), e.addr) = e.val
<1> DEFINE l == Append(log, e)
<1>1. l \in Seq(Entries(A)) /\ l # <<>> /\ Len(l) = Len(log) + 1 /\ l[Len(l)] = e
  OBVIOUS
<1>2. Front(l) = log
  <2>1. Len(l) - 1 = Len(log) /\ \A k \in 1 .. Len(log) : l[k] = log[k]
    OBVIOUS
  <2>2. Front(l) = [k \in 1 .. Len(log) |-> l[k]]
    BY <2>1 DEF Front
  <2> QED
    BY <2>1, <2>2
<1>3. Last(l) = e
  BY <1>1 DEF Last
<1> HIDE DEF l
<1>4. /\ Addrs(l) = Addrs(log) \cup {e.addr}
      /\ \A a \in Addrs(log) : Oldest(log, a) = Oldest(l, a)
      /\ \A a \in Addrs(l) \ Addrs(log) : Oldest(l, a) = e.val
  BY <1>1, <1>2, <1>3, OldestOfFront
<1> QED
  BY <1>1, <1>4 DEF l
=============================================================================
