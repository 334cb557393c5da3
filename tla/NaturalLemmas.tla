---------------------------- MODULE NaturalLemmas ----------------------------
(***************************************************************************)
(* Induction and recursion over the natural numbers, stated with sets and  *)
(* functions instead of operators so that a proof can instantiate them,    *)
(* and division; and lemmas about sequences, flags and subsequences.       *)
(***************************************************************************)
EXTENDS Subsequences, FiniteSetTheorems, WellFoundedInduction, TLAPS

\* Every set of numbers that is not empty has a least one.
LEMMA LeastNatural ==
  ASSUME NEW T \in SUBSET Nat, T # {}
  PROVE  \E n \in T : \A m \in T : n <= m
  <1>. DEFINE R == OpToRel(<, Nat)
  <1>1. IsWellFoundedOn(R, Nat)
    BY NatLessThanWellFounded
  <1>2. \A m, n \in Nat : <<m, n>> \in R <=> m < n
    BY DEF OpToRel
  <1>. HIDE DEF R
  <1>3. PICK n \in T : \A m \in T : ~(<<m, n>> \in R)
    BY <1>1, WFMin
  <1>4. \A m \in T : ~(m < n)
    BY <1>2, <1>3
  <1>. QED  BY <1>4

\* A set of numbers that has zero and, with a number, the next one, has all.
LEMMA SetInduction ==
  ASSUME NEW T \in SUBSET Nat, 0 \in T, \A n \in T : n + 1 \in T
  PROVE  T = Nat
  <1>. SUFFICES ASSUME Nat \ T # {}  PROVE FALSE
    OBVIOUS
  <1>1. PICK n \in Nat \ T : \A m \in Nat \ T : n <= m
    BY LeastNatural
  <1>2. n # 0 /\ n - 1 \in Nat /\ n - 1 \in T /\ n = (n - 1) + 1
    BY <1>1
  <1>. QED  BY <1>2

\* The same below a bound.
LEMMA BoundedInduction ==
  ASSUME NEW n \in Nat, NEW T \in SUBSET (0..n),
         0 \in T, \A m \in 0..n : m < n /\ m \in T => m + 1 \in T
  PROVE  T = 0..n
  <1>. DEFINE U == {m \in Nat : m <= n => m \in T}
  <1>1. 0 \in U
    OBVIOUS
  <1>2. \A m \in U : m + 1 \in U
    OBVIOUS
  <1>. HIDE DEF U
  <1>3. U = Nat
    <2>1. U \in SUBSET Nat
      BY DEF U
    <2>. QED  BY <1>1, <1>2, <2>1, SetInduction
  <1>4. \A m \in 0..n : m \in U
    BY <1>3
  <1>5. \A m \in 0..n : m \in T
    BY <1>4 DEF U
  <1>. QED  BY <1>5

\* What division leaves of a number is one.
LEMMA Divided ==
  ASSUME NEW v \in Nat, NEW b \in Nat \ {0}
  PROVE  v \div b \in Nat /\ v % b \in Nat /\ v = b * (v \div b) + (v % b)
  <1>1. v \div b \in Nat
    OBVIOUS
  <1>2. v % b \in Nat
    OBVIOUS
  <1>3. v = b * (v \div b) + (v % b)
    BY SMTT(20)
  <1>. QED  BY <1>1, <1>2, <1>3

\* A number of a later chunk is at least a chunk later.
LEMMA ChunksApart ==
  ASSUME NEW a \in Nat, NEW b \in Nat, NEW L \in Nat, a < b
  PROVE  a * L \in Nat /\ b * L \in Nat /\ a * L + L <= b * L
  <1>. DEFINE z == b - a - 1
  <1>1. z \in Nat /\ b = a + 1 + z
    OBVIOUS
  <1>. HIDE DEF z
  <1>2. b * L = a * L + L + z * L /\ z * L \in Nat /\ a * L \in Nat
    BY <1>1
  <1>. QED  BY <1>2

\* The positions of n that L lanes and the tail are made of: within n, in order,
\* each once, and all of them.
LEMMA LaneRows ==
  ASSUME NEW n \in Nat, NEW L \in Nat \ {0}
  PROVE  LET d == n \div L
             r == n % L
             at(l, k) == (k - 1) * L + l
         IN /\ d \in Nat /\ r \in Nat /\ n - r \in Nat
            /\ \A l \in 1..L : \A k \in 1..d : at(l, k) \in 1..(n - r)
            /\ \A l \in 1..L : \A a, b \in 1..d : a < b => at(l, a) < at(l, b)
            /\ \A l, m \in 1..L : \A a, b \in 1..d : at(l, a) = at(m, b) => l = m
            /\ \A i \in 1..(n - r) : \E l \in 1..L : \E k \in 1..d : at(l, k) = i
            /\ \A j \in 1..r : n - r + j \in (n - r + 1)..n
            /\ \A i \in (n - r + 1)..n : \E j \in 1..r : n - r + j = i
  <1>. DEFINE d == n \div L
              r == n % L
              at(l, k) == (k - 1) * L + l
  <1>1. d \in Nat /\ r \in Nat /\ n = L * d + r
    BY Divided
  <1>. HIDE DEF d, r
  <1>2. n - r = d * L /\ d * L \in Nat
    <2>1. L * d = d * L /\ d * L \in Nat
      BY <1>1
    <2>. QED  BY <1>1, <2>1
  <1>3. \A l \in 1..L : \A k \in 1..d : (k - 1) * L \in Nat /\ at(l, k) \in 1..(n - r)
    <2>. TAKE l \in 1..L
    <2>. TAKE k \in 1..d
    <2>1. k - 1 \in Nat /\ k - 1 < d
      BY <1>1
    <2>2. (k - 1) * L \in Nat /\ (k - 1) * L + L <= d * L
      BY <1>1, <2>1, ChunksApart
    <2>. DEFINE e == (k - 1) * L
                f == d * L
    <2>. HIDE DEF e, f
    <2>3. e \in Nat /\ f \in Nat /\ e + L <= f /\ n - r = f /\ at(l, k) = e + l
      BY <1>2, <2>2 DEF e, f
    <2>4. e + l \in 1..f
      BY <2>3
    <2>. QED  BY <2>2, <2>3, <2>4
  <1>4. ASSUME NEW l \in 1..L, NEW m \in 1..L, NEW a \in 1..d, NEW b \in 1..d, a < b
        PROVE  at(l, a) < at(m, b)
    <2>1. a - 1 \in Nat /\ b - 1 \in Nat /\ a - 1 < b - 1
      BY <1>1, <1>4
    <2>2. (a - 1) * L + L <= (b - 1) * L /\ (a - 1) * L \in Nat /\ (b - 1) * L \in Nat
      BY <2>1, ChunksApart
    <2>. DEFINE e == (a - 1) * L
                f == (b - 1) * L
    <2>. HIDE DEF e, f
    <2>3. e \in Nat /\ f \in Nat /\ e + L <= f /\ at(l, a) = e + l /\ at(m, b) = f + m
      BY <2>2 DEF e, f
    <2>. QED  BY <2>3
  <1>5. ASSUME NEW l \in 1..L, NEW m \in 1..L, NEW a \in 1..d, NEW b \in 1..d, at(l, a) = at(m, b)
        PROVE  l = m
    <2>1. at(l, a) \in Nat /\ a \in Nat /\ b \in Nat
      BY <1>1, <1>2, <1>3
    <2>2. ~(a < b) /\ ~(b < a)
      <3>. HIDE DEF at
      <3>1. a < b => at(l, a) < at(m, b)
        BY <1>4
      <3>2. b < a => at(m, b) < at(l, a)
        BY <1>4
      <3>. QED  BY <1>5, <2>1, <3>1, <3>2
    <2>3. a = b /\ (a - 1) * L \in Nat
      BY <1>3, <2>1, <2>2
    <2>. DEFINE e == (a - 1) * L
    <2>. HIDE DEF e
    <2>4. e \in Nat /\ e + l = e + m
      BY <1>5, <2>3 DEF e
    <2>. QED  BY <2>4
  <1>6. ASSUME NEW i \in 1..(n - r)  PROVE \E l \in 1..L : \E k \in 1..d : at(l, k) = i
    <2>. DEFINE j == i - 1
                q == j \div L
                o == j % L
    <2>1. j \in Nat /\ j < d * L /\ i = j + 1
      BY <1>2
    <2>. HIDE DEF j
    <2>2. q \in Nat /\ o \in Nat /\ j = L * q + o /\ o < L
      BY <2>1, Divided
    <2>. HIDE DEF q, o
    <2>3. L * q = q * L /\ q * L \in Nat
      BY <2>2
    <2>4. q < d
      <3>. SUFFICES ASSUME ~(q < d)  PROVE FALSE
        OBVIOUS
      <3>1. d = q \/ d < q
        BY <1>1, <2>2
      <3>2. d * L <= q * L
        <4>1. CASE d = q
          BY <1>2, <4>1
        <4>2. CASE d < q
          <5>1. d * L + L <= q * L /\ d * L \in Nat /\ q * L \in Nat
            BY <1>1, <2>2, <4>2, ChunksApart
          <5>. DEFINE e == d * L
                      f == q * L
          <5>. HIDE DEF e, f
          <5>2. e \in Nat /\ f \in Nat /\ e + L <= f
            BY <5>1 DEF e, f
          <5>3. e <= f
            BY <5>2
          <5>. QED  BY <5>3 DEF e, f
        <4>. QED  BY <3>1, <4>1, <4>2
      <3>. DEFINE e == d * L
                  f == q * L
      <3>. HIDE DEF e, f
      <3>3. e \in Nat /\ f \in Nat /\ e <= f /\ j < e /\ j = f + o
        BY <1>2, <2>1, <2>2, <2>3, <3>2 DEF e, f
      <3>. QED  BY <2>1, <2>2, <3>3
    <2>5. q + 1 \in 1..d /\ o + 1 \in 1..L /\ (q + 1) - 1 = q
      BY <1>1, <2>2, <2>4
    <2>6. at(o + 1, q + 1) = i
      <3>. DEFINE f == q * L
      <3>. HIDE DEF f
      <3>1. at(o + 1, q + 1) = f + (o + 1) /\ f \in Nat /\ j = f + o
        BY <2>2, <2>3, <2>5 DEF f
      <3>. QED  BY <2>1, <2>2, <3>1
    <2>. QED  BY <2>5, <2>6, Zenon
  <1>7. /\ \A j \in 1..r : n - r + j \in (n - r + 1)..n
        /\ \A i \in (n - r + 1)..n : i - (n - r) \in 1..r /\ n - r + (i - (n - r)) = i
        /\ n - r \in Nat
    <2>1. n - r \in Nat
      BY <1>2
    <2>. QED  BY <1>1, <2>1
  <1>8. \A l \in 1..L : \A a, b \in 1..d : a < b => at(l, a) < at(l, b)
    BY <1>4
  <1>. QED  BY <1>1, <1>3, <1>5, <1>6, <1>7, <1>8, Zenon DEF d, r

-----------------------------------------------------------------------------
(* Recursion.                                                              *)

\* A function with one more value.
LEMMA OneMoreValue ==
  ASSUME NEW m \in Nat, NEW f, NEW last,
         NEW g, g = [k \in 0..(m + 1) |-> IF k <= m THEN f[k] ELSE last]
  PROVE  g = [k \in 0..(m + 1) |-> g[k]] /\ g[m + 1] = last /\ \A k \in 0..m : g[k] = f[k]
  <1>1. m + 1 \in 0..(m + 1) /\ ~(m + 1 <= m)
    OBVIOUS
  <1>2. \A k \in 0..m : k \in 0..(m + 1) /\ k <= m
    OBVIOUS
  <1>. QED  BY <1>1, <1>2

\* Each step leads from one stage to the next.
StepsLead(n, R, step) == \A k \in 1..n : \A x \in R[k - 1] : step[k][x] \in R[k]

\* f is what the steps make, and is in its stages.
Staged(f, n, R, first, step) ==
  /\ f = [k \in 0..n |-> IF k = 0 THEN first ELSE step[k][f[k - 1]]]
  /\ \A k \in 0..n : f[k] \in R[k]

\* There is such a function.
LEMMA StagedRecursion ==
  ASSUME NEW n \in Nat, NEW R, NEW first \in R[0], NEW step, StepsLead(n, R, step)
  PROVE  \E f : Staged(f, n, R, first, step)
  <1>. DEFINE Upto(f, m) == /\ f[0] = first
                            /\ \A k \in 0..m : f[k] \in R[k]
                            /\ \A k \in 1..m : f[k] = step[k][f[k - 1]]
              T == {m \in 0..n : \E f : Upto(f, m)}
  <1>1. 0 \in T
    <2>. DEFINE f == [k \in 0..n |-> first]
    <2>1. Upto(f, 0)
      OBVIOUS
    <2>. HIDE DEF f, Upto
    <2>. QED  BY <2>1
  <1>2. ASSUME NEW m \in 0..n, m < n, m \in T  PROVE m + 1 \in T
    <2>1. PICK f : Upto(f, m)
      BY <1>2
    <2>2. m + 1 \in 1..n /\ m \in 0..m /\ (m + 1) - 1 = m
      BY <1>2
    <2>. DEFINE next == step[m + 1][f[m]]
                g == [k \in 0..n |-> IF k = m + 1 THEN next ELSE f[k]]
    <2>3. next \in R[m + 1]
      BY <2>1, <2>2, Zenon DEF StepsLead
    <2>. HIDE DEF next
    <2>4. g[m + 1] = next /\ \A k \in 0..m : g[k] = f[k]
      BY <2>2
    <2>. HIDE DEF g
    <2>5. Upto(g, m + 1)
      <3>1. g[0] = first
        BY <2>1, <2>4
      <3>2. ASSUME NEW k \in 0..(m + 1)  PROVE g[k] \in R[k]
        <4>1. k = m + 1 \/ k \in 0..m
          OBVIOUS
        <4>. QED  BY <2>1, <2>3, <2>4, <4>1, Zenon
      <3>3. ASSUME NEW k \in 1..(m + 1)  PROVE g[k] = step[k][g[k - 1]]
        <4>1. CASE k = m + 1
          BY <2>2, <2>4, <4>1 DEF next
        <4>2. CASE k \in 1..m
          <5>1. k \in 0..m /\ k - 1 \in 0..m
            BY <4>2
          <5>. QED  BY <2>1, <2>4, <4>2, <5>1
        <4>. QED  BY <4>1, <4>2
      <3>. QED  BY <3>1, <3>2, <3>3
    <2>. HIDE DEF Upto
    <2>. QED  BY <2>2, <2>5
  <1>3. T = 0..n
    <2>1. T \in SUBSET (0..n)
      OBVIOUS
    <2>. HIDE DEF T
    <2>. QED  BY <1>1, <1>2, <2>1, BoundedInduction
  <1>4. PICK f : Upto(f, n)
    <2>. HIDE DEF Upto
    <2>. QED  BY <1>3
  <1>. DEFINE g == [k \in 0..n |-> f[k]]
  <1>5. \A k \in 0..n : g[k] = f[k]
    OBVIOUS
  <1>6. \A k \in 0..n : g[k] = IF k = 0 THEN first ELSE step[k][g[k - 1]]
    <2>. TAKE k \in 0..n
    <2>1. CASE k = 0
      BY <1>4, <2>1
    <2>2. CASE k # 0
      <3>1. k \in 1..n /\ k - 1 \in 0..n
        BY <2>2
      <3>2. g[k] = f[k] /\ g[k - 1] = f[k - 1]
        BY <1>5, <3>1
      <3>. HIDE DEF g
      <3>. QED  BY <1>4, <2>2, <3>1, <3>2
    <2>. QED  BY <2>1, <2>2
  <1>7. g = [k \in 0..n |-> IF k = 0 THEN first ELSE step[k][g[k - 1]]]
    <2>1. g = [k \in 0..n |-> g[k]]
      OBVIOUS
    <2>. HIDE DEF g
    <2>. QED  BY <1>6, <2>1
  <1>8. \A k \in 0..n : g[k] \in R[k]
    BY <1>4
  <1>. QED  BY <1>7, <1>8, Zenon DEF Staged

\* What is in its stage at the beginning, and stays in its stages, is in all of them.
LEMMA StagedInduction ==
  ASSUME NEW n \in Nat, NEW R, NEW f, f[0] \in R[0],
         \A k \in 1..n : f[k - 1] \in R[k - 1] => f[k] \in R[k]
  PROVE  \A k \in 0..n : f[k] \in R[k]
  <1>. DEFINE T == {k \in 0..n : f[k] \in R[k]}
  <1>1. 0 \in T
    OBVIOUS
  <1>2. ASSUME NEW k \in 0..n, k < n, k \in T  PROVE k + 1 \in T
    <2>1. k + 1 \in 1..n /\ (k + 1) - 1 = k
      BY <1>2
    <2>. QED  BY <1>2, <2>1
  <1>3. T = 0..n
    <2>1. T \in SUBSET (0..n)
      OBVIOUS
    <2>. HIDE DEF T
    <2>. QED  BY <1>1, <1>2, <2>1, BoundedInduction
  <1>. QED  BY <1>3

-----------------------------------------------------------------------------
(* Sequences.                                                              *)

\* The elements of a concatenation.
LEMMA ConcatSeq ==
  ASSUME NEW S, NEW s \in Seq(S), NEW t \in Seq(S), NEW n, n = Len(s), NEW m, m = Len(t),
         NEW r, r = s \o t
  PROVE  /\ r \in Seq(S) /\ Len(r) = n + m
         /\ \A i \in 1..n : r[i] = s[i]
         /\ \A i \in 1..m : r[n + i] = t[i]
  OBVIOUS

\* The elements of an appended sequence.
LEMMA AppendHolds ==
  ASSUME NEW S, NEW s \in Seq(S), NEW v \in S, NEW n \in Nat, Len(s) = n, NEW r, r = Append(s, v)
  PROVE  /\ r \in Seq(S) /\ Len(r) = n + 1 /\ r[n + 1] = v
         /\ \A j \in 1..n : r[j] = s[j]
  OBVIOUS

\* An appended sequence as a function.
LEMMA AppendIs ==
  ASSUME NEW S, NEW s \in Seq(S), NEW v \in S, NEW n \in Nat, Len(s) = n
  PROVE  Append(s, v) = [j \in 1..(n + 1) |-> IF j = n + 1 THEN v ELSE s[j]]
  <1>. DEFINE t == Append(s, v)
  <1>1. /\ t \in Seq(S) /\ Len(t) = n + 1 /\ t[n + 1] = v
        /\ \A j \in 1..n : t[j] = s[j]
    BY AppendHolds
  <1>. HIDE DEF t
  <1>2. t \in [1..(n + 1) -> S]
    BY <1>1
  <1>3. \A j \in 1..(n + 1) : t[j] = IF j = n + 1 THEN v ELSE s[j]
    BY <1>1
  <1>4. t = [j \in 1..(n + 1) |-> IF j = n + 1 THEN v ELSE s[j]]
    BY ONLY <1>2, <1>3
  <1>. QED  BY <1>4 DEF t

\* A list with one more element.
LEMMA AppendedList ==
  ASSUME NEW n \in Nat, NEW s, s = [i \in 1..n |-> s[i]], NEW v
  PROVE  Append(s, v) = [i \in 1..(n + 1) |-> IF i = n + 1 THEN v ELSE s[i]]
  <1>. DEFINE S == {s[i] : i \in 1..n} \cup {v}
  <1>1. s \in [1..n -> S] /\ v \in S
    OBVIOUS
  <1>. HIDE DEF S
  <1>2. s \in Seq(S) /\ Len(s) = n
    BY <1>1
  <1>. QED  BY <1>1, <1>2, AppendIs

\* Two lists in a row.
LEMMA JoinedLists ==
  ASSUME NEW n \in Nat, NEW s, s = [i \in 1..n |-> s[i]],
         NEW m \in Nat, NEW t, t = [i \in 1..m |-> t[i]]
  PROVE  /\ DOMAIN (s \o t) = 1..(n + m) /\ s \o t = [i \in 1..(n + m) |-> (s \o t)[i]]
         /\ \A i \in 1..n : (s \o t)[i] = s[i]
         /\ \A i \in 1..m : (s \o t)[n + i] = t[i]
  <1>. DEFINE S == {s[i] : i \in 1..n} \cup {t[i] : i \in 1..m}
              r == s \o t
  <1>1. s \in [1..n -> S] /\ t \in [1..m -> S]
    OBVIOUS
  <1>. HIDE DEF S
  <1>2. s \in Seq(S) /\ t \in Seq(S) /\ n = Len(s) /\ m = Len(t)
    BY <1>1
  <1>3. r = s \o t
    OBVIOUS
  <1>. HIDE DEF r
  <1>4. /\ r \in Seq(S) /\ Len(r) = n + m
        /\ \A i \in 1..n : r[i] = s[i]
        /\ \A i \in 1..m : r[n + i] = t[i]
    BY ONLY <1>2, <1>3, ConcatSeq
  <1>5. DOMAIN r = 1..(n + m) /\ r = [i \in 1..(n + m) |-> r[i]]
    BY <1>4
  <1>. QED  BY <1>4, <1>5, Zenon DEF r

\* Two sequences of one element make a pair.
LEMMA PairOf ==
  ASSUME NEW S, NEW a \in Seq(S), NEW b \in Seq(S), Len(a) = 1, Len(b) = 1
  PROVE  a \o b = <<a[1], b[1]>>
  <1>. DEFINE s == a \o b
              t == <<a[1], b[1]>>
  <1>1. s \in Seq(S) /\ Len(s) = 2 /\ s[1] = a[1] /\ s[2] = b[1]
    <2>. HIDE DEF t
    <2>1. /\ s \in Seq(S) /\ Len(s) = Len(a) + Len(b)
          /\ \A i \in 1..Len(a) : s[i] = a[i]
          /\ \A i \in 1..Len(b) : s[Len(a) + i] = b[i]
      <3>. DEFINE n == Len(a)
                  m == Len(b)
      <3>1. a \in Seq(S) /\ b \in Seq(S) /\ n = Len(a) /\ m = Len(b) /\ s = a \o b
        OBVIOUS
      <3>. HIDE DEF n, m, s
      <3>2. /\ s \in Seq(S) /\ Len(s) = n + m
            /\ \A i \in 1..n : s[i] = a[i]
            /\ \A i \in 1..m : s[n + i] = b[i]
        BY ONLY <3>1, ConcatSeq
      <3>. QED  BY <3>1, <3>2
    <2>. HIDE DEF s
    <2>2. Len(s) = 2 /\ s[1] = a[1] /\ s[1 + 1] = b[1]
      BY <2>1
    <2>. QED  BY <2>1, <2>2
  <1>2. t \in Seq(S) /\ Len(t) = 2 /\ t[1] = a[1] /\ t[2] = b[1]
    OBVIOUS
  <1>. HIDE DEF s, t
  <1>3. \A k \in 1..2 : s[k] = t[k]
    BY <1>1, <1>2
  <1>4. s = t
    BY <1>1, <1>2, <1>3
  <1>. QED  BY <1>4 DEF s, t

\* All but the last of n positions.
FirstRows(n) == [i \in 1..(n - 1) |-> i]

\* They are positions.
LEMMA FirstRowsType ==
  ASSUME NEW n \in Nat \ {0}
  PROVE  /\ FirstRows(n) \in Seq(1..n) /\ Len(FirstRows(n)) = n - 1
         /\ \A i \in 1..(n - 1) : FirstRows(n)[i] = i
  BY DEF FirstRows

\* Positions that exist.
LEMMA SelectionType ==
  ASSUME NEW p \in Seq(Nat \ {0}), NEW n \in Nat, \A j \in DOMAIN p : ~(p[j] > n)
  PROVE  p \in Seq(1..n)
  <1>1. \A j \in 1..Len(p) : p[j] \in 1..n
    OBVIOUS
  <1>2. p \in [1..Len(p) -> 1..n] /\ Len(p) \in Nat
    BY <1>1
  <1>. QED  BY <1>2

\* What increases from each element to the next increases.
LEMMA IncreasingLeads ==
  ASSUME NEW s \in Seq(Nat), \A k \in 1..(Len(s) - 1) : s[k] < s[k + 1],
         NEW a \in 1..Len(s), NEW b \in 1..Len(s), a < b
  PROVE  s[a] < s[b]
  <1>. DEFINE P(d) == a + d \in 1..Len(s) => s[a] <= s[a + d] /\ (d > 0 => s[a] < s[a + d])
              D == {d \in 0..Len(s) : P(d)}
  <1>1. 0 \in D
    <2>1. s[a] \in Nat
      OBVIOUS
    <2>. QED  BY <2>1
  <1>2. ASSUME NEW d \in 0..Len(s), d < Len(s), d \in D  PROVE d + 1 \in D
    <2>1. SUFFICES ASSUME a + (d + 1) \in 1..Len(s)  PROVE s[a] < s[a + (d + 1)]
      BY <1>2
    <2>2. a + d \in 1..(Len(s) - 1) /\ a + d \in 1..Len(s) /\ (a + d) + 1 = a + (d + 1)
      BY <2>1
    <2>3. s[a + d] < s[(a + d) + 1]
      BY <2>2
    <2>4. s[a] <= s[a + d]
      BY <1>2, <2>2
    <2>5. s[a] \in Nat /\ s[a + d] \in Nat /\ s[(a + d) + 1] \in Nat
      BY <2>1, <2>2
    <2>. QED  BY <2>2, <2>3, <2>4, <2>5
  <1>3. D = 0..Len(s)
    <2>1. D \in SUBSET (0..Len(s)) /\ Len(s) \in Nat
      OBVIOUS
    <2>. HIDE DEF D
    <2>. QED  BY <1>1, <1>2, <2>1, BoundedInduction
  <1>4. b - a \in 0..Len(s) /\ a + (b - a) = b /\ b - a > 0
    OBVIOUS
  <1>5. P(b - a)
    BY <1>3, <1>4
  <1>. QED  BY <1>4, <1>5

-----------------------------------------------------------------------------
(* Flags.                                                                  *)

\* The marked positions.
Flagged(flags) == {i \in 1..Len(flags) : flags[i]}

\* The flags of n positions, of which count are marked; none, if none is.
FlagsOk(flags, count, n) ==
  /\ flags \in Seq(BOOLEAN)
  /\ count = Cardinality(Flagged(flags))
  /\ IF count = 0 THEN flags = <<>> ELSE Len(flags) = n

\* There are finitely many of them, at most all.
LEMMA FlaggedIs ==
  ASSUME NEW flags \in Seq(BOOLEAN), NEW n \in Nat, Len(flags) = n
  PROVE  /\ Flagged(flags) = {i \in DOMAIN flags : flags[i]}
         /\ Flagged(flags) \in SUBSET (1..n)
         /\ IsFiniteSet(Flagged(flags)) /\ Cardinality(Flagged(flags)) \in 0..n
         /\ Cardinality(Flagged(flags)) = 0 <=> Flagged(flags) = {}
         /\ Flagged(<<>>) = {} /\ Cardinality(Flagged(<<>>)) = 0
  <1>1. Flagged(flags) = {i \in DOMAIN flags : flags[i]} /\ Flagged(<<>>) = {}
    BY DEF Flagged
  <1>. DEFINE F == Flagged(flags)
  <1>2. F \in SUBSET (1..n)
    BY DEF Flagged
  <1>3. IsFiniteSet(1..n) /\ Cardinality(1..n) = n
    BY FS_Interval
  <1>. HIDE DEF F
  <1>4. IsFiniteSet(F) /\ Cardinality(F) <= Cardinality(1..n)
    BY <1>2, <1>3, FS_Subset, Zenon
  <1>5. Cardinality(F) \in Nat
    BY <1>4, FS_CardinalityType
  <1>6. Cardinality(F) = 0 <=> F = {}
    BY <1>4, FS_EmptySet
  <1>7. Cardinality({}) = 0
    BY FS_EmptySet
  <1>8. Cardinality(F) \in 0..n
    BY <1>3, <1>4, <1>5
  <1>9. /\ F \in SUBSET (1..n) /\ IsFiniteSet(F) /\ Cardinality(F) \in 0..n
        /\ Cardinality(F) = 0 <=> F = {}
    BY <1>2, <1>4, <1>6, <1>8
  <1>. QED  BY <1>1, <1>7, <1>9, Zenon DEF F

\* A flag vector without a mark can be dropped.
LEMMA DroppedFlags ==
  ASSUME NEW flags \in Seq(BOOLEAN), NEW n \in Nat, Len(flags) = n,
         NEW count, count = Cardinality(Flagged(flags)),
         NEW rest, rest = IF count = 0 THEN <<>> ELSE flags
  PROVE  FlagsOk(rest, count, n) /\ Flagged(rest) = Flagged(flags)
  <1>1. CASE count = 0
    <2>1. rest = <<>> /\ <<>> \in Seq(BOOLEAN)
      BY <1>1
    <2>2. Flagged(flags) = {} /\ Flagged(<<>>) = {} /\ Cardinality(Flagged(<<>>)) = 0
      BY <1>1, FlaggedIs, Zenon
    <2>. QED  BY ONLY <1>1, <2>1, <2>2 DEF FlagsOk
  <1>2. CASE count # 0
    <2>1. rest = flags
      BY <1>2
    <2>. QED  BY <1>2, <2>1 DEF FlagsOk
  <1>. QED  BY <1>1, <1>2

\* As many positions are marked after they were moved.
LEMMA ShiftedSet ==
  ASSUME NEW n \in Nat, NEW m \in Nat, NEW F \in SUBSET (1..m)
  PROVE  /\ IsFiniteSet({n + i : i \in F})
         /\ Cardinality({n + i : i \in F}) = Cardinality(F)
  <1>. DEFINE G == {n + i : i \in F}
              f == [i \in F |-> n + i]
  <1>1. IsFiniteSet(F)
    <2>1. IsFiniteSet(1..m)
      BY FS_Interval
    <2>. QED  BY <2>1, FS_Subset, Zenon
  <1>2. f \in [F -> G] /\ (\A i, j \in F : f[i] = f[j] => i = j) /\ \A g \in G : \E i \in F : f[i] = g
    OBVIOUS
  <1>3. f \in Bijection(F, G)
    <2>. HIDE DEF f, G
    <2>. QED  BY <1>2 DEF Bijection, Injection, Surjection, IsInjective
  <1>. HIDE DEF f, G
  <1>4. ExistsBijection(F, G)
    BY <1>3 DEF ExistsBijection
  <1>5. IsFiniteSet(G) /\ Cardinality(G) = Cardinality(F)
    BY <1>1, <1>4, FS_Bijection
  <1>. QED  BY <1>5 DEF G

\* The flags of two sequences, one after the other.
LEMMA ConcatFlags ==
  ASSUME NEW s \in Seq(BOOLEAN), NEW t \in Seq(BOOLEAN),
         NEW n \in Nat, n = Len(s), NEW m \in Nat, m = Len(t)
  PROVE  /\ s \o t \in Seq(BOOLEAN) /\ Len(s \o t) = n + m
         /\ Flagged(s \o t) = Flagged(s) \cup {n + i : i \in Flagged(t)}
  <1>. DEFINE r == s \o t
  <1>1. /\ r \in Seq(BOOLEAN) /\ Len(r) = n + m
        /\ \A i \in 1..n : r[i] = s[i]
        /\ \A i \in 1..m : r[n + i] = t[i]
    <2>. HIDE DEF r
    <2>1. r = s \o t
      BY DEF r
    <2>. QED  BY <2>1, ConcatSeq
  <1>. HIDE DEF r
  <1>2. ASSUME NEW k  PROVE k \in Flagged(r) <=> k \in Flagged(s) \cup {n + i : i \in Flagged(t)}
    <2>1. CASE k \in 1..n
      BY <1>1, <2>1 DEF Flagged
    <2>2. CASE k \in (n + 1)..(n + m)
      <3>1. k - n \in 1..m /\ k = n + (k - n) /\ k \in 1..(n + m) /\ k \notin 1..n
        BY <2>2
      <3>2. r[k] = t[k - n]
        BY <1>1, <3>1
      <3>3. k \in Flagged(r) <=> k - n \in Flagged(t)
        BY <1>1, <3>1, <3>2 DEF Flagged
      <3>4. k \in {n + i : i \in Flagged(t)} <=> k - n \in Flagged(t)
        BY <3>1 DEF Flagged
      <3>5. k \notin Flagged(s)
        BY <3>1 DEF Flagged
      <3>. QED  BY <3>3, <3>4, <3>5
    <2>3. CASE k \notin 1..(n + m)
      BY <1>1, <2>3 DEF Flagged
    <2>. QED  BY <2>1, <2>2, <2>3
  <1>3. Flagged(r) = Flagged(s) \cup {n + i : i \in Flagged(t)}
    BY <1>2
  <1>. QED  BY <1>1, <1>3 DEF r

-----------------------------------------------------------------------------
(* Subsequences.                                                           *)

\* The function that KeptUpto's equation is about exists.
LEMMA KeptUptoDef ==
  ASSUME NEW kept, NEW n \in Nat
  PROVE  KeptUpto(kept, n) =
           [k \in 0..n |->
              IF k = 0 THEN <<>>
              ELSE IF k \in kept THEN Append(KeptUpto(kept, n)[k - 1], k)
                   ELSE KeptUpto(kept, n)[k - 1]]
  <1>. DEFINE Step(f, k) == IF k \in kept THEN Append(f[k - 1], k) ELSE f[k - 1]
              Def(f, m) == f = [k \in 0..m |-> IF k = 0 THEN <<>> ELSE Step(f, k)]
              T == {m \in Nat : \E f : Def(f, m)}
  <1>1. 0 \in T
    <2>1. Def([k \in 0..0 |-> <<>>], 0)
      OBVIOUS
    <2>. QED  BY <2>1
  <1>2. ASSUME NEW m \in T  PROVE m + 1 \in T
    <2>1. PICK f : Def(f, m)
      OBVIOUS
    <2>. DEFINE last == IF m + 1 \in kept THEN Append(f[m], m + 1) ELSE f[m]
                g == [k \in 0..(m + 1) |-> IF k <= m THEN f[k] ELSE last]
    <2>2. \A k \in 0..(m + 1) : g[k] = IF k = 0 THEN <<>> ELSE Step(g, k)
      <3>. TAKE k \in 0..(m + 1)
      <3>1. CASE k = 0
        BY <2>1, <3>1
      <3>2. CASE k \in 1..m
        <4>1. g[k] = f[k] /\ g[k - 1] = f[k - 1]
          <5>1. k \in 0..(m + 1) /\ k - 1 \in 0..(m + 1) /\ k <= m /\ k - 1 <= m
            BY <3>2
          <5>. HIDE DEF last
          <5>. QED  BY ONLY <5>1 DEF g
        <4>2. f[k] = Step(f, k) /\ k # 0
          <5>. HIDE DEF Step
          <5>1. \A j \in 0..m : f[j] = IF j = 0 THEN <<>> ELSE Step(f, j)
            BY <2>1
          <5>. QED  BY <3>2, <5>1
        <4>. HIDE DEF g
        <4>. QED  BY <4>1, <4>2
      <3>3. CASE k = m + 1
        <4>1. g[m + 1] = last /\ g[m] = f[m] /\ (m + 1) - 1 = m /\ m + 1 # 0
          <5>. HIDE DEF last
          <5>. QED  OBVIOUS
        <4>. HIDE DEF g
        <4>. QED  BY <3>3, <4>1
      <3>. QED  BY <3>1, <3>2, <3>3
    <2>3. Def(g, m + 1)
      <3>1. DOMAIN g = 0..(m + 1) /\ g = [k \in 0..(m + 1) |-> g[k]]
        OBVIOUS
      <3>. HIDE DEF g, Step
      <3>. QED  BY <2>2, <3>1
    <2>. HIDE DEF g, Def
    <2>. QED  BY <2>3
  <1>3. T = Nat
    <2>1. T \in SUBSET Nat
      OBVIOUS
    <2>. HIDE DEF T
    <2>. QED  BY <1>1, <1>2, <2>1, SetInduction
  <1>4. PICK f : Def(f, n)
    BY <1>3
  <1>. QED  BY <1>4 DEF KeptUpto

\* Position by position.
LEMMA KeptUptoAt ==
  ASSUME NEW kept, NEW n \in Nat
  PROVE  /\ KeptUpto(kept, n)[0] = <<>>
         /\ \A k \in 0..n : k < n =>
              KeptUpto(kept, n)[k + 1] = IF k + 1 \in kept THEN Append(KeptUpto(kept, n)[k], k + 1)
                                         ELSE KeptUpto(kept, n)[k]
  <1>. DEFINE u == KeptUpto(kept, n)
  <1>1. u = [k \in 0..n |-> IF k = 0 THEN <<>>
                            ELSE IF k \in kept THEN Append(u[k - 1], k) ELSE u[k - 1]]
    BY KeptUptoDef
  <1>. HIDE DEF u
  <1>2. u[0] = <<>>
    BY <1>1
  <1>3. ASSUME NEW k \in 0..n, k < n
        PROVE  u[k + 1] = IF k + 1 \in kept THEN Append(u[k], k + 1) ELSE u[k]
    <2>1. k + 1 \in 0..n /\ k + 1 # 0 /\ (k + 1) - 1 = k
      BY <1>3
    <2>2. u[k + 1] = IF k + 1 \in kept THEN Append(u[(k + 1) - 1], k + 1) ELSE u[(k + 1) - 1]
      BY <1>1, <2>1
    <2>. QED  BY <2>1, <2>2
  <1>. QED  BY <1>2, <1>3 DEF u

\* The j-th kept position is kept, is one of the first k, and has j - 1 before it.
LEMMA KeptUptoType ==
  ASSUME NEW kept, NEW n \in Nat, NEW k \in 0..n
  PROVE  /\ KeptUpto(kept, n)[k] \in Seq(1..n)
         /\ Len(KeptUpto(kept, n)[k]) \in 0..k
         /\ \A j \in 1..Len(KeptUpto(kept, n)[k]) :
              /\ KeptUpto(kept, n)[k][j] \in kept
              /\ KeptUpto(kept, n)[k][j] \in j..k
  <1>. DEFINE u == KeptUpto(kept, n)
              P(m) == /\ u[m] \in Seq(1..n) /\ Len(u[m]) \in 0..m
                      /\ \A j \in 1..Len(u[m]) : u[m][j] \in kept /\ u[m][j] \in j..m
              T == {m \in 0..n : P(m)}
  <1>1. 0 \in T
    <2>1. u[0] = <<>>
      BY KeptUptoAt
    <2>. HIDE DEF u
    <2>2. u[0] \in Seq(1..n) /\ Len(u[0]) = 0
      BY <2>1
    <2>3. P(0)
      BY <2>2
    <2>. HIDE DEF P
    <2>. QED  BY <2>3
  <1>2. ASSUME NEW m \in 0..n, m < n, m \in T  PROVE m + 1 \in T
    <2>1. u[m + 1] = IF m + 1 \in kept THEN Append(u[m], m + 1) ELSE u[m]
      BY <1>2, KeptUptoAt
    <2>. HIDE DEF u
    <2>2. P(m) /\ m + 1 \in 1..n
      BY <1>2
    <2>3. CASE m + 1 \in kept
      <3>. DEFINE s == u[m]
                  t == u[m + 1]
      <3>1. s \in Seq(1..n) /\ Len(s) \in 0..m /\ m + 1 \in 1..n /\ t = Append(s, m + 1)
        BY <2>1, <2>2, <2>3
      <3>2. \A j \in 1..Len(s) : s[j] \in kept /\ s[j] \in j..m
        BY <2>2
      <3>. HIDE DEF s, t
      <3>3. t \in Seq(1..n) /\ Len(t) = Len(s) + 1 /\ t[Len(s) + 1] = m + 1
        BY <3>1
      <3>4. \A j \in 1..Len(s) : t[j] = s[j]
        BY <3>1
      <3>5. \A j \in 1..Len(t) : t[j] \in kept /\ t[j] \in j..(m + 1)
        <4>. TAKE j \in 1..Len(t)
        <4>1. CASE j = Len(s) + 1
          BY <2>3, <3>1, <3>3, <4>1
        <4>2. CASE j \in 1..Len(s)
          BY <3>1, <3>2, <3>4, <4>2
        <4>. QED  BY <3>1, <3>3, <4>1, <4>2
      <3>6. t \in Seq(1..n) /\ Len(t) \in 0..(m + 1)
        BY <3>1, <3>3
      <3>7. P(m + 1)
        BY ONLY <3>5, <3>6 DEF t, P
      <3>. HIDE DEF P
      <3>. QED  BY <2>2, <3>7
    <2>4. CASE m + 1 \notin kept
      <3>1. u[m + 1] = u[m]
        BY <2>1, <2>4
      <3>2. \A j \in 1..Len(u[m]) : u[m][j] \in j..(m + 1)
        BY <2>2
      <3>. QED  BY <2>2, <3>1, <3>2
    <2>. QED  BY <2>3, <2>4
  <1>. HIDE DEF P
  <1>3. T = 0..n
    <2>1. T \in SUBSET (0..n)
      OBVIOUS
    <2>. HIDE DEF T
    <2>. QED  BY <1>1, <1>2, <2>1, BoundedInduction
  <1>4. P(k)
    BY <1>3
  <1>. QED  BY <1>4 DEF P

\* What is kept of the first k positions comes first in what is kept of more.
LEMMA KeptUptoGrows ==
  ASSUME NEW kept, NEW n \in Nat, NEW k \in 0..n
  PROVE  /\ Len(KeptUpto(kept, n)[k]) <= Len(KeptOf(kept, n))
         /\ \A j \in 1..Len(KeptOf(kept, n)) :
              /\ j <= Len(KeptUpto(kept, n)[k]) => KeptOf(kept, n)[j] = KeptUpto(kept, n)[k][j]
              /\ j > Len(KeptUpto(kept, n)[k]) => KeptOf(kept, n)[j] > k
  <1>. DEFINE u == KeptUpto(kept, n)
              l == Len(u[k])
              P(m) == k <= m =>
                        /\ l <= Len(u[m])
                        /\ \A j \in 1..Len(u[m]) :
                             (j <= l => u[m][j] = u[k][j]) /\ (j > l => u[m][j] > k)
              T == {m \in 0..n : P(m)}
  <1>0. \A m \in 0..n : u[m] \in Seq(1..n) /\ Len(u[m]) \in Nat
    BY KeptUptoType
  <1>1. 0 \in T
    <2>1. CASE k = 0
      BY <1>0, <2>1
    <2>2. CASE k # 0
      BY <2>2
    <2>. QED  BY <2>1, <2>2
  <1>2. ASSUME NEW m \in 0..n, m < n, m \in T  PROVE m + 1 \in T
    <2>1. u[m + 1] = IF m + 1 \in kept THEN Append(u[m], m + 1) ELSE u[m]
      BY <1>2, KeptUptoAt
    <2>. HIDE DEF u
    <2>2. P(m) /\ m + 1 \in 0..n
      BY <1>2
    <2>3. CASE k = m + 1
      BY <1>0, <2>2, <2>3
    <2>4. CASE k <= m
      <3>. DEFINE s == u[m]
                  t == u[m + 1]
      <3>1. /\ s \in Seq(1..n) /\ Len(s) \in Nat /\ l \in Nat /\ l <= Len(s)
            /\ \A j \in 1..Len(s) : (j <= l => s[j] = u[k][j]) /\ (j > l => s[j] > k)
        BY <1>0, <2>2, <2>4
      <3>2. t = IF m + 1 \in kept THEN Append(s, m + 1) ELSE s
        BY <2>1
      <3>. HIDE DEF s, t, l
      <3>3. CASE m + 1 \in kept
        <4>1. t = Append(s, m + 1)
          BY <3>2, <3>3
        <4>2. Len(t) = Len(s) + 1 /\ t[Len(s) + 1] = m + 1 /\ \A j \in 1..Len(s) : t[j] = s[j]
          BY <3>1, <4>1
        <4>3. \A j \in 1..Len(t) : (j <= l => t[j] = u[k][j]) /\ (j > l => t[j] > k)
          <5>. TAKE j \in 1..Len(t)
          <5>1. CASE j = Len(s) + 1
            BY <2>4, <3>1, <4>2, <5>1
          <5>2. CASE j \in 1..Len(s)
            BY <3>1, <4>2, <5>2
          <5>. QED  BY <3>1, <4>2, <5>1, <5>2
        <4>. QED  BY <2>2, <3>1, <4>2, <4>3 DEF t, l
      <3>4. CASE m + 1 \notin kept
        BY <2>2, <3>1, <3>2, <3>4 DEF t, l
      <3>. QED  BY <3>3, <3>4
    <2>5. CASE k > m + 1
      BY <2>2, <2>5
    <2>. QED  BY <2>2, <2>3, <2>4, <2>5
  <1>. HIDE DEF P
  <1>3. T = 0..n
    <2>1. T \in SUBSET (0..n)
      OBVIOUS
    <2>. HIDE DEF T
    <2>. QED  BY <1>1, <1>2, <2>1, BoundedInduction
  <1>4. P(n)
    BY <1>3
  <1>. QED  BY <1>4 DEF P, KeptOf

\* As many positions are listed as are kept.
LEMMA KeptUptoLen ==
  ASSUME NEW kept, NEW n \in Nat
  PROVE  \A k \in 0..n : Len(KeptUpto(kept, n)[k]) = Cardinality(kept \cap (1..k))
  <1>. DEFINE u == KeptUpto(kept, n)
              P(k) == Len(u[k]) = Cardinality(kept \cap (1..k))
              T == {k \in 0..n : P(k)}
  <1>1. /\ u[0] = <<>>
        /\ \A k \in 0..n : k < n =>
              u[k + 1] = IF k + 1 \in kept THEN Append(u[k], k + 1) ELSE u[k]
    BY KeptUptoAt
  <1>2. \A k \in 0..n : u[k] \in Seq(1..n)
    BY KeptUptoType
  <1>. HIDE DEF u
  <1>3. 0 \in T
    <2>1. kept \cap (1..0) = {}
      OBVIOUS
    <2>2. Cardinality({}) = 0
      BY FS_EmptySet
    <2>. QED  BY <1>1, <2>1, <2>2
  <1>4. ASSUME NEW k \in 0..n, k < n, k \in T  PROVE k + 1 \in T
    <2>0. k + 1 \in 0..n
      BY <1>4
    <2>. DEFINE K == kept \cap (1..k)
                L == kept \cap (1..(k + 1))
    <2>1. IsFiniteSet(K) /\ k + 1 \notin K
      <3>1. IsFiniteSet(1..k)
        BY FS_Interval
      <3>2. K \in SUBSET (1..k)
        OBVIOUS
      <3>3. IsFiniteSet(K)
        <4>. HIDE DEF K
        <4>. QED  BY <3>1, <3>2, FS_Subset, Zenon
      <3>. QED  BY <3>3
    <2>2. L = IF k + 1 \in kept THEN K \cup {k + 1} ELSE K
      OBVIOUS
    <2>3. Len(u[k]) = Cardinality(K)
      BY <1>4
    <2>. HIDE DEF K, L
    <2>4. Cardinality(K \cup {k + 1}) = Cardinality(K) + 1
      BY <2>1, FS_AddElement
    <2>5. CASE k + 1 \in kept
      <3>1. u[k + 1] = Append(u[k], k + 1) /\ L = K \cup {k + 1}
        BY <1>1, <1>4, <2>2, <2>5, Zenon
      <3>2. Len(u[k + 1]) = Len(u[k]) + 1
        BY <1>2, <3>1
      <3>. QED  BY <2>0, <2>3, <2>4, <3>1, <3>2, Zenon DEF L
    <2>6. CASE k + 1 \notin kept
      <3>1. u[k + 1] = u[k] /\ L = K
        BY <1>1, <1>4, <2>2, <2>6
      <3>. QED  BY <2>0, <2>3, <3>1, Zenon DEF L
    <2>. QED  BY <2>5, <2>6
  <1>. HIDE DEF P
  <1>5. T = 0..n
    <2>1. T \in SUBSET (0..n)
      OBVIOUS
    <2>. HIDE DEF T
    <2>. QED  BY <1>3, <1>4, <2>1, BoundedInduction
  <1>. QED  BY <1>5, Zenon DEF P, u

\* If all positions are kept, they are the positions.
LEMMA KeptAll ==
  ASSUME NEW n \in Nat
  PROVE  KeptOf(1..n, n) = [j \in 1..n |-> j]
  <1>. DEFINE K == 1..n
              u == KeptUpto(K, n)
  <1>1. ASSUME NEW j \in 0..n  PROVE Len(u[j]) = j
    <2>1. K \cap (1..j) = 1..j
      OBVIOUS
    <2>2. Cardinality(1..j) = j
      BY FS_Interval
    <2>. QED  BY <2>1, <2>2, KeptUptoLen
  <1>2. KeptOf(K, n) = u[n]
    BY DEF KeptOf
  <1>3. u[n] \in Seq(1..n) /\ Len(u[n]) = n
    <2>1. n \in 0..n
      OBVIOUS
    <2>. QED  BY <1>1, <2>1, KeptUptoType
  <1>4. ASSUME NEW j \in 1..n  PROVE u[n][j] = j
    <2>0. j \in 0..n /\ j <= Len(u[j]) /\ j \in 1..Len(u[j])
      BY <1>1
    <2>1. u[n][j] = u[j][j]
      <3>1. \A m \in 1..Len(KeptOf(K, n)) : m <= Len(u[j]) => KeptOf(K, n)[m] = u[j][m]
        BY ONLY n \in Nat, <2>0, KeptUptoGrows, Zenon
      <3>2. j \in 1..Len(KeptOf(K, n)) /\ j <= Len(u[j])
        BY <1>2, <1>3, <2>0
      <3>. HIDE DEF u, K
      <3>. QED  BY <1>2, <3>1, <3>2
    <2>2. u[j][j] \in j..j
      BY <2>0, KeptUptoType
    <2>. QED  BY <2>1, <2>2
  <1>. HIDE DEF u
  <1>5. u[n] = [j \in 1..n |-> j]
    <2>1. u[n] \in [1..n -> 1..n]
      BY <1>3
    <2>. QED  BY <1>4, <2>1
  <1>. QED  BY <1>2, <1>5

\* A kept position is listed after as many positions as are kept before it.
LEMMA KeptPlace ==
  ASSUME NEW n \in Nat, NEW kept \in SUBSET (1..n)
  PROVE  LET p == KeptOf(kept, n) IN
         /\ \A i \in kept : /\ Cardinality(kept \cap (1..i)) \in 1..Len(p)
                            /\ p[Cardinality(kept \cap (1..i))] = i
         /\ \A j \in 1..Len(p) : p[j] \in kept /\ Cardinality(kept \cap (1..p[j])) = j
  <1>. DEFINE u == KeptUpto(kept, n)
              p == KeptOf(kept, n)
              place(i) == Cardinality(kept \cap (1..i))
  <1>1. \A k \in 0..n : k < n => u[k + 1] = IF k + 1 \in kept THEN Append(u[k], k + 1) ELSE u[k]
    BY KeptUptoAt
  <1>2. \A k \in 0..n : /\ u[k] \in Seq(1..n)
                        /\ \A j \in 1..Len(u[k]) : u[k][j] \in kept /\ u[k][j] \in j..k
    BY KeptUptoType, Zenon
  <1>3. \A k \in 0..n : Len(u[k]) = place(k)
    BY KeptUptoLen
  <1>4. \A k \in 0..n : /\ Len(u[k]) <= Len(p)
                        /\ \A j \in 1..Len(p) : /\ j <= Len(u[k]) => p[j] = u[k][j]
                                                /\ j > Len(u[k]) => p[j] > k
    BY KeptUptoGrows, Zenon
  <1>5. p = u[n] /\ n \in 0..n
    BY DEF KeptOf
  <1>. HIDE DEF u, p, place
  <1>6. ASSUME NEW i \in kept
        PROVE  /\ i \in 0..n /\ i - 1 \in 0..n /\ Len(u[i]) = Len(u[i - 1]) + 1
               /\ u[i][Len(u[i])] = i /\ Len(u[i]) \in Nat
    <2>1. i \in 1..n
      OBVIOUS
    <2>2. i - 1 \in 0..n /\ i - 1 < n /\ (i - 1) + 1 = i /\ i \in 0..n
      BY <2>1
    <2>3. u[i] = Append(u[i - 1], i)
      BY <1>1, <2>2, Zenon
    <2>4. u[i - 1] \in Seq(1..n)
      BY <1>2, <2>2
    <2>. QED  BY <2>1, <2>2, <2>3, <2>4
  <1>7. ASSUME NEW i \in kept
        PROVE  place(i) \in 1..Len(p) /\ p[place(i)] = i
    <2>1. Len(u[i]) \in 1..Len(p)
      <3>1. Len(u[i - 1]) \in Nat /\ Len(p) \in Nat
        BY <1>2, <1>5, <1>6
      <3>. QED  BY <1>4, <1>6, <3>1
    <2>2. i \in 0..n /\ u[i][Len(u[i])] = i
      BY <1>6
    <2>3. Len(u[i]) \in 1..Len(u[i])
      BY <1>6, <2>1
    <2>4. \A j \in 1..Len(p) : j <= Len(u[i]) => p[j] = u[i][j]
      BY <1>4, <2>2
    <2>5. Len(u[i]) <= Len(u[i])
      BY <2>3
    <2>6. place(i) = Len(u[i])
      BY <1>3, <2>2
    <2>. QED  BY ONLY <2>1, <2>2, <2>4, <2>5, <2>6
  <1>8. ASSUME NEW j \in 1..Len(p)
        PROVE  p[j] \in kept /\ place(p[j]) = j
    <2>1. p[j] \in kept
      BY <1>2, <1>5
    <2>2. j <= Len(u[p[j]])
      <3>1. \A i \in kept : i \in 0..n /\ Len(u[i]) \in Nat
        BY <1>6
      <3>2. p[j] \in 0..n /\ Len(u[p[j]]) \in Nat
        BY <2>1, <3>1, Zenon
      <3>3. \A i \in 0..n : ~(i > i)
        OBVIOUS
      <3>4. ~(p[j] > p[j])
        BY <3>2, <3>3, Zenon
      <3>5. j > Len(u[p[j]]) => p[j] > p[j]
        BY <1>4, <3>2, Zenon
      <3>6. j \in Nat
        BY <1>2, <1>5
      <3>. QED  BY <3>2, <3>4, <3>5, <3>6
    <2>3. ~(j <= Len(u[p[j] - 1]))
      <3>1. SUFFICES ASSUME j <= Len(u[p[j] - 1])  PROVE FALSE
        OBVIOUS
      <3>2. p[j] - 1 \in 0..n
        BY <1>6, <2>1, Zenon
      <3>3. p[j] = u[p[j] - 1][j] /\ j \in 1..Len(u[p[j] - 1])
        BY <1>2, <1>4, <3>1, <3>2
      <3>4. p[j] \in j..(p[j] - 1)
        BY <1>2, <3>2, <3>3, Zenon
      <3>. QED  BY <3>2, <3>4
    <2>4. Len(u[p[j]]) = j
      <3>1. \A i \in kept : i - 1 \in 0..n /\ Len(u[i]) = Len(u[i - 1]) + 1
        BY <1>6
      <3>2. p[j] - 1 \in 0..n /\ Len(u[p[j]]) = Len(u[p[j] - 1]) + 1
        BY <2>1, <3>1, Zenon
      <3>3. Len(u[p[j]]) = Len(u[p[j] - 1]) + 1 /\ Len(u[p[j] - 1]) \in Nat
        BY <1>2, <3>2
      <3>. QED  BY <2>2, <2>3, <3>3
    <2>. QED  BY <1>3, <1>6, <2>1, <2>4, Zenon
  <1>. QED  BY <1>7, <1>8 DEF p, place

\* Kept positions are in their order.
LEMMA KeptSorted ==
  ASSUME NEW n \in Nat, NEW kept \in SUBSET (1..n)
  PROVE  LET p == KeptOf(kept, n) IN
         /\ p \in Seq(1..n)
         /\ \A j \in 1..Len(p) : j + 1 <= Len(p) => p[j] < p[j + 1]
         /\ kept = {p[j] : j \in 1..Len(p)}
  <1>. DEFINE p == KeptOf(kept, n)
              u == KeptUpto(kept, n)
  <1>1. p = u[n] /\ p \in Seq(1..n)
    BY KeptUptoType DEF KeptOf
  <1>2. /\ \A i \in kept : /\ Cardinality(kept \cap (1..i)) \in 1..Len(p)
                           /\ p[Cardinality(kept \cap (1..i))] = i
        /\ \A j \in 1..Len(p) : p[j] \in kept /\ Cardinality(kept \cap (1..p[j])) = j
    BY KeptPlace
  <1>3. \A k \in 0..n : /\ Len(u[k]) = Cardinality(kept \cap (1..k))
                        /\ \A j \in 1..Len(p) : j > Len(u[k]) => p[j] > k
    BY KeptUptoLen, KeptUptoGrows, Zenon
  <1>. HIDE DEF p, u
  <1>4. ASSUME NEW j \in 1..Len(p), j + 1 <= Len(p)  PROVE p[j] < p[j + 1]
    <2>0. Len(p) \in Nat /\ p[j] \in 1..n
      BY <1>1
    <2>1. p[j] \in 0..n /\ Len(u[p[j]]) = j /\ j + 1 \in 1..Len(p)
      <3>1. p[j] \in 0..n /\ j + 1 \in 1..Len(p)
        BY <1>4, <2>0
      <3>. QED  BY <1>2, <1>3, <3>1, Zenon
    <2>2. j + 1 > j /\ p[j + 1] \in 1..n
      BY <1>1, <2>1
    <2>3. p[j + 1] > p[j]
      BY <1>3, <2>1, <2>2, Zenon
    <2>. QED  BY <2>0, <2>2, <2>3
  <1>5. kept = {p[j] : j \in 1..Len(p)}
    BY <1>2, Zenon
  <1>. QED  BY <1>1, <1>4, <1>5 DEF p

\* A position is added to the list of those that are kept if it is one of them.
LEMMA KeptNext ==
  ASSUME NEW kept, NEW n \in Nat, NEW i \in 1..n
  PROVE  /\ i \in kept => KeptUpto(kept, n)[i] = Append(KeptUpto(kept, n)[i - 1], i)
         /\ i \notin kept => KeptUpto(kept, n)[i] = KeptUpto(kept, n)[i - 1]
  <1>1. i - 1 \in 0..n /\ i - 1 < n /\ (i - 1) + 1 = i
    OBVIOUS
  <1>. DEFINE u == KeptUpto(kept, n)
  <1>2. \A k \in 0..n : k < n => u[k + 1] = IF k + 1 \in kept THEN Append(u[k], k + 1) ELSE u[k]
    BY KeptUptoAt
  <1>. HIDE DEF u
  <1>3. u[i] = IF i \in kept THEN Append(u[i - 1], i) ELSE u[i - 1]
    BY <1>1, <1>2
  <1>. QED  BY <1>3, Zenon DEF u

\* The list is empty before the first of them.
LEMMA KeptNone ==
  ASSUME NEW kept, NEW n \in Nat, NEW k \in 0..n, \A i \in 1..k : i \notin kept
  PROVE  KeptUpto(kept, n)[k] = <<>>
  <1>. DEFINE s == KeptUpto(kept, n)[k]
  <1>1. s \in Seq(1..n) /\ Len(s) \in 0..k /\ \A j \in 1..Len(s) : s[j] \in kept /\ s[j] \in j..k
    BY KeptUptoType
  <1>. HIDE DEF s
  <1>2. Len(s) = 0
    <2>1. SUFFICES ASSUME Len(s) # 0  PROVE FALSE
      OBVIOUS
    <2>2. 1 \in 1..Len(s) /\ s[1] \in 1..k
      BY <1>1, <2>1
    <2>. QED  BY <1>1, <2>2
  <1>3. s = <<>>
    BY <1>1, <1>2
  <1>. QED  BY <1>3 DEF s

\* No positions are kept of none.
LEMMA KeptEmpty == ASSUME NEW n \in Nat  PROVE KeptOf({}, n) = <<>>
  <1>1. n \in 0..n
    OBVIOUS
  <1>. QED  BY <1>1, KeptNone, Zenon DEF KeptOf
==============================================================================
