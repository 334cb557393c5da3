-------------------------- MODULE SharedRecordsProof --------------------------
(***************************************************************************)
(* Proofs about SharedRecords: for any number of tables, threads and       *)
(* records, a record's strong count is the number of handles to it.        *)
(***************************************************************************)
EXTENDS SharedRecords, NaturalLemmas, FiniteSetTheorems, SequenceTheorems

-----------------------------------------------------------------------------
(* How often an element is in a sequence.                                  *)

Occ(s, a) == Cardinality(Where(s, a))

Same(x, y) == IF x = y THEN 1 ELSE 0

LEMMA WhereFinite ==
  ASSUME NEW S, NEW s \in Seq(S), NEW a
  PROVE  IsFiniteSet(Where(s, a)) /\ Where(s, a) \subseteq 1..Len(s) /\ Occ(s, a) \in Nat
  <1>1. Where(s, a) \subseteq 1..Len(s)
    BY DEF Where
  <1>2. IsFiniteSet(1..Len(s))
    BY FS_Interval
  <1>3. IsFiniteSet(Where(s, a))
    BY <1>1, <1>2, FS_Subset
  <1>. QED  BY <1>1, <1>3, FS_CardinalityType DEF Occ

LEMMA OccEmpty == \A a : Occ(<<>>, a) = 0
  BY FS_EmptySet DEF Occ, Where

LEMMA OccSingle ==
  ASSUME NEW x, NEW a
  PROVE  Occ(<<x>>, a) = Same(x, a)
  <1>1. CASE x = a
    <2>1. Where(<<x>>, a) = {1}
      BY <1>1 DEF Where
    <2>. QED  BY <1>1, <2>1, FS_Singleton DEF Occ, Same
  <1>2. CASE x # a
    <2>1. Where(<<x>>, a) = {}
      BY <1>2 DEF Where
    <2>. QED  BY <1>2, <2>1, FS_EmptySet DEF Occ, Same
  <1>. QED  BY <1>1, <1>2

\* A set of numbers keeps its size when it is shifted.
LEMMA ShiftKeepsSize ==
  ASSUME NEW T \in SUBSET Nat, IsFiniteSet(T), NEW n \in Nat
  PROVE  /\ IsFiniteSet({i + n : i \in T})
         /\ Cardinality({i + n : i \in T}) = Cardinality(T)
  <1>. DEFINE U == {i + n : i \in T}
              f == [i \in T |-> i + n]
  <1>1. f \in [T -> U] /\ IsInjective(f) /\ \A u \in U : \E i \in T : f[i] = u
    BY DEF IsInjective
  <1>. HIDE DEF f, U
  <1>2. f \in Bijection(T, U)
    BY <1>1 DEF Bijection, Injection, Surjection
  <1>3. ExistsBijection(T, U)
    BY <1>2 DEF ExistsBijection
  <1>4. IsFiniteSet(U) /\ Cardinality(U) = Cardinality(T)
    BY <1>3, FS_Bijection
  <1>. QED  BY <1>4 DEF U

LEMMA OccConcat ==
  ASSUME NEW S, NEW s \in Seq(S), NEW t \in Seq(S), NEW a
  PROVE  Occ(s \o t, a) = Occ(s, a) + Occ(t, a)
  <1>. DEFINE U == {i + Len(s) : i \in Where(t, a)}
  <1>1. Where(s \o t, a) = Where(s, a) \cup U
    <2>1. /\ DOMAIN (s \o t) = 1..(Len(s) + Len(t))
          /\ \A i \in 1..(Len(s) + Len(t)) :
               (s \o t)[i] = IF i <= Len(s) THEN s[i] ELSE t[i - Len(s)]
      BY ConcatProperties, LenProperties
    <2>2. ASSUME NEW i \in Where(s \o t, a)  PROVE i \in Where(s, a) \cup U
      <3>1. CASE i <= Len(s)
        BY <2>1, <3>1 DEF Where
      <3>2. CASE i > Len(s)
        <4>1. i - Len(s) \in Where(t, a) /\ i = (i - Len(s)) + Len(s)
          BY <2>1, <3>2 DEF Where
        <4>. QED  BY <4>1
      <3>. QED  BY <2>1, <3>1, <3>2 DEF Where
    <2>3. ASSUME NEW i \in Where(s, a) \cup U  PROVE i \in Where(s \o t, a)
      BY <2>1 DEF Where
    <2>. QED  BY <2>2, <2>3
  <1>2. Where(s, a) \cap U = {}
    <2>1. \A i \in Where(t, a) : i > 0
      BY DEF Where
    <2>2. \A i \in Where(s, a) : i <= Len(s)
      BY DEF Where
    <2>. QED  BY <2>1, <2>2, WhereFinite
  <1>3. /\ IsFiniteSet(Where(s, a)) /\ IsFiniteSet(Where(t, a)) /\ Where(t, a) \subseteq Nat
        /\ Occ(s, a) \in Nat /\ Occ(t, a) \in Nat
    BY WhereFinite
  <1>4. IsFiniteSet(U) /\ Cardinality(U) = Occ(t, a)
    <2>1. Len(s) \in Nat /\ Where(t, a) \in SUBSET Nat
      BY <1>3, LenProperties
    <2>2. IsFiniteSet(U) /\ Cardinality(U) = Cardinality(Where(t, a))
      BY <1>3, <2>1, ShiftKeepsSize
    <2>. QED  BY <2>2 DEF Occ
  <1>. HIDE DEF U
  <1>5. Cardinality(Where(s, a) \cup U) = Occ(s, a) + Occ(t, a) - Cardinality({})
    <2>1. Cardinality(Where(s, a) \cup U)
            = Cardinality(Where(s, a)) + Cardinality(U) - Cardinality(Where(s, a) \cap U)
      BY <1>3, <1>4, FS_Union
    <2>. QED  BY <1>2, <1>4, <2>1 DEF Occ
  <1>. QED  BY <1>1, <1>3, <1>5, FS_EmptySet DEF Occ

LEMMA OccAppend ==
  ASSUME NEW S, NEW s \in Seq(S), NEW x \in S, NEW a
  PROVE  Occ(Append(s, x), a) = Occ(s, a) + Same(x, a)
  <1>1. Append(s, x) = s \o <<x>> /\ <<x>> \in Seq(S)
    BY AppendIsConcat
  <1>2. Occ(s \o <<x>>, a) = Occ(s, a) + Occ(<<x>>, a)
    BY <1>1, OccConcat
  <1>3. Occ(<<x>>, a) = Same(x, a)
    BY OccSingle
  <1>. QED  BY <1>1, <1>2, <1>3

\* One element is put in place of another.
LEMMA OccExcept ==
  ASSUME NEW S, NEW s \in Seq(S), NEW k \in DOMAIN s, NEW b \in S, NEW a
  PROVE  Occ([s EXCEPT ![k] = b], a) + Same(s[k], a) = Occ(s, a) + Same(b, a)
  <1>. DEFINE W == Where(s, a)
              V == Where([s EXCEPT ![k] = b], a)
  <1>1. V = IF b = a THEN W \cup {k} ELSE W \ {k}
    BY DEF Where
  <1>2. IsFiniteSet(W) /\ Cardinality(W) \in Nat
    BY WhereFinite, FS_CardinalityType
  <1>3. k \in W <=> s[k] = a
    BY DEF Where
  <1>. HIDE DEF W, V
  <1>4. Cardinality(W \cup {k}) = IF k \in W THEN Cardinality(W) ELSE Cardinality(W) + 1
    BY <1>2, FS_AddElement
  <1>5. Cardinality(W \ {k}) = IF k \in W THEN Cardinality(W) - 1 ELSE Cardinality(W)
    BY <1>2, FS_RemoveElement
  <1>6. Cardinality(V) + Same(s[k], a) = Cardinality(W) + Same(b, a)
    BY <1>1, <1>2, <1>3, <1>4, <1>5 DEF Same
  <1>. QED  BY <1>6 DEF Occ, W, V

\* One element is taken out.
LEMMA OccWithout ==
  ASSUME NEW S, NEW s \in Seq(S), NEW k \in DOMAIN s, NEW a
  PROVE  Without(s, k) \in Seq(S) /\ Occ(s, a) = Occ(Without(s, k), a) + Same(s[k], a)
  <1>. DEFINE front == SubSeq(s, 1, k - 1)
              back == SubSeq(s, k + 1, Len(s))
  <1>1. front \in Seq(S) /\ back \in Seq(S) /\ <<s[k]>> \in Seq(S) /\ k \in 1..Len(s)
    BY DEF Where
  <1>2. s = (front \o <<s[k]>>) \o back
    <2>1. SubSeq(s, 1, k) = front \o <<s[k]>>
      <3>1. k \in 1..Len(s) /\ 1 \in 1..Len(s)
        BY <1>1
      <3>. QED  BY <3>1, SubSeqRecursiveSecond
    <2>2. SubSeq(s, 1, k) \o back = SubSeq(s, 1, Len(s))
      <3>1. 1 \in 1..(Len(s) + 1) /\ k \in (1 - 1)..Len(s) /\ Len(s) \in k..Len(s)
        BY <1>1
      <3>. QED  BY <3>1, ConcatAdjacentSubSeq
    <2>. QED  BY <2>1, <2>2, SubSeqFull
  <1>. HIDE DEF front, back
  <1>3. front \o <<s[k]>> \in Seq(S)
    BY <1>1
  <1>4. Occ(s, a) = Occ(front, a) + Occ(<<s[k]>>, a) + Occ(back, a)
    <2>1. Occ((front \o <<s[k]>>) \o back, a) = Occ(front \o <<s[k]>>, a) + Occ(back, a)
      BY <1>1, <1>3, OccConcat
    <2>2. Occ(front \o <<s[k]>>, a) = Occ(front, a) + Occ(<<s[k]>>, a)
      BY <1>1, OccConcat
    <2>3. Occ(s, a) = Occ((front \o <<s[k]>>) \o back, a)
      BY <1>2
    <2>. QED  BY <2>1, <2>2, <2>3
  <1>5. Occ(front \o back, a) = Occ(front, a) + Occ(back, a)
    BY <1>1, OccConcat
  <1>6. Occ(front, a) \in Nat /\ Occ(back, a) \in Nat
    BY <1>1, WhereFinite
  <1>7. Occ(<<s[k]>>, a) = Same(s[k], a)
    BY OccSingle
  <1>. QED  BY <1>1, <1>4, <1>5, <1>6, <1>7 DEF Without, front, back, Same

-----------------------------------------------------------------------------
(* How many places hold an element, when a holder's sequence changes.      *)

\* The places of all holders but one.
Others(held, w, a) == UNION {{x} \X Where(held[x], a) : x \in DOMAIN held \ {w}}

LEMMA PlacesSplit ==
  ASSUME NEW held, NEW w \in DOMAIN held, NEW S, held[w] \in Seq(S), NEW a,
         IsFiniteSet(Others(held, w, a))
  PROVE  /\ IsFiniteSet(Places(held, a))
         /\ Cardinality(Places(held, a)) = Cardinality(Others(held, w, a)) + Occ(held[w], a)
         /\ Cardinality(Others(held, w, a)) \in Nat
  <1>. DEFINE mine == {w} \X Where(held[w], a)
  <1>1. Places(held, a) = Others(held, w, a) \cup mine
    BY DEF Places, Others
  <1>2. Others(held, w, a) \cap mine = {}
    BY DEF Others
  <1>3. IsFiniteSet(Where(held[w], a)) /\ Occ(held[w], a) \in Nat
    BY WhereFinite
  <1>4. IsFiniteSet({w}) /\ Cardinality({w}) = 1
    BY FS_Singleton
  <1>5. IsFiniteSet(mine) /\ Cardinality(mine) = Occ(held[w], a)
    <2>1. IsFiniteSet(mine) /\ Cardinality(mine) = Cardinality({w}) * Cardinality(Where(held[w], a))
      BY <1>3, <1>4, FS_Product
    <2>. QED  BY <1>3, <1>4, <2>1 DEF Occ
  <1>. HIDE DEF mine
  <1>6. /\ IsFiniteSet(Others(held, w, a) \cup mine)
        /\ Cardinality(Others(held, w, a) \cup mine)
             = Cardinality(Others(held, w, a)) + Cardinality(mine)
                 - Cardinality(Others(held, w, a) \cap mine)
    BY <1>5, FS_Union
  <1>7. Cardinality(Others(held, w, a)) \in Nat
    BY FS_CardinalityType
  <1>8. Cardinality(Others(held, w, a) \cap mine) = 0
    BY <1>2, FS_EmptySet
  <1>. QED  BY <1>1, <1>3, <1>5, <1>6, <1>7, <1>8

LEMMA OthersFinite ==
  ASSUME NEW held, NEW w, NEW a, IsFiniteSet(Places(held, a))
  PROVE  IsFiniteSet(Others(held, w, a))
  <1>1. Others(held, w, a) \subseteq Places(held, a)
    BY DEF Others, Places
  <1>. QED  BY <1>1, FS_Subset

\* The places change by what one holder's sequence changes by.
LEMMA OneHolderChanges ==
  ASSUME NEW f, NEW g, DOMAIN g = DOMAIN f, NEW w \in DOMAIN f,
         \A x \in DOMAIN f : x # w => g[x] = f[x],
         NEW S, f[w] \in Seq(S), g[w] \in Seq(S), NEW a, IsFiniteSet(Places(f, a))
  PROVE  /\ IsFiniteSet(Places(g, a))
         /\ Cardinality(Places(f, a)) \in Nat /\ Cardinality(Places(g, a)) \in Nat
         /\ Cardinality(Places(g, a)) + Occ(f[w], a) = Cardinality(Places(f, a)) + Occ(g[w], a)
  <1>1. Others(g, w, a) = Others(f, w, a)
    BY DEF Others
  <1>2. IsFiniteSet(Others(f, w, a)) /\ IsFiniteSet(Others(g, w, a))
    BY <1>1, OthersFinite
  <1>3. /\ IsFiniteSet(Places(g, a))
        /\ Cardinality(Places(g, a)) = Cardinality(Others(g, w, a)) + Occ(g[w], a)
        /\ Cardinality(Others(g, w, a)) \in Nat
    BY <1>2, PlacesSplit
  <1>4. Cardinality(Places(f, a)) = Cardinality(Others(f, w, a)) + Occ(f[w], a)
    BY <1>2, PlacesSplit
  <1>5. Occ(f[w], a) \in Nat /\ Occ(g[w], a) \in Nat
    BY WhereFinite
  <1>. QED  BY <1>1, <1>3, <1>4, <1>5

LEMMA TwoChangesAdd ==
  \A p, q, r, i, j, k, l \in Nat :
    q + i = p + j /\ r + k = q + l => r + i + k = p + j + l
  OBVIOUS

\* The same if two holders change.
LEMMA TwoHoldersChange ==
  ASSUME NEW f, NEW g, DOMAIN g = DOMAIN f, NEW v \in DOMAIN f, NEW w \in DOMAIN f, v # w,
         f = [x \in DOMAIN f |-> f[x]],
         \A x \in DOMAIN f : x # v /\ x # w => g[x] = f[x],
         NEW S, f[v] \in Seq(S), g[v] \in Seq(S), f[w] \in Seq(S), g[w] \in Seq(S),
         NEW a, IsFiniteSet(Places(f, a))
  PROVE  /\ IsFiniteSet(Places(g, a))
         /\ Cardinality(Places(f, a)) \in Nat /\ Cardinality(Places(g, a)) \in Nat
         /\ Cardinality(Places(g, a)) + Occ(f[v], a) + Occ(f[w], a)
              = Cardinality(Places(f, a)) + Occ(g[v], a) + Occ(g[w], a)
  <1>. DEFINE h == [f EXCEPT ![v] = g[v]]
  <1>1. /\ DOMAIN h = DOMAIN f /\ h[v] = g[v]
        /\ \A x \in DOMAIN f : x # v => h[x] = f[x]
    OBVIOUS
  <1>. HIDE DEF h
  <1>2. /\ IsFiniteSet(Places(h, a))
        /\ Cardinality(Places(f, a)) \in Nat /\ Cardinality(Places(h, a)) \in Nat
        /\ Cardinality(Places(h, a)) + Occ(f[v], a) = Cardinality(Places(f, a)) + Occ(h[v], a)
    <2>1. h[v] \in Seq(S)
      BY <1>1
    <2>. QED  BY <1>1, <2>1, OneHolderChanges
  <1>3. /\ IsFiniteSet(Places(g, a))
        /\ Cardinality(Places(g, a)) \in Nat
        /\ Cardinality(Places(g, a)) + Occ(h[w], a) = Cardinality(Places(h, a)) + Occ(g[w], a)
    <2>1. /\ DOMAIN g = DOMAIN h /\ w \in DOMAIN h /\ h[w] \in Seq(S)
          /\ \A x \in DOMAIN h : x # w => g[x] = h[x]
      BY <1>1
    <2>. QED  BY <1>2, <2>1, OneHolderChanges
  <1>4. /\ Occ(f[v], a) \in Nat /\ Occ(g[v], a) \in Nat
        /\ Occ(f[w], a) \in Nat /\ Occ(g[w], a) \in Nat
    BY WhereFinite
  <1>5. h[v] = g[v] /\ h[w] = f[w]
    BY <1>1
  <1>6. Cardinality(Places(h, a)) + Occ(f[v], a) = Cardinality(Places(f, a)) + Occ(g[v], a)
    BY <1>2, <1>5
  <1>7. Cardinality(Places(g, a)) + Occ(f[w], a) = Cardinality(Places(h, a)) + Occ(g[w], a)
    BY <1>3, <1>5
  <1>8. /\ Cardinality(Places(f, a)) \in Nat /\ Cardinality(Places(h, a)) \in Nat
        /\ Cardinality(Places(g, a)) \in Nat
    BY <1>2, <1>3
  <1>9. Cardinality(Places(g, a)) + Occ(f[v], a) + Occ(f[w], a)
           = Cardinality(Places(f, a)) + Occ(g[v], a) + Occ(g[w], a)
    BY ONLY <1>4, <1>6, <1>7, <1>8, TwoChangesAdd
  <1>. QED  BY <1>3, <1>8, <1>9

\* What is in a place is held.
LEMMA HeldIsPlaced ==
  ASSUME NEW held, NEW w \in DOMAIN held, NEW i \in DOMAIN held[w],
         IsFiniteSet(Places(held, held[w][i]))
  PROVE  Cardinality(Places(held, held[w][i])) \in Nat \ {0}
  <1>1. <<w, i>> \in Places(held, held[w][i])
    BY DEF Places, Where
  <1>. QED  BY <1>1, FS_EmptySet, FS_CardinalityType

-----------------------------------------------------------------------------
(* The list of what the parts of a copy have found.                        *)

\* upto of Joined, as a function of the parts.
Upto(parts) ==
  CHOOSE f : f = [p \in 0..Len(parts) |-> IF p = 0 THEN <<>> ELSE f[p - 1] \o parts[p]]

LEMMA JoinedIsUpto == \A parts : Joined(parts) = Upto(parts)[Len(parts)]
  BY DEF Joined, Upto

\* Joined is well defined.
LEMMA UptoDef ==
  ASSUME NEW parts, Len(parts) \in Nat
  PROVE  Upto(parts) = [p \in 0..Len(parts) |->
                          IF p = 0 THEN <<>> ELSE Upto(parts)[p - 1] \o parts[p]]
  <1>. DEFINE Def(f, n) == f = [p \in 0..n |-> IF p = 0 THEN <<>> ELSE f[p - 1] \o parts[p]]
              T == {n \in Nat : \E f : Def(f, n)}
  <1>1. 0 \in T
    <2>1. Def([p \in 0..0 |-> <<>>], 0)
      OBVIOUS
    <2>. QED  BY <2>1
  <1>2. ASSUME NEW n \in T  PROVE n + 1 \in T
    <2>1. PICK f : Def(f, n)
      OBVIOUS
    <2>. DEFINE g == [p \in 0..(n + 1) |-> IF p <= n THEN f[p] ELSE f[n] \o parts[n + 1]]
    <2>2. \A p \in 0..(n + 1) : g[p] = IF p = 0 THEN <<>> ELSE g[p - 1] \o parts[p]
      <3>. TAKE p \in 0..(n + 1)
      <3>1. CASE p = 0
        BY <2>1, <3>1
      <3>2. CASE p \in 1..n
        BY <2>1, <3>2
      <3>3. CASE p = n + 1
        BY <3>3
      <3>. QED  BY <3>1, <3>2, <3>3
    <2>3. Def(g, n + 1)
      <3>1. DOMAIN g = 0..(n + 1) /\ g = [p \in 0..(n + 1) |-> g[p]]
        OBVIOUS
      <3>. HIDE DEF g
      <3>. QED  BY <2>2, <3>1
    <2>. HIDE DEF g, Def
    <2>. QED  BY <2>3
  <1>3. T = Nat
    <2>1. T \in SUBSET Nat
      OBVIOUS
    <2>. HIDE DEF T
    <2>. QED  BY <1>1, <1>2, <2>1, SetInduction
  <1>4. PICK f : Def(f, Len(parts))
    BY <1>3
  <1>. QED  BY <1>4 DEF Upto

LEMMA UptoAt ==
  ASSUME NEW parts, Len(parts) \in Nat
  PROVE  /\ Upto(parts)[0] = <<>>
         /\ \A p \in 0..Len(parts) :
              p < Len(parts) => Upto(parts)[p + 1] = Upto(parts)[p] \o parts[p + 1]
  <1>. DEFINE u == Upto(parts)
  <1>1. u = [p \in 0..Len(parts) |-> IF p = 0 THEN <<>> ELSE u[p - 1] \o parts[p]]
    BY UptoDef
  <1>. HIDE DEF u
  <1>2. u[0] = <<>>
    BY <1>1
  <1>3. ASSUME NEW p \in 0..Len(parts), p < Len(parts)
        PROVE  u[p + 1] = u[p] \o parts[p + 1]
    <2>1. p + 1 \in 0..Len(parts) /\ p + 1 # 0 /\ (p + 1) - 1 = p
      BY <1>3
    <2>2. u[p + 1] = u[(p + 1) - 1] \o parts[p + 1]
      BY <1>1, <2>1
    <2>. QED  BY <2>1, <2>2
  <1>. QED  BY <1>2, <1>3 DEF u

LEMMA UptoType ==
  ASSUME NEW S, NEW parts \in Seq(Seq(S))
  PROVE  \A p \in 0..Len(parts) : Upto(parts)[p] \in Seq(S)
  <1>. DEFINE T == {p \in 0..Len(parts) : Upto(parts)[p] \in Seq(S)}
  <1>1. Len(parts) \in Nat /\ T \in SUBSET (0..Len(parts))
    OBVIOUS
  <1>2. 0 \in T
    <2>1. Upto(parts)[0] = <<>>
      BY ONLY <1>1, UptoAt
    <2>2. <<>> \in Seq(S) /\ 0 \in 0..Len(parts)
      BY <1>1
    <2>3. Upto(parts)[0] \in Seq(S)
      BY <2>1, <2>2
    <2>. QED  BY <2>2, <2>3
  <1>3. ASSUME NEW p \in 0..Len(parts), p < Len(parts), p \in T
        PROVE  p + 1 \in T
    <2>1. Upto(parts)[p + 1] = Upto(parts)[p] \o parts[p + 1]
      BY <1>1, <1>3, UptoAt
    <2>2. Upto(parts)[p] \in Seq(S) /\ parts[p + 1] \in Seq(S) /\ p + 1 \in 0..Len(parts)
      BY <1>1, <1>3
    <2>3. Upto(parts)[p + 1] \in Seq(S)
      BY <2>1, <2>2
    <2>. QED  BY <2>2, <2>3
  <1>. HIDE DEF T
  <1>4. T = 0..Len(parts)
    BY <1>1, <1>2, <1>3, BoundedInduction
  <1>. QED  BY <1>4 DEF T

LEMMA JoinedType ==
  ASSUME NEW S, NEW parts \in Seq(Seq(S))
  PROVE  Joined(parts) \in Seq(S)
  BY JoinedIsUpto, UptoType, LenProperties

\* Before anything is found the list is empty.
LEMMA JoinedEmpty ==
  ASSUME NEW n \in Nat
  PROVE  Joined([p \in 1..n |-> <<>>]) = <<>>
  <1>. DEFINE parts == [p \in 1..n |-> <<>>]
              T == {p \in 0..n : Upto(parts)[p] = <<>>}
  <1>1. Len(parts) = n /\ \A p \in 1..n : parts[p] = <<>>
    OBVIOUS
  <1>. HIDE DEF parts
  <1>2. 0 \in T
    <2>1. Upto(parts)[0] = <<>>
      BY <1>1, UptoAt
    <2>. QED  BY <1>1, <2>1
  <1>3. ASSUME NEW p \in 0..n, p < n, p \in T
        PROVE  p + 1 \in T
    <2>1. Upto(parts)[p + 1] = Upto(parts)[p] \o parts[p + 1]
      BY <1>1, <1>3, UptoAt
    <2>2. Upto(parts)[p] = <<>> /\ parts[p + 1] = <<>> /\ p + 1 \in 0..n
      BY <1>1, <1>3
    <2>3. Upto(parts)[p + 1] = <<>>
      BY <2>1, <2>2
    <2>. QED  BY <2>2, <2>3
  <1>4. T \in SUBSET (0..n)
    OBVIOUS
  <1>. HIDE DEF T
  <1>5. T = 0..n
    BY <1>2, <1>3, <1>4, BoundedInduction
  <1>6. Upto(parts)[n] = <<>>
    BY <1>5 DEF T
  <1>. QED  BY <1>1, <1>6, JoinedIsUpto DEF parts

\* A handle that a part finds is in the list once more.
LEMMA JoinedAppend ==
  ASSUME NEW S, NEW parts \in Seq(Seq(S)), NEW q \in DOMAIN parts, NEW x \in S, NEW a,
         NEW more \in Seq(Seq(S)), Len(more) = Len(parts),
         \A p \in DOMAIN parts : more[p] = IF p = q THEN Append(parts[p], x) ELSE parts[p]
  PROVE  Occ(Joined(more), a) = Occ(Joined(parts), a) + Same(x, a)
  <1>. DEFINE extra(p) == IF q <= p THEN Same(x, a) ELSE 0
              T == {p \in 0..Len(parts) :
                      Occ(Upto(more)[p], a) = Occ(Upto(parts)[p], a) + extra(p)}
  <1>1. /\ Len(parts) \in Nat
        /\ q \in 1..Len(parts)
        /\ \A p \in 1..Len(parts) : more[p] = IF p = q THEN Append(parts[p], x) ELSE parts[p]
    OBVIOUS
  <1>2. 0 \in T
    <2>1. Upto(parts)[0] = <<>> /\ Upto(more)[0] = <<>>
      BY <1>1, UptoAt
    <2>2. Occ(<<>>, a) = 0 /\ extra(0) = 0
      BY <1>1, OccEmpty
    <2>. HIDE DEF extra
    <2>. QED  BY <1>1, <2>1, <2>2
  <1>3. ASSUME NEW p \in 0..Len(parts), p < Len(parts), p \in T
        PROVE  p + 1 \in T
    <2>1. /\ Upto(parts)[p + 1] = Upto(parts)[p] \o parts[p + 1]
          /\ Upto(more)[p + 1] = Upto(more)[p] \o more[p + 1]
      BY <1>1, <1>3, UptoAt
    <2>2. /\ Upto(parts)[p] \in Seq(S) /\ parts[p + 1] \in Seq(S)
          /\ Upto(more)[p] \in Seq(S) /\ more[p + 1] \in Seq(S)
      BY <1>1, <1>3, UptoType
    <2>3. Occ(Upto(parts)[p + 1], a) = Occ(Upto(parts)[p], a) + Occ(parts[p + 1], a)
      BY <2>1, <2>2, OccConcat
    <2>4. Occ(Upto(more)[p + 1], a) = Occ(Upto(more)[p], a) + Occ(more[p + 1], a)
      BY <2>1, <2>2, OccConcat
    <2>5. Occ(more[p + 1], a) = Occ(parts[p + 1], a) + (IF p + 1 = q THEN Same(x, a) ELSE 0)
      <3>1. CASE p + 1 = q
        <4>1. Occ(Append(parts[p + 1], x), a) = Occ(parts[p + 1], a) + Same(x, a)
          BY <2>2, OccAppend
        <4>. QED  BY <1>1, <3>1, <4>1
      <3>2. CASE p + 1 # q
        <4>1. Occ(parts[p + 1], a) \in Nat
          BY <2>2, WhereFinite
        <4>. QED  BY <1>1, <1>3, <3>2, <4>1
      <3>. QED  BY <3>1, <3>2
    <2>6. /\ Occ(parts[p + 1], a) \in Nat /\ Occ(Upto(parts)[p], a) \in Nat
          /\ Same(x, a) \in Nat
      BY <2>2, WhereFinite DEF Same
    <2>7. extra(p + 1) = extra(p) + (IF p + 1 = q THEN Same(x, a) ELSE 0)
      BY <1>1, <1>3, <2>6
    <2>8. Occ(Upto(more)[p], a) = Occ(Upto(parts)[p], a) + extra(p)
      BY <1>3
    <2>9. extra(p) \in Nat
      BY <2>6
    <2>. HIDE DEF extra
    <2>10. Occ(Upto(more)[p + 1], a) = Occ(Upto(parts)[p + 1], a) + extra(p + 1)
      BY <2>3, <2>4, <2>5, <2>6, <2>7, <2>8, <2>9
    <2>. QED  BY <1>1, <1>3, <2>10
  <1>4. T \in SUBSET (0..Len(parts))
    OBVIOUS
  <1>5. T = 0..Len(parts)
    <2>. HIDE DEF T
    <2>. QED  BY <1>1, <1>2, <1>3, <1>4, BoundedInduction
  <1>6. Occ(Upto(more)[Len(parts)], a) = Occ(Upto(parts)[Len(parts)], a) + Same(x, a)
    <2>1. extra(Len(parts)) = Same(x, a)
      BY <1>1
    <2>. HIDE DEF extra
    <2>2. Len(parts) \in T
      <3>. HIDE DEF T
      <3>. QED  BY <1>1, <1>5
    <2>3. Occ(Upto(more)[Len(parts)], a) = Occ(Upto(parts)[Len(parts)], a) + extra(Len(parts))
      BY <2>2
    <2>. QED  BY <2>1, <2>3
  <1>. QED  BY <1>1, <1>6, JoinedIsUpto

-----------------------------------------------------------------------------
(* The inductive invariant.                                                *)

Gathers == [op : {"gather"}, from : Slots, to : Slots, rows : Seq(Nat \ {0}),
            accepted : SUBSET Records, cut : Nat \ {0},
            visited : Seq(Nat), found : Seq(Seq(Addresses))]

Edits == [op : {"copy", "write"}, at : Slots, row : Nat \ {0}]

Drops == [op : {"drop"}, handles : Seq(Addresses), parallel : BOOLEAN]

Jobs == {Idle} \cup Gathers \cup Edits \cup Drops

Memory == [Addresses -> [value : Records, strong : Nat \ {0}] \cup {NULL}]

TypeOK ==
  /\ heap \in Memory
  /\ table \in [Slots -> Seq(Addresses) \cup {NULL}]
  /\ single \in [Threads -> Addresses \cup {NULL}]
  /\ job \in [Threads -> Jobs]

\* A copy reads rows that are there, and its result is awaited by nobody else.
GatherOK(h) ==
  job[h].op = "gather" =>
    /\ Exists(job[h].from) /\ ~Exists(job[h].to)
    /\ \A k \in DOMAIN job[h].rows : job[h].rows[k] \in DOMAIN table[job[h].from]
    /\ Len(job[h].found) = Len(job[h].visited)
    /\ \A g \in Threads :
         /\ ~Changes(g, job[h].from)
         /\ g # h => ~Makes(g, job[h].to)

\* An edit has its table to itself.
EditOK(h) ==
  job[h].op \in {"copy", "write"} =>
    /\ Exists(job[h].at) /\ job[h].row \in DOMAIN table[job[h].at]
    /\ \A g \in Threads : g # h => ~Changes(g, job[h].at)

Borrows == \A h \in Threads : GatherOK(h) /\ EditOK(h)

Held == [w \in Holders |-> Handles(w)]

StrongIn(memory, a) == IF memory[a] = NULL THEN 0 ELSE memory[a].strong

Strong(a) == StrongIn(heap, a)

Exact == \A a \in Addresses :
  IsFiniteSet(Places(Held, a)) /\ Cardinality(Places(Held, a)) = Strong(a)

\* What is being written to has no other handle.
EditedAlone == \A h \in Threads :
  job[h].op = "write" => Strong(table[job[h].at][job[h].row]) = 1

IInv == TypeOK /\ Borrows /\ Exact /\ EditedAlone

\* The rows that a copy goes through.
Source(work) == [k \in DOMAIN work.rows |-> ValueAt(table[work.from][work.rows[k]])]

\* What of the first elements of a sequence is accepted.
ChosenUpto(s, accepted) ==
  LET upto[i \in 0..Len(s)] ==
        IF i = 0 THEN <<>>
        ELSE IF s[i] \in accepted THEN Append(upto[i - 1], s[i]) ELSE upto[i - 1]
  IN upto

Accepted(work) == ChosenUpto(Source(work), work.accepted)

\* A part of a copy has found what is accepted of the rows that it has visited.
PartFound(work, p) ==
  /\ work.visited[p] <= PartLen(work, p)
  /\ \A k \in DOMAIN work.found[p] :
       \E i \in DOMAIN table[work.from] : work.found[p][k] = table[work.from][i]
  /\ Accepted(work)[(p - 1) * work.cut + work.visited[p]]
       = Accepted(work)[(p - 1) * work.cut] \o Values(work.found[p])

\* A copy is one of all rows or one that accepts all rows.
FoundIn(work) ==
  /\ \/ work.rows = [i \in DOMAIN table[work.from] |-> i]
     \/ work.rows \in Selections /\ work.accepted = Records
  /\ DOMAIN work.visited = Parts(Len(work.rows), work.cut)
  /\ \A p \in DOMAIN work.visited : PartFound(work, p)

Copies == \A h \in Threads, work \in Gathers : job[h] = work => FoundIn(work)

-----------------------------------------------------------------------------
(* Memory.                                                                 *)

LEMMA MemoryTyped ==
  ASSUME NEW m \in Memory, NEW a \in Addresses
  PROVE  /\ StrongIn(m, a) \in Nat
         /\ m[a] = NULL <=> StrongIn(m, a) = 0
         /\ m[a] # NULL => /\ m[a] \in [value : Records, strong : Nat \ {0}]
                           /\ m[a].strong = StrongIn(m, a)
  BY DEF Memory, StrongIn

LEMMA AllocatedCounts ==
  ASSUME NEW m \in Memory, NEW a \in Addresses, NEW v \in Records, m[a] = NULL
  PROVE  /\ Allocated(m, a, v) \in Memory
         /\ \A b \in Addresses : StrongIn(Allocated(m, a, v), b) = StrongIn(m, b) + Same(a, b)
  <1>. DEFINE r == [value |-> v, strong |-> 1]
              n == Allocated(m, a, v)
  <1>1. r \in [value : Records, strong : Nat \ {0}] /\ r.strong = 1
    OBVIOUS
  <1>2. r # NULL
    BY <1>1, NullAssumption
  <1>. HIDE DEF r
  <1>3. n \in Memory /\ \A b \in Addresses : n[b] = IF a = b THEN r ELSE m[b]
    BY <1>1 DEF Memory, Allocated, r
  <1>. HIDE DEF n
  <1>. QED  BY <1>1, <1>2, <1>3, MemoryTyped DEF StrongIn, Same, n

LEMMA ClonedCounts ==
  ASSUME NEW m \in Memory, NEW a \in Addresses, m[a] # NULL
  PROVE  /\ Cloned(m, a) \in Memory
         /\ \A b \in Addresses : StrongIn(Cloned(m, a), b) = StrongIn(m, b) + Same(a, b)
  <1>. DEFINE r == [m[a] EXCEPT !.strong = @ + 1]
              n == Cloned(m, a)
  <1>1. r \in [value : Records, strong : Nat \ {0}] /\ r.strong = StrongIn(m, a) + 1
    BY MemoryTyped DEF StrongIn
  <1>2. r # NULL
    BY <1>1, NullAssumption
  <1>. HIDE DEF r
  <1>3. n \in Memory /\ \A b \in Addresses : n[b] = IF a = b THEN r ELSE m[b]
    BY <1>1 DEF Memory, Cloned, r
  <1>. HIDE DEF n
  <1>4. ASSUME NEW b \in Addresses  PROVE StrongIn(n, b) = StrongIn(m, b) + Same(a, b)
    BY <1>1, <1>2, <1>3, MemoryTyped DEF StrongIn, Same
  <1>. QED  BY <1>3, <1>4 DEF n

LEMMA DroppedCounts ==
  ASSUME NEW m \in Memory, NEW a \in Addresses, m[a] # NULL
  PROVE  /\ Dropped(m, a) \in Memory
         /\ \A b \in Addresses : StrongIn(m, b) = StrongIn(Dropped(m, a), b) + Same(a, b)
  <1>. DEFINE r == [value |-> m[a].value, strong |-> m[a].strong - 1]
              n == Dropped(m, a)
  <1>1. CASE m[a].strong = 1
    <2>1. n \in Memory /\ \A b \in Addresses : n[b] = IF a = b THEN NULL ELSE m[b]
      BY <1>1 DEF Memory, Dropped
    <2>. HIDE DEF n
    <2>2. ASSUME NEW b \in Addresses  PROVE StrongIn(m, b) = StrongIn(n, b) + Same(a, b)
      BY <1>1, <2>1, MemoryTyped DEF StrongIn, Same
    <2>. QED  BY <2>1, <2>2 DEF n
  <1>2. CASE m[a].strong # 1
    <2>1. /\ r \in [value : Records, strong : Nat \ {0}]
          /\ StrongIn(m, a) = r.strong + 1
      BY <1>2, MemoryTyped DEF StrongIn
    <2>2. r # NULL
      BY <2>1, NullAssumption
    <2>. HIDE DEF r
    <2>3. n \in Memory /\ \A b \in Addresses : n[b] = IF a = b THEN r ELSE m[b]
      <3>1. n = [m EXCEPT ![a] = r]
        BY <1>2 DEF Dropped, r
      <3>. QED  BY <2>1, <3>1 DEF Memory
    <2>. HIDE DEF n
    <2>4. ASSUME NEW b \in Addresses  PROVE StrongIn(m, b) = StrongIn(n, b) + Same(a, b)
      BY <2>1, <2>2, <2>3, MemoryTyped DEF StrongIn, Same
    <2>. QED  BY <2>3, <2>4 DEF n
  <1>. QED  BY <1>1, <1>2

\* What a copied record and its old handle do to the counts.
LEMMA CopyCounts ==
  ASSUME NEW m \in Memory, NEW a \in Addresses, m[a] # NULL, NEW b \in Addresses, m[b] = NULL
  PROVE  /\ Dropped(Allocated(m, b, m[a].value), a) \in Memory
         /\ \A c \in Addresses :
              StrongIn(m, c) + Same(b, c)
                = StrongIn(Dropped(Allocated(m, b, m[a].value), a), c) + Same(a, c)
  <1>. DEFINE n == Allocated(m, b, m[a].value)
  <1>1. m[a].value \in Records
    BY MemoryTyped
  <1>2. n \in Memory /\ \A c \in Addresses : StrongIn(n, c) = StrongIn(m, c) + Same(b, c)
    BY <1>1, AllocatedCounts
  <1>3. n[a] # NULL
    BY DEF Allocated, Memory
  <1>. HIDE DEF n
  <1>4. /\ Dropped(n, a) \in Memory
        /\ \A c \in Addresses : StrongIn(n, c) = StrongIn(Dropped(n, a), c) + Same(a, c)
    BY <1>2, <1>3, DroppedCounts
  <1>. QED  BY <1>2, <1>4 DEF n

-----------------------------------------------------------------------------
(* Handles are handles to records that live.                               *)

LEMMA JobKinds ==
  ASSUME TypeOK, NEW h \in Threads
  PROVE  /\ job[h] \in Jobs
         /\ job[h].op \in {"idle", "gather", "copy", "write", "drop"}
         /\ job[h].op = "idle" => job[h] = Idle
         /\ job[h].op = "gather" => job[h] \in Gathers
         /\ job[h].op \in {"copy", "write"} => job[h] \in Edits
         /\ job[h].op = "drop" => job[h] \in Drops
  BY DEF TypeOK, Jobs, Idle, Gathers, Edits, Drops

LEMMA HandlesOf ==
  /\ \A t \in Slots : /\ <<"table", t>> \in Holders
                      /\ Handles(<<"table", t>>) = IF Exists(t) THEN table[t] ELSE <<>>
  /\ \A h \in Threads :
       /\ <<"single", h>> \in Holders
       /\ Handles(<<"single", h>>) = IF single[h] = NULL THEN <<>> ELSE <<single[h]>>
       /\ <<"job", h>> \in Holders
       /\ Handles(<<"job", h>>) = HeldBy(job[h])
  /\ \A w \in Holders : \/ \E t \in Slots : w = <<"table", t>>
                        \/ \E h \in Threads : w = <<"single", h>>
                        \/ \E h \in Threads : w = <<"job", h>>
  BY DEF Holders, Handles

LEMMA HandlesTyped ==
  TypeOK => \A w \in Holders : Handles(w) \in Seq(Addresses)
  <1>. SUFFICES ASSUME TypeOK, NEW w \in Holders  PROVE Handles(w) \in Seq(Addresses)
    OBVIOUS
  <1>0. <<>> \in Seq(Addresses)
    OBVIOUS
  <1>1. ASSUME NEW t \in Slots  PROVE Handles(<<"table", t>>) \in Seq(Addresses)
    <2>1. Exists(t) => table[t] \in Seq(Addresses)
      BY DEF TypeOK, Exists
    <2>. QED  BY <1>0, <2>1, HandlesOf
  <1>2. ASSUME NEW h \in Threads  PROVE Handles(<<"single", h>>) \in Seq(Addresses)
    <2>1. single[h] # NULL => <<single[h]>> \in Seq(Addresses)
      BY DEF TypeOK
    <2>. QED  BY <1>0, <2>1, HandlesOf
  <1>3. ASSUME NEW h \in Threads  PROVE Handles(<<"job", h>>) \in Seq(Addresses)
    <2>1. CASE job[h].op = "gather"
      <3>1. job[h].found \in Seq(Seq(Addresses))
        BY <2>1, JobKinds DEF Gathers
      <3>. QED  BY <2>1, <3>1, HandlesOf, JoinedType DEF HeldBy
    <2>2. CASE job[h].op = "drop"
      BY <2>2, HandlesOf, JobKinds DEF HeldBy, Drops
    <2>3. CASE job[h].op # "gather" /\ job[h].op # "drop"
      BY <1>0, <2>3, HandlesOf DEF HeldBy
    <2>. QED  BY <2>1, <2>2, <2>3
  <1>. QED  BY <1>1, <1>2, <1>3, HandlesOf

LEMMA HandleLives ==
  ASSUME TypeOK, Exact, NEW w \in Holders, NEW i \in DOMAIN Handles(w)
  PROVE  Handles(w)[i] \in Addresses /\ heap[Handles(w)[i]] # NULL
  <1>1. Handles(w)[i] \in Addresses
    BY HandlesTyped
  <1>2. w \in DOMAIN Held /\ Held[w] = Handles(w)
    BY DEF Held
  <1>3. IsFiniteSet(Places(Held, Held[w][i]))
    BY <1>1, <1>2 DEF Exact
  <1>4. Cardinality(Places(Held, Held[w][i])) \in Nat \ {0}
    BY <1>2, <1>3, HeldIsPlaced
  <1>5. Strong(Handles(w)[i]) # 0
    BY <1>1, <1>2, <1>4 DEF Exact
  <1>. QED  BY <1>1, <1>5, MemoryTyped DEF Strong, TypeOK

LEMMA RowLives ==
  ASSUME TypeOK, Exact, NEW t \in Slots, Exists(t), NEW i \in DOMAIN table[t]
  PROVE  /\ table[t][i] \in Addresses /\ heap[table[t][i]] # NULL
         /\ table[t] \in Seq(Addresses)
  <1>1. Handles(<<"table", t>>) = table[t] /\ <<"table", t>> \in Holders
    BY HandlesOf
  <1>. QED  BY <1>1, HandleLives, HandlesTyped

LEMMA SingleLives ==
  ASSUME TypeOK, Exact, NEW h \in Threads, single[h] # NULL
  PROVE  single[h] \in Addresses /\ heap[single[h]] # NULL
  <1>1. Handles(<<"single", h>>) = <<single[h]>> /\ <<"single", h>> \in Holders
    BY HandlesOf
  <1>2. 1 \in DOMAIN Handles(<<"single", h>>) /\ Handles(<<"single", h>>)[1] = single[h]
    BY <1>1
  <1>. QED  BY <1>1, <1>2, HandleLives

LEMMA DropLives ==
  ASSUME TypeOK, Exact, NEW h \in Threads, job[h].op = "drop", NEW k \in DOMAIN job[h].handles
  PROVE  job[h].handles[k] \in Addresses /\ heap[job[h].handles[k]] # NULL
  <1>1. Handles(<<"job", h>>) = job[h].handles /\ <<"job", h>> \in Holders
    BY HandlesOf DEF HeldBy
  <1>. QED  BY <1>1, HandleLives

LEMMA HandlesTypedNext == TypeOK' => (\A w \in Holders : Handles(w) \in Seq(Addresses))'
  BY HandlesTyped, PTL

LEMMA HandlesOfNext ==
  /\ \A t \in Slots : /\ <<"table", t>> \in Holders
                      /\ Handles(<<"table", t>>)' = IF Exists(t)' THEN table'[t] ELSE <<>>
  /\ \A h \in Threads :
       /\ <<"single", h>> \in Holders
       /\ Handles(<<"single", h>>)' = IF single'[h] = NULL THEN <<>> ELSE <<single'[h]>>
       /\ <<"job", h>> \in Holders
       /\ Handles(<<"job", h>>)' = HeldBy(job'[h])
  BY DEF Holders, Handles

\* All holders but those of W hold what they held.
LEMMA HandlesElsewhere ==
  ASSUME NEW W,
         \A t \in Slots : <<"table", t>> \notin W => table'[t] = table[t],
         \A h \in Threads : <<"single", h>> \notin W => single'[h] = single[h],
         \A h \in Threads : <<"job", h>> \notin W => HeldBy(job'[h]) = HeldBy(job[h])
  PROVE  \A w \in Holders : w \notin W => Handles(w)' = Handles(w)
  <1>1. ASSUME NEW t \in Slots, <<"table", t>> \notin W
        PROVE  Handles(<<"table", t>>)' = Handles(<<"table", t>>)
    BY <1>1, HandlesOf, HandlesOfNext DEF Exists
  <1>2. ASSUME NEW h \in Threads, <<"single", h>> \notin W
        PROVE  Handles(<<"single", h>>)' = Handles(<<"single", h>>)
    <2>1. single'[h] = single[h]
      BY <1>2
    <2>. QED  BY <2>1, HandlesOf, HandlesOfNext
  <1>3. ASSUME NEW h \in Threads, <<"job", h>> \notin W
        PROVE  Handles(<<"job", h>>)' = Handles(<<"job", h>>)
    <2>1. HeldBy(job'[h]) = HeldBy(job[h])
      BY <1>3
    <2>. QED  BY <2>1, HandlesOf, HandlesOfNext
  <1>. QED  BY <1>1, <1>2, <1>3, HandlesOf

LEMMA HandlesEverywhere ==
  ASSUME UNCHANGED <<table, single>>,
         \A h \in Threads : HeldBy(job'[h]) = HeldBy(job[h])
  PROVE  \A w \in Holders : Handles(w)' = Handles(w)
  <1>. DEFINE W == {}
  <1>1. \A w \in Holders : w \notin W => Handles(w)' = Handles(w)
    <2>. HIDE DEF W
    <2>. QED  BY HandlesElsewhere
  <1>. QED  BY <1>1

LEMMA ExactKept ==
  ASSUME Exact, \A w \in Holders : Handles(w)' = Handles(w),
         \A a \in Addresses : Strong(a)' = Strong(a)
  PROVE  Exact'
  <1>1. Held' = Held
    BY DEF Held
  <1>. QED  BY <1>1 DEF Exact

\* The counts follow what one holder takes or gives up.
LEMMA ExactOne ==
  ASSUME TypeOK, TypeOK', Exact, NEW w \in Holders,
         \A x \in Holders : x \notin {w} => Handles(x)' = Handles(x),
         \A a \in Addresses :
           Strong(a)' + Occ(Handles(w), a) = Strong(a) + Occ(Handles(w)', a)
  PROVE  Exact'
  <1>. DEFINE f == Held
              g == Held'
  <1>1. /\ DOMAIN g = DOMAIN f /\ w \in DOMAIN f
        /\ \A x \in DOMAIN f : x # w => g[x] = f[x]
        /\ f[w] = Handles(w) /\ g[w] = Handles(w)'
    BY DEF Held
  <1>2. f[w] \in Seq(Addresses) /\ g[w] \in Seq(Addresses)
    BY <1>1, HandlesTyped, HandlesTypedNext
  <1>. SUFFICES ASSUME NEW a \in Addresses
       PROVE  IsFiniteSet(Places(g, a)) /\ Cardinality(Places(g, a)) = Strong(a)'
    BY DEF Exact
  <1>3. IsFiniteSet(Places(f, a)) /\ Cardinality(Places(f, a)) = Strong(a)
    BY DEF Exact
  <1>. HIDE DEF f, g
  <1>4. /\ IsFiniteSet(Places(g, a))
        /\ Cardinality(Places(g, a)) \in Nat
        /\ Cardinality(Places(g, a)) + Occ(f[w], a) = Cardinality(Places(f, a)) + Occ(g[w], a)
    BY <1>1, <1>2, <1>3, OneHolderChanges
  <1>5. Occ(f[w], a) \in Nat /\ Occ(g[w], a) \in Nat
    BY <1>2, WhereFinite
  <1>6. heap \in Memory /\ heap' \in Memory
    BY DEF TypeOK
  <1>7. Strong(a) \in Nat /\ Strong(a)' \in Nat
    BY <1>6, MemoryTyped DEF Strong
  <1>8. Strong(a)' + Occ(f[w], a) = Strong(a) + Occ(g[w], a)
    BY <1>1
  <1>. QED  BY <1>3, <1>4, <1>5, <1>7, <1>8

\* What one holder gives to another changes no count.
LEMMA ExactTwo ==
  ASSUME TypeOK, TypeOK', Exact, NEW v \in Holders, NEW w \in Holders, v # w,
         \A x \in Holders : x \notin {v, w} => Handles(x)' = Handles(x),
         \A a \in Addresses : Strong(a)' = Strong(a),
         \A a \in Addresses :
           Occ(Handles(v), a) + Occ(Handles(w), a) = Occ(Handles(v)', a) + Occ(Handles(w)', a)
  PROVE  Exact'
  <1>. DEFINE f == Held
              g == Held'
  <1>1. /\ DOMAIN g = DOMAIN f /\ v \in DOMAIN f /\ w \in DOMAIN f
        /\ \A x \in DOMAIN f : x # v /\ x # w => g[x] = f[x]
        /\ f[v] = Handles(v) /\ g[v] = Handles(v)'
        /\ f[w] = Handles(w) /\ g[w] = Handles(w)'
    BY DEF Held
  <1>0. f = [x \in DOMAIN f |-> f[x]]
    BY DEF Held
  <1>2. /\ f[v] \in Seq(Addresses) /\ g[v] \in Seq(Addresses)
        /\ f[w] \in Seq(Addresses) /\ g[w] \in Seq(Addresses)
    BY <1>1, HandlesTyped, HandlesTypedNext
  <1>. SUFFICES ASSUME NEW a \in Addresses
       PROVE  IsFiniteSet(Places(g, a)) /\ Cardinality(Places(g, a)) = Strong(a)'
    BY DEF Exact
  <1>3. IsFiniteSet(Places(f, a)) /\ Cardinality(Places(f, a)) = Strong(a)
    BY DEF Exact
  <1>. HIDE DEF f, g
  <1>4. /\ IsFiniteSet(Places(g, a))
        /\ Cardinality(Places(f, a)) \in Nat /\ Cardinality(Places(g, a)) \in Nat
        /\ Cardinality(Places(g, a)) + Occ(f[v], a) + Occ(f[w], a)
             = Cardinality(Places(f, a)) + Occ(g[v], a) + Occ(g[w], a)
    BY <1>0, <1>1, <1>2, <1>3, TwoHoldersChange
  <1>5. /\ Occ(f[v], a) \in Nat /\ Occ(g[v], a) \in Nat
        /\ Occ(f[w], a) \in Nat /\ Occ(g[w], a) \in Nat
    BY <1>2, WhereFinite
  <1>6. Occ(f[v], a) + Occ(f[w], a) = Occ(g[v], a) + Occ(g[w], a)
    <2>1. Occ(Handles(v), a) + Occ(Handles(w), a) = Occ(Handles(v)', a) + Occ(Handles(w)', a)
      BY Zenon
    <2>2. /\ f[v] = Handles(v) /\ g[v] = Handles(v)'
          /\ f[w] = Handles(w) /\ g[w] = Handles(w)'
      BY <1>1
    <2>. QED  BY ONLY <2>1, <2>2, Zenon
  <1>7. Cardinality(Places(g, a)) = Cardinality(Places(f, a))
    <2>. DEFINE p == Cardinality(Places(f, a))
                q == Cardinality(Places(g, a))
                i == Occ(f[v], a)
                j == Occ(f[w], a)
                k == Occ(g[v], a)
                l == Occ(g[w], a)
    <2>1. /\ p \in Nat /\ q \in Nat /\ i \in Nat /\ j \in Nat /\ k \in Nat /\ l \in Nat
          /\ q + i + j = p + k + l /\ i + j = k + l
      BY <1>4, <1>5, <1>6
    <2>. HIDE DEF p, q, i, j, k, l
    <2>2. q = p
      BY ONLY <2>1
    <2>. QED  BY <2>2 DEF p, q
  <1>. QED  BY <1>3, <1>4, <1>7

-----------------------------------------------------------------------------
(* What the steps do to the four variables.                                *)

LEMMA PartsAreNumbered ==
  ASSUME NEW n \in Nat, NEW cut \in Nat, cut > 0
  PROVE  \E m \in Nat : Parts(n, cut) = 1..m
  BY DEF Parts

\* The row that a part of a copy looks at next is one of the rows.
LEMMA VisitedRow ==
  ASSUME TypeOK, Borrows, NEW h \in Threads, job[h].op = "gather",
         NEW p \in DOMAIN job[h].visited, job[h].visited[p] < PartLen(job[h], p)
  PROVE  LET next == (p - 1) * job[h].cut + job[h].visited[p] + 1 IN
         /\ next \in DOMAIN job[h].rows
         /\ job[h].rows[next] \in DOMAIN table[job[h].from]
  <1>. DEFINE n == Len(job[h].rows)
              c == job[h].cut
              d == job[h].visited[p]
  <1>1. job[h] \in Gathers
    BY JobKinds
  <1>2. n \in Nat /\ c \in Nat /\ d \in Nat /\ p \in Nat \ {0} /\ DOMAIN job[h].rows = 1..n
    BY <1>1 DEF Gathers
  <1>3. d < IF p * c <= n THEN c ELSE n - (p - 1) * c
    BY DEF PartLen
  <1>. HIDE DEF n, c, d
  <1>4. (p - 1) * c \in Nat /\ p * c = (p - 1) * c + c
    BY <1>2
  <1>5. (p - 1) * c + d + 1 \in 1..n
    BY <1>2, <1>3, <1>4
  <1>6. \A k \in DOMAIN job[h].rows : job[h].rows[k] \in DOMAIN table[job[h].from]
    BY DEF Borrows, GatherOK
  <1>. QED  BY <1>2, <1>5, <1>6 DEF c, d

LEMMA TypeStep ==
  IInv /\ [Next]_vars => TypeOK'
  <1>. SUFFICES ASSUME IInv, [Next]_vars  PROVE TypeOK'
    OBVIOUS
  <1>. USE DEF IInv
  <1>0. heap \in Memory /\ \A w \in Jobs, h \in Threads : [job EXCEPT ![h] = w] \in [Threads -> Jobs]
    BY DEF TypeOK
  <1>1. ASSUME NEW h \in Threads, NEW t \in Slots, NewTable(h, t)  PROVE TypeOK'
    <2>1. <<>> \in Seq(Addresses)
      OBVIOUS
    <2>. QED  BY <1>1, <2>1 DEF NewTable, TypeOK
  <1>2. ASSUME NEW h \in Threads, NEW t \in Slots, NEW v \in Records, Push(h, t, v)
        PROVE  TypeOK'
    <2>1. PICK a \in Addresses : /\ heap[a] = NULL
                                 /\ heap' = Allocated(heap, a, v)
                                 /\ table' = [table EXCEPT ![t] = Append(@, a)]
      BY <1>2 DEF Push
    <2>2. heap' \in Memory
      BY <1>0, <2>1, AllocatedCounts
    <2>3. Append(table[t], a) \in Seq(Addresses)
      BY <1>2 DEF Push, MayChange, MayRead, Exists, TypeOK
    <2>. QED  BY <1>2, <2>1, <2>2, <2>3 DEF Push, TypeOK
  <1>3. ASSUME NEW h \in Threads, NEW t \in Slots, Give(h, t)  PROVE TypeOK'
    <2>1. Append(table[t], single[h]) \in Seq(Addresses)
      BY <1>3 DEF Give, MayChange, MayRead, Exists, TypeOK
    <2>. QED  BY <1>3, <2>1 DEF Give, TypeOK
  <1>4. ASSUME NEW h \in Threads, NEW t \in Slots, NEW i, Take(h, t, i)  PROVE TypeOK'
    <2>1. table[t][i] \in Addresses /\ heap[table[t][i]] # NULL
      BY <1>4, RowLives DEF Take, MayRead
    <2>2. heap' \in Memory
      BY <1>0, <1>4, <2>1, ClonedCounts DEF Take
    <2>. QED  BY <1>4, <2>1, <2>2 DEF Take, TypeOK
  <1>5. ASSUME NEW h \in Threads, Release(h)  PROVE TypeOK'
    <2>1. heap' \in Memory
      BY <1>0, <1>5, SingleLives, DroppedCounts DEF Release
    <2>. QED  BY <1>5, <2>1 DEF Release, TypeOK
  <1>6. ASSUME NEW h \in Threads, NEW t \in Slots, NEW u \in Slots,
               NEW positions \in Seq(Nat \ {0}), NEW accepted \in SUBSET Records, NEW cut \in Nat,
               Gather(h, t, u, positions, accepted, cut)
        PROVE  TypeOK'
    <2>. DEFINE parts == Parts(Len(positions), cut)
                work == [op |-> "gather", from |-> t, to |-> u, rows |-> positions,
                         accepted |-> accepted, cut |-> cut,
                         visited |-> [p \in parts |-> 0], found |-> [p \in parts |-> <<>>]]
    <2>1. PICK n \in Nat : parts = 1..n
      BY <1>6, PartsAreNumbered DEF Gather
    <2>2. [p \in parts |-> 0] \in Seq(Nat)
      BY <2>1
    <2>3. [p \in parts |-> <<>>] \in Seq(Seq(Addresses))
      <3>1. <<>> \in Seq(Addresses)
        OBVIOUS
      <3>. QED  BY <2>1, <3>1
    <2>4. cut \in Nat \ {0}
      BY <1>6 DEF Gather
    <2>. HIDE DEF parts
    <2>5. work \in Jobs
      BY <2>2, <2>3, <2>4 DEF Jobs, Gathers
    <2>6. job' = [job EXCEPT ![h] = work] /\ UNCHANGED <<heap, table, single>>
      BY <1>6 DEF Gather, Start, parts
    <2>. HIDE DEF work
    <2>. QED  BY <1>0, <2>5, <2>6 DEF TypeOK
  <1>7. ASSUME NEW h \in Threads, NEW t \in Slots, NEW u \in Slots, NEW cut \in 1..MaxRows,
               NEW accepted \in SUBSET Records, Filter(h, t, u, accepted, cut)
        PROVE  TypeOK'
    <2>1. table[t] \in Seq(Addresses)
      BY <1>7 DEF Filter, MayRead, Exists, TypeOK
    <2>2. [i \in DOMAIN table[t] |-> i] \in Seq(Nat \ {0})
      BY <2>1
    <2>3. cut \in Nat
      BY MaxRowsAssumption
    <2>. QED  BY <1>6, <1>7, <2>2, <2>3 DEF Filter
  <1>8. ASSUME NEW h \in Threads, NEW t \in Slots, NEW u \in Slots, NEW cut \in 1..MaxRows,
               NEW positions \in Selections, Copy(h, t, u, positions, cut)
        PROVE  TypeOK'
    <2>1. positions \in Seq(Nat \ {0}) /\ cut \in Nat
      BY MaxRowsAssumption, SelectionsAssumption
    <2>. QED  BY <1>6, <1>8, <2>1 DEF Copy
  <1>9. ASSUME NEW h \in Threads, NEW p \in 1..MaxRows, Visit(h, p)  PROVE TypeOK'
    <2>. DEFINE row == job[h].rows[(p - 1) * job[h].cut + job[h].visited[p] + 1]
                a == table[job[h].from][row]
                taken == heap[a].value \in job[h].accepted
    <2>1. job[h] \in Gathers /\ p \in DOMAIN job[h].visited /\ job[h].op = "gather"
      BY <1>9, JobKinds DEF Visit
    <2>2. row \in DOMAIN table[job[h].from]
      BY <1>9, VisitedRow DEF Visit
    <2>3. job[h].from \in Slots /\ Exists(job[h].from) /\ Len(job[h].found) = Len(job[h].visited)
      BY <2>1 DEF Gathers, Borrows, GatherOK
    <2>. HIDE DEF row
    <2>4. a \in Addresses /\ heap[a] # NULL
      BY <2>2, <2>3, RowLives
    <2>5. /\ heap' = IF taken THEN Cloned(heap, a) ELSE heap
          /\ job' = [job EXCEPT ![h].visited[p] = @ + 1,
                                ![h].found[p] = IF taken THEN Append(@, a) ELSE @]
          /\ UNCHANGED <<table, single>>
      BY <1>9 DEF Visit, row
    <2>. HIDE DEF a, taken
    <2>6. heap' \in Memory
      BY <1>0, <2>4, <2>5, ClonedCounts
    <2>7. job' \in [Threads -> Jobs]
      <3>. DEFINE work == [job[h] EXCEPT !.visited[p] = @ + 1,
                                         !.found[p] = IF taken THEN Append(@, a) ELSE @]
      <3>1. job' = [job EXCEPT ![h] = work]
        BY <2>5
      <3>2. p \in DOMAIN job[h].found
        BY <2>1, <2>3 DEF Gathers
      <3>3. [job[h].visited EXCEPT ![p] = @ + 1] \in Seq(Nat)
        BY <2>1 DEF Gathers
      <3>4. [job[h].found EXCEPT ![p] = IF taken THEN Append(@, a) ELSE @] \in Seq(Seq(Addresses))
        BY <2>1, <2>4, <3>2 DEF Gathers
      <3>5. work \in Gathers
        BY <2>1, <3>3, <3>4 DEF Gathers
      <3>. HIDE DEF work
      <3>. QED  BY <1>0, <3>1, <3>5 DEF Jobs
    <2>. QED  BY <2>5, <2>6, <2>7 DEF TypeOK
  <1>10. ASSUME NEW h \in Threads, FinishGather(h)  PROVE TypeOK'
    <2>1. job[h] \in Gathers
      BY <1>10, JobKinds DEF FinishGather
    <2>2. Joined(job[h].found) \in Seq(Addresses)
      BY <2>1, JoinedType DEF Gathers
    <2>3. Idle \in Jobs
      BY DEF Jobs
    <2>. QED  BY <1>0, <1>10, <2>2, <2>3 DEF FinishGather, TypeOK
  <1>11. ASSUME NEW h \in Threads, NEW t \in Slots, NEW i \in 1..MaxRows, GetMut(h, t, i)
         PROVE  TypeOK'
    <2>1. \A op \in {"copy", "write"} : [op |-> op, at |-> t, row |-> i] \in Jobs
      BY MaxRowsAssumption DEF Jobs, Edits
    <2>2. PICK op \in {"copy", "write"} :
            job' = [job EXCEPT ![h] = [op |-> op, at |-> t, row |-> i]]
      BY <1>11 DEF GetMut, Start
    <2>. QED  BY <1>0, <1>11, <2>1, <2>2 DEF GetMut, TypeOK
  <1>12. ASSUME NEW h \in Threads, CopyRecord(h)  PROVE TypeOK'
    <2>. DEFINE t == job[h].at
                i == job[h].row
                a == table[t][i]
    <2>1. job[h] \in Edits /\ t \in Slots /\ Exists(t) /\ i \in DOMAIN table[t]
      BY <1>12, JobKinds DEF CopyRecord, Borrows, EditOK, Edits
    <2>2. a \in Addresses /\ heap[a] # NULL /\ table[t] \in Seq(Addresses)
      BY <2>1, RowLives
    <2>3. PICK b \in Addresses :
            /\ heap[b] = NULL
            /\ heap' = Dropped(Allocated(heap, b, heap[a].value), a)
            /\ table' = [table EXCEPT ![t] = [@ EXCEPT ![i] = b]]
      BY <1>12 DEF CopyRecord
    <2>4. heap' \in Memory
      BY <1>0, <2>2, <2>3, CopyCounts
    <2>5. [table[t] EXCEPT ![i] = b] \in Seq(Addresses)
      BY <2>1, <2>2
    <2>6. job' = [job EXCEPT ![h] = [job[h] EXCEPT !.op = "write"]]
      BY <1>12 DEF CopyRecord
    <2>7. [job[h] EXCEPT !.op = "write"] \in Jobs
      BY <2>1 DEF Edits, Jobs
    <2>8. table' \in [Slots -> Seq(Addresses) \cup {NULL}]
      BY <2>3, <2>5 DEF TypeOK
    <2>9. job' \in [Threads -> Jobs] /\ UNCHANGED single
      BY <1>0, <1>12, <2>6, <2>7 DEF CopyRecord
    <2>. HIDE DEF t, i, a
    <2>. QED  BY <2>4, <2>8, <2>9 DEF TypeOK
  <1>13. ASSUME NEW h \in Threads, NEW v \in Records, Write(h, v)  PROVE TypeOK'
    <2>. DEFINE a == table[job[h].at][job[h].row]
    <2>1. job[h] \in Edits /\ job[h].at \in Slots /\ Exists(job[h].at)
          /\ job[h].row \in DOMAIN table[job[h].at]
      BY <1>13, JobKinds DEF Write, Borrows, EditOK, Edits
    <2>2. a \in Addresses /\ heap[a] # NULL
      BY <2>1, RowLives
    <2>3. heap' = [heap EXCEPT ![a].value = v]
      BY <1>13 DEF Write
    <2>. HIDE DEF a
    <2>4. heap' \in Memory
      BY <1>0, <2>2, <2>3 DEF Memory
    <2>5. Idle \in Jobs
      BY DEF Jobs
    <2>. QED  BY <1>0, <1>13, <2>4, <2>5 DEF Write, TypeOK
  <1>14. ASSUME NEW h \in Threads, NEW t \in Slots, Drop(h, t)  PROVE TypeOK'
    <2>1. table[t] \in Seq(Addresses)
      BY <1>14 DEF Drop, MayChange, MayRead, Exists, TypeOK
    <2>2. [op |-> "drop", handles |-> table[t], parallel |-> Len(table[t]) >= ParDropRows] \in Jobs
      BY <2>1 DEF Jobs, Drops
    <2>3. job' \in [Threads -> Jobs]
      BY <1>0, <1>14, <2>2 DEF Drop, Start
    <2>. QED  BY <1>14, <2>3 DEF Drop, TypeOK
  <1>15. ASSUME NEW h \in Threads, NEW k \in 1..MaxRows, DropHandle(h, k)  PROVE TypeOK'
    <2>1. job[h] \in Drops /\ job[h].op = "drop" /\ k \in DOMAIN job[h].handles
      BY <1>15, JobKinds DEF DropHandle
    <2>2. heap' \in Memory
      BY <1>0, <1>15, <2>1, DropLives, DroppedCounts DEF DropHandle
    <2>3. Without(job[h].handles, k) \in Seq(Addresses)
      BY <2>1, OccWithout DEF Drops
    <2>4. job' = [job EXCEPT ![h] = [job[h] EXCEPT !.handles = Without(@, k)]]
      BY <1>15 DEF DropHandle
    <2>5. [job[h] EXCEPT !.handles = Without(@, k)] \in Drops
      BY <2>1, <2>3 DEF Drops
    <2>. QED  BY <1>0, <1>15, <2>2, <2>4, <2>5 DEF DropHandle, TypeOK, Jobs
  <1>16. ASSUME NEW h \in Threads, FinishDrop(h)  PROVE TypeOK'
    <2>1. Idle \in Jobs
      BY DEF Jobs
    <2>. QED  BY <1>0, <1>16, <2>1 DEF FinishDrop, TypeOK
  <1>17. CASE UNCHANGED vars
    BY <1>17 DEF vars, TypeOK
  <1>. QED
    BY <1>1, <1>2, <1>3, <1>4, <1>5, <1>7, <1>8, <1>9, <1>10, <1>11, <1>12, <1>13, <1>14,
       <1>15, <1>16, <1>17 DEF Next

-----------------------------------------------------------------------------
(* Borrows.                                                                *)

\* A step keeps the borrows if no job begins to read, to change or to make a
\* table, and the tables that jobs read, change or make keep their shape.
LEMMA BorrowsKept ==
  ASSUME TypeOK, Borrows,
         \A h \in Threads :
           /\ job'[h].op = "gather" => /\ job[h].op = "gather"
                                       /\ job'[h].from = job[h].from /\ job'[h].to = job[h].to
                                       /\ job'[h].rows = job[h].rows
                                       /\ Len(job'[h].found) = Len(job'[h].visited)
           /\ job'[h].op \in {"copy", "write"} => /\ job[h].op \in {"copy", "write"}
                                                  /\ job'[h].at = job[h].at
                                                  /\ job'[h].row = job[h].row,
         \A h \in Threads :
           /\ job'[h].op = "gather" => /\ table'[job[h].from] = table[job[h].from]
                                       /\ table'[job[h].to] = table[job[h].to]
           /\ job'[h].op \in {"copy", "write"} =>
                /\ table'[job[h].at] # NULL
                /\ DOMAIN table'[job[h].at] = DOMAIN table[job[h].at]
  PROVE  Borrows'
  <1>1. ASSUME NEW h \in Threads  PROVE GatherOK(h)'
    <2>1. SUFFICES ASSUME job'[h].op = "gather"  PROVE GatherOK(h)'
      BY DEF GatherOK
    <2>2. GatherOK(h)
      BY DEF Borrows
    <2>3. ASSUME NEW g \in Threads
          PROVE  /\ ~Changes(g, job[h].from)'
                 /\ g # h => ~Makes(g, job[h].to)'
      BY <2>1, <2>2 DEF GatherOK, Changes, Makes
    <2>. QED  BY <2>1, <2>2, <2>3 DEF GatherOK, Exists, Changes, Makes
  <1>2. ASSUME NEW h \in Threads  PROVE EditOK(h)'
    <2>1. SUFFICES ASSUME job'[h].op \in {"copy", "write"}  PROVE EditOK(h)'
      BY DEF EditOK
    <2>2. EditOK(h)
      BY DEF Borrows
    <2>. QED  BY <2>1, <2>2 DEF EditOK, Exists, Changes
  <1>. QED  BY <1>1, <1>2 DEF Borrows

LEMMA BorrowsStep ==
  IInv /\ TypeOK' /\ [Next]_vars => Borrows'
  <1>. SUFFICES ASSUME IInv, TypeOK', [Next]_vars  PROVE Borrows'
    OBVIOUS
  <1>. USE DEF IInv
  <1>0. \A h \in Threads :
          /\ GatherOK(h) /\ EditOK(h)
          /\ job[h].op = "gather" => job[h] \in Gathers
          /\ job[h].op \in {"copy", "write"} => job[h] \in Edits
    BY JobKinds DEF Borrows
  <1>1. ASSUME NEW h \in Threads, NEW t \in Slots, NewTable(h, t)  PROVE Borrows'
    BY <1>0, <1>1, BorrowsKept DEF NewTable, Unbound, Makes, GatherOK, EditOK, Exists, TypeOK
  <1>2. ASSUME NEW h \in Threads, NEW t \in Slots, NEW v \in Records, Push(h, t, v)
        PROVE  Borrows'
    BY <1>0, <1>2, BorrowsKept
       DEF Push, MayChange, MayRead, Reads, Changes, GatherOK, EditOK, Exists, TypeOK
  <1>3. ASSUME NEW h \in Threads, NEW t \in Slots, Give(h, t)  PROVE Borrows'
    BY <1>0, <1>3, BorrowsKept
       DEF Give, MayChange, MayRead, Reads, Changes, GatherOK, EditOK, Exists, TypeOK
  <1>4. ASSUME NEW h \in Threads, NEW t \in Slots, NEW i, Take(h, t, i)  PROVE Borrows'
    BY <1>0, <1>4, BorrowsKept DEF Take, GatherOK, EditOK, Exists
  <1>5. ASSUME NEW h \in Threads, Release(h)  PROVE Borrows'
    BY <1>0, <1>5, BorrowsKept DEF Release, GatherOK, EditOK, Exists
  <1>6. ASSUME NEW h \in Threads, NEW t \in Slots, NEW u \in Slots, NEW positions,
               NEW accepted, NEW cut \in Nat, positions \in Seq(Nat \ {0}),
               \A k \in DOMAIN positions : positions[k] \in DOMAIN table[t],
               Gather(h, t, u, positions, accepted, cut)
        PROVE  Borrows'
    <2>. DEFINE parts == Parts(Len(positions), cut)
    <2>1. /\ job[h] = Idle
          /\ job'[h].op = "gather" /\ job'[h].from = t /\ job'[h].to = u
          /\ job'[h].rows = positions
          /\ job'[h].found = [p \in parts |-> <<>>] /\ job'[h].visited = [p \in parts |-> 0]
      BY <1>6 DEF Gather, Start, TypeOK
    <2>2. \A g \in Threads : g # h => job'[g] = job[g]
      BY <1>6 DEF Gather, Start, TypeOK
    <2>3. UNCHANGED table /\ MayRead(t) /\ Unbound(u)
      BY <1>6 DEF Gather
    <2>4. Len(job'[h].found) = Len(job'[h].visited)
      <3>1. PICK n \in Nat : parts = 1..n
        BY <1>6, PartsAreNumbered DEF Gather
      <3>. HIDE DEF parts
      <3>. QED  BY <2>1, <3>1
    <2>5. \A g \in Threads : ~Changes(g, t)' /\ (g # h => ~Makes(g, u)')
      BY <2>1, <2>2, <2>3 DEF MayRead, Unbound, Changes, Makes
    <2>6. GatherOK(h)' /\ EditOK(h)'
      BY <1>6, <2>1, <2>3, <2>4, <2>5
         DEF GatherOK, EditOK, MayRead, Unbound, Exists, Changes, Makes
    <2>7. ASSUME NEW g \in Threads, g # h  PROVE GatherOK(g)' /\ EditOK(g)'
      <3>1. job[g].op = "gather" => job[g].to # u /\ ~Changes(h, job[g].from)'
        BY <2>1, <2>3, <2>7 DEF Unbound, Makes, Changes
      <3>2. GatherOK(g)'
        BY <1>0, <2>1, <2>2, <2>3, <2>7, <3>1 DEF GatherOK, Exists, Changes, Makes
      <3>3. EditOK(g)'
        BY <1>0, <2>1, <2>2, <2>3, <2>7 DEF EditOK, Exists, Changes
      <3>. QED  BY <3>2, <3>3
    <2>. QED  BY <2>6, <2>7 DEF Borrows
  <1>7. ASSUME NEW h \in Threads, NEW t \in Slots, NEW u \in Slots, NEW cut \in 1..MaxRows,
               NEW accepted \in SUBSET Records, Filter(h, t, u, accepted, cut)
        PROVE  Borrows'
    <2>1. table[t] \in Seq(Addresses)
      BY <1>7 DEF Filter, MayRead, Exists, TypeOK
    <2>2. [i \in DOMAIN table[t] |-> i] \in Seq(Nat \ {0}) /\ cut \in Nat
      BY <2>1, MaxRowsAssumption
    <2>. QED  BY <1>6, <1>7, <2>2 DEF Filter
  <1>8. ASSUME NEW h \in Threads, NEW t \in Slots, NEW u \in Slots, NEW cut \in 1..MaxRows,
               NEW positions \in Selections, Copy(h, t, u, positions, cut)
        PROVE  Borrows'
    <2>1. positions \in Seq(Nat \ {0}) /\ cut \in Nat
      BY MaxRowsAssumption, SelectionsAssumption
    <2>2. table[t] \in Seq(Addresses)
      BY <1>8 DEF Copy, MayRead, Exists, TypeOK
    <2>3. \A k \in DOMAIN positions : positions[k] \in DOMAIN table[t]
      BY <1>8, <2>1, <2>2 DEF Copy
    <2>. QED  BY <1>6, <1>8, <2>1, <2>3 DEF Copy
  <1>9. ASSUME NEW h \in Threads, NEW p \in 1..MaxRows, Visit(h, p)  PROVE Borrows'
    <2>1. job[h] \in Gathers /\ job[h].op = "gather" /\ Len(job[h].found) = Len(job[h].visited)
      BY <1>0, <1>9 DEF Visit, GatherOK
    <2>2. PICK seen, found :
            /\ job' = [job EXCEPT ![h].visited[p] = seen, ![h].found[p] = found]
            /\ UNCHANGED table
      BY <1>9 DEF Visit
    <2>3. /\ job'[h].op = "gather" /\ job'[h].from = job[h].from /\ job'[h].to = job[h].to
          /\ job'[h].rows = job[h].rows
          /\ job'[h].visited = [job[h].visited EXCEPT ![p] = seen]
          /\ job'[h].found = [job[h].found EXCEPT ![p] = found]
          /\ \A g \in Threads : g # h => job'[g] = job[g]
      BY <2>1, <2>2 DEF TypeOK, Gathers
    <2>4. Len(job'[h].found) = Len(job'[h].visited)
      BY <2>1, <2>3 DEF Gathers
    <2>. QED  BY <1>0, <2>1, <2>2, <2>3, <2>4, BorrowsKept DEF GatherOK, EditOK, Exists
  <1>10. ASSUME NEW h \in Threads, FinishGather(h)  PROVE Borrows'
    <2>1. job[h] \in Gathers /\ job[h].op = "gather"
      BY <1>0, <1>10 DEF FinishGather
    <2>2. \A t \in Slots : t # job[h].to => table'[t] = table[t]
      <3>1. table' = [table EXCEPT ![job[h].to] = Joined(job[h].found)]
        BY <1>10 DEF FinishGather
      <3>. QED  BY <2>1, <3>1 DEF TypeOK, Gathers
    <2>3. job'[h].op = "idle" /\ \A g \in Threads : g # h => job'[g] = job[g]
      BY <1>10, <2>1 DEF FinishGather, Idle, TypeOK
    <2>4. ASSUME NEW g \in Threads, g # h, job[g].op = "gather"
          PROVE  job[g].from # job[h].to /\ job[g].to # job[h].to
      BY <1>0, <2>1, <2>4 DEF GatherOK, Makes
    <2>5. ASSUME NEW g \in Threads, job[g].op \in {"copy", "write"}  PROVE job[g].at # job[h].to
      BY <1>0, <2>1, <2>5 DEF GatherOK, EditOK
    <2>. QED  BY <1>0, <2>2, <2>3, <2>4, <2>5, BorrowsKept DEF GatherOK, EditOK, Exists, Gathers, Edits
  <1>11. ASSUME NEW h \in Threads, NEW t \in Slots, NEW i \in 1..MaxRows, GetMut(h, t, i)
         PROVE  Borrows'
    <2>1. PICK op \in {"copy", "write"} :
            job' = [job EXCEPT ![h] = [op |-> op, at |-> t, row |-> i]]
      BY <1>11 DEF GetMut, Start
    <2>2. /\ job'[h].op \in {"copy", "write"} /\ job'[h].at = t /\ job'[h].row = i
          /\ \A g \in Threads : g # h => job'[g] = job[g]
      BY <2>1 DEF TypeOK
    <2>3. /\ UNCHANGED table /\ Exists(t) /\ i \in DOMAIN table[t]
          /\ \A g \in Threads : ~Changes(g, t) /\ ~Reads(g, t)
      BY <1>11 DEF GetMut, MayChange, MayRead
    <2>4. GatherOK(h)' /\ EditOK(h)'
      BY <2>2, <2>3 DEF GatherOK, EditOK, Exists, Changes
    <2>5. ASSUME NEW g \in Threads, g # h  PROVE GatherOK(g)' /\ EditOK(g)'
      <3>1. job[g].op = "gather" => job[g].from # t
        BY <2>3 DEF Reads
      <3>2. job[g].op \in {"copy", "write"} => job[g].at # t
        BY <2>3 DEF Changes
      <3>3. \A s \in Slots : ~Makes(h, s)'
        <4>1. job'[h].op # "gather"
          BY <2>2
        <4>. QED  BY <4>1 DEF Makes
      <3>4. GatherOK(g)'
        <4>1. SUFFICES ASSUME job[g].op = "gather"  PROVE GatherOK(g)'
          BY <2>2, <2>5 DEF GatherOK
        <4>2. job[g].to \in Slots
          BY <1>0, <4>1 DEF Gathers
        <4>3. ASSUME NEW f \in Threads
              PROVE  ~Changes(f, job[g].from)' /\ (f # g => ~Makes(f, job[g].to)')
          <5>1. CASE f = h
            BY <2>2, <2>5, <3>1, <3>3, <4>1, <4>2, <5>1 DEF Changes
          <5>2. CASE f # h
            BY <1>0, <2>2, <2>5, <4>1, <5>2 DEF GatherOK, Changes, Makes
          <5>. QED  BY <5>1, <5>2
        <4>. QED  BY <1>0, <2>2, <2>3, <2>5, <4>1, <4>3 DEF GatherOK, Exists
      <3>5. EditOK(g)'
        BY <1>0, <2>2, <2>3, <2>5, <3>2 DEF EditOK, Exists, Changes
      <3>. QED  BY <3>4, <3>5
    <2>. QED  BY <2>4, <2>5 DEF Borrows
  <1>12. ASSUME NEW h \in Threads, CopyRecord(h)  PROVE Borrows'
    <2>1. job[h] \in Edits /\ job[h].op \in {"copy", "write"} /\ job[h].op = "copy"
      BY <1>0, <1>12 DEF CopyRecord
    <2>2. PICK b \in Addresses :
            table' = [table EXCEPT ![job[h].at] = [@ EXCEPT ![job[h].row] = b]]
      BY <1>12 DEF CopyRecord
    <2>3. /\ table'[job[h].at] = [table[job[h].at] EXCEPT ![job[h].row] = b]
          /\ \A t \in Slots : t # job[h].at => table'[t] = table[t]
      BY <2>1, <2>2 DEF TypeOK, Edits
    <2>4. /\ job'[h].op = "write" /\ job'[h].at = job[h].at /\ job'[h].row = job[h].row
          /\ \A g \in Threads : g # h => job'[g] = job[g]
      BY <1>12, <2>1 DEF CopyRecord, TypeOK, Edits
    <2>5. table'[job[h].at] # NULL /\ DOMAIN table'[job[h].at] = DOMAIN table[job[h].at]
      <3>1. table[job[h].at] \in Seq(Addresses) /\ job[h].row \in DOMAIN table[job[h].at]
        BY <1>0, <2>1 DEF EditOK, Exists, TypeOK, Edits
      <3>2. table'[job[h].at] \in Seq(Addresses)
        BY <2>3, <3>1
      <3>3. table'[job[h].at] # NULL
        BY <3>2, NullAssumption
      <3>. QED  BY <2>3, <3>1, <3>3
    <2>6. \A g \in Threads : job[g].op = "gather" => job[g].from # job[h].at /\ job[g].to # job[h].at
      BY <1>0, <2>1 DEF GatherOK, EditOK, Changes
    <2>7. \A g \in Threads : g # h /\ job[g].op \in {"copy", "write"} => job[g].at # job[h].at
      BY <1>0, <2>1 DEF EditOK, Changes
    <2>. QED
      BY <1>0, <2>1, <2>3, <2>4, <2>5, <2>6, <2>7, BorrowsKept
         DEF GatherOK, EditOK, Exists, Gathers, Edits
  <1>13. ASSUME NEW h \in Threads, NEW v \in Records, Write(h, v)  PROVE Borrows'
    <2>1. job'[h].op = "idle" /\ \A g \in Threads : g # h => job'[g] = job[g]
      BY <1>13 DEF Write, Idle, TypeOK
    <2>. QED  BY <1>0, <1>13, <2>1, BorrowsKept DEF Write, GatherOK, EditOK, Exists
  <1>14. ASSUME NEW h \in Threads, NEW t \in Slots, Drop(h, t)  PROVE Borrows'
    <2>1. job'[h].op = "drop" /\ \A g \in Threads : g # h => job'[g] = job[g]
      BY <1>14 DEF Drop, Start, TypeOK
    <2>2. /\ \A u \in Slots : u # t => table'[u] = table[u]
          /\ Exists(t) /\ \A g \in Threads : ~Changes(g, t) /\ ~Reads(g, t)
      BY <1>14 DEF Drop, TypeOK, MayChange, MayRead
    <2>3. ASSUME NEW g \in Threads, job[g].op = "gather"
          PROVE  /\ job[g].from # t /\ job[g].to # t
                 /\ job[g].from \in Slots /\ job[g].to \in Slots
      BY <1>0, <2>2, <2>3 DEF GatherOK, Reads, Gathers
    <2>4. ASSUME NEW g \in Threads, job[g].op \in {"copy", "write"}
          PROVE  job[g].at # t /\ job[g].at \in Slots
      BY <1>0, <2>2, <2>4 DEF EditOK, Changes, Edits
    <2>. QED  BY <1>0, <2>1, <2>2, <2>3, <2>4, BorrowsKept DEF GatherOK, EditOK, Exists
  <1>15. ASSUME NEW h \in Threads, NEW k \in 1..MaxRows, DropHandle(h, k)  PROVE Borrows'
    <2>1. job[h] \in Drops
      BY <1>15, JobKinds DEF DropHandle
    <2>2. job'[h].op = "drop" /\ \A g \in Threads : g # h => job'[g] = job[g]
      BY <1>15, <2>1 DEF DropHandle, TypeOK, Drops
    <2>. QED  BY <1>0, <1>15, <2>2, BorrowsKept DEF DropHandle, GatherOK, EditOK, Exists
  <1>16. ASSUME NEW h \in Threads, FinishDrop(h)  PROVE Borrows'
    <2>1. job'[h].op = "idle" /\ \A g \in Threads : g # h => job'[g] = job[g]
      BY <1>16 DEF FinishDrop, Idle, TypeOK
    <2>. QED  BY <1>0, <1>16, <2>1, BorrowsKept DEF FinishDrop, GatherOK, EditOK, Exists
  <1>17. CASE UNCHANGED vars
    BY <1>0, <1>17, BorrowsKept DEF vars, GatherOK, EditOK, Exists
  <1>. QED
    BY <1>1, <1>2, <1>3, <1>4, <1>5, <1>7, <1>8, <1>9, <1>10, <1>11, <1>12, <1>13, <1>14,
       <1>15, <1>16, <1>17 DEF Next

-----------------------------------------------------------------------------
(* Counts.                                                                 *)

LEMMA ExactStep ==
  IInv /\ TypeOK' /\ [Next]_vars => Exact'
  <1>. SUFFICES ASSUME IInv, TypeOK', [Next]_vars  PROVE Exact'
    OBVIOUS
  <1>. USE DEF IInv
  <1>0. heap \in Memory
    BY DEF TypeOK
  <1>a. ASSUME NEW h \in Threads, NEW work, work \in Jobs, HeldBy(work) = HeldBy(job[h]),
               job' = [job EXCEPT ![h] = work], UNCHANGED <<heap, table, single>>
        PROVE  Exact'
    <2>1. \A g \in Threads : HeldBy(job'[g]) = HeldBy(job[g])
      BY <1>a DEF TypeOK
    <2>2. \A w \in Holders : Handles(w)' = Handles(w)
      BY <1>a, <2>1, HandlesEverywhere
    <2>3. \A a \in Addresses : Strong(a)' = Strong(a)
      BY <1>a DEF Strong
    <2>. QED  BY <2>2, <2>3, ExactKept
  <1>1. ASSUME NEW h \in Threads, NEW t \in Slots, NewTable(h, t)  PROVE Exact'
    <2>. DEFINE w == <<"table", t>>
    <2>1. \A x \in Holders : x \notin {w} => Handles(x)' = Handles(x)
      BY <1>1, HandlesElsewhere DEF NewTable, TypeOK
    <2>2. Handles(w)' = <<>> /\ Handles(w) = <<>>
      BY <1>1, HandlesOf, HandlesOfNext DEF NewTable, Unbound, TypeOK, Exists
    <2>3. \A a \in Addresses : Strong(a)' = Strong(a)
      BY <1>1 DEF NewTable, Strong
    <2>. HIDE DEF w
    <2>. QED  BY <2>1, <2>2, <2>3, ExactKept
  <1>2. ASSUME NEW h \in Threads, NEW t \in Slots, NEW v \in Records, Push(h, t, v)
        PROVE  Exact'
    <2>. DEFINE w == <<"table", t>>
    <2>1. PICK b \in Addresses : /\ heap[b] = NULL
                                 /\ heap' = Allocated(heap, b, v)
                                 /\ table' = [table EXCEPT ![t] = Append(@, b)]
      BY <1>2 DEF Push
    <2>2. \A x \in Holders : x \notin {w} => Handles(x)' = Handles(x)
      BY <1>2, HandlesElsewhere DEF Push, TypeOK
    <2>3. table[t] \in Seq(Addresses) /\ Handles(w) = table[t] /\ w \in Holders
      BY <1>2, HandlesOf DEF Push, MayChange, MayRead, Exists, TypeOK
    <2>4. Handles(w)' = Append(table[t], b)
      <3>1. table'[t] = Append(table[t], b)
        BY <2>1 DEF TypeOK
      <3>2. Append(table[t], b) \in Seq(Addresses)
        BY <2>3
      <3>3. table'[t] # NULL
        BY <3>1, <3>2, NullAssumption
      <3>. QED  BY <3>3, <3>1, <3>2, HandlesOfNext DEF Exists
    <2>. HIDE DEF w
    <2>5. \A a \in Addresses : Strong(a)' = Strong(a) + Same(b, a)
      BY <1>0, <2>1, AllocatedCounts DEF Strong
    <2>6. ASSUME NEW a \in Addresses
          PROVE  Strong(a)' + Occ(Handles(w), a) = Strong(a) + Occ(Handles(w)', a)
      <3>1. Occ(Append(table[t], b), a) = Occ(table[t], a) + Same(b, a)
        BY <2>3, OccAppend
      <3>2. Occ(table[t], a) \in Nat /\ Strong(a) \in Nat /\ Same(b, a) \in Nat
        BY <1>0, <2>3, WhereFinite, MemoryTyped DEF Strong, Same
      <3>. QED  BY <2>3, <2>4, <2>5, <3>1, <3>2
    <2>. QED  BY <2>2, <2>3, <2>6, ExactOne
  <1>3. ASSUME NEW h \in Threads, NEW t \in Slots, Give(h, t)  PROVE Exact'
    <2>. DEFINE v == <<"single", h>>
                w == <<"table", t>>
                b == single[h]
    <2>1. \A x \in Holders : x \notin {v, w} => Handles(x)' = Handles(x)
      BY <1>3, HandlesElsewhere DEF Give, TypeOK
    <2>2. /\ v \in Holders /\ w \in Holders /\ v # w
          /\ b \in Addresses /\ table[t] \in Seq(Addresses)
          /\ Handles(v) = <<b>> /\ Handles(w) = table[t]
      BY <1>3, HandlesOf DEF Give, MayChange, MayRead, Exists, TypeOK
    <2>3. Handles(v)' = <<>>
      <3>1. single'[h] = NULL
        BY <1>3 DEF Give, TypeOK
      <3>. QED  BY <3>1, HandlesOfNext
    <2>4. Handles(w)' = Append(table[t], b)
      <3>1. table'[t] = Append(table[t], b)
        BY <1>3 DEF Give, TypeOK
      <3>2. Append(table[t], b) \in Seq(Addresses)
        BY <2>2
      <3>3. table'[t] # NULL
        BY <3>1, <3>2, NullAssumption
      <3>. QED  BY <3>3, <3>1, <3>2, HandlesOfNext DEF Exists
    <2>5. \A a \in Addresses : Strong(a)' = Strong(a)
      BY <1>3 DEF Give, Strong
    <2>. HIDE DEF v, w, b
    <2>6. ASSUME NEW a \in Addresses
          PROVE  Occ(Handles(v), a) + Occ(Handles(w), a) = Occ(Handles(v)', a) + Occ(Handles(w)', a)
      <3>1. Occ(Append(table[t], b), a) = Occ(table[t], a) + Same(b, a)
        BY <2>2, OccAppend
      <3>2. Occ(<<b>>, a) = Same(b, a) /\ Occ(<<>>, a) = 0
        BY OccSingle, OccEmpty
      <3>3. Occ(table[t], a) \in Nat /\ Same(b, a) \in Nat
        BY <2>2, WhereFinite DEF Same
      <3>4. /\ Occ(Handles(v), a) = Occ(<<b>>, a)
            /\ Occ(Handles(w), a) = Occ(table[t], a)
            /\ Occ(Handles(v)', a) = Occ(<<>>, a)
            /\ Occ(Handles(w)', a) = Occ(Append(table[t], b), a)
        BY ONLY <2>2, <2>3, <2>4
      <3>. QED  BY ONLY <3>1, <3>2, <3>3, <3>4
    <2>. QED  BY <2>1, <2>2, <2>5, <2>6, ExactTwo
  <1>4. ASSUME NEW h \in Threads, NEW t \in Slots, NEW i, Take(h, t, i)  PROVE Exact'
    <2>. DEFINE w == <<"single", h>>
                b == table[t][i]
    <2>1. b \in Addresses /\ heap[b] # NULL
      BY <1>4, RowLives DEF Take, MayRead
    <2>2. \A x \in Holders : x \notin {w} => Handles(x)' = Handles(x)
      BY <1>4, HandlesElsewhere DEF Take, TypeOK
    <2>3. Handles(w) = <<>> /\ Handles(w)' = <<b>> /\ w \in Holders
      <3>1. single'[h] = b /\ b # NULL /\ single[h] = NULL
        BY <1>4, <2>1, NullAssumption DEF Take, TypeOK
      <3>. QED  BY <3>1, HandlesOf, HandlesOfNext
    <2>4. heap' = Cloned(heap, b)
      BY <1>4 DEF Take
    <2>. HIDE DEF w, b
    <2>5. \A a \in Addresses : Strong(a)' = Strong(a) + Same(b, a)
      BY <1>0, <2>1, <2>4, ClonedCounts DEF Strong
    <2>6. ASSUME NEW a \in Addresses
          PROVE  Strong(a)' + Occ(Handles(w), a) = Strong(a) + Occ(Handles(w)', a)
      <3>1. Occ(<<b>>, a) = Same(b, a) /\ Occ(<<>>, a) = 0
        BY OccSingle, OccEmpty
      <3>2. Strong(a) \in Nat /\ Same(b, a) \in Nat
        BY <1>0, MemoryTyped DEF Strong, Same
      <3>3. Occ(Handles(w), a) = Occ(<<>>, a) /\ Occ(Handles(w)', a) = Occ(<<b>>, a)
        BY ONLY <2>3
      <3>. QED  BY <2>5, <3>1, <3>2, <3>3
    <2>. QED  BY <2>2, <2>3, <2>6, ExactOne
  <1>5. ASSUME NEW h \in Threads, Release(h)  PROVE Exact'
    <2>. DEFINE w == <<"single", h>>
                b == single[h]
    <2>1. b \in Addresses /\ heap[b] # NULL
      BY <1>5, SingleLives DEF Release
    <2>2. \A x \in Holders : x \notin {w} => Handles(x)' = Handles(x)
      BY <1>5, HandlesElsewhere DEF Release, TypeOK
    <2>3. Handles(w) = <<b>> /\ Handles(w)' = <<>> /\ w \in Holders
      <3>1. single'[h] = NULL /\ single[h] # NULL
        BY <1>5 DEF Release, TypeOK
      <3>. QED  BY <3>1, HandlesOf, HandlesOfNext
    <2>4. heap' = Dropped(heap, b)
      BY <1>5 DEF Release
    <2>. HIDE DEF w, b
    <2>5. \A a \in Addresses : Strong(a) = Strong(a)' + Same(b, a)
      BY <1>0, <2>1, <2>4, DroppedCounts DEF Strong
    <2>6. ASSUME NEW a \in Addresses
          PROVE  Strong(a)' + Occ(Handles(w), a) = Strong(a) + Occ(Handles(w)', a)
      <3>1. Occ(<<b>>, a) = Same(b, a) /\ Occ(<<>>, a) = 0
        BY OccSingle, OccEmpty
      <3>2. Strong(a)' \in Nat /\ Same(b, a) \in Nat
        BY MemoryTyped DEF Strong, Same, TypeOK
      <3>3. Occ(Handles(w), a) = Occ(<<b>>, a) /\ Occ(Handles(w)', a) = Occ(<<>>, a)
        BY ONLY <2>3
      <3>. QED  BY <2>5, <3>1, <3>2, <3>3
    <2>. QED  BY <2>2, <2>3, <2>6, ExactOne
  <1>6. ASSUME NEW h \in Threads, NEW t \in Slots, NEW u \in Slots, NEW positions \in Seq(Nat \ {0}),
               NEW accepted, NEW cut \in Nat,
               Gather(h, t, u, positions, accepted, cut)
        PROVE  Exact'
    <2>. DEFINE parts == Parts(Len(positions), cut)
    <2>1. PICK n \in Nat : parts = 1..n
      BY <1>6, PartsAreNumbered DEF Gather
    <2>2. job'[h] \in Jobs /\ job' = [job EXCEPT ![h] = job'[h]]
      BY <1>6 DEF Gather, Start, TypeOK
    <2>3. job'[h].op = "gather" /\ job'[h].found = [p \in parts |-> <<>>] /\ job[h] = Idle
      BY <1>6 DEF Gather, Start, TypeOK
    <2>. HIDE DEF parts
    <2>4. HeldBy(job'[h]) = <<>>
      BY <2>1, <2>3, JoinedEmpty DEF HeldBy
    <2>5. HeldBy(job[h]) = <<>>
      BY <2>3 DEF HeldBy, Idle
    <2>. QED  BY <1>6, <1>a, <2>2, <2>4, <2>5 DEF Gather
  <1>7. ASSUME NEW h \in Threads, NEW t \in Slots, NEW u \in Slots, NEW cut \in 1..MaxRows,
               NEW accepted \in SUBSET Records, Filter(h, t, u, accepted, cut)
        PROVE  Exact'
    <2>1. table[t] \in Seq(Addresses)
      BY <1>7 DEF Filter, MayRead, Exists, TypeOK
    <2>2. [i \in DOMAIN table[t] |-> i] \in Seq(Nat \ {0}) /\ cut \in Nat
      BY <2>1, MaxRowsAssumption
    <2>. QED  BY <1>6, <1>7, <2>2 DEF Filter
  <1>8. ASSUME NEW h \in Threads, NEW t \in Slots, NEW u \in Slots, NEW cut \in 1..MaxRows,
               NEW positions \in Selections, Copy(h, t, u, positions, cut)
        PROVE  Exact'
    <2>1. positions \in Seq(Nat \ {0}) /\ cut \in Nat
      BY MaxRowsAssumption, SelectionsAssumption
    <2>. QED  BY <1>6, <1>8, <2>1 DEF Copy
  <1>9. ASSUME NEW h \in Threads, NEW p \in 1..MaxRows, Visit(h, p)  PROVE Exact'
    <2>. DEFINE row == job[h].rows[(p - 1) * job[h].cut + job[h].visited[p] + 1]
                b == table[job[h].from][row]
                taken == heap[b].value \in job[h].accepted
                w == <<"job", h>>
    <2>1. job[h] \in Gathers /\ p \in DOMAIN job[h].visited /\ job[h].op = "gather"
      BY <1>9, JobKinds DEF Visit
    <2>2. row \in DOMAIN table[job[h].from]
      BY <1>9, VisitedRow DEF Visit
    <2>3. job[h].from \in Slots /\ Exists(job[h].from) /\ Len(job[h].found) = Len(job[h].visited)
      BY <2>1 DEF Gathers, Borrows, GatherOK
    <2>. HIDE DEF row
    <2>4. b \in Addresses /\ heap[b] # NULL
      BY <2>2, <2>3, RowLives
    <2>5. /\ heap' = IF taken THEN Cloned(heap, b) ELSE heap
          /\ job' = [job EXCEPT ![h].visited[p] = @ + 1,
                                ![h].found[p] = IF taken THEN Append(@, b) ELSE @]
          /\ UNCHANGED <<table, single>>
      BY <1>9 DEF Visit, row
    <2>. HIDE DEF b
    <2>. DEFINE grown == IF taken THEN Append(job[h].found[p], b) ELSE job[h].found[p]
    <2>6. /\ job'[h].op = "gather"
          /\ job'[h].found = [job[h].found EXCEPT ![p] = grown]
          /\ \A g \in Threads : g # h => job'[g] = job[g]
      BY <2>1, <2>5 DEF TypeOK, Gathers
    <2>. HIDE DEF taken, grown
    <2>7. /\ job[h].found \in Seq(Seq(Addresses)) /\ p \in DOMAIN job[h].found
      BY <2>1, <2>3 DEF Gathers
    <2>8. w \in Holders /\ Handles(w) = Joined(job[h].found) /\ Handles(w)' = Joined(job'[h].found)
      BY <2>1, <2>6, HandlesOf, HandlesOfNext DEF HeldBy
    <2>9. \A x \in Holders : x \notin {w} => Handles(x)' = Handles(x)
      <3>1. \A g \in Threads : <<"job", g>> \notin {w} => HeldBy(job'[g]) = HeldBy(job[g])
        BY <2>6
      <3>. QED  BY <2>5, <3>1, HandlesElsewhere
    <2>. HIDE DEF w
    <2>10. ASSUME NEW a \in Addresses
           PROVE  Strong(a)' + Occ(Handles(w), a) = Strong(a) + Occ(Handles(w)', a)
      <3>1. CASE taken
        <4>1. Strong(a)' = Strong(a) + Same(b, a)
          BY <1>0, <2>4, <2>5, <3>1, ClonedCounts DEF Strong
        <4>2. job'[h].found = [job[h].found EXCEPT ![p] = Append(@, b)]
          <5>1. grown = Append(job[h].found[p], b)
            BY <3>1 DEF grown
          <5>. QED  BY <2>6, <5>1
        <4>3. Occ(Joined(job'[h].found), a) = Occ(Joined(job[h].found), a) + Same(b, a)
          <5>. DEFINE parts == job[h].found
                      more == job'[h].found
          <5>1. more \in Seq(Seq(Addresses)) /\ Len(more) = Len(parts)
            BY <2>4, <2>7, <4>2
          <5>2. \A i \in DOMAIN parts : more[i] = IF i = p THEN Append(parts[i], b) ELSE parts[i]
            BY <2>7, <4>2
          <5>3. parts \in Seq(Seq(Addresses)) /\ p \in DOMAIN parts
            BY <2>7
          <5>. HIDE DEF parts, more
          <5>4. Occ(Joined(more), a) = Occ(Joined(parts), a) + Same(b, a)
            BY <2>4, <5>1, <5>2, <5>3, JoinedAppend
          <5>. QED  BY <5>4 DEF parts, more
        <4>4. Joined(job[h].found) \in Seq(Addresses)
          BY <2>7, JoinedType
        <4>5. Strong(a) \in Nat /\ Same(b, a) \in Nat /\ Occ(Joined(job[h].found), a) \in Nat
          BY <1>0, <4>4, MemoryTyped, WhereFinite DEF Strong, Same
        <4>. QED  BY ONLY <2>8, <4>1, <4>3, <4>5
      <3>2. CASE ~taken
        <4>1. heap' = heap /\ grown = job[h].found[p]
          BY <2>5, <3>2 DEF grown
        <4>2. job'[h].found = job[h].found
          <5>1. \A f \in Seq(Seq(Addresses)) : [f EXCEPT ![p] = f[p]] = f
            OBVIOUS
          <5>2. job'[h].found = [job[h].found EXCEPT ![p] = job[h].found[p]]
            BY <2>6, <4>1
          <5>. QED  BY <2>7, <5>1, <5>2
        <4>. QED  BY <2>8, <4>1, <4>2 DEF Strong
      <3>. QED  BY <3>1, <3>2
    <2>. QED  BY <2>8, <2>9, <2>10, ExactOne
  <1>10. ASSUME NEW h \in Threads, FinishGather(h)  PROVE Exact'
    <2>. DEFINE new == Joined(job[h].found)
    <2>0. PICK u : u = job[h].to
      OBVIOUS
    <2>. DEFINE v == <<"job", h>>
                w == <<"table", u>>
    <2>1. job[h] \in Gathers /\ job[h].op = "gather" /\ u \in Slots /\ ~Exists(u)
      BY <1>10, <2>0, JobKinds DEF FinishGather, Borrows, GatherOK, Gathers
    <2>2. new \in Seq(Addresses)
      BY <2>1, JoinedType DEF Gathers
    <2>3. /\ table' = [table EXCEPT ![u] = new] /\ job' = [job EXCEPT ![h] = Idle]
          /\ UNCHANGED <<heap, single>>
      BY <1>10, <2>0 DEF FinishGather
    <2>4. \A x \in Holders : x \notin {v, w} => Handles(x)' = Handles(x)
      BY <2>3, HandlesElsewhere DEF TypeOK
    <2>5. v \in Holders /\ w \in Holders /\ v # w /\ Handles(v) = new /\ Handles(w) = <<>>
      BY <2>1, HandlesOf DEF HeldBy
    <2>. HIDE DEF new
    <2>6. Handles(v)' = <<>>
      <3>1. job'[h].op = "idle"
        BY <2>3 DEF TypeOK, Idle
      <3>. QED  BY <3>1, HandlesOfNext DEF HeldBy
    <2>7. Handles(w)' = new
      <3>1. table'[u] = new
        BY <2>1, <2>3 DEF TypeOK
      <3>2. table'[u] # NULL
        BY <2>2, <3>1, NullAssumption
      <3>. QED  BY <2>1, <3>1, <3>2, HandlesOfNext DEF Exists
    <2>8. \A a \in Addresses : Strong(a)' = Strong(a)
      BY <2>3 DEF Strong
    <2>. HIDE DEF v, w
    <2>9. ASSUME NEW a \in Addresses
          PROVE  Occ(Handles(v), a) + Occ(Handles(w), a) = Occ(Handles(v)', a) + Occ(Handles(w)', a)
      <3>1. Occ(<<>>, a) = 0 /\ Occ(new, a) \in Nat
        BY <2>2, OccEmpty, WhereFinite
      <3>. QED  BY ONLY <2>5, <2>6, <2>7, <3>1
    <2>. QED  BY <2>4, <2>5, <2>8, <2>9, ExactTwo
  <1>11. ASSUME NEW h \in Threads, NEW t \in Slots, NEW i \in 1..MaxRows, GetMut(h, t, i)
         PROVE  Exact'
    <2>1. PICK op \in {"copy", "write"} :
            job' = [job EXCEPT ![h] = [op |-> op, at |-> t, row |-> i]]
      BY <1>11 DEF GetMut, Start
    <2>. DEFINE work == [op |-> op, at |-> t, row |-> i]
    <2>2. work \in Jobs /\ HeldBy(work) = <<>> /\ HeldBy(job[h]) = <<>>
      BY <1>11, MaxRowsAssumption DEF GetMut, Start, HeldBy, Idle, Jobs, Edits
    <2>. HIDE DEF work
    <2>. QED  BY <1>11, <1>a, <2>1, <2>2 DEF GetMut, work
  <1>12. ASSUME NEW h \in Threads, CopyRecord(h)  PROVE Exact'
    <2>0. PICK t, i : t = job[h].at /\ i = job[h].row
      OBVIOUS
    <2>. DEFINE c == table[t][i]
                w == <<"table", t>>
    <2>1. job[h] \in Edits /\ t \in Slots /\ Exists(t) /\ i \in DOMAIN table[t]
      BY <1>12, <2>0, JobKinds DEF CopyRecord, Borrows, EditOK, Edits
    <2>2. c \in Addresses /\ heap[c] # NULL /\ table[t] \in Seq(Addresses)
      BY <2>1, RowLives
    <2>3. PICK b \in Addresses :
            /\ heap[b] = NULL
            /\ heap' = Dropped(Allocated(heap, b, heap[c].value), c)
            /\ table' = [table EXCEPT ![t] = [@ EXCEPT ![i] = b]]
      BY <1>12, <2>0 DEF CopyRecord
    <2>4. UNCHANGED single /\ \A g \in Threads : HeldBy(job'[g]) = HeldBy(job[g])
      <3>1. job[h].op = "copy" /\ job'[h].op = "write"
        BY <1>12 DEF CopyRecord, TypeOK
      <3>2. \A g \in Threads : g # h => job'[g] = job[g]
        BY <1>12 DEF CopyRecord, TypeOK
      <3>3. HeldBy(job'[h]) = <<>> /\ HeldBy(job[h]) = <<>>
        BY <3>1 DEF HeldBy
      <3>. QED  BY <1>12, <3>2, <3>3 DEF CopyRecord
    <2>5. w \in Holders /\ Handles(w) = table[t]
      BY <2>1, HandlesOf
    <2>6. Handles(w)' = [table[t] EXCEPT ![i] = b]
      <3>1. table'[t] = [table[t] EXCEPT ![i] = b]
        BY <2>1, <2>3 DEF TypeOK
      <3>2. [table[t] EXCEPT ![i] = b] \in Seq(Addresses)
        BY <2>1, <2>2
      <3>3. table'[t] # NULL
        BY <3>1, <3>2, NullAssumption
      <3>. QED  BY <2>1, <3>1, <3>3, HandlesOfNext DEF Exists
    <2>7. \A x \in Holders : x \notin {w} => Handles(x)' = Handles(x)
      BY <2>3, <2>4, HandlesElsewhere DEF TypeOK
    <2>. HIDE DEF w, c
    <2>8. \A a \in Addresses : Strong(a) + Same(b, a) = Strong(a)' + Same(c, a)
      BY <1>0, <2>2, <2>3, CopyCounts DEF Strong
    <2>9. ASSUME NEW a \in Addresses
          PROVE  Strong(a)' + Occ(Handles(w), a) = Strong(a) + Occ(Handles(w)', a)
      <3>1. Occ([table[t] EXCEPT ![i] = b], a) + Same(c, a) = Occ(table[t], a) + Same(b, a)
        BY <2>1, <2>2, OccExcept DEF c
      <3>2. [table[t] EXCEPT ![i] = b] \in Seq(Addresses)
        BY <2>1, <2>2
      <3>3. /\ Occ([table[t] EXCEPT ![i] = b], a) \in Nat /\ Occ(table[t], a) \in Nat
            /\ Same(c, a) \in Nat /\ Same(b, a) \in Nat
        BY <2>2, <3>2, WhereFinite DEF Same
      <3>4. Strong(a) \in Nat /\ Strong(a)' \in Nat
        BY MemoryTyped DEF Strong, TypeOK
      <3>5. /\ Occ(Handles(w), a) = Occ(table[t], a)
            /\ Occ(Handles(w)', a) = Occ([table[t] EXCEPT ![i] = b], a)
        BY ONLY <2>5, <2>6
      <3>6. Strong(a) + Same(b, a) = Strong(a)' + Same(c, a)
        BY <2>8
      <3>7. \A p, q, r, d, m, n \in Nat : p + q = r + d /\ m + d = n + q => r + n = p + m
        OBVIOUS
      <3>. QED  BY ONLY <3>1, <3>3, <3>4, <3>5, <3>6, <3>7
    <2>. QED  BY <2>5, <2>7, <2>9, ExactOne
  <1>13. ASSUME NEW h \in Threads, NEW v \in Records, Write(h, v)  PROVE Exact'
    <2>. DEFINE a == table[job[h].at][job[h].row]
    <2>1. job[h] \in Edits /\ job[h].at \in Slots /\ Exists(job[h].at)
          /\ job[h].row \in DOMAIN table[job[h].at]
      BY <1>13, JobKinds DEF Write, Borrows, EditOK, Edits
    <2>2. a \in Addresses /\ heap[a] # NULL
      BY <2>1, RowLives
    <2>3. heap' = [heap EXCEPT ![a].value = v] /\ job' = [job EXCEPT ![h] = Idle]
          /\ job[h].op = "write" /\ UNCHANGED <<table, single>>
      BY <1>13 DEF Write
    <2>. HIDE DEF a
    <2>4. \A c \in Addresses : Strong(c)' = Strong(c)
      <3>1. \A c \in Addresses : c # a => heap'[c] = heap[c]
        BY <1>0, <2>3 DEF Memory
      <3>2. heap'[a] \in [value : Records, strong : Nat \ {0}] /\ heap'[a].strong = heap[a].strong
        BY <1>0, <2>2, <2>3 DEF Memory
      <3>3. heap'[a] # NULL
        BY <3>2, NullAssumption
      <3>. QED  BY <2>2, <3>1, <3>2, <3>3 DEF Strong, StrongIn
    <2>5. \A g \in Threads : HeldBy(job'[g]) = HeldBy(job[g])
      <3>1. job'[h].op = "idle" /\ \A g \in Threads : g # h => job'[g] = job[g]
        BY <2>3 DEF TypeOK, Idle
      <3>2. HeldBy(job'[h]) = <<>> /\ HeldBy(job[h]) = <<>>
        BY <2>3, <3>1 DEF HeldBy
      <3>. QED  BY <3>1, <3>2
    <2>6. \A w \in Holders : Handles(w)' = Handles(w)
      BY <2>3, <2>5, HandlesEverywhere
    <2>. QED  BY <2>4, <2>6, ExactKept
  <1>14. ASSUME NEW h \in Threads, NEW t \in Slots, Drop(h, t)  PROVE Exact'
    <2>. DEFINE v == <<"job", h>>
                w == <<"table", t>>
    <2>1. /\ table' = [table EXCEPT ![t] = NULL] /\ UNCHANGED <<heap, single>>
          /\ job[h] = Idle /\ Exists(t)
          /\ job' = [job EXCEPT ![h] = [op |-> "drop", handles |-> table[t],
                                        parallel |-> Len(table[t]) >= ParDropRows]]
      BY <1>14 DEF Drop, Start, MayChange, MayRead
    <2>2. /\ job'[h].op = "drop" /\ job'[h].handles = table[t]
          /\ \A g \in Threads : g # h => job'[g] = job[g]
      BY <2>1 DEF TypeOK
    <2>3. table'[t] = NULL /\ \A s \in Slots : s # t => table'[s] = table[s]
      BY <2>1 DEF TypeOK
    <2>4. \A x \in Holders : x \notin {v, w} => Handles(x)' = Handles(x)
      <3>. DEFINE W == {v, w}
      <3>1. \A s \in Slots : <<"table", s>> \notin W => table'[s] = table[s]
        BY <2>3
      <3>2. \A g \in Threads : <<"single", g>> \notin W => single'[g] = single[g]
        BY <2>1
      <3>3. \A g \in Threads : <<"job", g>> \notin W => HeldBy(job'[g]) = HeldBy(job[g])
        BY <2>2
      <3>. HIDE DEF W
      <3>4. \A x \in Holders : x \notin W => Handles(x)' = Handles(x)
        BY ONLY <3>1, <3>2, <3>3, HandlesElsewhere
      <3>. QED  BY <3>4 DEF W
    <2>5. v \in Holders /\ w \in Holders /\ v # w /\ Handles(v) = <<>> /\ Handles(w) = table[t]
      <3>1. HeldBy(job[h]) = <<>>
        BY <2>1 DEF HeldBy, Idle
      <3>2. Exists(t)
        BY <2>1
      <3>. QED  BY <3>1, <3>2, HandlesOf
    <2>6. Handles(v)' = table[t] /\ Handles(w)' = <<>>
      BY <2>2, <2>3, HandlesOfNext DEF HeldBy, Exists
    <2>7. \A a \in Addresses : Strong(a)' = Strong(a)
      BY <2>1 DEF Strong
    <2>8. table[t] \in Seq(Addresses)
      BY <2>1 DEF TypeOK, Exists
    <2>. HIDE DEF v, w
    <2>9. ASSUME NEW a \in Addresses
          PROVE  Occ(Handles(v), a) + Occ(Handles(w), a) = Occ(Handles(v)', a) + Occ(Handles(w)', a)
      <3>1. Occ(<<>>, a) = 0 /\ Occ(table[t], a) \in Nat
        BY <2>8, OccEmpty, WhereFinite
      <3>. QED  BY ONLY <2>5, <2>6, <3>1
    <2>. QED  BY <2>4, <2>5, <2>7, <2>9, ExactTwo
  <1>15. ASSUME NEW h \in Threads, NEW k \in 1..MaxRows, DropHandle(h, k)  PROVE Exact'
    <2>. DEFINE w == <<"job", h>>
                s == job[h].handles
                b == s[k]
    <2>1. job[h] \in Drops /\ job[h].op = "drop" /\ k \in DOMAIN s /\ s \in Seq(Addresses)
      BY <1>15, JobKinds DEF DropHandle, Drops
    <2>2. b \in Addresses /\ heap[b] # NULL
      BY <2>1, DropLives
    <2>3. /\ heap' = Dropped(heap, b) /\ UNCHANGED <<table, single>>
          /\ job' = [job EXCEPT ![h].handles = Without(@, k)]
      BY <1>15 DEF DropHandle
    <2>4. /\ job'[h].op = "drop" /\ job'[h].handles = Without(s, k)
          /\ \A g \in Threads : g # h => job'[g] = job[g]
      BY <2>1, <2>3 DEF TypeOK, Drops
    <2>5. \A x \in Holders : x \notin {w} => Handles(x)' = Handles(x)
      BY <2>3, <2>4, HandlesElsewhere
    <2>6. w \in Holders /\ Handles(w) = s /\ Handles(w)' = Without(s, k)
      BY <2>1, <2>4, HandlesOf, HandlesOfNext DEF HeldBy
    <2>. HIDE DEF w, s, b
    <2>7. \A a \in Addresses : Strong(a) = Strong(a)' + Same(b, a)
      BY <1>0, <2>2, <2>3, DroppedCounts DEF Strong
    <2>8. ASSUME NEW a \in Addresses
          PROVE  Strong(a)' + Occ(Handles(w), a) = Strong(a) + Occ(Handles(w)', a)
      <3>1. Without(s, k) \in Seq(Addresses) /\ Occ(s, a) = Occ(Without(s, k), a) + Same(b, a)
        BY <2>1, OccWithout DEF b
      <3>2. Strong(a)' \in Nat /\ Same(b, a) \in Nat /\ Occ(Without(s, k), a) \in Nat
        BY <3>1, MemoryTyped, WhereFinite DEF Strong, Same, TypeOK
      <3>3. Occ(Handles(w), a) = Occ(s, a) /\ Occ(Handles(w)', a) = Occ(Without(s, k), a)
        BY ONLY <2>6
      <3>. QED  BY <2>7, <3>1, <3>2, <3>3
    <2>. QED  BY <2>5, <2>6, <2>8, ExactOne
  <1>16. ASSUME NEW h \in Threads, FinishDrop(h)  PROVE Exact'
    <2>1. Idle \in Jobs /\ HeldBy(Idle) = <<>> /\ HeldBy(job[h]) = <<>>
      BY <1>16 DEF FinishDrop, HeldBy, Idle, Jobs
    <2>. QED  BY <1>16, <1>a, <2>1 DEF FinishDrop
  <1>17. CASE UNCHANGED vars
    <2>1. \A w \in Holders : Handles(w)' = Handles(w)
      BY <1>17, HandlesEverywhere DEF vars
    <2>2. \A a \in Addresses : Strong(a)' = Strong(a)
      BY <1>17 DEF vars, Strong
    <2>. QED  BY <2>1, <2>2, ExactKept
  <1>. QED
    BY <1>1, <1>2, <1>3, <1>4, <1>5, <1>7, <1>8, <1>9, <1>10, <1>11, <1>12, <1>13, <1>14,
       <1>15, <1>16, <1>17 DEF Next

-----------------------------------------------------------------------------
(* A record that is written to has one handle.                             *)

\* A record with one handle is nowhere else.
LEMMA SoleHandle ==
  ASSUME TypeOK, Exact, NEW v \in Holders, NEW w \in Holders,
         NEW i \in DOMAIN Handles(v), NEW j \in DOMAIN Handles(w),
         Handles(v)[i] = Handles(w)[j], Strong(Handles(v)[i]) = 1
  PROVE  v = w /\ i = j
  <1>. DEFINE a == Handles(v)[i]
              held == Places(Held, a)
  <1>1. a \in Addresses
    BY HandleLives
  <1>2. IsFiniteSet(held) /\ Cardinality(held) = 1
    BY <1>1 DEF Exact
  <1>3. <<v, i>> \in held /\ <<w, j>> \in held
    BY DEF Places, Held, Where
  <1>. HIDE DEF held
  <1>4. PICK x : held = {x}
    BY <1>2, FS_Singleton
  <1>. QED  BY <1>3, <1>4

\* What is in another table, in a thread's hand or in a drop is not the record
\* that is written to.
LEMMA EditedElsewhere ==
  ASSUME IInv, NEW h \in Threads, job[h].op = "write"
  PROVE  LET t == job[h].at
             a == table[t][job[h].row]
         IN /\ t \in Slots /\ Exists(t) /\ job[h].row \in DOMAIN table[t]
            /\ a \in Addresses /\ heap[a] # NULL
            /\ \A u \in Slots : Exists(u) => \A i \in DOMAIN table[u] :
                 table[u][i] = a => u = t /\ i = job[h].row
            /\ \A g \in Threads : single[g] # NULL => single[g] # a
            /\ \A g \in Threads : job[g].op = "drop" =>
                 \A k \in DOMAIN job[g].handles : job[g].handles[k] # a
  <1>. DEFINE t == job[h].at
              i == job[h].row
              a == table[t][i]
              w == <<"table", t>>
  <1>. USE DEF IInv
  <1>1. t \in Slots /\ Exists(t) /\ i \in DOMAIN table[t]
    BY JobKinds DEF Borrows, EditOK, Edits
  <1>2. a \in Addresses /\ heap[a] # NULL
    BY <1>1, RowLives
  <1>3. Strong(a) = 1
    BY DEF EditedAlone
  <1>4. w \in Holders /\ Handles(w) = table[t]
    BY <1>1, HandlesOf
  <1>. HIDE DEF t, i, a
  <1>5. a = Handles(w)[i] /\ i \in DOMAIN Handles(w)
    BY <1>1, <1>4 DEF a
  <1>6. ASSUME NEW v \in Holders, NEW j \in DOMAIN Handles(v), Handles(v)[j] = a
        PROVE  v = w /\ j = i
    BY <1>3, <1>4, <1>5, <1>6, SoleHandle
  <1>. HIDE DEF w
  <1>7. ASSUME NEW u \in Slots, Exists(u), NEW j \in DOMAIN table[u], table[u][j] = a
        PROVE  u = t /\ j = i
    <2>1. <<"table", u>> \in Holders /\ Handles(<<"table", u>>) = table[u]
      BY <1>7, HandlesOf
    <2>2. <<"table", u>> = w /\ j = i
      BY <1>6, <1>7, <2>1
    <2>. QED  BY <2>2 DEF w
  <1>8. ASSUME NEW g \in Threads, single[g] # NULL  PROVE single[g] # a
    <2>1. <<"single", g>> \in Holders /\ Handles(<<"single", g>>) = <<single[g]>>
      BY <1>8, HandlesOf
    <2>2. 1 \in DOMAIN Handles(<<"single", g>>) /\ Handles(<<"single", g>>)[1] = single[g]
      BY <2>1
    <2>3. <<"single", g>> # w
      BY DEF w
    <2>. QED  BY <1>6, <2>1, <2>2, <2>3
  <1>9. ASSUME NEW g \in Threads, job[g].op = "drop", NEW k \in DOMAIN job[g].handles
        PROVE  job[g].handles[k] # a
    <2>1. <<"job", g>> \in Holders /\ Handles(<<"job", g>>) = job[g].handles
      BY <1>9, HandlesOf DEF HeldBy
    <2>2. <<"job", g>> # w
      BY DEF w
    <2>. QED  BY <1>6, <2>1, <2>2
  <1>. QED  BY <1>1, <1>2, <1>7, <1>8, <1>9 DEF t, i, a

\* An edit goes on undisturbed: its table and its record stay as they are.
LEMMA EditUndisturbed ==
  ASSUME IInv, NEW h \in Threads, job[h].op = "write", job'[h] = job[h],
         table'[job[h].at] = table[job[h].at],
         LET a == table[job[h].at][job[h].row] IN heap'[a] = heap[a]
  PROVE  Strong(table[job[h].at][job[h].row])' = 1
  BY DEF IInv, EditedAlone, Strong, StrongIn

LEMMA EditedStep ==
  IInv /\ TypeOK' /\ [Next]_vars => EditedAlone'
  <1>. SUFFICES ASSUME IInv, TypeOK', [Next]_vars, NEW g \in Threads, job'[g].op = "write"
       PROVE  Strong(table[job[g].at][job[g].row])' = 1
    BY DEF EditedAlone
  <1>. DEFINE t == job[g].at
              a == table[t][job[g].row]
  <1>0. heap \in Memory /\ EditOK(g)
    BY DEF IInv, TypeOK, Borrows
  <1>a. job[g].op = "write" =>
          /\ t \in Slots /\ Exists(t) /\ job[g].row \in DOMAIN table[t]
          /\ a \in Addresses /\ heap[a] # NULL
          /\ \A u \in Slots : Exists(u) => \A i \in DOMAIN table[u] :
               table[u][i] = a => u = t /\ i = job[g].row
          /\ \A h \in Threads : single[h] # NULL => single[h] # a
          /\ \A h \in Threads : job[h].op = "drop" =>
               \A k \in DOMAIN job[h].handles : job[h].handles[k] # a
    BY EditedElsewhere
  <1>b. ASSUME job[g].op = "write", job'[g] = job[g], table'[t] = table[t], heap'[a] = heap[a]
        PROVE  Strong(table[job[g].at][job[g].row])' = 1
    BY <1>b, EditUndisturbed
  <1>1. ASSUME NEW h \in Threads, NEW s \in Slots, NewTable(h, s)
        PROVE  Strong(table[job[g].at][job[g].row])' = 1
    BY <1>1, <1>a, <1>b DEF NewTable, Unbound, Exists, IInv, TypeOK
  <1>2. ASSUME NEW h \in Threads, NEW s \in Slots, NEW v \in Records, Push(h, s, v)
        PROVE  Strong(table[job[g].at][job[g].row])' = 1
    <2>1. PICK b \in Addresses : heap[b] = NULL /\ heap' = Allocated(heap, b, v)
      BY <1>2 DEF Push
    <2>2. job'[g] = job[g] /\ job[g].op = "write" /\ t # s /\ table'[t] = table[t]
      BY <1>2, <1>a DEF Push, MayChange, MayRead, Changes, IInv, TypeOK
    <2>3. heap'[a] = heap[a]
      BY <1>a, <2>1, <2>2 DEF Allocated, IInv, TypeOK, Memory
    <2>. QED  BY <1>b, <2>2, <2>3
  <1>3. ASSUME NEW h \in Threads, NEW s \in Slots, Give(h, s)
        PROVE  Strong(table[job[g].at][job[g].row])' = 1
    BY <1>3, <1>a, <1>b DEF Give, MayChange, MayRead, Changes, IInv, TypeOK
  <1>4. ASSUME NEW h \in Threads, NEW s \in Slots, NEW i, Take(h, s, i)
        PROVE  Strong(table[job[g].at][job[g].row])' = 1
    <2>1. /\ job'[g] = job[g] /\ job[g].op = "write" /\ t # s /\ table' = table
          /\ heap' = Cloned(heap, table[s][i]) /\ i \in DOMAIN table[s] /\ Exists(s)
      BY <1>4 DEF Take, MayRead, Changes
    <2>2. table[s][i] # a
      BY <1>a, <2>1
    <2>3. heap'[a] = heap[a]
      BY <1>0, <1>a, <2>1, <2>2 DEF Cloned, Memory
    <2>. QED  BY <1>b, <2>1, <2>3
  <1>5. ASSUME NEW h \in Threads, Release(h)
        PROVE  Strong(table[job[g].at][job[g].row])' = 1
    <2>1. /\ job'[g] = job[g] /\ job[g].op = "write" /\ table' = table
          /\ heap' = Dropped(heap, single[h]) /\ single[h] # a
      BY <1>5, <1>a DEF Release
    <2>2. heap'[a] = heap[a]
      BY <1>0, <1>a, <2>1 DEF Dropped, Memory
    <2>. QED  BY <1>b, <2>1, <2>2
  <1>6. ASSUME NEW h \in Threads, NEW work, work.op # "write", Start(h, work),
               UNCHANGED <<heap, table, single>>
        PROVE  Strong(table[job[g].at][job[g].row])' = 1
    <2>1. h # g /\ job'[g] = job[g]
      BY <1>6 DEF Start, IInv, TypeOK
    <2>. QED  BY <1>6, <1>b, <2>1
  <1>7. ASSUME NEW h \in Threads, NEW s \in Slots, NEW u \in Slots, NEW cut, NEW positions,
               NEW accepted, Gather(h, s, u, positions, accepted, cut)
        PROVE  Strong(table[job[g].at][job[g].row])' = 1
    BY <1>6, <1>7 DEF Gather
  <1>8. ASSUME NEW h \in Threads, NEW s \in Slots, NEW u \in Slots, NEW cut,
               NEW accepted, Filter(h, s, u, accepted, cut)
        PROVE  Strong(table[job[g].at][job[g].row])' = 1
    BY <1>7, <1>8 DEF Filter
  <1>9. ASSUME NEW h \in Threads, NEW s \in Slots, NEW u \in Slots, NEW cut,
               NEW positions, Copy(h, s, u, positions, cut)
        PROVE  Strong(table[job[g].at][job[g].row])' = 1
    BY <1>7, <1>9 DEF Copy
  <1>10. ASSUME NEW h \in Threads, NEW p \in 1..MaxRows, Visit(h, p)
         PROVE  Strong(table[job[g].at][job[g].row])' = 1
    <2>. DEFINE row == job[h].rows[(p - 1) * job[h].cut + job[h].visited[p] + 1]
                b == table[job[h].from][row]
    <2>1. job[h] \in Gathers /\ job[h].op = "gather" /\ GatherOK(h)
      BY <1>10, JobKinds DEF Visit, IInv, Borrows
    <2>2. row \in DOMAIN table[job[h].from]
      BY <1>10, VisitedRow DEF Visit, IInv
    <2>. HIDE DEF row
    <2>3. heap' = heap \/ heap' = Cloned(heap, b)
      BY <1>10 DEF Visit, row
    <2>4. table' = table /\ job'[h].op = "gather" /\ (g # h => job'[g] = job[g])
      BY <1>10, <2>1 DEF Visit, IInv, TypeOK, Gathers
    <2>5. g # h /\ job[g].op = "write" /\ job'[g] = job[g]
      BY <2>4
    <2>6. job[h].from # t /\ job[h].from \in Slots /\ Exists(job[h].from)
      BY <2>1, <2>5 DEF GatherOK, Changes, Gathers
    <2>7. b # a
      BY <1>a, <2>2, <2>5, <2>6
    <2>8. heap'[a] = heap[a]
      BY <1>0, <1>a, <2>3, <2>5, <2>7 DEF Cloned, Memory
    <2>. QED  BY <1>b, <2>4, <2>5, <2>8
  <1>11. ASSUME NEW h \in Threads, FinishGather(h)
         PROVE  Strong(table[job[g].at][job[g].row])' = 1
    <2>1. job[h].op = "gather" /\ job[h].to \in Slots /\ ~Exists(job[h].to)
      BY <1>11, JobKinds DEF FinishGather, IInv, Borrows, GatherOK, Gathers
    <2>2. job'[h].op = "idle" /\ (g # h => job'[g] = job[g])
      BY <1>11 DEF FinishGather, Idle, IInv, TypeOK
    <2>3. g # h /\ job'[g] = job[g] /\ job[g].op = "write" /\ t # job[h].to
      BY <1>a, <2>1, <2>2
    <2>4. table' = [table EXCEPT ![job[h].to] = Joined(job[h].found)] /\ heap' = heap
      BY <1>11 DEF FinishGather
    <2>5. table'[t] = table[t]
      BY <1>a, <2>3, <2>4 DEF IInv, TypeOK
    <2>. QED  BY <1>b, <2>3, <2>4, <2>5
  <1>12. ASSUME NEW h \in Threads, NEW s \in Slots, NEW i \in 1..MaxRows, GetMut(h, s, i)
         PROVE  Strong(table[job[g].at][job[g].row])' = 1
    <2>1. /\ UNCHANGED <<heap, table, single>> /\ Exists(s) /\ i \in DOMAIN table[s]
          /\ Start(h, [op |-> IF Shared(table[s][i]) THEN "copy" ELSE "write", at |-> s, row |-> i])
      BY <1>12 DEF GetMut, MayChange, MayRead
    <2>2. CASE Shared(table[s][i]) \/ g # h
      <3>1. job'[g] = job[g]
        BY <2>1, <2>2 DEF Start, IInv, TypeOK
      <3>. QED  BY <1>b, <2>1, <3>1
    <2>3. CASE ~Shared(table[s][i]) /\ g = h
      <3>1. job'[g].at = s /\ job'[g].row = i
        BY <2>1, <2>3 DEF Start, IInv, TypeOK
      <3>2. table[s][i] \in Addresses /\ heap[table[s][i]] # NULL
        BY <2>1, RowLives DEF IInv
      <3>3. heap[table[s][i]].strong \in Nat \ {0} /\ ~(heap[table[s][i]].strong > 1)
        BY <1>0, <2>3, <3>2 DEF Memory, Shared
      <3>. QED  BY <2>1, <3>1, <3>2, <3>3 DEF Strong, StrongIn
    <2>. QED  BY <2>2, <2>3
  <1>13. ASSUME NEW h \in Threads, CopyRecord(h)
         PROVE  Strong(table[job[g].at][job[g].row])' = 1
    <2>0. PICK s, i : s = job[h].at /\ i = job[h].row
      OBVIOUS
    <2>. DEFINE c == table[s][i]
    <2>1. job[h].op = "copy" /\ s \in Slots /\ Exists(s) /\ i \in DOMAIN table[s] /\ EditOK(h)
      BY <1>13, <2>0, JobKinds DEF CopyRecord, IInv, Borrows, EditOK, Edits
    <2>2. c \in Addresses /\ heap[c] # NULL /\ table[s] \in Seq(Addresses)
      BY <2>1, RowLives DEF IInv
    <2>3. PICK b \in Addresses :
            /\ heap[b] = NULL
            /\ heap' = Dropped(Allocated(heap, b, heap[c].value), c)
            /\ table' = [table EXCEPT ![s] = [@ EXCEPT ![i] = b]]
      BY <1>13, <2>0 DEF CopyRecord
    <2>4. /\ job'[h] = [job[h] EXCEPT !.op = "write"]
          /\ \A f \in Threads : f # h => job'[f] = job[f]
      BY <1>13 DEF CopyRecord, IInv, TypeOK
    <2>5. table'[s][i] = b /\ \A u \in Slots : u # s => table'[u] = table[u]
      BY <2>1, <2>2, <2>3 DEF IInv, TypeOK
    <2>. HIDE DEF c
    <2>6. CASE g = h
      <3>1. job'[h].at = s /\ job'[h].row = i
        BY <2>0, <2>1, <2>4, JobKinds DEF IInv, Edits
      <3>2. heap'[b] = [value |-> heap[c].value, strong |-> 1]
        BY <1>0, <2>2, <2>3 DEF Dropped, Allocated, Memory
      <3>3. Strong(b)' = 1
        <4>1. heap[c].value \in Records
          BY <1>0, <2>2 DEF Memory
        <4>2. heap'[b] # NULL
          BY <3>2, <4>1, NullAssumption
        <4>. QED  BY <3>2, <4>2 DEF Strong, StrongIn
      <3>. QED  BY <2>5, <2>6, <3>1, <3>3
    <2>7. CASE g # h
      <3>1. job'[g] = job[g] /\ job[g].op = "write"
        BY <2>4, <2>7
      <3>2. t # s
        BY <2>0, <2>1, <2>7, <3>1 DEF EditOK, Changes
      <3>3. c # a /\ b # a
        BY <1>a, <2>1, <2>3, <3>1, <3>2 DEF c
      <3>4. heap'[a] = heap[a]
        BY <1>0, <1>a, <2>2, <2>3, <3>1, <3>3 DEF Dropped, Allocated, Memory
      <3>. QED  BY <1>a, <1>b, <2>5, <3>1, <3>2, <3>4
    <2>. QED  BY <2>6, <2>7
  <1>14. ASSUME NEW h \in Threads, NEW v \in Records, Write(h, v)
         PROVE  Strong(table[job[g].at][job[g].row])' = 1
    <2>. DEFINE c == table[job[h].at][job[h].row]
    <2>1. job'[h].op = "idle" /\ (g # h => job'[g] = job[g])
      BY <1>14 DEF Write, Idle, IInv, TypeOK
    <2>2. g # h /\ job'[g] = job[g] /\ job[g].op = "write"
      BY <2>1
    <2>3. /\ job[h].op = "write" /\ job[h].at \in Slots /\ Exists(job[h].at) /\ job[h].at # t
          /\ job[h].row \in DOMAIN table[job[h].at]
      BY <1>0, <1>14, <2>2, JobKinds DEF Write, IInv, Borrows, EditOK, Edits, Changes
    <2>4. heap' = [heap EXCEPT ![c].value = v] /\ table' = table
      BY <1>14 DEF Write
    <2>5. c # a
      BY <1>a, <2>2, <2>3
    <2>. HIDE DEF c
    <2>6. heap'[a] = heap[a]
      BY <1>0, <1>a, <2>2, <2>4, <2>5 DEF Memory
    <2>. QED  BY <1>b, <2>2, <2>4, <2>6
  <1>15. ASSUME NEW h \in Threads, NEW s \in Slots, Drop(h, s)
         PROVE  Strong(table[job[g].at][job[g].row])' = 1
    <2>1. job'[h].op = "drop" /\ (g # h => job'[g] = job[g])
      BY <1>15 DEF Drop, Start, IInv, TypeOK
    <2>2. job'[g] = job[g] /\ job[g].op = "write"
      BY <2>1
    <2>3. t # s /\ table' = [table EXCEPT ![s] = NULL] /\ heap' = heap
      BY <1>15, <2>2 DEF Drop, MayChange, MayRead, Changes
    <2>4. table'[t] = table[t]
      BY <1>a, <2>2, <2>3 DEF IInv, TypeOK
    <2>. QED  BY <1>b, <2>2, <2>3, <2>4
  <1>16. ASSUME NEW h \in Threads, NEW k \in 1..MaxRows, DropHandle(h, k)
         PROVE  Strong(table[job[g].at][job[g].row])' = 1
    <2>1. job[h] \in Drops /\ job[h].op = "drop" /\ k \in DOMAIN job[h].handles
      BY <1>16, JobKinds DEF DropHandle, IInv
    <2>2. job'[h].op = "drop" /\ (g # h => job'[g] = job[g])
      BY <1>16, <2>1 DEF DropHandle, IInv, TypeOK, Drops
    <2>3. job'[g] = job[g] /\ job[g].op = "write"
      BY <2>2
    <2>4. heap' = Dropped(heap, job[h].handles[k]) /\ table' = table /\ job[h].handles[k] # a
      BY <1>16, <1>a, <2>1, <2>3 DEF DropHandle
    <2>5. heap'[a] = heap[a]
      BY <1>0, <1>a, <2>3, <2>4 DEF Dropped, Memory
    <2>. QED  BY <1>b, <2>3, <2>4, <2>5
  <1>17. ASSUME NEW h \in Threads, FinishDrop(h)
         PROVE  Strong(table[job[g].at][job[g].row])' = 1
    <2>1. job'[h].op = "idle" /\ (g # h => job'[g] = job[g])
      BY <1>17 DEF FinishDrop, Idle, IInv, TypeOK
    <2>2. job'[g] = job[g] /\ job[g].op = "write" /\ heap' = heap /\ table' = table
      BY <1>17, <2>1 DEF FinishDrop
    <2>. QED  BY <1>b, <2>2
  <1>18. CASE UNCHANGED vars
    BY <1>18, <1>b DEF vars
  <1>. HIDE DEF t, a
  <1>. QED
    BY <1>1, <1>2, <1>3, <1>4, <1>5, <1>8, <1>9, <1>10, <1>11, <1>12, <1>13, <1>14,
       <1>15, <1>16, <1>17, <1>18 DEF Next

-----------------------------------------------------------------------------
(* The theorems.                                                           *)

LEMMA InitIInv == Init => IInv
  <1>. SUFFICES ASSUME Init  PROVE IInv
    OBVIOUS
  <1>1. TypeOK
    BY DEF Init, TypeOK, Memory, Jobs
  <1>2. Borrows /\ EditedAlone
    BY DEF Init, Borrows, GatherOK, EditOK, EditedAlone, Idle
  <1>3. \A w \in Holders : Handles(w) = <<>>
    <2>1. \A h \in Threads : HeldBy(job[h]) = <<>>
      BY DEF Init, HeldBy, Idle
    <2>. QED  BY <2>1, HandlesOf DEF Init, Exists
  <1>4. ASSUME NEW a \in Addresses
        PROVE  IsFiniteSet(Places(Held, a)) /\ Cardinality(Places(Held, a)) = Strong(a)
    <2>1. Places(Held, a) = {}
      BY <1>3 DEF Places, Held, Where
    <2>2. Strong(a) = 0
      BY DEF Init, Strong, StrongIn
    <2>. QED  BY <2>1, <2>2, FS_EmptySet
  <1>. QED  BY <1>1, <1>2, <1>4 DEF IInv, Exact

LEMMA Inductive == Spec => []IInv
  <1>1. IInv /\ [Next]_vars => IInv'
    BY TypeStep, BorrowsStep, ExactStep, EditedStep DEF IInv
  <1>. QED  BY InitIInv, <1>1, PTL DEF Spec

\* A record's strong count is the number of handles to it, wherever they are:
\* in tables, in threads' hands, in copies and in drops that are under way.  So
\* a record is freed neither early nor late (Arc, table/shared_record.rs).
THEOREM CountsAreExact == Spec => []StrongCountsExact
  <1>1. IInv => StrongCountsExact
    BY DEF IInv, Exact, StrongCountsExact, HandleCount, Held, Strong, StrongIn
  <1>. QED  BY Inductive, <1>1, PTL

\* What get_mut lets its caller write to is a record that no other handle
\* leads to, whatever the other threads did since make_mut looked at its count.
THEOREM EditsAreAlone == Spec => []EditedAlone
  <1>1. IInv => EditedAlone
    BY DEF IInv
  <1>. QED  BY Inductive, <1>1, PTL

-----------------------------------------------------------------------------
(* What is chosen of a sequence.                                           *)

LEMMA ChosenIsUpto ==
  \A s, accepted : Rows!Chosen(s, accepted) = ChosenUpto(s, accepted)[Len(s)]
  BY DEF Rows!Chosen, ChosenUpto

\* ChosenUpto is well defined.
LEMMA ChosenDef ==
  ASSUME NEW s, NEW A, Len(s) \in Nat
  PROVE  ChosenUpto(s, A) =
           [i \in 0..Len(s) |->
              IF i = 0 THEN <<>>
              ELSE IF s[i] \in A THEN Append(ChosenUpto(s, A)[i - 1], s[i])
              ELSE ChosenUpto(s, A)[i - 1]]
  <1>. DEFINE Step(f, i) == IF s[i] \in A THEN Append(f[i - 1], s[i]) ELSE f[i - 1]
              Def(f, n) == f = [i \in 0..n |-> IF i = 0 THEN <<>> ELSE Step(f, i)]
              T == {n \in Nat : \E f : Def(f, n)}
  <1>1. 0 \in T
    <2>1. Def([i \in 0..0 |-> <<>>], 0)
      OBVIOUS
    <2>. QED  BY <2>1
  <1>2. ASSUME NEW n \in T  PROVE n + 1 \in T
    <2>1. PICK f : Def(f, n)
      OBVIOUS
    <2>. DEFINE last == IF s[n + 1] \in A THEN Append(f[n], s[n + 1]) ELSE f[n]
                g == [i \in 0..(n + 1) |-> IF i <= n THEN f[i] ELSE last]
    <2>2. \A i \in 0..(n + 1) : g[i] = IF i = 0 THEN <<>> ELSE Step(g, i)
      <3>. TAKE i \in 0..(n + 1)
      <3>1. CASE i = 0
        BY <2>1, <3>1
      <3>2. CASE i \in 1..n
        <4>1. g[i] = f[i] /\ g[i - 1] = f[i - 1]
          <5>1. i \in 0..(n + 1) /\ i - 1 \in 0..(n + 1) /\ i <= n /\ i - 1 <= n
            BY <3>2
          <5>. HIDE DEF last
          <5>. QED  BY ONLY <5>1 DEF g
        <4>2. f[i] = Step(f, i) /\ i # 0
          <5>. HIDE DEF Step
          <5>1. \A j \in 0..n : f[j] = IF j = 0 THEN <<>> ELSE Step(f, j)
            BY <2>1
          <5>. QED  BY <3>2, <5>1
        <4>. HIDE DEF g
        <4>. QED  BY <4>1, <4>2
      <3>3. CASE i = n + 1
        BY <3>3
      <3>. QED  BY <3>1, <3>2, <3>3
    <2>3. Def(g, n + 1)
      <3>1. DOMAIN g = 0..(n + 1) /\ g = [i \in 0..(n + 1) |-> g[i]]
        OBVIOUS
      <3>. HIDE DEF g, Step
      <3>. QED  BY <2>2, <3>1
    <2>. HIDE DEF g, Def
    <2>. QED  BY <2>3
  <1>3. T = Nat
    <2>1. T \in SUBSET Nat
      OBVIOUS
    <2>. HIDE DEF T
    <2>. QED  BY <1>1, <1>2, <2>1, SetInduction
  <1>4. PICK f : Def(f, Len(s))
    BY <1>3
  <1>. QED  BY <1>4 DEF ChosenUpto

LEMMA ChosenAt ==
  ASSUME NEW s, NEW A, Len(s) \in Nat
  PROVE  /\ ChosenUpto(s, A)[0] = <<>>
         /\ \A i \in 0..Len(s) :
              i < Len(s) =>
                ChosenUpto(s, A)[i + 1] = IF s[i + 1] \in A
                                          THEN Append(ChosenUpto(s, A)[i], s[i + 1])
                                          ELSE ChosenUpto(s, A)[i]
  <1>. DEFINE u == ChosenUpto(s, A)
  <1>1. u = [i \in 0..Len(s) |-> IF i = 0 THEN <<>>
                                 ELSE IF s[i] \in A THEN Append(u[i - 1], s[i]) ELSE u[i - 1]]
    BY ChosenDef
  <1>. HIDE DEF u
  <1>2. u[0] = <<>>
    BY <1>1
  <1>3. ASSUME NEW i \in 0..Len(s), i < Len(s)
        PROVE  u[i + 1] = IF s[i + 1] \in A THEN Append(u[i], s[i + 1]) ELSE u[i]
    <2>1. i + 1 \in 0..Len(s) /\ i + 1 # 0 /\ (i + 1) - 1 = i
      BY <1>3
    <2>2. u[i + 1] = IF s[i + 1] \in A THEN Append(u[(i + 1) - 1], s[i + 1]) ELSE u[(i + 1) - 1]
      BY <1>1, <2>1
    <2>. QED  BY <2>1, <2>2
  <1>. QED  BY <1>2, <1>3 DEF u

LEMMA ChosenType ==
  ASSUME NEW S, NEW s \in Seq(S), NEW A
  PROVE  \A i \in 0..Len(s) : ChosenUpto(s, A)[i] \in Seq(S)
  <1>. DEFINE T == {i \in 0..Len(s) : ChosenUpto(s, A)[i] \in Seq(S)}
  <1>1. Len(s) \in Nat /\ T \in SUBSET (0..Len(s))
    OBVIOUS
  <1>2. 0 \in T
    <2>1. ChosenUpto(s, A)[0] = <<>>
      BY ONLY <1>1, ChosenAt
    <2>2. <<>> \in Seq(S) /\ 0 \in 0..Len(s)
      BY <1>1
    <2>. QED  BY <2>1, <2>2
  <1>3. ASSUME NEW i \in 0..Len(s), i < Len(s), i \in T
        PROVE  i + 1 \in T
    <2>. DEFINE old == ChosenUpto(s, A)[i]
                new == ChosenUpto(s, A)[i + 1]
    <2>1. new = IF s[i + 1] \in A THEN Append(old, s[i + 1]) ELSE old
      BY ONLY <1>1, <1>3, ChosenAt
    <2>2. old \in Seq(S)
      BY <1>3
    <2>3. s[i + 1] \in S /\ i + 1 \in 0..Len(s)
      BY <1>1, <1>3
    <2>. HIDE DEF old, new
    <2>4. new \in Seq(S)
      BY <2>1, <2>2, <2>3
    <2>. QED  BY <2>3, <2>4 DEF new
  <1>. HIDE DEF T
  <1>4. T = 0..Len(s)
    BY <1>1, <1>2, <1>3, BoundedInduction
  <1>. QED  BY <1>4 DEF T

\* If all elements are accepted, all are chosen.
LEMMA AllChosen ==
  ASSUME NEW S, NEW s \in Seq(S)
  PROVE  ChosenUpto(s, S)[Len(s)] = s
  <1>. DEFINE front(i) == [k \in 1..i |-> s[k]]
              T == {i \in 0..Len(s) : ChosenUpto(s, S)[i] = front(i)}
  <1>1. Len(s) \in Nat /\ T \in SUBSET (0..Len(s))
    OBVIOUS
  <1>2. 0 \in T
    <2>1. ChosenUpto(s, S)[0] = <<>>
      BY ONLY <1>1, ChosenAt
    <2>2. front(0) = <<>> /\ 0 \in 0..Len(s)
      BY <1>1
    <2>. HIDE DEF front
    <2>. QED  BY <2>1, <2>2
  <1>3. ASSUME NEW i \in 0..Len(s), i < Len(s), i \in T
        PROVE  i + 1 \in T
    <2>1. s[i + 1] \in S /\ i + 1 \in 0..Len(s) /\ ChosenUpto(s, S)[i] = front(i)
      BY <1>1, <1>3
    <2>2. ChosenUpto(s, S)[i + 1] = Append(ChosenUpto(s, S)[i], s[i + 1])
      BY <1>1, <1>3, <2>1, ChosenAt
    <2>3. Append(front(i), s[i + 1]) = front(i + 1)
      <3>1. front(i) \in Seq(S) /\ Len(front(i)) = i /\ front(i + 1) \in Seq(S)
        BY <1>1, <1>3
      <3>2. Len(front(i + 1)) = i + 1
        BY <1>1, <1>3
      <3>3. Append(front(i), s[i + 1]) \in Seq(S) /\ Len(Append(front(i), s[i + 1])) = i + 1
        BY <2>1, <3>1
      <3>4. \A k \in 1..(i + 1) : Append(front(i), s[i + 1])[k] = front(i + 1)[k]
        BY <2>1, <3>1
      <3>. HIDE DEF front
      <3>. QED  BY <3>1, <3>2, <3>3, <3>4, SeqEqual
    <2>. HIDE DEF front
    <2>. QED  BY <2>1, <2>2, <2>3
  <1>4. T = 0..Len(s)
    <2>. HIDE DEF T
    <2>. QED  BY <1>1, <1>2, <1>3, BoundedInduction
  <1>5. front(Len(s)) = s
    OBVIOUS
  <1>. HIDE DEF front
  <1>. QED  BY <1>1, <1>4, <1>5

-----------------------------------------------------------------------------
(* What is to be seen.                                                     *)

LEMMA ValuesConcat ==
  ASSUME NEW S, NEW s \in Seq(S), NEW t \in Seq(S)
  PROVE  Values(s \o t) = Values(s) \o Values(t)
  <1>. DEFINE V == {ValueAt(x) : x \in S}
  <1>1. \A u \in Seq(S) : Values(u) \in Seq(V) /\ Len(Values(u)) = Len(u)
    BY DEF Values
  <1>2. \A u \in Seq(S) : \A i \in 1..Len(u) : Values(u)[i] = ValueAt(u[i])
    BY DEF Values
  <1>3. s \o t \in Seq(S) /\ Len(s \o t) = Len(s) + Len(t)
        /\ Len(s) \in Nat /\ Len(t) \in Nat
    OBVIOUS
  <1>4. \A i \in 1..(Len(s) + Len(t)) : (s \o t)[i] = IF i <= Len(s) THEN s[i] ELSE t[i - Len(s)]
    OBVIOUS
  <1>. HIDE DEF V
  <1>5. /\ Values(s) \o Values(t) \in Seq(V)
        /\ Len(Values(s) \o Values(t)) = Len(s) + Len(t)
        /\ \A i \in 1..(Len(s) + Len(t)) :
             (Values(s) \o Values(t))[i] =
               IF i <= Len(s) THEN Values(s)[i] ELSE Values(t)[i - Len(s)]
    BY <1>1
  <1>6. \A i \in 1..(Len(s) + Len(t)) : Values(s \o t)[i] = (Values(s) \o Values(t))[i]
    <2>. TAKE i \in 1..(Len(s) + Len(t))
    <2>1. Values(s \o t)[i] = ValueAt((s \o t)[i])
      BY <1>2, <1>3
    <2>2. CASE i <= Len(s)
      BY <1>2, <1>3, <1>4, <1>5, <2>1, <2>2
    <2>3. CASE i > Len(s)
      <3>1. i - Len(s) \in 1..Len(t)
        BY <1>3, <2>3
      <3>2. Values(t)[i - Len(s)] = ValueAt(t[i - Len(s)])
        BY <1>2, <3>1
      <3>3. (s \o t)[i] = t[i - Len(s)]
        BY <1>3, <1>4, <2>3
      <3>4. (Values(s) \o Values(t))[i] = Values(t)[i - Len(s)]
        BY <1>3, <1>5, <2>3
      <3>. QED  BY <2>1, <3>2, <3>3, <3>4
    <2>4. i <= Len(s) \/ i > Len(s)
      BY ONLY <1>3
    <2>. QED  BY <2>2, <2>3, <2>4
  <1>7. Values(s \o t) \in Seq(V) /\ Len(Values(s \o t)) = Len(s) + Len(t)
    BY <1>1, <1>3
  <1>. DEFINE u == Values(s \o t)
              v == Values(s) \o Values(t)
  <1>8. u \in Seq(V) /\ v \in Seq(V) /\ Len(u) = Len(v) /\ \A i \in 1..Len(u) : u[i] = v[i]
    BY <1>5, <1>6, <1>7
  <1>. HIDE DEF u, v
  <1>9. u = v
    BY <1>8, SeqEqual
  <1>. QED  BY <1>9 DEF u, v

LEMMA ValuesAppend ==
  ASSUME NEW S, NEW s \in Seq(S), NEW x \in S
  PROVE  Values(Append(s, x)) = Append(Values(s), ValueAt(x))
  <1>1. Append(s, x) = s \o <<x>> /\ <<x>> \in Seq(S)
    BY AppendIsConcat
  <1>2. Values(s \o <<x>>) = Values(s) \o Values(<<x>>)
    BY <1>1, ValuesConcat
  <1>3. Values(<<x>>) = <<ValueAt(x)>>
    BY DEF Values
  <1>4. Values(s) \in Seq({ValueAt(y) : y \in S})
    BY DEF Values
  <1>5. Append(Values(s), ValueAt(x)) = Values(s) \o <<ValueAt(x)>>
    BY <1>4, AppendIsConcat
  <1>. QED  BY <1>1, <1>2, <1>3, <1>5

\* What lives has a value.
LEMMA LiveValue ==
  TypeOK => \A a \in Addresses : heap[a] # NULL => ValueAt(a) = heap[a].value /\ ValueAt(a) \in Records
  BY NullAssumption DEF TypeOK, Memory, ValueAt

\* What is seen of a table are values of records, and of what is not there NULL.
SeenWell ==
  /\ \A t \in Slots :
       /\ Exists(t) => /\ RowsSeen[t] = Values(table[t])
                       /\ RowsSeen[t] \in Seq(Records)
                       /\ Len(RowsSeen[t]) = Len(table[t])
                       /\ table[t] \in Seq(Addresses)
                       /\ \A i \in DOMAIN table[t] :
                            /\ table[t][i] \in Addresses /\ heap[table[t][i]] # NULL
                            /\ RowsSeen[t][i] = heap[table[t][i]].value
       /\ ~Exists(t) => RowsSeen[t] = NULL
  /\ \A h \in Threads :
       /\ single[h] # NULL => /\ single[h] \in Addresses /\ heap[single[h]] # NULL
                              /\ SingleSeen[h] = heap[single[h]].value
                              /\ SingleSeen[h] \in Records
       /\ single[h] = NULL => SingleSeen[h] = NULL

LEMMA SeenWellNow == IInv => SeenWell
  <1>. SUFFICES ASSUME IInv  PROVE SeenWell
    OBVIOUS
  <1>1. ASSUME NEW t \in Slots, Exists(t)
        PROVE  /\ RowsSeen[t] = Values(table[t])
               /\ RowsSeen[t] \in Seq(Records)
               /\ Len(RowsSeen[t]) = Len(table[t])
               /\ table[t] \in Seq(Addresses)
               /\ \A i \in DOMAIN table[t] :
                    /\ table[t][i] \in Addresses /\ heap[table[t][i]] # NULL
                    /\ RowsSeen[t][i] = heap[table[t][i]].value
    <2>1. table[t] \in Seq(Addresses)
      BY <1>1 DEF IInv, TypeOK, Exists
    <2>2. \A i \in DOMAIN table[t] : table[t][i] \in Addresses /\ heap[table[t][i]] # NULL
      BY <1>1, RowLives DEF IInv
    <2>3. \A i \in DOMAIN table[t] : ValueAt(table[t][i]) = heap[table[t][i]].value
                                  /\ ValueAt(table[t][i]) \in Records
      BY <2>2, LiveValue DEF IInv
    <2>4. RowsSeen[t] = Values(table[t])
      BY <1>1 DEF RowsSeen
    <2>5. /\ Values(table[t]) \in Seq(Records) /\ Len(Values(table[t])) = Len(table[t])
          /\ \A i \in DOMAIN table[t] : Values(table[t])[i] = heap[table[t][i]].value
      BY <2>1, <2>3 DEF Values
    <2>. QED  BY <2>1, <2>2, <2>4, <2>5
  <1>2. ASSUME NEW h \in Threads, single[h] # NULL
        PROVE  /\ single[h] \in Addresses /\ heap[single[h]] # NULL
               /\ SingleSeen[h] = heap[single[h]].value
               /\ SingleSeen[h] \in Records
    <2>1. single[h] \in Addresses /\ heap[single[h]] # NULL
      BY <1>2, SingleLives DEF IInv
    <2>2. ValueAt(single[h]) = heap[single[h]].value /\ ValueAt(single[h]) \in Records
      BY <2>1, LiveValue DEF IInv
    <2>. QED  BY <2>1, <2>2 DEF SingleSeen
  <1>3. ASSUME NEW t \in Slots, ~Exists(t)  PROVE RowsSeen[t] = NULL
    BY <1>3 DEF RowsSeen
  <1>4. ASSUME NEW h \in Threads, single[h] = NULL  PROVE SingleSeen[h] = NULL
    BY <1>4 DEF SingleSeen, ValueAt
  <1>. QED  BY <1>1, <1>2, <1>3, <1>4 DEF SeenWell

LEMMA SeenWellNext == IInv' => SeenWell'
  BY SeenWellNow, PTL

\* Records that live on keep their values.
Steady ==
  \A a \in Addresses : heap[a] # NULL /\ heap'[a] # NULL => heap'[a].value = heap[a].value

LEMMA AllocatedKeeps ==
  ASSUME NEW m \in Memory, NEW a \in Addresses, NEW v, m[a] = NULL,
         NEW b \in Addresses, m[b] # NULL
  PROVE  Allocated(m, a, v)[b] = m[b]
  BY DEF Memory, Allocated

LEMMA ClonedKeeps ==
  ASSUME NEW m \in Memory, NEW a \in Addresses, m[a] # NULL, NEW b \in Addresses, m[b] # NULL
  PROVE  Cloned(m, a)[b].value = m[b].value
  BY DEF Memory, Cloned

LEMMA DroppedKeeps ==
  ASSUME NEW m \in Memory, NEW a \in Addresses, m[a] # NULL,
         NEW b \in Addresses, m[b] # NULL, Dropped(m, a)[b] # NULL
  PROVE  Dropped(m, a)[b].value = m[b].value
  <1>1. CASE a = b
    BY <1>1 DEF Memory, Dropped
  <1>2. CASE a # b
    BY <1>2 DEF Memory, Dropped
  <1>. QED  BY <1>1, <1>2

LEMMA SteadyStep ==
  IInv /\ [Next]_vars => Steady \/ \E h \in Threads, v \in Records : Write(h, v)
  <1>. SUFFICES ASSUME IInv, [Next]_vars, ~\E h \in Threads, v \in Records : Write(h, v)
       PROVE  Steady
    OBVIOUS
  <1>0. heap \in Memory
    BY DEF IInv, TypeOK
  <1>a. CASE UNCHANGED heap
    BY <1>a DEF Steady
  <1>1. ASSUME NEW h \in Threads, NEW t \in Slots, NEW v \in Records, Push(h, t, v)
        PROVE  Steady
    BY <1>0, <1>1, AllocatedKeeps DEF Push, Steady
  <1>2. ASSUME NEW h \in Threads, NEW t \in Slots, NEW i, Take(h, t, i)  PROVE Steady
    <2>1. table[t][i] \in Addresses /\ heap[table[t][i]] # NULL
      BY <1>2, RowLives DEF Take, MayRead, IInv
    <2>. QED  BY <1>0, <1>2, <2>1, ClonedKeeps DEF Take, Steady
  <1>3. ASSUME NEW h \in Threads, Release(h)  PROVE Steady
    <2>1. single[h] \in Addresses /\ heap[single[h]] # NULL
      BY <1>3, SingleLives DEF Release, IInv
    <2>. QED  BY <1>0, <1>3, <2>1, DroppedKeeps DEF Release, Steady
  <1>4. ASSUME NEW h \in Threads, NEW p, Visit(h, p)  PROVE Steady
    <2>. DEFINE row == job[h].rows[(p - 1) * job[h].cut + job[h].visited[p] + 1]
                b == table[job[h].from][row]
    <2>1. job[h] \in Gathers /\ job[h].op = "gather" /\ GatherOK(h)
      BY <1>4, JobKinds DEF Visit, IInv, Borrows
    <2>2. row \in DOMAIN table[job[h].from]
      BY <1>4, VisitedRow DEF Visit, IInv
    <2>. HIDE DEF row
    <2>3. heap' = heap \/ heap' = Cloned(heap, b)
      BY <1>4 DEF Visit, row
    <2>4. b \in Addresses /\ heap[b] # NULL
      BY <2>1, <2>2, RowLives DEF IInv, GatherOK, Gathers
    <2>. HIDE DEF b
    <2>. QED  BY <1>0, <2>3, <2>4, ClonedKeeps DEF Steady
  <1>5. ASSUME NEW h \in Threads, CopyRecord(h)  PROVE Steady
    <2>0. PICK s, i : s = job[h].at /\ i = job[h].row
      OBVIOUS
    <2>. DEFINE c == table[s][i]
    <2>1. s \in Slots /\ Exists(s) /\ i \in DOMAIN table[s]
      BY <1>5, <2>0, JobKinds DEF CopyRecord, IInv, Borrows, EditOK, Edits
    <2>2. c \in Addresses /\ heap[c] # NULL
      BY <2>1, RowLives DEF IInv
    <2>3. PICK b \in Addresses :
            heap[b] = NULL /\ heap' = Dropped(Allocated(heap, b, heap[c].value), c)
      BY <1>5, <2>0 DEF CopyRecord
    <2>. DEFINE m == Allocated(heap, b, heap[c].value)
    <2>. HIDE DEF c
    <2>4. m \in Memory
      BY <1>0, <2>2, <2>3, AllocatedCounts, MemoryTyped
    <2>5. \A a \in Addresses : heap[a] # NULL => m[a] = heap[a]
      BY <1>0, <2>3, AllocatedKeeps
    <2>6. heap' = Dropped(m, c)
      BY <2>3
    <2>. HIDE DEF m
    <2>. QED  BY <2>2, <2>4, <2>5, <2>6, DroppedKeeps DEF Steady
  <1>6. ASSUME NEW h \in Threads, NEW k, DropHandle(h, k)  PROVE Steady
    <2>1. job[h].handles[k] \in Addresses /\ heap[job[h].handles[k]] # NULL
      BY <1>6, DropLives DEF DropHandle, IInv
    <2>. QED  BY <1>0, <1>6, <2>1, DroppedKeeps DEF DropHandle, Steady
  <1>7. ASSUME NEW h \in Threads, NEW t \in Slots, NEW u \in Slots, NEW cut,
               NEW accepted, Filter(h, t, u, accepted, cut)
        PROVE  Steady
    BY <1>7, <1>a DEF Filter, Gather
  <1>8. ASSUME NEW h \in Threads, NEW t \in Slots, NEW u \in Slots, NEW cut,
               NEW positions, Copy(h, t, u, positions, cut)
        PROVE  Steady
    BY <1>8, <1>a DEF Copy, Gather
  <1>9. ASSUME NEW h \in Threads, NEW t \in Slots, NEW i,
               \/ NewTable(h, t) \/ Give(h, t) \/ Drop(h, t) \/ GetMut(h, t, i)
               \/ FinishGather(h) \/ FinishDrop(h)
        PROVE  Steady
    BY <1>9, <1>a DEF NewTable, Give, Drop, GetMut, FinishGather, FinishDrop
  <1>10. ASSUME NEW h \in Threads, FinishGather(h) \/ FinishDrop(h)
        PROVE  Steady
    BY <1>10, <1>a DEF FinishGather, FinishDrop
  <1>11. CASE UNCHANGED vars
    BY <1>11, <1>a DEF vars
  <1>. QED
    BY <1>1, <1>2, <1>3, <1>4, <1>5, <1>6, <1>7, <1>8, <1>9, <1>10, <1>11 DEF Next

\* Then a table that stays as it is looks as it did, and so does a handle.
LEMMA SeenSteady ==
  ASSUME SeenWell, SeenWell', Steady
  PROVE  /\ \A t \in Slots : table'[t] = table[t] => RowsSeen'[t] = RowsSeen[t]
         /\ \A h \in Threads : single'[h] = single[h] => SingleSeen'[h] = SingleSeen[h]
  <1>1. ASSUME NEW t \in Slots, table'[t] = table[t]  PROVE RowsSeen'[t] = RowsSeen[t]
    <2>1. CASE table[t] = NULL
      BY <1>1, <2>1 DEF SeenWell, Exists
    <2>2. CASE table[t] # NULL
      <3>. DEFINE u == RowsSeen[t]
                  v == RowsSeen'[t]
      <3>1. u \in Seq(Records) /\ v \in Seq(Records) /\ Len(u) = Len(v) /\ table[t] \in Seq(Addresses)
            /\ Len(u) = Len(table[t])
        BY <1>1, <2>2 DEF SeenWell, Exists
      <3>2. ASSUME NEW i \in 1..Len(u)  PROVE u[i] = v[i]
        <4>1. i \in DOMAIN table[t] /\ i \in DOMAIN table'[t]
          BY <1>1, <3>1
        <4>2. /\ table[t][i] \in Addresses /\ heap[table[t][i]] # NULL /\ heap'[table[t][i]] # NULL
              /\ u[i] = heap[table[t][i]].value /\ v[i] = heap'[table[t][i]].value
          BY <1>1, <2>2, <4>1 DEF SeenWell, Exists
        <4>. QED  BY <4>2 DEF Steady
      <3>. HIDE DEF u, v
      <3>3. u = v
        BY <3>1, <3>2, SeqEqual
      <3>. QED  BY <3>3 DEF u, v
    <2>. QED  BY <2>1, <2>2
  <1>2. ASSUME NEW h \in Threads, single'[h] = single[h]  PROVE SingleSeen'[h] = SingleSeen[h]
    BY <1>2 DEF SeenWell, Steady
  <1>. QED  BY <1>1, <1>2

\* A write shows in the one row that is written to.
LEMMA SeenWrite ==
  ASSUME IInv, IInv', SeenWell, SeenWell', NEW h \in Threads, NEW v \in Records, Write(h, v)
  PROVE  /\ job[h].at \in Slots /\ Exists(job[h].at) /\ job[h].row \in 1..Len(RowsSeen[job[h].at])
         /\ RowsSeen'[job[h].at] = [RowsSeen[job[h].at] EXCEPT ![job[h].row] = v]
         /\ \A t \in Slots : t # job[h].at => RowsSeen'[t] = RowsSeen[t]
         /\ \A g \in Threads : SingleSeen'[g] = SingleSeen[g]
  <1>0. PICK t, i : t = job[h].at /\ i = job[h].row
    OBVIOUS
  <1>. DEFINE a == table[t][i]
  <1>1. /\ t \in Slots /\ Exists(t) /\ i \in DOMAIN table[t]
        /\ a \in Addresses /\ heap[a] # NULL
        /\ \A u \in Slots : Exists(u) => \A j \in DOMAIN table[u] : table[u][j] = a => u = t /\ j = i
        /\ \A g \in Threads : single[g] # NULL => single[g] # a
    BY <1>0, EditedElsewhere DEF Write
  <1>2. heap' = [heap EXCEPT ![a].value = v] /\ UNCHANGED <<table, single>> /\ heap \in Memory
    BY <1>0 DEF Write, IInv, TypeOK
  <1>. HIDE DEF a
  <1>3. heap'[a].value = v /\ \A b \in Addresses : b # a => heap'[b] = heap[b]
    BY <1>1, <1>2 DEF Memory
  <1>4. ASSUME NEW u \in Slots, u # t  PROVE RowsSeen'[u] = RowsSeen[u]
    <2>1. CASE table[u] = NULL
      BY <1>2, <2>1 DEF SeenWell, Exists
    <2>2. CASE table[u] # NULL
      <3>. DEFINE x == RowsSeen[u]
                  y == RowsSeen'[u]
      <3>1. x \in Seq(Records) /\ y \in Seq(Records) /\ Len(x) = Len(y) /\ table[u] \in Seq(Addresses)
            /\ Len(x) = Len(table[u])
        BY <1>2, <2>2 DEF SeenWell, Exists
      <3>2. ASSUME NEW j \in 1..Len(x)  PROVE x[j] = y[j]
        <4>1. j \in DOMAIN table[u]
          BY <3>1
        <4>2. /\ table[u][j] \in Addresses
              /\ x[j] = heap[table[u][j]].value /\ y[j] = heap'[table[u][j]].value
          BY <1>2, <2>2, <4>1 DEF SeenWell, Exists
        <4>3. table[u][j] # a
          BY <1>1, <1>4, <2>2, <4>1 DEF Exists
        <4>. QED  BY <1>3, <4>2, <4>3
      <3>. HIDE DEF x, y
      <3>3. x = y
        BY <3>1, <3>2, SeqEqual
      <3>. QED  BY <3>3 DEF x, y
    <2>. QED  BY <2>1, <2>2
  <1>5. RowsSeen'[t] = [RowsSeen[t] EXCEPT ![i] = v] /\ i \in 1..Len(RowsSeen[t])
    <2>. DEFINE x == RowsSeen[t]
                y == RowsSeen'[t]
    <2>1. x \in Seq(Records) /\ y \in Seq(Records) /\ Len(x) = Len(y) /\ table[t] \in Seq(Addresses)
          /\ Len(x) = Len(table[t])
      BY <1>1, <1>2 DEF SeenWell, Exists
    <2>2. ASSUME NEW j \in 1..Len(x)  PROVE y[j] = IF j = i THEN v ELSE x[j]
      <3>1. j \in DOMAIN table[t]
        BY <2>1
      <3>2. /\ table[t][j] \in Addresses
            /\ x[j] = heap[table[t][j]].value /\ y[j] = heap'[table[t][j]].value
        BY <1>1, <1>2, <3>1 DEF SeenWell, Exists
      <3>3. CASE j = i
        BY <1>3, <3>2, <3>3 DEF a
      <3>4. CASE j # i
        BY <1>1, <1>3, <3>1, <3>2, <3>4
      <3>. QED  BY <3>3, <3>4
    <2>3. i \in 1..Len(x)
      BY <1>1, <2>1
    <2>. HIDE DEF x, y
    <2>. DEFINE z == [x EXCEPT ![i] = v]
    <2>4. z \in Seq(Records) /\ Len(z) = Len(x) /\ \A j \in 1..Len(x) : z[j] = IF j = i THEN v ELSE x[j]
      BY <2>1, <2>3
    <2>. HIDE DEF z
    <2>5. Len(y) = Len(z) /\ \A j \in 1..Len(y) : y[j] = z[j]
      BY <2>1, <2>2, <2>4
    <2>6. y = z
      BY <2>1, <2>4, <2>5, SeqEqual
    <2>. QED  BY <2>3, <2>6 DEF x, y, z
  <1>6. \A g \in Threads : SingleSeen'[g] = SingleSeen[g]
    BY <1>1, <1>2, <1>3 DEF SeenWell
  <1>. QED  BY <1>0, <1>1, <1>4, <1>5, <1>6

-----------------------------------------------------------------------------
(* Copies read what nobody disturbs.                                       *)

\* A table that is being read stays as it is.
LEMMA ReadTableKept ==
  ASSUME IInv, [Next]_vars, NEW g \in Threads, job[g].op = "gather", job'[g].op = "gather"
  PROVE  /\ job[g].from \in Slots /\ Exists(job[g].from)
         /\ table'[job[g].from] = table[job[g].from]
  <1>. DEFINE from == job[g].from
              Kept == table'[from] = table[from]
  <1>. USE DEF IInv
  <1>1. /\ from \in Slots /\ Exists(from)
        /\ \A h \in Threads : ~Changes(h, from)
    BY JobKinds DEF Borrows, GatherOK, Gathers
  <1>2. Reads(g, from) /\ DOMAIN table = Slots
    BY DEF Reads, TypeOK
  <1>a. ASSUME UNCHANGED table  PROVE Kept
    BY <1>a
  <1>. HIDE DEF from
  <1>3. ASSUME NEW h \in Threads, NEW t \in Slots, NewTable(h, t)  PROVE Kept
    BY <1>1, <1>2, <1>3 DEF NewTable, Unbound
  <1>4. ASSUME NEW h \in Threads, NEW t \in Slots,
               Give(h, t) \/ Drop(h, t) \/ \E v \in Records : Push(h, t, v)
        PROVE  Kept
    <2>1. from # t
      BY <1>2, <1>4 DEF Give, Drop, Push, MayChange
    <2>. QED  BY <1>1, <1>2, <1>4, <2>1 DEF Give, Drop, Push
  <1>5. ASSUME NEW h \in Threads, FinishGather(h)  PROVE Kept
    <2>1. job[h] \in Gathers /\ GatherOK(h) /\ job[h].op = "gather"
      BY <1>5, JobKinds DEF FinishGather, Borrows
    <2>2. from # job[h].to
      BY <1>1, <2>1 DEF GatherOK
    <2>3. table' = [table EXCEPT ![job[h].to] = Joined(job[h].found)]
      BY <1>5 DEF FinishGather
    <2>. QED  BY <1>1, <1>2, <2>2, <2>3
  <1>6. ASSUME NEW h \in Threads, CopyRecord(h)  PROVE Kept
    <2>0. PICK t, i : t = job[h].at /\ i = job[h].row
      OBVIOUS
    <2>1. t # from
      BY <1>1, <1>6, <2>0 DEF CopyRecord, Changes
    <2>2. PICK b : table' = [table EXCEPT ![t] = [@ EXCEPT ![i] = b]]
      BY <1>6, <2>0 DEF CopyRecord
    <2>. QED  BY <1>1, <1>2, <2>1, <2>2
  <1>7. ASSUME NEW h \in Threads, NEW t, NEW i, Take(h, t, i) \/ GetMut(h, t, i)  PROVE Kept
    BY <1>7, <1>a DEF Take, GetMut
  <1>8. ASSUME NEW h \in Threads, NEW t, NEW u, NEW cut, NEW x,
               Filter(h, t, u, x, cut) \/ Copy(h, t, u, x, cut)
        PROVE  Kept
    BY <1>8, <1>a DEF Filter, Copy, Gather
  <1>9. ASSUME NEW h \in Threads, NEW x,
               Release(h) \/ Visit(h, x) \/ Write(h, x) \/ DropHandle(h, x) \/ FinishDrop(h)
        PROVE  Kept
    BY <1>9, <1>a DEF Release, Visit, Write, DropHandle, FinishDrop
  <1>10. ASSUME UNCHANGED vars  PROVE Kept
    BY <1>10, <1>a DEF vars
  <1>11. Kept
    BY <1>3, <1>4, <1>5, <1>6, <1>7, <1>8, <1>9, <1>10 DEF Next
  <1>. QED  BY <1>1, <1>11 DEF from

\* So do the records in it.
LEMMA ReadersUndisturbed ==
  ASSUME IInv, IInv', [Next]_vars, NEW g \in Threads, job[g].op = "gather", job'[g].op = "gather",
         NEW from, from = job[g].from
  PROVE  /\ from \in Slots /\ Exists(from) /\ table'[from] = table[from]
         /\ RowsSeen'[from] = RowsSeen[from]
         /\ \A i \in DOMAIN table[from] :
              /\ ValueAt(table[from][i])' = RowsSeen[from][i]
              /\ ValueAt(table[from][i]) = RowsSeen[from][i]
  <1>0. from = job[g].from
    OBVIOUS
  <1>1. from \in Slots /\ Exists(from) /\ table'[from] = table[from]
    BY <1>0, ReadTableKept
  <1>2. SeenWell /\ SeenWell'
    BY SeenWellNow, SeenWellNext
  <1>3. RowsSeen'[from] = RowsSeen[from]
    <2>1. CASE Steady
      BY <1>1, <1>2, <2>1, SeenSteady
    <2>2. ASSUME NEW h \in Threads, NEW v \in Records, Write(h, v)
          PROVE  RowsSeen'[from] = RowsSeen[from]
      <3>1. job[h].at # from
        BY <1>0, <2>2 DEF Write, IInv, Borrows, GatherOK, Changes
      <3>. QED  BY <1>1, <1>2, <2>2, <3>1, SeenWrite
    <2>. QED  BY <2>1, <2>2, SteadyStep
  <1>4. /\ RowsSeen[from] = Values(table[from])
        /\ RowsSeen'[from] = Values(table[from])'
    <2>1. Exists(from)'
      BY <1>1 DEF Exists
    <2>2. (Exists(from) => RowsSeen[from] = Values(table[from]))'
      BY <1>1, <1>2 DEF SeenWell
    <2>. QED  BY <1>1, <1>2, <2>1, <2>2 DEF SeenWell
  <1>5. ASSUME NEW i \in DOMAIN table[from]
        PROVE  /\ ValueAt(table[from][i])' = RowsSeen[from][i]
               /\ ValueAt(table[from][i]) = RowsSeen[from][i]
    <2>1. Values(table[from])[i] = ValueAt(table[from][i])
      BY DEF Values
    <2>. HIDE DEF Values
    <2>2. (Values(table[from])[i] = ValueAt(table[from][i]))'
      <3>1. i \in DOMAIN table'[from]
        BY <1>1
      <3>. QED  BY <3>1 DEF Values
    <2>. QED  BY <1>1, <1>3, <1>4, <2>1, <2>2
  <1>. QED  BY <1>0, <1>1, <1>3, <1>5

LEMMA GatherTyped ==
  ASSUME IInv, NEW g \in Threads, job[g].op = "gather", NEW work, work = job[g]
  PROVE  /\ work \in Gathers
         /\ \A k \in DOMAIN work.rows : work.rows[k] \in DOMAIN table[work.from]
         /\ work.from \in Slots /\ Exists(work.from)
         /\ work.to \in Slots /\ ~Exists(work.to)
         /\ Len(work.found) = Len(work.visited)
  BY JobKinds DEF IInv, Borrows, GatherOK, Gathers

\* What a copy has found stays what is accepted.
LEMMA FoundKept ==
  ASSUME IInv, IInv', [Next]_vars, NEW g \in Threads, job[g].op = "gather", job'[g].op = "gather",
         NEW work, work \in Gathers, work.from = job[g].from,
         \A k \in DOMAIN work.rows : work.rows[k] \in DOMAIN table[work.from]
  PROVE  /\ Source(work)' = Source(work)
         /\ \A p \in DOMAIN work.found : PartFound(work, p) => PartFound(work, p)'
         /\ FoundIn(work) /\ Len(work.found) = Len(work.visited) => FoundIn(work)'
  <1>0. PICK from : from = work.from
    OBVIOUS
  <1>1. /\ table'[from] = table[from]
        /\ \A i \in DOMAIN table[from] : ValueAt(table[from][i])' = ValueAt(table[from][i])
    BY <1>0, ReadersUndisturbed
  <1>2. Source(work)' = Source(work)
    <2>1. \A k \in DOMAIN work.rows : (ValueAt(table[from][work.rows[k]]))' = ValueAt(table[from][work.rows[k]])
      BY <1>0, <1>1
    <2>. QED  BY <1>0, <2>1 DEF Source
  <1>3. Accepted(work)' = Accepted(work)
    BY <1>2 DEF Accepted, ChosenUpto
  <1>4. ASSUME NEW p \in DOMAIN work.found, PartFound(work, p)  PROVE PartFound(work, p)'
    <2>1. ASSUME NEW k \in DOMAIN work.found[p]
          PROVE  /\ \E i \in DOMAIN table[from] : work.found[p][k] = table[from][i]
                 /\ ValueAt(work.found[p][k])' = ValueAt(work.found[p][k])
      <3>1. PICK i \in DOMAIN table[from] : work.found[p][k] = table[from][i]
        BY <1>0, <1>4 DEF PartFound
      <3>2. work.found[p][k] = table'[from][i]
        BY <1>1, <3>1
      <3>3. ValueAt(table[from][i])' = ValueAt(work.found[p][k])'
        BY <3>2 DEF ValueAt
      <3>. QED  BY <1>1, <3>1, <3>3
    <2>2. Values(work.found[p])' = Values(work.found[p])
      BY <2>1 DEF Values
    <2>3. \A k \in DOMAIN work.found[p] : \E i \in DOMAIN table'[from] : work.found[p][k] = table'[from][i]
      BY <1>1, <2>1
    <2>. QED  BY <1>0, <1>3, <1>4, <2>2, <2>3 DEF PartFound
  <1>5. ASSUME FoundIn(work), Len(work.found) = Len(work.visited)  PROVE FoundIn(work)'
    <2>1. DOMAIN work.found = DOMAIN work.visited
      BY <1>5 DEF Gathers
    <2>. QED  BY <1>0, <1>1, <1>4, <1>5, <2>1 DEF FoundIn
  <1>. QED  BY <1>2, <1>4, <1>5

\* The parts of a list of n rows begin within it.
LEMMA PartsWithin ==
  ASSUME NEW n \in Nat, NEW cut \in Nat \ {0}, NEW p \in Parts(n, cut)
  PROVE  p \in Nat \ {0} /\ (p - 1) * cut \in 0..(n - 1) /\ p * cut = (p - 1) * cut + cut
  <1>. DEFINE m == (n + cut - 1) \div cut
  <1>1. m \in Nat /\ cut * m <= n + cut - 1
    OBVIOUS
  <1>2. p \in 1..m
    BY DEF Parts
  <1>. HIDE DEF m
  <1>3. p * cut = (p - 1) * cut + cut /\ (p - 1) * cut \in Nat
    BY <1>1, <1>2
  <1>4. p * cut <= m * cut
    BY <1>1, <1>2
  <1>. QED  BY <1>1, <1>2, <1>3, <1>4

LEMMA PartLenTyped ==
  ASSUME NEW work \in Gathers, NEW p \in Parts(Len(work.rows), work.cut)
  PROVE  /\ PartLen(work, p) \in Nat \ {0}
         /\ (p - 1) * work.cut + PartLen(work, p) =
              IF p * work.cut <= Len(work.rows) THEN p * work.cut ELSE Len(work.rows)
  <1>. DEFINE n == Len(work.rows)
              c == work.cut
  <1>1. n \in Nat /\ c \in Nat \ {0}
    BY DEF Gathers
  <1>. HIDE DEF n, c
  <1>2. p \in Nat \ {0} /\ (p - 1) * c \in 0..(n - 1) /\ p * c = (p - 1) * c + c
    BY <1>1, PartsWithin DEF n, c
  <1>3. PartLen(work, p) = IF p * c <= n THEN c ELSE n - (p - 1) * c
    BY DEF PartLen, n, c
  <1>. DEFINE b == (p - 1) * c
              e == p * c
  <1>4. b \in 0..(n - 1) /\ e = b + c /\ PartLen(work, p) = IF e <= n THEN c ELSE n - b
    BY <1>2, <1>3
  <1>. HIDE DEF b, e
  <1>5. PartLen(work, p) \in Nat \ {0} /\ b + PartLen(work, p) = IF e <= n THEN e ELSE n
    BY <1>1, <1>4
  <1>. QED  BY <1>5 DEF b, e, n, c

\* The rows that a copy goes through are rows of the table that it reads.
Reading(work) ==
  /\ work \in Gathers /\ work.from \in Slots /\ Exists(work.from)
  /\ \A k \in DOMAIN work.rows : work.rows[k] \in DOMAIN table[work.from]

LEMMA SourceTyped ==
  ASSUME SeenWell, TypeOK, NEW work, Reading(work)
  PROVE  /\ Source(work) \in Seq(Records) /\ Len(Source(work)) = Len(work.rows)
         /\ \A k \in DOMAIN work.rows :
              /\ Source(work)[k] = RowsSeen[work.from][work.rows[k]]
              /\ Source(work)[k] = ValueAt(table[work.from][work.rows[k]])
         /\ \A k \in 0..Len(work.rows) : Accepted(work)[k] \in Seq(Records)
  <1>1. ASSUME NEW k \in DOMAIN work.rows
        PROVE  /\ ValueAt(table[work.from][work.rows[k]]) \in Records
               /\ ValueAt(table[work.from][work.rows[k]]) = RowsSeen[work.from][work.rows[k]]
    BY LiveValue DEF SeenWell, Reading
  <1>2. work.rows \in Seq(Nat)
    BY DEF Reading, Gathers
  <1>3. Source(work) \in Seq(Records) /\ Len(Source(work)) = Len(work.rows)
    BY <1>1, <1>2 DEF Source
  <1>4. \A k \in 0..Len(work.rows) : ChosenUpto(Source(work), work.accepted)[k] \in Seq(Records)
    BY <1>3, ChosenType
  <1>. QED  BY <1>1, <1>3, <1>4 DEF Source, Accepted

\* A copy that begins has found nothing.
LEMMA FoundAtFirst ==
  ASSUME SeenWell, TypeOK, NEW work, Reading(work),
         \/ work.rows = [i \in DOMAIN table[work.from] |-> i]
         \/ work.rows \in Selections /\ work.accepted = Records,
         work.visited = [p \in Parts(Len(work.rows), work.cut) |-> 0],
         work.found = [p \in Parts(Len(work.rows), work.cut) |-> <<>>]
  PROVE  FoundIn(work)
  <1>0. work \in Gathers
    BY DEF Reading
  <1>1. ASSUME NEW p \in DOMAIN work.visited  PROVE PartFound(work, p)
    <2>1. p \in Parts(Len(work.rows), work.cut) /\ work.visited[p] = 0 /\ work.found[p] = <<>>
      OBVIOUS
    <2>2. Len(work.rows) \in Nat /\ work.cut \in Nat \ {0}
      BY <1>0 DEF Gathers
    <2>3. (p - 1) * work.cut \in 0..(Len(work.rows) - 1)
      BY <2>1, <2>2, PartsWithin
    <2>. DEFINE b == (p - 1) * work.cut
                x == Accepted(work)[b]
    <2>4. b \in 0..Len(work.rows) /\ b + 0 = b
      BY <2>2, <2>3
    <2>. HIDE DEF b
    <2>5. x \in Seq(Records)
      BY <2>4, SourceTyped
    <2>. HIDE DEF x
    <2>6. Values(<<>>) = <<>> /\ x \o <<>> = x
      BY <2>5 DEF Values
    <2>7. PartLen(work, p) \in Nat \ {0}
      BY <1>0, <2>1, PartLenTyped
    <2>8. Accepted(work)[b + work.visited[p]] = x
      BY <2>1, <2>4 DEF x
    <2>9. Accepted(work)[(p - 1) * work.cut + work.visited[p]]
            = Accepted(work)[(p - 1) * work.cut] \o Values(work.found[p])
      BY <2>1, <2>6, <2>8 DEF b, x
    <2>. QED  BY <2>1, <2>7, <2>9 DEF PartFound
  <1>. QED  BY <1>1 DEF FoundIn

\* What a visit of the next row of part p makes of a copy.
Visited(work, new, p) ==
  LET next == (p - 1) * work.cut + work.visited[p] + 1
      a == table[work.from][work.rows[next]]
  IN /\ new.from = work.from /\ new.rows = work.rows
     /\ new.accepted = work.accepted /\ new.cut = work.cut
     /\ next \in DOMAIN work.rows /\ work.visited[p] < PartLen(work, p)
     /\ new.visited = [work.visited EXCEPT ![p] = @ + 1]
     /\ new.found = [work.found EXCEPT ![p] = IF ValueAt(a) \in work.accepted THEN Append(@, a) ELSE @]

Grows ==
  \A work, new \in Gathers : \A p \in DOMAIN work.visited :
    /\ Reading(work) /\ FoundIn(work) /\ Len(work.found) = Len(work.visited)
    /\ Visited(work, new, p)
    => FoundIn(new)

LEMMA GrowsNow == SeenWell /\ TypeOK => Grows
  <1>. SUFFICES ASSUME SeenWell, TypeOK, NEW work \in Gathers, NEW new \in Gathers,
                       NEW p \in DOMAIN work.visited,
                       Reading(work), FoundIn(work), Len(work.found) = Len(work.visited),
                       Visited(work, new, p)
       PROVE  FoundIn(new)
    BY DEF Grows
  <1>. DEFINE b == (p - 1) * work.cut
              next == b + work.visited[p] + 1
              a == table[work.from][work.rows[next]]
              taken == ValueAt(a) \in work.accepted
              more == IF taken THEN Append(work.found[p], a) ELSE work.found[p]
  <1>1. /\ new.from = work.from /\ new.rows = work.rows
        /\ new.accepted = work.accepted /\ new.cut = work.cut
        /\ next \in DOMAIN work.rows /\ work.visited[p] < PartLen(work, p)
        /\ new.visited = [work.visited EXCEPT ![p] = @ + 1]
        /\ new.found = [work.found EXCEPT ![p] = more]
    BY DEF Visited
  <1>2. Source(new) = Source(work)
    BY <1>1 DEF Source
  <1>3. Accepted(new) = Accepted(work)
    BY <1>1, <1>2 DEF Accepted
  <1>4. \A q : PartLen(new, q) = PartLen(work, q)
    BY <1>1 DEF PartLen
  <1>5. /\ DOMAIN work.found = DOMAIN work.visited
        /\ DOMAIN new.visited = DOMAIN work.visited
        /\ DOMAIN work.visited = Parts(Len(work.rows), work.cut)
        /\ Len(work.rows) \in Nat /\ work.cut \in Nat \ {0}
    BY <1>1 DEF Gathers, FoundIn
  <1>6. /\ work.visited[p] \in Nat /\ new.visited[p] = work.visited[p] + 1
        /\ work.found[p] \in Seq(Addresses) /\ new.found[p] = more
        /\ \A q \in DOMAIN work.visited :
             q # p => new.visited[q] = work.visited[q] /\ new.found[q] = work.found[q]
    <2>1. work.visited \in Seq(Nat) /\ work.found \in Seq(Seq(Addresses))
      BY DEF Gathers
    <2>. HIDE DEF more, next
    <2>2. /\ new.visited = [work.visited EXCEPT ![p] = @ + 1]
          /\ new.found = [work.found EXCEPT ![p] = more]
      BY <1>1
    <2>. QED  BY <1>5, <2>1, <2>2
  <1>7. b \in 0..(Len(work.rows) - 1) /\ p * work.cut = b + work.cut /\ p \in Nat \ {0}
    BY <1>5, PartsWithin
  <1>. HIDE DEF b
  <1>8. /\ work.rows[next] \in DOMAIN table[work.from]
        /\ a \in Addresses /\ ValueAt(a) \in Records
        /\ Source(work)[next] = ValueAt(a)
    <2>1. work.rows[next] \in DOMAIN table[work.from]
      BY <1>1 DEF Reading
    <2>2. a \in Addresses /\ heap[a] # NULL
      BY <2>1 DEF SeenWell, Reading
    <2>3. Source(work)[next] = ValueAt(a)
      BY <1>1, SourceTyped
    <2>. QED  BY <2>1, <2>2, <2>3, LiveValue
  <1>9. PartFound(new, p)
    <2>. DEFINE c == Accepted(work)
                x == c[b]
                y == Values(work.found[p])
    <2>1. PartFound(work, p)
      BY DEF FoundIn
    <2>2. PartLen(work, p) \in Nat
      BY <1>5, PartLenTyped
    <2>3. new.visited[p] <= PartLen(new, p)
      BY <1>1, <1>4, <1>6, <2>2
    <2>4. \A k \in DOMAIN new.found[p] :
            \E i \in DOMAIN table[new.from] : new.found[p][k] = table[new.from][i]
      <3>1. CASE taken
        <4>1. ASSUME NEW k \in DOMAIN new.found[p]
              PROVE  \E i \in DOMAIN table[work.from] : new.found[p][k] = table[work.from][i]
          <5>1. new.found[p] = Append(work.found[p], a)
            BY <1>6, <3>1
          <5>. HIDE DEF a
          <5>2. \/ k \in DOMAIN work.found[p] /\ new.found[p][k] = work.found[p][k]
                \/ new.found[p][k] = a
            BY <1>6, <1>8, <5>1
          <5>3. \E i \in DOMAIN table[work.from] : a = table[work.from][i]
            BY <1>8 DEF a
          <5>4. \A j \in DOMAIN work.found[p] :
                  \E i \in DOMAIN table[work.from] : work.found[p][j] = table[work.from][i]
            BY <2>1 DEF PartFound
          <5>5. CASE new.found[p][k] = a
            BY <5>3, <5>5
          <5>6. CASE k \in DOMAIN work.found[p] /\ new.found[p][k] = work.found[p][k]
            BY <5>4, <5>6
          <5>. QED  BY <5>2, <5>5, <5>6
        <4>2. new.from = work.from
          BY <1>1
        <4>. QED  BY <4>1, <4>2
      <3>2. CASE ~taken
        BY <1>1, <1>6, <2>1, <3>2 DEF PartFound
      <3>. QED  BY <3>1, <3>2
    <2>5. /\ b + work.visited[p] \in 0..Len(work.rows)
          /\ b + work.visited[p] < Len(work.rows)
          /\ next = (b + work.visited[p]) + 1
      <3>. DEFINE d == work.visited[p]
                  l == PartLen(work, p)
      <3>1. b + l = IF p * work.cut <= Len(work.rows) THEN p * work.cut ELSE Len(work.rows)
        BY <1>5, PartLenTyped DEF b
      <3>2. d < l /\ d \in Nat /\ l \in Nat
        BY <1>1, <1>6, <2>2
      <3>. HIDE DEF d, l
      <3>3. b + d < b + l /\ b + l <= Len(work.rows) /\ b + d \in Nat
        BY <1>5, <1>7, <3>1, <3>2
      <3>4. b + d \in 0..Len(work.rows) /\ b + d < Len(work.rows) /\ b + d + 1 = (b + d) + 1
        <4>. DEFINE n == Len(work.rows)
                    e == b + d
                    f == b + l
        <4>1. n \in Nat /\ e \in Nat /\ f \in Nat /\ e < f /\ f <= n
          BY <1>5, <1>7, <3>2, <3>3
        <4>. HIDE DEF n, e, f
        <4>2. e \in 0..n /\ e < n
          BY <4>1
        <4>. QED  BY <4>2 DEF n, e
      <3>. QED  BY <3>4 DEF d
    <2>6. c[b + work.visited[p]] = x \o y
      BY <2>1 DEF PartFound, b
    <2>7. Len(Source(work)) = Len(work.rows)
      BY SourceTyped
    <2>8. c[(b + work.visited[p]) + 1] = IF Source(work)[(b + work.visited[p]) + 1] \in work.accepted
                    THEN Append(c[b + work.visited[p]], Source(work)[(b + work.visited[p]) + 1])
                    ELSE c[b + work.visited[p]]
      BY <1>5, <2>5, <2>7, ChosenAt DEF Accepted
    <2>9. x \in Seq(Records)
      <3>1. b \in 0..Len(work.rows)
        BY <1>5, <1>7
      <3>. QED  BY <3>1, SourceTyped
    <2>10. y \in Seq({ValueAt(z) : z \in Addresses})
      BY <1>6 DEF Values
    <2>11. c[next] = x \o Values(more)
      <3>1. CASE taken
        <4>1. Values(more) = Append(y, ValueAt(a))
          BY <1>6, <1>8, <3>1, ValuesAppend
        <4>2. c[next] = Append(x \o y, ValueAt(a))
          BY <1>8, <2>5, <2>6, <2>8, <3>1
        <4>. HIDE DEF x, y, c, a, next, more
        <4>3. \A v \in Records : Append(x \o y, v) = x \o Append(y, v)
          <5>. DEFINE S == Records \cup {ValueAt(z) : z \in Addresses}
          <5>1. x \in Seq(S) /\ y \in Seq(S) /\ Records \subseteq S
            BY <2>9, <2>10
          <5>. HIDE DEF S
          <5>. SUFFICES ASSUME NEW v \in S  PROVE Append(x \o y, v) = x \o Append(y, v)
            BY <5>1
          <5>. DEFINE l == Append(x \o y, v)
                      r == x \o Append(y, v)
          <5>2. l \in Seq(S) /\ r \in Seq(S) /\ Len(l) = Len(r) /\ \A i \in 1..Len(l) : l[i] = r[i]
            BY <5>1
          <5>. HIDE DEF l, r
          <5>3. l = r
            BY <5>2, SeqEqual
          <5>. QED  BY <5>3 DEF l, r
        <4>. QED  BY <1>8, <4>1, <4>2, <4>3
      <3>2. CASE ~taken
        BY <1>8, <2>5, <2>6, <2>8, <3>2
      <3>. QED  BY <3>1, <3>2
    <2>12. /\ (p - 1) * new.cut = b
           /\ b + new.visited[p] = next
      BY <1>1, <1>6, <1>7 DEF b
    <2>. QED  BY <1>3, <1>6, <2>3, <2>4, <2>11, <2>12 DEF PartFound
  <1>10. ASSUME NEW q \in DOMAIN work.visited, q # p  PROVE PartFound(new, q)
    <2>1. PartFound(work, q)
      BY DEF FoundIn
    <2>2. /\ new.visited[q] = work.visited[q] /\ new.found[q] = work.found[q]
          /\ new.from = work.from /\ new.cut = work.cut
      BY <1>1, <1>6, <1>10
    <2>3. PartLen(new, q) = PartLen(work, q)
      BY <1>4
    <2>. QED  BY <1>3, <2>1, <2>2, <2>3 DEF PartFound
  <1>. QED  BY <1>1, <1>5, <1>9, <1>10 DEF FoundIn

LEMMA GrowsNext == SeenWell' /\ TypeOK' => Grows'
  BY GrowsNow, PTL

\* The same of what threads copy, now and in the next state.
Gathering ==
  \A h \in Threads, work \in Gathers : job[h] = work =>
    Reading(work) /\ Len(work.found) = Len(work.visited) /\ ~Exists(work.to)

LEMMA GatheringNow == IInv => Gathering
  BY GatherTyped DEF Gathering, Reading, Gathers

LEMMA GatheringNext == IInv' => Gathering'
  BY GatheringNow, PTL

Begins ==
  \A work \in Gathers :
    /\ Reading(work)
    /\ \/ work.rows = [i \in DOMAIN table[work.from] |-> i]
       \/ work.rows \in Selections /\ work.accepted = Records
    /\ work.visited = [p \in Parts(Len(work.rows), work.cut) |-> 0]
    /\ work.found = [p \in Parts(Len(work.rows), work.cut) |-> <<>>]
    => FoundIn(work)

LEMMA BeginsNow == SeenWell /\ TypeOK => Begins
  BY FoundAtFirst DEF Begins

LEMMA BeginsNext == SeenWell' /\ TypeOK' => Begins'
  BY BeginsNow, PTL

\* A job that copies is the one that it was, or begins, or has visited a row.
LEMMA GatherComesFrom ==
  ASSUME IInv, [Next]_vars, NEW g \in Threads, job'[g].op = "gather"
  PROVE  \/ job'[g] = job[g]
         \/ \E t, u \in Slots, cut \in 1..MaxRows :
              \/ \E accepted \in SUBSET Records : Filter(g, t, u, accepted, cut)
              \/ \E positions \in Selections : Copy(g, t, u, positions, cut)
         \/ \E p \in 1..MaxRows : Visit(g, p)
  <1>. DEFINE Stays == job'[g] = job[g]
  <1>0. job \in [Threads -> Jobs] /\ Idle.op # "gather"
    BY DEF IInv, TypeOK, Idle
  <1>1. ASSUME NEW h \in Threads, NEW t, NEW x,
               NewTable(h, t) \/ Give(h, t) \/ Push(h, t, x) \/ Take(h, t, x) \/ Release(h)
        PROVE  Stays
    BY <1>1 DEF NewTable, Give, Push, Take, Release
  <1>2. ASSUME NEW h \in Threads, NEW t, NEW u, NEW cut, NEW x,
               Filter(h, t, u, x, cut) \/ Copy(h, t, u, x, cut), g # h
        PROVE  Stays
    BY <1>0, <1>2 DEF Filter, Copy, Gather, Start
  <1>3. ASSUME NEW h \in Threads, NEW p, Visit(h, p), g # h  PROVE Stays
    BY <1>0, <1>3 DEF Visit
  <1>4. ASSUME NEW h \in Threads, NEW v, FinishGather(h) \/ Write(h, v) \/ FinishDrop(h)
        PROVE  Stays
    BY <1>0, <1>4 DEF FinishGather, Write, FinishDrop
  <1>5. ASSUME NEW h \in Threads, NEW t, NEW i, GetMut(h, t, i)  PROVE Stays
    BY <1>0, <1>5 DEF GetMut, Start
  <1>6. ASSUME NEW h \in Threads, NEW t, Drop(h, t)  PROVE Stays
    BY <1>0, <1>6 DEF Drop, Start
  <1>7. ASSUME NEW h \in Threads, CopyRecord(h)  PROVE Stays
    <2>1. job[h] \in Edits /\ job' = [job EXCEPT ![h].op = "write"]
      BY <1>7, JobKinds DEF CopyRecord, IInv
    <2>. QED  BY <1>0, <2>1 DEF Edits
  <1>8. ASSUME NEW h \in Threads, NEW k, DropHandle(h, k)  PROVE Stays
    <2>1. job[h] \in Drops /\ job' = [job EXCEPT ![h].handles = Without(@, k)] /\ job[h].op = "drop"
      BY <1>8, JobKinds DEF DropHandle, IInv
    <2>. QED  BY <1>0, <2>1 DEF Drops
  <1>9. ASSUME UNCHANGED vars  PROVE Stays
    BY <1>9 DEF vars
  <1>. HIDE DEF Stays
  <1>10. \/ Stays
         \/ \E t, u \in Slots, cut \in 1..MaxRows :
              \/ \E accepted \in SUBSET Records : Filter(g, t, u, accepted, cut)
              \/ \E positions \in Selections : Copy(g, t, u, positions, cut)
         \/ \E p \in 1..MaxRows : Visit(g, p)
    <2>1. SUFFICES ASSUME ~Stays, Next
                   PROVE  \/ \E t, u \in Slots, cut \in 1..MaxRows :
                             \/ \E accepted \in SUBSET Records : Filter(g, t, u, accepted, cut)
                             \/ \E positions \in Selections : Copy(g, t, u, positions, cut)
                          \/ \E p \in 1..MaxRows : Visit(g, p)
      BY <1>9
    <2>2. PICK h \in Threads :
            \/ \E t, u \in Slots, cut \in 1..MaxRows :
                 \/ \E accepted \in SUBSET Records : Filter(h, t, u, accepted, cut)
                 \/ \E positions \in Selections : Copy(h, t, u, positions, cut)
            \/ \E p \in 1..MaxRows : Visit(h, p)
      BY <1>1, <1>4, <1>5, <1>6, <1>7, <1>8, <2>1 DEF Next
    <2>3. h = g
      BY <1>2, <1>3, <2>1, <2>2
    <2>. QED  BY <2>2, <2>3
  <1>. QED  BY <1>10 DEF Stays

LEMMA CopiesStep ==
  ASSUME IInv, IInv', Copies, [Next]_vars
  PROVE  Copies'
  <1>. SUFFICES ASSUME NEW g \in Threads, NEW new \in Gathers, job'[g] = new
       PROVE  FoundIn(new)'
    BY DEF Copies
  <1>1. job'[g].op = "gather"
    BY DEF Gathers
  <1>2. Reading(new)' /\ TypeOK' /\ SeenWell' /\ Len(new.found) = Len(new.visited)
    BY GatheringNext, SeenWellNext DEF Gathering, IInv
  <1>3. CASE job'[g] = job[g]
    <2>1. FoundIn(new) /\ Reading(new) /\ Len(new.found) = Len(new.visited) /\ job[g].op = "gather"
      BY <1>1, <1>3, GatheringNow DEF Copies, Gathering
    <2>2. \A k \in DOMAIN new.rows : new.rows[k] \in DOMAIN table[new.from]
      BY <2>1 DEF Reading
    <2>3. new.from = job[g].from
      BY <1>3
    <2>. QED  BY <1>1, <2>1, <2>2, <2>3, FoundKept
  <1>4. ASSUME NEW t \in Slots, NEW u, NEW cut, NEW accepted, NEW positions,
               Gather(g, t, u, positions, accepted, cut),
               \/ positions = [i \in DOMAIN table[t] |-> i]
               \/ positions \in Selections /\ accepted = Records
        PROVE  FoundIn(new)'
    <2>1. /\ new.from = t /\ new.rows = positions /\ new.accepted = accepted /\ new.cut = cut
          /\ new.visited = [p \in Parts(Len(positions), cut) |-> 0]
          /\ new.found = [p \in Parts(Len(positions), cut) |-> <<>>]
          /\ UNCHANGED table
      BY <1>4 DEF Gather, Start, IInv, TypeOK
    <2>2. Begins'
      BY <1>2, BeginsNext
    <2>. QED  BY <1>2, <1>4, <2>1, <2>2 DEF Begins
  <1>5. ASSUME NEW t \in Slots, NEW u, NEW cut, NEW accepted, Filter(g, t, u, accepted, cut)
        PROVE  FoundIn(new)'
    BY <1>4, <1>5 DEF Filter
  <1>6. ASSUME NEW t \in Slots, NEW u, NEW cut, NEW positions \in Selections,
               Copy(g, t, u, positions, cut)
        PROVE  FoundIn(new)'
    BY <1>4, <1>6 DEF Copy
  <1>7. ASSUME NEW p \in 1..MaxRows, Visit(g, p)  PROVE FoundIn(new)'
    <2>0. PICK work : work = job[g]
      OBVIOUS
    <2>1. /\ work \in Gathers /\ FoundIn(work) /\ Reading(work)
          /\ Len(work.found) = Len(work.visited) /\ job[g].op = "gather"
      BY <1>7, <2>0, JobKinds, GatheringNow DEF Visit, IInv, Copies, Gathering
    <2>. DEFINE next == (p - 1) * work.cut + work.visited[p] + 1
                a == table[work.from][work.rows[next]]
                taken == ValueAt(a) \in work.accepted
    <2>2. /\ p \in DOMAIN work.visited /\ work.visited[p] < PartLen(work, p)
          /\ job' = [job EXCEPT ![g].visited[p] = @ + 1,
                                ![g].found[p] = IF heap[a].value \in work.accepted THEN Append(@, a) ELSE @]
          /\ table' = table
      BY <1>7, <2>0 DEF Visit
    <2>3. next \in DOMAIN work.rows /\ work.rows[next] \in DOMAIN table[work.from]
      BY <2>0, <2>1, <2>2, VisitedRow DEF IInv
    <2>. HIDE DEF next
    <2>4. a \in Addresses /\ ValueAt(a) = heap[a].value
      <3>1. a \in Addresses /\ heap[a] # NULL
        BY <2>1, <2>3, SeenWellNow DEF SeenWell, Reading
      <3>. QED  BY <3>1, LiveValue DEF IInv
    <2>5. ValueAt(a)' = ValueAt(a)
      <3>1. /\ ValueAt(table[work.from][work.rows[next]])' = RowsSeen[work.from][work.rows[next]]
            /\ ValueAt(table[work.from][work.rows[next]]) = RowsSeen[work.from][work.rows[next]]
        BY <1>1, <2>0, <2>1, <2>3, ReadersUndisturbed
      <3>. QED  BY <3>1
    <2>6. /\ new.from = work.from /\ new.rows = work.rows
          /\ new.accepted = work.accepted /\ new.cut = work.cut
          /\ new.visited = [work.visited EXCEPT ![p] = @ + 1]
          /\ new.found = [work.found EXCEPT ![p] = IF taken THEN Append(@, a) ELSE @]
      <3>. DEFINE more == work.visited[p] + 1
                  found == IF taken THEN Append(work.found[p], a) ELSE work.found[p]
      <3>1. DOMAIN job = Threads
        BY DEF IInv, TypeOK
      <3>2. /\ job' = [job EXCEPT ![g].visited[p] = more, ![g].found[p] = found]
            /\ work = job[g] /\ new = job'[g]
        BY <2>0, <2>2, <2>4
      <3>. HIDE DEF a, taken, more, found
      <3>3. new = [work EXCEPT !.visited[p] = more, !.found[p] = found]
        BY <3>1, <3>2
      <3>4. new = [[work EXCEPT !.visited = [work.visited EXCEPT ![p] = more]]
                     EXCEPT !.found = [work.found EXCEPT ![p] = found]]
        BY <2>1, <3>3 DEF Gathers
      <3>5. /\ new.from = work.from /\ new.rows = work.rows
            /\ new.accepted = work.accepted /\ new.cut = work.cut
            /\ new.visited = [work.visited EXCEPT ![p] = more]
            /\ new.found = [work.found EXCEPT ![p] = found]
        BY <2>1, <3>4 DEF Gathers
      <3>. QED  BY <3>5 DEF more, found
    <2>7. Visited(work, new, p)'
      BY <2>2, <2>3, <2>5, <2>6 DEF Visited, next, PartLen
    <2>8. Reading(work)' /\ FoundIn(work)'
      <3>1. \A k \in DOMAIN work.rows : work.rows[k] \in DOMAIN table[work.from]
        BY <2>1 DEF Reading
      <3>2. FoundIn(work)'
        BY <1>1, <2>0, <2>1, <3>1, FoundKept
      <3>3. Reading(work)'
        BY <2>1, <2>2 DEF Reading, Exists
      <3>. QED  BY <3>2, <3>3
    <2>. QED  BY <1>2, <2>1, <2>2, <2>7, <2>8, GrowsNext DEF Grows
  <1>. QED  BY <1>1, <1>3, <1>5, <1>6, <1>7, GatherComesFrom

LEMMA CopiesInvariant == Spec => []Copies
  <1>1. Init => Copies
    BY DEF Init, Copies, Idle, Gathers
  <1>2. IInv /\ IInv' /\ Copies /\ [Next]_vars => Copies'
    BY CopiesStep
  <1>. QED  BY Inductive, <1>1, <1>2, PTL DEF Spec

\* A copy whose parts are done has found what is accepted of its rows.
LEMMA AllFound ==
  ASSUME SeenWell, TypeOK, NEW work, Reading(work), FoundIn(work),
         Len(work.found) = Len(work.visited),
         \A p \in DOMAIN work.visited : work.visited[p] = PartLen(work, p)
  PROVE  Values(Joined(work.found)) = Accepted(work)[Len(work.rows)]
  <1>. DEFINE n == Len(work.rows)
              c == work.cut
              m == (n + c - 1) \div c
              End(p) == IF p * c <= n THEN p * c ELSE n
              upto == Upto(work.found)
              T == {p \in 0..m : Values(upto[p]) = Accepted(work)[End(p)]}
  <1>1. work \in Gathers /\ n \in Nat /\ c \in Nat \ {0} /\ work.found \in Seq(Seq(Addresses))
    BY DEF Reading, Gathers
  <1>2. m \in Nat /\ c * m + c > n + c - 1
    <2>1. \A b \in Nat \ {0}, k \in Nat : k \div b \in Nat /\ b * (k \div b) + b > k
      OBVIOUS
    <2>. HIDE DEF n, c
    <2>2. n + c - 1 \in Nat
      BY <1>1
    <2>. QED  BY <1>1, <2>1, <2>2
  <1>3. DOMAIN work.visited = 1..m /\ Len(work.found) = m /\ Len(Source(work)) = n
    <2>1. DOMAIN work.visited = 1..m
      BY DEF FoundIn, Parts
    <2>2. work.visited \in Seq(Nat)
      BY <1>1 DEF Gathers
    <2>3. Len(work.visited) = m
      <3>. HIDE DEF m
      <3>. QED  BY <1>2, <2>1, <2>2
    <2>. QED  BY <2>1, <2>3, SourceTyped
  <1>4. \A p \in Parts(n, c) : p \in 1..m
    BY DEF Parts
  <1>5. \A p \in 1..m : p \in Parts(n, c)
    BY DEF Parts
  <1>6. End(0) = 0 /\ End(m) = n
    <2>. HIDE DEF n, c, m
    <2>. QED  BY <1>1, <1>2
  <1>. HIDE DEF m
  <1>7. 0 \in T
    <2>1. upto[0] = <<>>
      BY <1>2, <1>3, UptoAt
    <2>2. Accepted(work)[0] = <<>>
      BY <1>1, <1>3, ChosenAt DEF Accepted
    <2>3. Values(<<>>) = <<>>
      BY DEF Values
    <2>. HIDE DEF End, upto
    <2>. QED  BY <1>2, <1>6, <2>1, <2>2, <2>3
  <1>8. ASSUME NEW p \in 0..m, p < m, p \in T  PROVE p + 1 \in T
    <2>1. p + 1 \in 1..m /\ p + 1 \in 0..m /\ (p + 1) - 1 = p
      BY <1>2, <1>8
    <2>2. p + 1 \in Parts(n, c)
      BY <1>5, <2>1
    <2>3. p * c \in 0..(n - 1) /\ (p + 1) * c = p * c + c
      BY <1>1, <2>1, <2>2, PartsWithin
    <2>4. End(p) = p * c
      <3>. DEFINE b == p * c
      <3>. HIDE DEF b, n
      <3>1. b \in 0..(n - 1) /\ n \in Nat
        BY <1>1, <2>3 DEF b
      <3>2. b <= n
        BY <3>1
      <3>. QED  BY <3>2 DEF b
    <2>5. p * c + PartLen(work, p + 1) = End(p + 1)
      BY <1>1, <2>1, <2>2, PartLenTyped
    <2>6. Accepted(work)[p * c + PartLen(work, p + 1)] = Accepted(work)[p * c] \o Values(work.found[p + 1])
      <3>1. PartFound(work, p + 1) /\ work.visited[p + 1] = PartLen(work, p + 1)
        BY <1>3, <2>1 DEF FoundIn
      <3>. QED  BY <2>1, <3>1 DEF PartFound
    <2>7. upto[p + 1] = upto[p] \o work.found[p + 1]
      BY <1>2, <1>3, <1>8, UptoAt
    <2>8. upto[p] \in Seq(Addresses) /\ work.found[p + 1] \in Seq(Addresses)
      <3>1. upto[p] \in Seq(Addresses)
        BY <1>1, <1>3, UptoType
      <3>2. p + 1 \in DOMAIN work.found
        BY <1>1, <1>3, <2>1
      <3>. QED  BY <1>1, <3>1, <3>2
    <2>9. Values(upto[p + 1]) = Values(upto[p]) \o Values(work.found[p + 1])
      BY <2>7, <2>8, ValuesConcat
    <2>10. Values(upto[p]) = Accepted(work)[End(p)]
      BY <1>8
    <2>. HIDE DEF upto, End, n, c
    <2>11. Values(upto[p + 1]) = Accepted(work)[End(p + 1)]
      BY <2>4, <2>5, <2>6, <2>9, <2>10
    <2>. QED  BY <2>1, <2>11
  <1>9. T \in SUBSET (0..m)
    OBVIOUS
  <1>10. T = 0..m
    <2>. HIDE DEF T
    <2>. QED  BY <1>2, <1>7, <1>8, <1>9, BoundedInduction
  <1>11. m \in T
    <2>. HIDE DEF T
    <2>. QED  BY <1>2, <1>10
  <1>12. Values(upto[m]) = Accepted(work)[n]
    <2>. HIDE DEF End, upto
    <2>. QED  BY <1>6, <1>11
  <1>. QED  BY <1>3, <1>12, JoinedIsUpto

\* So a filter yields the rows that it accepts, and a copy the rows it is told.
LEMMA ResultOfFilter ==
  ASSUME SeenWell, TypeOK, NEW work, Reading(work),
         work.rows = [i \in DOMAIN table[work.from] |-> i]
  PROVE  Accepted(work)[Len(work.rows)] = Rows!Chosen(RowsSeen[work.from], work.accepted)
  <1>. DEFINE x == Source(work)
              y == RowsSeen[work.from]
  <1>1. table[work.from] \in Seq(Addresses) /\ y \in Seq(Records) /\ Len(y) = Len(table[work.from])
    BY DEF SeenWell, Reading
  <1>2. /\ x \in Seq(Records) /\ Len(x) = Len(work.rows)
        /\ \A k \in DOMAIN work.rows : x[k] = y[work.rows[k]]
    BY SourceTyped
  <1>3. Len(work.rows) = Len(table[work.from]) /\ DOMAIN work.rows = 1..Len(table[work.from])
        /\ \A k \in 1..Len(table[work.from]) : work.rows[k] = k
    BY <1>1
  <1>. HIDE DEF x, y
  <1>4. Len(x) = Len(y) /\ \A k \in 1..Len(x) : x[k] = y[k]
    <2>1. Len(x) = Len(table[work.from]) /\ Len(y) = Len(table[work.from])
      BY <1>1, <1>2, <1>3
    <2>2. ASSUME NEW k \in 1..Len(table[work.from])  PROVE x[k] = y[k]
      BY <1>2, <1>3
    <2>. QED  BY <2>1, <2>2
  <1>5. x = y
    BY <1>1, <1>2, <1>4, SeqEqual
  <1>6. Accepted(work)[Len(work.rows)] = ChosenUpto(y, work.accepted)[Len(y)]
    BY <1>2, <1>4, <1>5 DEF Accepted, x
  <1>. QED  BY <1>6, ChosenIsUpto DEF y

LEMMA ResultOfCopy ==
  ASSUME SeenWell, TypeOK, NEW work, Reading(work), work.accepted = Records
  PROVE  Accepted(work)[Len(work.rows)] = [j \in DOMAIN work.rows |-> RowsSeen[work.from][work.rows[j]]]
  <1>1. /\ Source(work) \in Seq(Records) /\ Len(Source(work)) = Len(work.rows)
        /\ \A k \in DOMAIN work.rows : Source(work)[k] = RowsSeen[work.from][work.rows[k]]
    BY SourceTyped
  <1>2. Accepted(work)[Len(work.rows)] = Source(work)
    BY <1>1, AllChosen DEF Accepted
  <1>3. Source(work) = [k \in DOMAIN work.rows |-> Source(work)[k]]
    BY DEF Source
  <1>. QED  BY <1>1, <1>2, <1>3

-----------------------------------------------------------------------------
(* Every step shows as a step of tables that own their records, or not.    *)

LEMMA RowsBecome ==
  ASSUME NEW t \in Slots, NEW x, RowsSeen'[t] = x,
         \A u \in Slots : u # t => RowsSeen'[u] = RowsSeen[u]
  PROVE  RowsSeen' = [RowsSeen EXCEPT ![t] = x]
  <1>. DEFINE old == RowsSeen
              new == RowsSeen'
  <1>1. old = [u \in Slots |-> old[u]] /\ new = [u \in Slots |-> new[u]]
    BY DEF RowsSeen
  <1>2. \A u \in Slots : new[u] = IF u = t THEN x ELSE old[u]
    OBVIOUS
  <1>. HIDE DEF old, new
  <1>3. new = [old EXCEPT ![t] = x]
    BY <1>1, <1>2
  <1>. QED  BY <1>3 DEF old, new

LEMMA RowsStay ==
  ASSUME \A u \in Slots : RowsSeen'[u] = RowsSeen[u]
  PROVE  RowsSeen' = RowsSeen
  <1>. DEFINE old == RowsSeen
              new == RowsSeen'
  <1>1. old = [u \in Slots |-> old[u]] /\ new = [u \in Slots |-> new[u]]
    BY DEF RowsSeen
  <1>2. \A u \in Slots : new[u] = old[u]
    OBVIOUS
  <1>. HIDE DEF old, new
  <1>3. new = old
    BY <1>1, <1>2
  <1>. QED  BY <1>3 DEF old, new

LEMMA SingleBecomes ==
  ASSUME NEW h \in Threads, NEW x, SingleSeen'[h] = x,
         \A g \in Threads : g # h => SingleSeen'[g] = SingleSeen[g]
  PROVE  SingleSeen' = [SingleSeen EXCEPT ![h] = x]
  <1>. DEFINE old == SingleSeen
              new == SingleSeen'
  <1>1. old = [g \in Threads |-> old[g]] /\ new = [g \in Threads |-> new[g]]
    BY DEF SingleSeen
  <1>2. \A g \in Threads : new[g] = IF g = h THEN x ELSE old[g]
    OBVIOUS
  <1>. HIDE DEF old, new
  <1>3. new = [old EXCEPT ![h] = x]
    BY <1>1, <1>2
  <1>. QED  BY <1>3 DEF old, new

LEMMA SinglesStay ==
  ASSUME \A g \in Threads : SingleSeen'[g] = SingleSeen[g]
  PROVE  SingleSeen' = SingleSeen
  <1>. DEFINE old == SingleSeen
              new == SingleSeen'
  <1>1. old = [g \in Threads |-> old[g]] /\ new = [g \in Threads |-> new[g]]
    BY DEF SingleSeen
  <1>2. \A g \in Threads : new[g] = old[g]
    OBVIOUS
  <1>. HIDE DEF old, new
  <1>3. new = old
    BY <1>1, <1>2
  <1>. QED  BY <1>3 DEF old, new

\* A table is to be seen if it is there, and has the rows that it has.
LEMMA SeenExists ==
  ASSUME SeenWell, NEW t \in Slots
  PROVE  /\ Rows!Exists(t) <=> Exists(t)
         /\ Exists(t) => Len(RowsSeen[t]) = Len(table[t]) /\ DOMAIN RowsSeen[t] = DOMAIN table[t]
                         /\ DOMAIN table[t] = 1..Len(table[t])
  <1>1. CASE Exists(t)
    <2>1. RowsSeen[t] \in Seq(Records) /\ table[t] \in Seq(Addresses) /\ Len(RowsSeen[t]) = Len(table[t])
      BY <1>1 DEF SeenWell
    <2>2. RowsSeen[t] # NULL
      BY <2>1, NullAssumption
    <2>. QED  BY <1>1, <2>1, <2>2 DEF Rows!Exists
  <1>2. CASE ~Exists(t)
    BY <1>2 DEF SeenWell, Rows!Exists
  <1>. QED  BY <1>1, <1>2

LEMMA SeenAppend ==
  ASSUME SeenWell, SeenWell', Steady, NEW t \in Slots, Exists(t), NEW a \in Addresses,
         table'[t] = Append(table[t], a)
  PROVE  /\ heap'[a].value \in Records
         /\ RowsSeen'[t] = Append(RowsSeen[t], heap'[a].value)
  <1>. DEFINE x == RowsSeen[t]
              y == RowsSeen'[t]
              n == Len(table[t])
              v == heap'[a].value
  <1>1. x \in Seq(Records) /\ Len(x) = n /\ table[t] \in Seq(Addresses) /\ n \in Nat
    BY DEF SeenWell
  <1>2. Append(table[t], a) \in Seq(Addresses) /\ Len(Append(table[t], a)) = n + 1
        /\ Append(table[t], a)[n + 1] = a /\ \A i \in 1..n : Append(table[t], a)[i] = table[t][i]
    BY <1>1
  <1>3. table'[t] \in Seq(Addresses) /\ Len(table'[t]) = n + 1 /\ table'[t][n + 1] = a
        /\ \A i \in 1..n : table'[t][i] = table[t][i]
    BY <1>2
  <1>4. Exists(t)'
    BY <1>3, NullAssumption DEF Exists
  <1>5. y \in Seq(Records) /\ Len(y) = n + 1 /\ \A i \in 1..(n + 1) :
          heap'[table'[t][i]] # NULL /\ y[i] = heap'[table'[t][i]].value
    <2>1. /\ y \in Seq(Records) /\ Len(y) = Len(table'[t])
          /\ \A i \in DOMAIN table'[t] :
               heap'[table'[t][i]] # NULL /\ y[i] = heap'[table'[t][i]].value
      BY <1>4 DEF SeenWell
    <2>2. DOMAIN table'[t] = 1..(n + 1)
      BY <1>1, <1>3
    <2>. HIDE DEF y, n
    <2>. QED  BY <1>3, <2>1, <2>2
  <1>6. y[n + 1] = v /\ v \in Records
    BY <1>1, <1>3, <1>5
  <1>7. ASSUME NEW i \in 1..n  PROVE y[i] = x[i]
    <2>1. /\ table[t][i] \in Addresses /\ heap[table[t][i]] # NULL
          /\ x[i] = heap[table[t][i]].value
      BY <1>1, <1>7 DEF SeenWell
    <2>2. heap'[table[t][i]] # NULL /\ y[i] = heap'[table[t][i]].value
      BY <1>1, <1>3, <1>5, <1>7
    <2>. QED  BY <2>1, <2>2 DEF Steady
  <1>. HIDE DEF x, y, n, v
  <1>. DEFINE z == Append(x, v)
  <1>8. z \in Seq(Records) /\ Len(z) = n + 1 /\ \A i \in 1..(n + 1) : z[i] = y[i]
    <2>1. z \in Seq(Records) /\ Len(z) = n + 1 /\ z[n + 1] = v /\ \A i \in 1..n : z[i] = x[i]
      BY <1>1, <1>6
    <2>. HIDE DEF z
    <2>. QED  BY <1>1, <1>6, <1>7, <2>1
  <1>. HIDE DEF z
  <1>9. y = z
    BY <1>1, <1>5, <1>8, SeqEqual
  <1>. QED  BY <1>6, <1>9 DEF x, y, z, v

LEMMA StepRefines ==
  ASSUME IInv, IInv', Copies, [Next]_vars
  PROVE  [Rows!Next]_(Rows!vars)
  <1>. DEFINE Refined == Rows!Next \/ (RowsSeen' = RowsSeen /\ SingleSeen' = SingleSeen)
  <1>0. SeenWell /\ SeenWell' /\ TypeOK /\ TypeOK'
    BY SeenWellNow, SeenWellNext DEF IInv
  <1>a. ASSUME Steady, UNCHANGED table  PROVE RowsSeen' = RowsSeen
    BY <1>0, <1>a, SeenSteady, RowsStay
  <1>b. ASSUME Steady, UNCHANGED single  PROVE SingleSeen' = SingleSeen
    BY <1>0, <1>b, SeenSteady, SinglesStay
  <1>c. ASSUME Steady, NEW t \in Slots, NEW x, table' = [table EXCEPT ![t] = x], NEW y, RowsSeen'[t] = y
        PROVE  RowsSeen' = [RowsSeen EXCEPT ![t] = y]
    <2>1. \A u \in Slots : u # t => table'[u] = table[u]
      BY <1>0, <1>c DEF TypeOK
    <2>. QED  BY <1>0, <1>c, <2>1, SeenSteady, RowsBecome
  <1>d. ASSUME Steady, NEW h \in Threads, NEW x, single' = [single EXCEPT ![h] = x], NEW y, SingleSeen'[h] = y
        PROVE  SingleSeen' = [SingleSeen EXCEPT ![h] = y]
    <2>1. \A g \in Threads : g # h => single'[g] = single[g]
      BY <1>0, <1>d DEF TypeOK
    <2>. QED  BY <1>0, <1>d, <2>1, SeenSteady, SingleBecomes
  <1>1. ASSUME Steady, NEW h \in Threads, NEW t \in Slots, NewTable(h, t)  PROVE Refined
    <2>1. table' = [table EXCEPT ![t] = <<>>] /\ UNCHANGED single /\ ~Exists(t)
      BY <1>1 DEF NewTable, Unbound
    <2>2. table'[t] = <<>> /\ <<>> \in Seq(Addresses)
      BY <1>0, <2>1 DEF TypeOK
    <2>3. Exists(t)'
      BY <2>2, NullAssumption DEF Exists
    <2>4. RowsSeen'[t] = <<>>
      BY <1>0, <2>2, <2>3 DEF SeenWell
    <2>5. RowsSeen' = [RowsSeen EXCEPT ![t] = <<>>]
      BY <1>1, <1>c, <2>1, <2>4
    <2>6. Rows!NewTable(t)
      BY <1>0, <1>1, <1>b, <2>1, <2>5, SeenExists DEF Rows!NewTable, Rows!Become
    <2>. QED  BY <2>6 DEF Rows!Next
  <1>2. ASSUME Steady, NEW h \in Threads, NEW t \in Slots, NEW v \in Records, Push(h, t, v)  PROVE Refined
    <2>1. Exists(t) /\ UNCHANGED single
      BY <1>2 DEF Push, MayChange, MayRead
    <2>2. PICK a \in Addresses : heap[a] = NULL /\ heap' = Allocated(heap, a, v)
                                 /\ table' = [table EXCEPT ![t] = Append(@, a)]
      BY <1>2 DEF Push
    <2>3. heap'[a].value = v /\ table'[t] = Append(table[t], a)
      BY <1>0, <2>2 DEF Allocated, TypeOK, Memory
    <2>4. RowsSeen'[t] = Append(RowsSeen[t], v)
      BY <1>0, <1>2, <2>1, <2>3, SeenAppend
    <2>5. RowsSeen' = [RowsSeen EXCEPT ![t] = Append(RowsSeen[t], v)]
      BY <1>2, <1>c, <2>2, <2>4
    <2>6. Rows!Push(t, v)
      BY <1>0, <1>2, <1>b, <2>1, <2>5, SeenExists DEF Rows!Push, Rows!Become
    <2>. QED  BY <2>6 DEF Rows!Next
  <1>3. ASSUME Steady, NEW h \in Threads, NEW t \in Slots, Give(h, t)  PROVE Refined
    <2>. DEFINE a == single[h]
    <2>1. /\ Exists(t) /\ UNCHANGED heap /\ a # NULL
          /\ table' = [table EXCEPT ![t] = Append(@, a)]
          /\ single' = [single EXCEPT ![h] = NULL]
      BY <1>3 DEF Give, MayChange, MayRead
    <2>2. a \in Addresses /\ SingleSeen[h] = heap[a].value /\ SingleSeen[h] \in Records
      BY <1>0, <2>1 DEF SeenWell
    <2>3. table'[t] = Append(table[t], a) /\ single'[h] = NULL
      BY <1>0, <2>1 DEF TypeOK
    <2>4. RowsSeen'[t] = Append(RowsSeen[t], SingleSeen[h])
      BY <1>0, <1>3, <2>1, <2>2, <2>3, SeenAppend
    <2>5. SingleSeen'[h] = NULL /\ SingleSeen[h] # NULL
      BY <1>0, <2>2, <2>3, NullAssumption DEF SeenWell
    <2>6. RowsSeen' = [RowsSeen EXCEPT ![t] = Append(RowsSeen[t], SingleSeen[h])]
      BY <1>3, <1>c, <2>1, <2>4
    <2>7. SingleSeen' = [SingleSeen EXCEPT ![h] = NULL]
      BY <1>3, <1>d, <2>1, <2>5
    <2>8. Rows!Give(h, t)
      BY <1>0, <2>1, <2>5, <2>6, <2>7, SeenExists DEF Rows!Give
    <2>. QED  BY <2>8 DEF Rows!Next
  <1>4. ASSUME Steady, NEW h \in Threads, NEW t \in Slots, NEW i, Take(h, t, i)  PROVE Refined
    <2>. DEFINE a == table[t][i]
    <2>1. /\ Exists(t) /\ i \in DOMAIN table[t] /\ single[h] = NULL /\ UNCHANGED table
          /\ single' = [single EXCEPT ![h] = a]
      BY <1>4 DEF Take, MayRead
    <2>2. a \in Addresses /\ heap[a] # NULL /\ RowsSeen[t][i] = heap[a].value
      BY <1>0, <2>1 DEF SeenWell
    <2>3. single'[h] = a /\ a # NULL
      BY <1>0, <2>1, <2>2, NullAssumption DEF TypeOK
    <2>4. SingleSeen'[h] = RowsSeen[t][i]
      BY <1>0, <1>4, <2>2, <2>3 DEF SeenWell, Steady
    <2>5. SingleSeen' = [SingleSeen EXCEPT ![h] = RowsSeen[t][i]]
      BY <1>4, <1>d, <2>1, <2>4
    <2>6. SingleSeen[h] = NULL /\ i \in 1..Len(RowsSeen[t]) /\ i <= Len(RowsSeen[t]) /\ Rows!Exists(t)
      BY <1>0, <2>1, SeenExists DEF SeenWell
    <2>7. RowsSeen' = RowsSeen
      BY <1>4, <1>a, <2>1
    <2>8. Rows!Take(h, t, i)
      BY <2>5, <2>6, <2>7 DEF Rows!Take
    <2>. QED  BY <2>6, <2>8 DEF Rows!Next
  <1>5. ASSUME Steady, NEW h \in Threads, Release(h)  PROVE Refined
    <2>1. single[h] # NULL /\ single' = [single EXCEPT ![h] = NULL] /\ UNCHANGED table
      BY <1>5 DEF Release
    <2>2. single'[h] = NULL
      BY <1>0, <2>1 DEF TypeOK
    <2>3. SingleSeen'[h] = NULL /\ SingleSeen[h] # NULL
      BY <1>0, <2>1, <2>2, NullAssumption DEF SeenWell
    <2>4. SingleSeen' = [SingleSeen EXCEPT ![h] = NULL]
      BY <1>5, <1>d, <2>1, <2>3
    <2>5. Rows!Release(h)
      BY <1>5, <1>a, <2>1, <2>3, <2>4 DEF Rows!Release
    <2>. QED  BY <2>5 DEF Rows!Next
  <1>6. ASSUME Steady, NEW h \in Threads, NEW t \in Slots, Drop(h, t)  PROVE Refined
    <2>1. Exists(t) /\ table' = [table EXCEPT ![t] = NULL] /\ UNCHANGED single
      BY <1>6 DEF Drop, MayChange, MayRead
    <2>2. table'[t] = NULL
      BY <1>0, <2>1 DEF TypeOK
    <2>3. RowsSeen'[t] = NULL
      BY <1>0, <2>2 DEF SeenWell, Exists
    <2>4. RowsSeen' = [RowsSeen EXCEPT ![t] = NULL]
      BY <1>6, <1>c, <2>1, <2>3
    <2>5. Rows!Remove(t)
      BY <1>0, <1>6, <1>b, <2>1, <2>4, SeenExists DEF Rows!Remove, Rows!Become
    <2>. QED  BY <2>5 DEF Rows!Next
  <1>7. ASSUME Steady, UNCHANGED <<table, single>>  PROVE Refined
    BY <1>7, <1>a, <1>b
  <1>8. ASSUME NEW h \in Threads, NEW v \in Records, Write(h, v)  PROVE Refined
    <2>0. PICK t, i : t = job[h].at /\ i = job[h].row
      OBVIOUS
    <2>1. /\ t \in Slots /\ Exists(t) /\ i \in 1..Len(RowsSeen[t])
          /\ RowsSeen'[t] = [RowsSeen[t] EXCEPT ![i] = v]
          /\ \A u \in Slots : u # t => RowsSeen'[u] = RowsSeen[u]
          /\ \A g \in Threads : SingleSeen'[g] = SingleSeen[g]
      BY <1>0, <1>8, <2>0, SeenWrite
    <2>2. RowsSeen' = [RowsSeen EXCEPT ![t] = [RowsSeen[t] EXCEPT ![i] = v]]
      BY <2>1, RowsBecome
    <2>3. SingleSeen' = SingleSeen
      BY <2>1, SinglesStay
    <2>4. Rows!Exists(t) /\ i <= Len(RowsSeen[t])
      BY <1>0, <2>1, SeenExists
    <2>5. Rows!Edit(t, i, v)
      BY <2>2, <2>3, <2>4 DEF Rows!Edit, Rows!Become
    <2>. QED  BY <2>1, <2>4, <2>5 DEF Rows!Next
  <1>9. ASSUME Steady, NEW h \in Threads, CopyRecord(h)  PROVE Refined
    <2>0. PICK t, i : t = job[h].at /\ i = job[h].row
      OBVIOUS
    <2>. DEFINE a == table[t][i]
    <2>1. t \in Slots /\ Exists(t) /\ i \in DOMAIN table[t] /\ UNCHANGED single
      BY <1>9, <2>0, JobKinds DEF CopyRecord, IInv, Borrows, EditOK, Edits
    <2>2. a \in Addresses /\ heap[a] # NULL /\ table[t] \in Seq(Addresses)
      BY <1>0, <2>1 DEF SeenWell
    <2>3. PICK b \in Addresses :
            /\ heap[b] = NULL
            /\ heap' = Dropped(Allocated(heap, b, heap[a].value), a)
            /\ table' = [table EXCEPT ![t] = [@ EXCEPT ![i] = b]]
      BY <1>9, <2>0 DEF CopyRecord
    <2>4. /\ table'[t] \in Seq(Addresses) /\ Len(table'[t]) = Len(table[t]) /\ table'[t][i] = b
          /\ \A j \in DOMAIN table[t] : j # i => table'[t][j] = table[t][j]
      BY <1>0, <2>1, <2>2, <2>3 DEF TypeOK
    <2>5. heap'[b].value = heap[a].value
      BY <1>0, <2>2, <2>3 DEF Allocated, Dropped, TypeOK, Memory
    <2>. HIDE DEF a
    <2>6. Exists(t)'
      BY <2>4, NullAssumption DEF Exists
    <2>7. RowsSeen'[t] = RowsSeen[t]
      <3>. DEFINE x == RowsSeen[t]
                  y == RowsSeen'[t]
                  n == Len(table[t])
      <3>1. x \in Seq(Records) /\ Len(x) = n /\ DOMAIN table[t] = 1..n
            /\ \A j \in 1..n : table[t][j] \in Addresses /\ heap[table[t][j]] # NULL
                               /\ x[j] = heap[table[t][j]].value
        BY <1>0, <2>1, <2>2 DEF SeenWell
      <3>2. y \in Seq(Records) /\ Len(y) = n /\ DOMAIN table'[t] = 1..n
            /\ \A j \in 1..n : heap'[table'[t][j]] # NULL
                               /\ y[j] = heap'[table'[t][j]].value
        BY <1>0, <2>1, <2>4, <2>6 DEF SeenWell
      <3>. HIDE DEF x, y, n
      <3>3. ASSUME NEW j \in 1..n  PROVE x[j] = y[j]
        <4>1. CASE j = i
          BY <2>4, <2>5, <3>1, <3>2, <4>1 DEF a
        <4>2. CASE j # i
          BY <1>9, <2>4, <3>1, <3>2, <4>2 DEF Steady
        <4>. QED  BY <4>1, <4>2
      <3>4. x = y
        BY <3>1, <3>2, <3>3, SeqEqual
      <3>. QED  BY <3>4 DEF x, y
    <2>8. \A u \in Slots : u # t => table'[u] = table[u]
      BY <1>0, <2>1, <2>3 DEF TypeOK
    <2>9. RowsSeen' = RowsSeen
      BY <1>0, <1>9, <2>7, <2>8, SeenSteady, RowsStay
    <2>. QED  BY <1>9, <1>b, <2>1, <2>9
  <1>10. ASSUME Steady, NEW h \in Threads, FinishGather(h)  PROVE Refined
    <2>0. PICK work, to, from : work = job[h] /\ to = work.to /\ from = work.from
      OBVIOUS
    <2>1. /\ work \in Gathers /\ FoundIn(work) /\ Reading(work) /\ ~Exists(to) /\ to \in Slots
          /\ from \in Slots /\ Exists(from)
          /\ Len(work.found) = Len(work.visited)
          /\ \A k \in DOMAIN work.rows : work.rows[k] \in DOMAIN table[from]
      BY <1>10, <2>0, JobKinds, GatheringNow DEF FinishGather, IInv, Copies, Gathering, Gathers, Reading
    <2>2. /\ \A p \in DOMAIN work.visited : work.visited[p] = PartLen(work, p)
          /\ table' = [table EXCEPT ![to] = Joined(work.found)]
          /\ UNCHANGED <<heap, single>>
      BY <1>10, <2>0 DEF FinishGather
    <2>. DEFINE result == Accepted(work)[Len(work.rows)]
    <2>3. Values(Joined(work.found)) = result
      BY <1>0, <2>1, <2>2, AllFound
    <2>4. RowsSeen'[to] = result
      <3>1. Joined(work.found) \in Seq(Addresses)
        BY <2>1, JoinedType DEF Gathers
      <3>2. table'[to] = Joined(work.found)
        BY <1>0, <2>1, <2>2 DEF TypeOK
      <3>3. Exists(to)'
        BY <3>1, <3>2, NullAssumption DEF Exists
      <3>4. RowsSeen'[to] = (Values(table[to]))'
        BY <1>0, <2>1, <3>3 DEF SeenWell
      <3>5. (Values(table[to]))' = Values(Joined(work.found))
        BY <2>2, <3>2 DEF Values, ValueAt
      <3>. QED  BY <2>3, <3>4, <3>5
    <2>5. RowsSeen' = [RowsSeen EXCEPT ![to] = result] /\ SingleSeen' = SingleSeen
      BY <1>10, <1>b, <1>c, <2>1, <2>2, <2>4
    <2>6. Rows!Exists(from) /\ ~Rows!Exists(to)
      BY <1>0, <2>1, SeenExists
    <2>7. CASE work.rows = [i \in DOMAIN table[from] |-> i]
      <3>1. result = Rows!Chosen(RowsSeen[from], work.accepted)
        BY <1>0, <2>0, <2>1, <2>7, ResultOfFilter
      <3>. HIDE DEF result
      <3>2. Rows!Filter(from, to, work.accepted) /\ work.accepted \in SUBSET Records
        BY <2>1, <2>5, <2>6, <3>1 DEF Rows!Filter, Rows!Become, Gathers
      <3>. QED  BY <2>1, <3>2 DEF Rows!Next
    <2>8. CASE work.rows \in Selections /\ work.accepted = Records
      <3>1. result = [j \in DOMAIN work.rows |-> RowsSeen[from][work.rows[j]]]
        BY <1>0, <2>0, <2>1, <2>8, ResultOfCopy
      <3>2. \A j \in DOMAIN work.rows : work.rows[j] <= Len(RowsSeen[from])
        BY <1>0, <2>1, SeenExists
      <3>. HIDE DEF result
      <3>3. Rows!Copy(from, to, work.rows)
        BY <2>5, <2>6, <3>1, <3>2 DEF Rows!Copy, Rows!Become
      <3>. QED  BY <2>1, <2>8, <3>3 DEF Rows!Next
    <2>. QED  BY <2>0, <2>1, <2>7, <2>8 DEF FoundIn
  <1>11. ASSUME Steady, NEW h \in Threads, NEW t, NEW u, NEW cut, NEW x,
                Filter(h, t, u, x, cut) \/ Copy(h, t, u, x, cut)
         PROVE  Refined
    BY <1>7, <1>11 DEF Filter, Copy, Gather
  <1>12. ASSUME Steady, NEW h \in Threads, NEW t, NEW x,
                GetMut(h, t, x) \/ Visit(h, x) \/ DropHandle(h, x) \/ FinishDrop(h)
         PROVE  Refined
    BY <1>7, <1>12 DEF GetMut, Visit, DropHandle, FinishDrop
  <1>13. ASSUME Steady, UNCHANGED vars  PROVE Refined
    BY <1>7, <1>13 DEF vars
  <1>. HIDE DEF Refined
  <1>14. Refined
    <2>1. CASE Steady
      BY <2>1, <1>1, <1>2, <1>3, <1>4, <1>5, <1>6, <1>8, <1>9, <1>10, <1>11, <1>12, <1>13 DEF Next
    <2>. QED  BY <1>8, <2>1, SteadyStep
  <1>. QED  BY <1>14 DEF Refined, Rows!vars

LEMMA InitRefines == Init => Rows!Init
  <1>. SUFFICES ASSUME Init  PROVE Rows!Init
    OBVIOUS
  <1>1. RowsSeen = [t \in Slots |-> NULL]
    BY DEF Init, RowsSeen, Exists
  <1>2. SingleSeen = [h \in Threads |-> NULL]
    BY DEF Init, SingleSeen, ValueAt
  <1>. QED  BY <1>1, <1>2 DEF Rows!Init

\* Sharing shows in nothing: tables that share records, whatever copies, edits
\* and drops of them are under way, look as if every record were their own.
THEOREM SharingIsUnseen == Spec => ImplementsRecordRows
  <1>1. IInv /\ IInv' /\ Copies /\ [Next]_vars => [Rows!Next]_(Rows!vars)
    BY StepRefines
  <1>. QED  BY InitRefines, Inductive, CopiesInvariant, <1>1, PTL DEF Spec, ImplementsRecordRows, Rows!Spec
===============================================================================
