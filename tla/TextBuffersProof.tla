--------------------------- MODULE TextBuffersProof ---------------------------
(***************************************************************************)
(* Proofs about TextBuffers: for any bytes, sizes and orders, a builder    *)
(* holds the text its calls describe, a call on a cursor that fails        *)
(* changes nothing, and what was written is read back.                     *)
(***************************************************************************)
EXTENDS TextBuffers, NaturalLemmas, SequenceTheorems

ByteStrings == Seq(Nat)

-----------------------------------------------------------------------------
(* The builder.                                                            *)

\* The text and its terminator are in the storage, unless there is no storage.
TransportInv ==
  /\ storage = [borrowed |-> storage.borrowed, bytes |-> storage.bytes]
  /\ storage.borrowed \in BOOLEAN
  /\ storage.bytes \in ByteStrings
  /\ length \in Nat
  /\ IF storage.bytes = <<>> THEN length = 0
     ELSE length < Len(storage.bytes) /\ storage.bytes[length + 1] = NUL

\* At first the text is empty.
LEMMA TransportInitOk == TransportInit => TransportInv
  <1>. SUFFICES ASSUME TransportInit PROVE TransportInv
    OBVIOUS
  <1>1. CASE storage = Empty
    BY <1>1 DEF TransportInit, TransportInv, Empty, ByteStrings
  <1>2. CASE \E lent \in Lent : storage = Borrowing(lent)
    <2>1. PICK lent \in Lent : storage = Borrowing(lent)
      BY <1>2
    <2>2. lent \in Seq(Nat) /\ NUL \in Nat
      BY TransportAssumption
    <2>. DEFINE bytes == [k \in DOMAIN lent |-> IF k = 1 THEN NUL ELSE lent[k]]
    <2>3. bytes \in Seq(Nat) /\ Len(bytes) = Len(lent) /\ (bytes # <<>> => Len(bytes) > 0 /\ bytes[1] = NUL)
      BY <2>2
    <2>4. storage = [borrowed |-> TRUE, bytes |-> bytes]
      BY <2>1 DEF Borrowing
    <2>. HIDE DEF bytes
    <2>. QED  BY <2>3, <2>4 DEF TransportInit, TransportInv, ByteStrings
  <1>. QED  BY <1>1, <1>2 DEF TransportInit

\* A text after the first bytes of the storage: what becomes of these.
LEMMA AppendAtOk ==
  ASSUME TransportInv, NEW start \in 0..length, NEW text \in ByteStrings, AppendAt(start, text)
  PROVE  /\ TransportInv'
         /\ storage'.bytes # <<>>
         /\ length' = start + Len(text)
         /\ AsBytes' = SubSeq(storage.bytes, 1, start) \o text
         /\ storage'.borrowed <=> storage.borrowed /\ length' < Len(storage.bytes)
  <1>. DEFINE end == start + Len(text)
              old == storage.bytes
              at(k) == IF k <= start THEN old[k] ELSE text[k - start]
              inPlace == [k \in DOMAIN old |-> IF k <= end THEN at(k)
                                               ELSE IF k = end + 1 THEN NUL ELSE old[k]]
              moved == [k \in 1..(end + 1) |-> IF k <= end THEN at(k) ELSE NUL]
              new == storage'.bytes
  <1>1. /\ old \in Seq(Nat) /\ text \in Seq(Nat) /\ NUL \in Nat
        /\ start \in Nat /\ start <= Len(old) /\ end \in Nat /\ start <= end
    BY TransportAssumption DEF TransportInv, ByteStrings
  <1>2. length' = end
    BY DEF AppendAt
  <1>3. /\ Fits(end) => storage' = [storage EXCEPT !.bytes = inPlace]
        /\ ~Fits(end) => storage' = [borrowed |-> FALSE, bytes |-> moved]
    BY DEF AppendAt
  <1>4. Fits(end) <=> storage.borrowed /\ end < Len(old)
    BY DEF Fits
  <1>5. \A k \in 1..end : at(k) \in Nat
    BY <1>1
  <1>6. /\ storage' = [borrowed |-> storage'.borrowed, bytes |-> new]
        /\ storage'.borrowed \in BOOLEAN /\ (storage'.borrowed <=> Fits(end))
        /\ new \in Seq(Nat) /\ end < Len(new) /\ new[end + 1] = NUL
        /\ \A k \in 1..end : new[k] = at(k)
    <2>1. CASE Fits(end)
      <3>1. /\ inPlace \in Seq(Nat) /\ Len(inPlace) = Len(old)
            /\ \A k \in 1..Len(old) : inPlace[k] = IF k <= end THEN at(k)
                                                   ELSE IF k = end + 1 THEN NUL ELSE old[k]
        <4>1. DOMAIN old = 1..Len(old) /\ Len(old) \in Nat /\ \A k \in 1..Len(old) : old[k] \in Nat
          BY <1>1
        <4>. HIDE DEF at, old, end
        <4>2. inPlace \in [1..Len(old) -> Nat]
          BY <1>1, <1>5, <4>1
        <4>. QED  BY <4>1, <4>2
      <3>2. storage' = [borrowed |-> TRUE, bytes |-> inPlace]
        BY <1>3, <1>4, <2>1 DEF TransportInv
      <3>. HIDE DEF inPlace, at, end, old
      <3>3. end + 1 \in 1..Len(old) /\ \A k \in 1..end : k \in 1..Len(old) /\ k <= end
        BY <1>1, <1>4, <2>1
      <3>4. inPlace[end + 1] = NUL /\ \A k \in 1..end : inPlace[k] = at(k)
        BY <1>1, <3>1, <3>3
      <3>. QED  BY <1>1, <2>1, <3>1, <3>2, <3>3, <3>4
    <2>2. CASE ~Fits(end)
      <3>1. /\ moved \in Seq(Nat) /\ Len(moved) = end + 1
            /\ \A k \in 1..(end + 1) : moved[k] = IF k <= end THEN at(k) ELSE NUL
        BY <1>1, <1>5
      <3>2. storage' = [borrowed |-> FALSE, bytes |-> moved]
        BY <1>3, <2>2
      <3>. HIDE DEF moved, at, end, old
      <3>. QED  BY <1>1, <2>2, <3>1, <3>2
    <2>. QED  BY <2>1, <2>2
  <1>7. TransportInv' /\ new # <<>>
    <2>. HIDE DEF at, end, old, new
    <2>1. new = storage'.bytes
      BY DEF new
    <2>. QED  BY <1>1, <1>2, <1>6, <2>1 DEF TransportInv, ByteStrings
  <1>8. SubSeq(new, 1, end) = SubSeq(old, 1, start) \o text
    <2>1. /\ SubSeq(new, 1, end) \in Seq(Nat) /\ Len(SubSeq(new, 1, end)) = end
          /\ \A k \in 1..end : SubSeq(new, 1, end)[k] = at(k)
      <3>. DEFINE l == SubSeq(new, 1, end)
      <3>1. new \in Seq(Nat) /\ end \in 0..Len(new) /\ \A k \in 1..end : new[k] = at(k)
        BY <1>1, <1>6
      <3>. HIDE DEF at, end, new
      <3>2. l \in Seq(Nat) /\ Len(l) = end /\ \A k \in 1..end : l[k] = new[k]
        BY <3>1
      <3>. QED  BY <3>1, <3>2
    <2>. DEFINE p == SubSeq(old, 1, start)
    <2>2. p \in Seq(Nat) /\ Len(p) = start /\ \A k \in 1..start : p[k] = old[k]
      <3>. HIDE DEF end, old
      <3>. QED  BY <1>1
    <2>. DEFINE l == SubSeq(new, 1, end)
    <2>3. \A k \in 1..end : (p \o text)[k] = at(k)
      <3>. HIDE DEF p, old
      <3>. QED  BY <1>1, <2>2
    <2>4. p \o text \in Seq(Nat) /\ Len(p \o text) = end
      <3>1. Len(p) + Len(text) = end /\ p \in Seq(Nat) /\ text \in Seq(Nat)
        BY <1>1, <2>2
      <3>. HIDE DEF p, end
      <3>. QED  BY <3>1
    <2>. HIDE DEF l, p, at, end, old, new
    <2>5. l \in Seq(Nat) /\ Len(l) = end /\ \A k \in 1..end : l[k] = at(k)
      BY <2>1 DEF l
    <2>6. l = p \o text
      <3>. DEFINE r == p \o text
      <3>. HIDE DEF r
      <3>1. Len(l) = Len(r) /\ l \in Seq(Nat) /\ r \in Seq(Nat) /\ \A k \in 1..Len(l) : l[k] = r[k]
        BY <1>1, <2>3, <2>4, <2>5 DEF r
      <3>. QED  BY <3>1, SeqEqual DEF r
    <2>. QED  BY <2>6 DEF l, p
  <1>. QED  BY <1>2, <1>4, <1>6, <1>7, <1>8 DEF AsBytes

\* The text and its terminator.
HasStorage == storage.bytes # <<>>

Terminated == AsBytesWithNul = AsBytes \o <<NUL>>

\* In a storage that is not empty, the one follows the other.
LEMMA TerminatorFollows == TransportInv /\ HasStorage => Terminated
  <1>. SUFFICES ASSUME TransportInv, storage.bytes # <<>>
                PROVE  AsBytesWithNul = AsBytes \o <<NUL>>
    BY DEF HasStorage, Terminated
  <1>. DEFINE s == storage.bytes
              l == SubSeq(s, 1, length + 1)
              r == SubSeq(s, 1, length) \o <<NUL>>
  <1>1. s \in Seq(Nat) /\ length \in Nat /\ length < Len(s) /\ s[length + 1] = NUL /\ NUL \in Nat
    BY TransportAssumption DEF TransportInv, ByteStrings
  <1>. HIDE DEF s
  <1>2. /\ l \in Seq(Nat) /\ Len(l) = length + 1
        /\ \A k \in 1..(length + 1) : l[k] = s[k]
    BY <1>1
  <1>3. /\ r \in Seq(Nat) /\ Len(r) = length + 1
        /\ \A k \in 1..(length + 1) : r[k] = s[k]
    BY <1>1
  <1>. HIDE DEF l, r
  <1>4. l = r
    BY <1>1, <1>2, <1>3
  <1>. QED  BY <1>4 DEF AsBytes, AsBytesWithNul, l, r, s

\* What a caller packs are bytes.
LEMMA TextIsBytes ==
  ASSUME TransportInv
  PROVE  AsBytes \in ByteStrings /\ AsBytesWithNul \in ByteStrings
  BY TransportAssumption DEF TransportInv, ByteStrings, AsBytes, AsBytesWithNul

\* A call is an append at some place.
LEMMA TransportStepOk ==
  ASSUME TransportInv, TransportNext
  PROVE  /\ TransportInv'
         /\ \A text \in Pieces : AppendText(text) => AsBytes' = AsBytes \o text
         /\ \A text \in Pieces : AssignText(text) => AsBytes' = text
         /\ storage'.borrowed <=> storage.borrowed /\ length' < Len(storage.bytes)
         /\ AsBytesWithNul' = AsBytes' \o <<NUL>>
  <1>1. /\ Pieces \subseteq ByteStrings /\ length \in Nat /\ 0 \in 0..length /\ length \in 0..length
        /\ storage.bytes \in Seq(Nat)
    BY TransportAssumption DEF TransportInv, ByteStrings
  <1>2. \E start \in 0..length, text \in Pieces : AppendAt(start, text)
    BY <1>1 DEF TransportNext, AppendText, AssignText
  <1>3. /\ TransportInv' /\ storage'.bytes # <<>>
        /\ storage'.borrowed <=> storage.borrowed /\ length' < Len(storage.bytes)
    BY <1>1, <1>2, AppendAtOk
  <1>4. AsBytesWithNul' = AsBytes' \o <<NUL>>
    <2>1. TransportInv' /\ HasStorage'
      BY <1>3 DEF HasStorage
    <2>2. Terminated'
      BY <2>1, TerminatorFollows, PTL
    <2>. QED  BY <2>2 DEF Terminated
  <1>5. ASSUME NEW text \in Pieces, AppendText(text)  PROVE AsBytes' = AsBytes \o text
    BY <1>1, <1>5, AppendAtOk DEF AppendText, AsBytes
  <1>6. ASSUME NEW text \in Pieces, AssignText(text)  PROVE AsBytes' = text
    <2>1. AsBytes' = SubSeq(storage.bytes, 1, 0) \o text /\ text \in Seq(Nat)
      BY <1>1, <1>6, AppendAtOk DEF AssignText, ByteStrings
    <2>2. SubSeq(storage.bytes, 1, 0) = <<>>
      BY <1>1
    <2>. QED  BY <2>1, <2>2
  <1>. QED  BY <1>3, <1>4, <1>5, <1>6

-----------------------------------------------------------------------------
(* Numbers as bytes.                                                       *)

\* f is defined by recursion.
Recurs(f, n, first, step) ==
  \A k \in 0..n : f[k] = IF k = 0 THEN first ELSE step[k][f[k - 1]]

\* Such functions exist.
LEMMA RecursionExists ==
  ASSUME NEW n \in Nat, NEW S, NEW first \in S, NEW step \in [1..n -> [S -> S]]
  PROVE  \E f \in [0..n -> S] : Recurs(f, n, first, step)
  <1>. DEFINE Upto(f, m) == /\ f[0] = first
                            /\ \A k \in 1..m : f[k] = step[k][f[k - 1]]
              T == {m \in 0..n : \E f \in [0..n -> S] : Upto(f, m)}
  <1>1. 0 \in T
    <2>. DEFINE f == [k \in 0..n |-> first]
    <2>1. f \in [0..n -> S] /\ Upto(f, 0)
      OBVIOUS
    <2>. HIDE DEF f, Upto
    <2>. QED  BY <2>1
  <1>2. ASSUME NEW m \in 0..n, m < n, m \in T  PROVE m + 1 \in T
    <2>1. PICK f \in [0..n -> S] : Upto(f, m)
      BY <1>2
    <2>2. m + 1 \in 1..n /\ m \in 0..n /\ (m + 1) - 1 = m
      BY <1>2
    <2>3. step[m + 1][f[m]] \in S
      BY <2>1, <2>2
    <2>. DEFINE next == step[m + 1][f[m]]
                g == [f EXCEPT ![m + 1] = next]
    <2>. HIDE DEF next
    <2>4. g \in [0..n -> S] /\ g[m + 1] = next /\ \A k \in 0..m : g[k] = f[k]
      BY <2>1, <2>2, <2>3 DEF next
    <2>. HIDE DEF g
    <2>5. Upto(g, m + 1)
      <3>1. g[0] = first
        BY <2>1, <2>2, <2>4
      <3>2. ASSUME NEW k \in 1..(m + 1)  PROVE g[k] = step[k][g[k - 1]]
        <4>1. CASE k = m + 1
          BY <2>2, <2>4, <4>1 DEF next
        <4>2. CASE k \in 1..m
          <5>1. k \in 0..m /\ k - 1 \in 0..m
            BY <4>2
          <5>. QED  BY <2>1, <2>4, <4>2, <5>1
        <4>. QED  BY <4>1, <4>2
      <3>. QED  BY <3>1, <3>2
    <2>. HIDE DEF Upto
    <2>. QED  BY <2>2, <2>4, <2>5
  <1>3. T = 0..n
    <2>1. T \in SUBSET (0..n)
      OBVIOUS
    <2>. HIDE DEF T
    <2>. QED  BY <1>1, <1>2, <2>1, BoundedInduction
  <1>4. PICK f \in [0..n -> S] : Upto(f, n)
    <2>. HIDE DEF Upto
    <2>. QED  BY <1>3
  <1>5. Recurs(f, n, first, step)
    BY <1>4 DEF Recurs
  <1>. QED  BY <1>5

\* The same for numbers, which the provers treat apart.
LEMMA NatRecursion ==
  ASSUME NEW n \in Nat, NEW first \in Nat, NEW step \in [1..n -> [Nat -> Nat]]
  PROVE  \E f \in [0..n -> Nat] : Recurs(f, n, first, step)
  <1>. DEFINE S == Nat
              start == first
  <1>1. start \in S /\ step \in [1..n -> [S -> S]]
    OBVIOUS
  <1>. HIDE DEF S, start
  <1>2. \E f \in [0..n -> S] : Recurs(f, n, start, step)
    BY <1>1, RecursionExists
  <1>. QED  BY <1>2 DEF S, start

\* The bytes of a number are what divisions leave of it.
LEMMA ShiftedOk ==
  ASSUME NEW value \in Nat, NEW width \in Nat
  PROVE  /\ Shifted(value, width) \in [0..width -> Nat]
         /\ Shifted(value, width)[0] = value
         /\ \A k \in 1..width : Shifted(value, width)[k] = Shifted(value, width)[k - 1] \div Base
  <1>. DEFINE step == [k \in 1..width |-> [v \in Nat |-> v \div Base]]
  <1>1. Base \in Nat \ {0}
    BY CursorAssumption
  <1>2. step \in [1..width -> [Nat -> Nat]]
    BY <1>1, Divided
  <1>3. \A k \in 1..width, v \in Nat : step[k][v] = v \div Base
    OBVIOUS
  <1>. HIDE DEF step
  <1>4. PICK f \in [0..width -> Nat] : Recurs(f, width, value, step)
    BY <1>2, NatRecursion
  <1>5. \A k \in 1..width : k - 1 \in 0..width /\ f[k - 1] \in Nat
    BY <1>4
  <1>6. \A k \in 0..width : f[k] = IF k = 0 THEN value ELSE f[k - 1] \div Base
    BY <1>3, <1>4, <1>5 DEF Recurs
  <1>7. f = [k \in 0..width |-> IF k = 0 THEN value ELSE f[k - 1] \div Base]
    BY <1>4, <1>6
  <1>. DEFINE s == Shifted(value, width)
  <1>8. s = [k \in 0..width |-> IF k = 0 THEN value ELSE s[k - 1] \div Base]
    BY <1>7 DEF Shifted
  <1>. HIDE DEF s
  <1>9. \A k \in 0..width : s[k] = IF k = 0 THEN value ELSE s[k - 1] \div Base
    BY <1>8
  <1>10. \A k \in 0..width : s[k] \in Nat
    <2>. DEFINE T == {k \in 0..width : s[k] \in Nat}
    <2>1. 0 \in T
      BY <1>9
    <2>2. ASSUME NEW k \in 0..width, k < width, k \in T  PROVE k + 1 \in T
      <3>1. k + 1 \in 0..width /\ k + 1 # 0 /\ (k + 1) - 1 = k
        BY <2>2
      <3>2. s[k + 1] = s[k] \div Base
        BY <1>9, <3>1
      <3>. QED  BY <1>1, <2>2, <3>1, <3>2, Divided
    <2>3. T = 0..width
      <3>1. T \in SUBSET (0..width)
        OBVIOUS
      <3>. HIDE DEF T
      <3>. QED  BY <2>1, <2>2, <3>1, BoundedInduction
    <2>. QED  BY <2>3
  <1>11. s \in [0..width -> Nat]
    BY <1>8, <1>10
  <1>12. \A k \in 1..width : k \in 0..width /\ k # 0
    OBVIOUS
  <1>. QED  BY <1>9, <1>11, <1>12 DEF s

\* The bytes of a number, the most significant one first, add up to numbers.
LEMMA PrefixesOk ==
  ASSUME NEW bytes \in Seq(Nat), NEW endian
  PROVE  LET p == Prefixes(bytes, endian) IN
         /\ p \in [0..Len(bytes) -> Nat] /\ p[0] = 0
         /\ \A k \in 1..Len(bytes) : p[k] = Base * p[k - 1] + Significant(bytes, endian, k)
  <1>. DEFINE n == Len(bytes)
              most(k) == Significant(bytes, endian, k)
              step == [k \in 1..n |-> [v \in Nat |-> Base * v + most(k)]]
  <1>1. Base \in Nat \ {0} /\ n \in Nat
    BY CursorAssumption
  <1>2. \A k \in 1..n : most(k) \in Nat
    BY DEF Significant
  <1>. HIDE DEF n, most
  <1>3. \A k \in 1..n, v \in Nat : Base * v + most(k) \in Nat
    BY <1>1, <1>2
  <1>4. step \in [1..n -> [Nat -> Nat]]
    BY <1>3
  <1>5. \A k \in 1..n, v \in Nat : step[k][v] = Base * v + most(k)
    OBVIOUS
  <1>. HIDE DEF step
  <1>6. PICK f \in [0..n -> Nat] : Recurs(f, n, 0, step)
    BY <1>1, <1>4, NatRecursion
  <1>7. \A k \in 1..n : k - 1 \in 0..n /\ f[k - 1] \in Nat
    BY <1>1, <1>6
  <1>8. ASSUME NEW k \in 0..n
        PROVE  f[k] = IF k = 0 THEN 0 ELSE Base * f[k - 1] + most(k)
    <2>1. f[k] = IF k = 0 THEN 0 ELSE step[k][f[k - 1]]
      BY <1>6 DEF Recurs
    <2>2. CASE k \in 1..n
      BY <1>5, <1>7, <2>1, <2>2
    <2>3. CASE k = 0
      BY <2>1, <2>3
    <2>. QED  BY <1>1, <2>2, <2>3
  <1>9. f = [k \in 0..n |-> IF k = 0 THEN 0 ELSE Base * f[k - 1] + most(k)]
    BY <1>6, <1>8
  <1>. DEFINE p == Prefixes(bytes, endian)
  <1>10. p = [k \in 0..n |-> IF k = 0 THEN 0 ELSE Base * p[k - 1] + most(k)]
    BY <1>9 DEF Prefixes, n, most
  <1>. HIDE DEF p
  <1>11. \A k \in 0..n : p[k] = IF k = 0 THEN 0 ELSE Base * p[k - 1] + most(k)
    BY <1>10
  <1>12. \A k \in 0..n : p[k] \in Nat
    <2>. DEFINE T == {k \in 0..n : p[k] \in Nat}
    <2>1. 0 \in T
      BY <1>1, <1>11
    <2>2. ASSUME NEW k \in 0..n, k < n, k \in T  PROVE k + 1 \in T
      <3>1. k + 1 \in 1..n /\ k + 1 \in 0..n /\ k + 1 # 0 /\ (k + 1) - 1 = k
        BY <1>1, <2>2
      <3>2. p[k + 1] = Base * p[k] + most(k + 1)
        BY <1>11, <3>1
      <3>. QED  BY <1>3, <2>2, <3>1, <3>2
    <2>3. T = 0..n
      <3>1. T \in SUBSET (0..n)
        OBVIOUS
      <3>. HIDE DEF T
      <3>. QED  BY <1>1, <2>1, <2>2, <3>1, BoundedInduction
    <2>. QED  BY <2>3
  <1>13. p \in [0..n -> Nat]
    BY <1>10, <1>12
  <1>14. \A k \in 1..n : k \in 0..n /\ k # 0
    BY <1>1
  <1>. QED  BY <1>1, <1>11, <1>13, <1>14 DEF p, n, most

\* A number has as many bytes as it is wide.
LEMMA EncodedType ==
  ASSUME NEW value \in Nat, NEW width \in Nat, NEW endian
  PROVE  Encoded(value, width, endian) \in Seq(Nat) /\ Len(Encoded(value, width, endian)) = width
  <1>. DEFINE s == Shifted(value, width)
              place(k) == IF Order(endian) = "little" THEN k - 1 ELSE width - k
              e == [k \in 1..width |-> s[place(k)] % Base]
  <1>1. Base \in Nat \ {0} /\ s \in [0..width -> Nat]
    BY CursorAssumption, ShiftedOk
  <1>2. \A k \in 1..width : place(k) \in 0..width
    OBVIOUS
  <1>3. Encoded(value, width, endian) = e
    BY DEF Encoded
  <1>. HIDE DEF s, place
  <1>4. \A k \in 1..width : s[place(k)] % Base \in Nat
    BY <1>1, <1>2, Divided
  <1>5. e \in [1..width -> Nat]
    BY <1>4
  <1>. HIDE DEF e
  <1>6. e \in Seq(Nat) /\ Len(e) = width
    BY <1>5
  <1>. QED  BY <1>3, <1>6

\* The bytes of a number, in either order, are read as that number.
LEMMA DecodedOk ==
  ASSUME NEW value \in Nat, NEW width \in Nat, NEW endian, HasWidth(value, width)
  PROVE  Decoded(Encoded(value, width, endian), endian) = value
  <1>. DEFINE s == Shifted(value, width)
              bytes == Encoded(value, width, endian)
              p == Prefixes(bytes, endian)
              most(k) == Significant(bytes, endian, k)
  <1>1. Base \in Nat \ {0} /\ bytes \in Seq(Nat) /\ Len(bytes) = width
    BY CursorAssumption, EncodedType
  <1>2. /\ s \in [0..width -> Nat] /\ s[0] = value /\ s[width] = 0
        /\ \A k \in 1..width : s[k] = s[k - 1] \div Base
    BY ShiftedOk DEF HasWidth
  <1>3. ASSUME NEW k \in 1..width  PROVE most(k) = s[width - k] % Base
    <2>1. CASE Order(endian) = "little"
      <3>1. width + 1 - k \in 1..width /\ (width + 1 - k) - 1 = width - k
        OBVIOUS
      <3>2. most(k) = bytes[width + 1 - k]
        BY <1>1, <2>1 DEF Significant
      <3>3. bytes[width + 1 - k] = s[(width + 1 - k) - 1] % Base
        BY <2>1, <3>1 DEF Encoded
      <3>. QED  BY <3>1, <3>2, <3>3
    <2>2. CASE Order(endian) # "little"
      BY <2>2 DEF Significant, Encoded
    <2>. QED  BY <2>1, <2>2
  <1>4. /\ p \in [0..width -> Nat] /\ p[0] = 0
        /\ \A k \in 1..width : p[k] = Base * p[k - 1] + most(k)
    BY <1>1, PrefixesOk
  <1>5. Decoded(bytes, endian) = p[width]
    BY <1>1 DEF Decoded
  <1>. HIDE DEF s, bytes, p, most
  <1>. DEFINE T == {k \in 0..width : p[k] = s[width - k]}
  <1>6. 0 \in T
    BY <1>2, <1>4
  <1>7. ASSUME NEW k \in 0..width, k < width, k \in T  PROVE k + 1 \in T
    <2>. DEFINE v == s[width - (k + 1)]
    <2>1. /\ k + 1 \in 1..width /\ (k + 1) - 1 = k
          /\ width - k \in 1..width /\ (width - k) - 1 = width - (k + 1)
          /\ width - (k + 1) \in 0..width
      BY <1>7
    <2>2. v \in Nat /\ s[width - k] = v \div Base
      BY <1>2, <2>1
    <2>3. p[k + 1] = Base * p[k] + most(k + 1) /\ most(k + 1) = v % Base
      BY <1>3, <1>4, <2>1
    <2>4. p[k] = v \div Base
      BY <1>7, <2>2
    <2>5. v = Base * (v \div Base) + (v % Base)
      BY <1>1, <2>2, Divided
    <2>6. p[k + 1] = v
      BY <2>3, <2>4, <2>5
    <2>. QED  BY <2>1, <2>6
  <1>8. T = 0..width
    <2>1. T \in SUBSET (0..width)
      OBVIOUS
    <2>. HIDE DEF T
    <2>. QED  BY <1>6, <1>7, <2>1, BoundedInduction
  <1>9. p[width] = s[width - width] /\ width - width = 0
    BY <1>8
  <1>. QED  BY <1>2, <1>5, <1>9 DEF bytes

-----------------------------------------------------------------------------
(* Writes and reads.                                                       *)

\* The bytes at a position are those of a value.
Holds(bytes, position, value) ==
  \A k \in 1..Len(value) : bytes[position + k] = value[k]

Buffers == [1..Size -> Nat]

\* What a write did: nothing, or it moved the writer and changed no other bytes.
Written(w, position, bytes, count) ==
  IF w.ok
  THEN /\ position + count <= Size
       /\ w.position = position + count
       /\ w.bytes \in Buffers
       /\ \A k \in 1..Size : k <= position \/ k > w.position => w.bytes[k] = bytes[k]
  ELSE w.position = position /\ w.bytes = bytes

\* A write of bytes has room, or fails.
LEMMA WriteExactOk ==
  ASSUME NEW position \in 0..Size, NEW bytes \in Buffers, NEW value \in ByteStrings
  PROVE  LET w == WriteExact(position, bytes, value) IN
         /\ Written(w, position, bytes, Len(value))
         /\ w.ok \in BOOLEAN /\ (w.ok <=> position + Len(value) <= Size)
         /\ w.ok => Holds(w.bytes, position, value)
  <1>. DEFINE end == position + Len(value)
              w == WriteExact(position, bytes, value)
              new == [k \in 1..Size |-> IF k \in (position + 1)..end THEN value[k - position]
                                        ELSE bytes[k]]
  <1>1. /\ Size \in Nat /\ position \in Nat /\ Len(value) \in Nat /\ end \in Nat
        /\ value \in Seq(Nat) /\ bytes \in [1..Size -> Nat]
    BY CursorAssumption DEF ByteStrings, Buffers
  <1>2. CASE end > Size
    <2>1. w = [ok |-> FALSE, position |-> position, bytes |-> bytes]
      BY <1>2 DEF WriteExact
    <2>. HIDE DEF w
    <2>. QED  BY <1>1, <1>2, <2>1 DEF Written, w
  <1>3. CASE end <= Size
    <2>1. w = [ok |-> TRUE, position |-> end, bytes |-> new]
      <3>1. ~(end > Size)
        BY <1>1, <1>3
      <3>. QED  BY <3>1, Zenon DEF WriteExact
    <2>2. new \in Buffers
      BY <1>1 DEF Buffers
    <2>3. \A k \in 1..Size : k <= position \/ k > end => new[k] = bytes[k]
      BY <1>1
    <2>4. Holds(new, position, value)
      <3>. SUFFICES ASSUME NEW k \in 1..Len(value)  PROVE new[position + k] = value[k]
        BY DEF Holds
      <3>1. /\ position + k \in 1..Size /\ position + k \in (position + 1)..end
            /\ (position + k) - position = k
        BY <1>1, <1>3
      <3>. HIDE DEF end
      <3>. QED  BY <3>1
    <2>. HIDE DEF w, new
    <2>. QED  BY <1>1, <1>3, <2>1, <2>2, <2>3, <2>4 DEF Written, w
  <1>. QED  BY <1>1, <1>2, <1>3

\* A number is written as its bytes.
LEMMA WriteNumberOk ==
  ASSUME NEW position \in 0..Size, NEW bytes \in Buffers, NEW width \in Nat, NEW value \in Nat,
         NEW endian
  PROVE  LET w == WriteNumber(position, bytes, width, value, endian) IN
         /\ Written(w, position, bytes, width)
         /\ w.ok \in BOOLEAN /\ (w.ok <=> position + width <= Size)
         /\ w.ok => Holds(w.bytes, position, Encoded(value, width, endian))
  <1>1. Encoded(value, width, endian) \in ByteStrings /\ Len(Encoded(value, width, endian)) = width
    BY EncodedType DEF ByteStrings
  <1>. QED  BY <1>1, WriteExactOk DEF WriteNumber

\* A length and bytes are written together, or nothing is.
LEMMA WriteBytesOk ==
  ASSUME NEW position \in 0..Size, NEW bytes \in Buffers, NEW value \in ByteStrings, NEW endian
  PROVE  LET w == WriteBytes(position, bytes, value, endian) IN
         /\ Written(w, position, bytes, PrefixWidth + Len(value))
         /\ w.ok \in BOOLEAN
         /\ w.ok => /\ HasWidth(Len(value), PrefixWidth)
                    /\ Holds(w.bytes, position, Encoded(Len(value), PrefixWidth, endian))
                    /\ Holds(w.bytes, position + PrefixWidth, value)
  <1>. DEFINE w == WriteBytes(position, bytes, value, endian)
              n == Len(value)
              digits == Encoded(n, PrefixWidth, endian)
              prefix == WriteNumber(position, bytes, PrefixWidth, n, endian)
              refused == ~HasWidth(n, PrefixWidth) \/ PrefixWidth + n > Size - position
              middle == position + PrefixWidth
  <1>1. /\ Size \in Nat /\ position \in Nat /\ n \in Nat /\ PrefixWidth \in Nat
        /\ position <= Size /\ middle \in Nat
    BY CursorAssumption DEF ByteStrings
  <1>2. CASE refused
    <2>1. w = [ok |-> FALSE, position |-> position, bytes |-> bytes]
      BY <1>2 DEF WriteBytes
    <2>. HIDE DEF w
    <2>. QED  BY <2>1 DEF Written, w
  <1>3. CASE ~refused
    <2>1. w = WriteExact(prefix.position, prefix.bytes, value)
      BY <1>3 DEF WriteBytes
    <2>2. HasWidth(n, PrefixWidth) /\ middle + n <= Size /\ middle <= Size
      BY <1>1, <1>3
    <2>3. /\ Written(prefix, position, bytes, PrefixWidth) /\ prefix.ok
          /\ Holds(prefix.bytes, position, digits)
      BY <1>1, <2>2, WriteNumberOk
    <2>4. /\ prefix.position = middle /\ middle \in 0..Size /\ prefix.bytes \in Buffers
          /\ \A k \in 1..Size : k <= position \/ k > middle => prefix.bytes[k] = bytes[k]
      BY <1>1, <2>2, <2>3 DEF Written
    <2>5. digits \in Seq(Nat) /\ Len(digits) = PrefixWidth
      BY <1>1, EncodedType
    <2>. HIDE DEF w, prefix, digits
    <2>6. /\ Written(w, middle, prefix.bytes, n) /\ w.ok \in BOOLEAN /\ w.ok
          /\ Holds(w.bytes, middle, value)
      BY <1>1, <2>1, <2>2, <2>4, WriteExactOk
    <2>7. /\ w.position = middle + n /\ w.bytes \in Buffers
          /\ \A k \in 1..Size : k <= middle \/ k > middle + n => w.bytes[k] = prefix.bytes[k]
      BY <2>6 DEF Written
    <2>8. Holds(w.bytes, position, digits)
      <3>1. ASSUME NEW k \in 1..PrefixWidth  PROVE w.bytes[position + k] = digits[k]
        <4>1. position + k \in 1..Size /\ position + k <= middle
          BY <1>1, <2>2
        <4>2. prefix.bytes[position + k] = digits[k]
          BY <2>3, <2>5 DEF Holds
        <4>. QED  BY <2>7, <4>1, <4>2
      <3>. QED  BY <2>5, <3>1 DEF Holds
    <2>9. Written(w, position, bytes, PrefixWidth + n)
      <3>1. w.position = position + (PrefixWidth + n) /\ position + (PrefixWidth + n) <= Size
        BY <1>1, <2>2, <2>7
      <3>2. ASSUME NEW k \in 1..Size, k <= position \/ k > w.position  PROVE w.bytes[k] = bytes[k]
        <4>1. (k <= middle \/ k > middle + n) /\ (k <= position \/ k > middle)
          BY <1>1, <2>7, <3>2
        <4>. QED  BY <2>4, <2>7, <4>1
      <3>. QED  BY <2>6, <2>7, <3>1, <3>2 DEF Written
    <2>. QED  BY <2>2, <2>6, <2>8, <2>9 DEF w, digits
  <1>. QED  BY <1>2, <1>3

\* What a read returns.
IsRead(r) == r = [ok |-> r.ok, position |-> r.position, value |-> r.value]

\* A read that fails leaves the cursor where it was.
ReadOk(r, start) == IsRead(r) /\ r.ok \in BOOLEAN /\ (~r.ok => r.position = start)

LEMMA ReadExactOk ==
  ASSUME NEW position, NEW count, NEW limit
  PROVE  ReadOk(ReadExact(position, limit, count), position)
  <1>1. CASE position + count > limit
    BY <1>1 DEF ReadExact, ReadOk, IsRead
  <1>2. CASE ~(position + count > limit)
    BY <1>2 DEF ReadExact, ReadOk, IsRead
  <1>. QED  BY <1>1, <1>2

LEMMA ReadNumberOk ==
  ASSUME NEW position, NEW limit, NEW width, NEW endian
  PROVE  ReadOk(ReadNumber(position, limit, width, endian), position)
  <1>. DEFINE r == ReadExact(position, limit, width)
  <1>1. ReadOk(r, position)
    BY ReadExactOk
  <1>2. ReadNumber(position, limit, width, endian)
          = IF r.ok THEN [r EXCEPT !.value = Decoded(@, endian)] ELSE r
    BY DEF ReadNumber
  <1>. HIDE DEF r
  <1>. QED  BY <1>1, <1>2 DEF ReadOk, IsRead

\* Undone does what it is for.
LEMMA UndoneOk ==
  ASSUME NEW r, IsRead(r), r.ok \in BOOLEAN, NEW start
  PROVE  ReadOk(Undone(r, start), start)
  BY DEF ReadOk, IsRead, Undone

LEMMA ReadBytesOk ==
  ASSUME NEW position, NEW limit, NEW endian
  PROVE  ReadOk(ReadBytes(position, limit, endian), position)
  <1>. DEFINE prefix == ReadNumber(position, limit, PrefixWidth, endian)
              rest == ReadExact(prefix.position, limit, prefix.value)
              payload == IF prefix.ok THEN rest ELSE prefix
  <1>1. IsRead(prefix) /\ prefix.ok \in BOOLEAN /\ IsRead(rest) /\ rest.ok \in BOOLEAN
    BY ReadNumberOk, ReadExactOk DEF ReadOk
  <1>2. ReadBytes(position, limit, endian) = Undone(payload, position)
    BY DEF ReadBytes
  <1>. HIDE DEF prefix, rest
  <1>3. IsRead(payload) /\ payload.ok \in BOOLEAN
    BY <1>1
  <1>. QED  BY <1>2, <1>3, UndoneOk

LEMMA ReadStrOk ==
  ASSUME NEW position, NEW limit, NEW endian
  PROVE  ReadOk(ReadStr(position, limit, endian), position)
  <1>. DEFINE bytes == ReadBytes(position, limit, endian)
              text == IF bytes.ok /\ bytes.value \notin Utf8 THEN [bytes EXCEPT !.ok = FALSE] ELSE bytes
  <1>1. IsRead(bytes) /\ bytes.ok \in BOOLEAN
    BY ReadBytesOk DEF ReadOk
  <1>2. ReadStr(position, limit, endian) = Undone(text, position)
    BY DEF ReadStr
  <1>. HIDE DEF bytes
  <1>3. IsRead(text) /\ text.ok \in BOOLEAN
    BY <1>1 DEF IsRead
  <1>. QED  BY <1>2, <1>3, UndoneOk

-----------------------------------------------------------------------------
(* The cursors.                                                            *)

\* The bytes of a number that was written are where it was written,
NumberIn(bytes, item) ==
  /\ item.kind = "number"
  /\ item.width \in Widths /\ item.value[1] \in Nat
  /\ HasWidth(item.value[1], item.width)
  /\ item.end = item.start + item.width
  /\ Holds(bytes, item.start, Encoded(item.value[1], item.width, item.endian))

\* and so are those of a byte string and of its length.
BytesIn(bytes, item) ==
  /\ item.kind = "bytes"
  /\ item.value \in ByteStrings
  /\ HasWidth(Len(item.value), PrefixWidth)
  /\ item.end = item.start + (PrefixWidth + Len(item.value))
  /\ Holds(bytes, item.start, Encoded(Len(item.value), PrefixWidth, item.endian))
  /\ Holds(bytes, item.start + PrefixWidth, item.value)

ItemIn(bytes, item) ==
  /\ item.start \in 0..Size /\ item.end \in 0..Size
  /\ NumberIn(bytes, item) \/ BytesIn(bytes, item)

\* The inductive invariant of the cursors.
CursorInv ==
  /\ buffer \in Buffers
  /\ writer \in 0..Size \cup {NULL}
  /\ reader # NULL => reader = [position |-> reader.position, length |-> reader.length]
  /\ \A item \in items : ItemIn(buffer, item)

\* What a step may do when it fails.
FailsAlone == outcome' = "err" => UNCHANGED <<buffer, writer, reader>>

\* A number or a byte string is where it was as long as its bytes are.
LEMMA ItemStays ==
  ASSUME NEW old, NEW new, NEW item, ItemIn(old, item),
         \A k \in 1..Size : item.start < k /\ k <= item.end => new[k] = old[k]
  PROVE  ItemIn(new, item)
  <1>1. Size \in Nat /\ PrefixWidth \in Nat /\ Widths \subseteq Nat
    BY CursorAssumption
  <1>2. item.start \in 0..Size /\ item.end \in 0..Size
    BY DEF ItemIn
  <1>3. ASSUME NumberIn(old, item)  PROVE NumberIn(new, item)
    <2>. DEFINE value == Encoded(item.value[1], item.width, item.endian)
    <2>1. Len(value) = item.width /\ item.width \in Nat
      BY <1>1, <1>3, EncodedType DEF NumberIn
    <2>2. Holds(old, item.start, value) /\ item.end = item.start + item.width
      BY <1>3 DEF NumberIn
    <2>. HIDE DEF value
    <2>3. ASSUME NEW k \in 1..Len(value)  PROVE new[item.start + k] = value[k]
      <3>1. /\ item.start + k \in 1..Size /\ item.start < item.start + k
            /\ item.start + k <= item.end
        BY <1>1, <1>2, <2>1, <2>2
      <3>. QED  BY <2>2, <3>1 DEF Holds
    <2>4. Holds(new, item.start, value)
      BY <2>3 DEF Holds
    <2>. QED  BY <1>3, <2>4 DEF NumberIn, value
  <1>4. ASSUME BytesIn(old, item)  PROVE BytesIn(new, item)
    <2>. DEFINE value == Encoded(Len(item.value), PrefixWidth, item.endian)
    <2>1. Len(item.value) \in Nat /\ Len(value) = PrefixWidth
      BY <1>1, <1>4, EncodedType DEF BytesIn, ByteStrings
    <2>2. /\ Holds(old, item.start, value) /\ Holds(old, item.start + PrefixWidth, item.value)
          /\ item.end = item.start + (PrefixWidth + Len(item.value))
      BY <1>4 DEF BytesIn
    <2>. HIDE DEF value
    <2>3. ASSUME NEW k \in 1..Len(value)  PROVE new[item.start + k] = value[k]
      <3>1. /\ item.start + k \in 1..Size /\ item.start < item.start + k
            /\ item.start + k <= item.end
        BY <1>1, <1>2, <2>1, <2>2
      <3>. QED  BY <2>2, <3>1 DEF Holds
    <2>4. ASSUME NEW k \in 1..Len(item.value)
          PROVE  new[item.start + PrefixWidth + k] = item.value[k]
      <3>1. /\ item.start + PrefixWidth + k \in 1..Size
            /\ item.start < item.start + PrefixWidth + k
            /\ item.start + PrefixWidth + k <= item.end
        BY <1>1, <1>2, <2>1, <2>2
      <3>. QED  BY <2>2, <3>1 DEF Holds
    <2>5. Holds(new, item.start, value) /\ Holds(new, item.start + PrefixWidth, item.value)
      BY <2>3, <2>4 DEF Holds
    <2>. QED  BY <1>4, <2>5 DEF BytesIn, value
  <1>. QED  BY <1>2, <1>3, <1>4 DEF ItemIn

\* A write adds what it wrote, and takes away what it overwrote.
LEMMA WriteKeeps ==
  ASSUME CursorInv, NEW w, NEW item, NEW count \in Nat, Write(w, item),
         Written(w, writer, buffer, count), w.ok \in BOOLEAN,
         w.ok => ItemIn(w.bytes, [item EXCEPT !.start = writer, !.end = w.position])
  PROVE  CursorInv' /\ FailsAlone
  <1>1. /\ writer \in 0..Size /\ Size \in Nat /\ buffer \in Buffers
        /\ buffer' = w.bytes /\ writer' = w.position /\ reader' = reader /\ reader = NULL
        /\ outcome' = IF w.ok THEN "ok" ELSE "err"
    BY CursorAssumption DEF Write, CursorInv, Result
  <1>2. CASE ~w.ok
    <2>1. buffer' = buffer /\ writer' = writer
      BY <1>1, <1>2 DEF Written
    <2>2. items' = items
      BY <1>2 DEF Write
    <2>. QED  BY <1>1, <2>1, <2>2 DEF CursorInv, FailsAlone
  <1>3. CASE w.ok
    <2>. DEFINE new == [item EXCEPT !.start = writer, !.end = w.position]
    <2>1. /\ w.position \in 0..Size /\ writer <= w.position /\ w.bytes \in Buffers
          /\ \A k \in 1..Size : k <= writer \/ k > w.position => w.bytes[k] = buffer[k]
      BY <1>1, <1>3 DEF Written
    <2>2. items' = {i \in items : i.end <= writer \/ w.position <= i.start} \cup {new}
      BY <1>3 DEF Write
    <2>3. ASSUME NEW i \in items, i.end <= writer \/ w.position <= i.start
          PROVE  ItemIn(w.bytes, i)
      <3>1. ItemIn(buffer, i) /\ i.start \in 0..Size /\ i.end \in 0..Size
        BY DEF CursorInv, ItemIn
      <3>2. ASSUME NEW k \in 1..Size, i.start < k, k <= i.end  PROVE w.bytes[k] = buffer[k]
        BY <1>1, <2>1, <2>3, <3>1, <3>2
      <3>. QED  BY <3>1, <3>2, ItemStays
    <2>4. ItemIn(w.bytes, new)
      BY <1>3
    <2>. HIDE DEF new
    <2>5. \A i \in items' : ItemIn(w.bytes, i)
      BY <2>2, <2>3, <2>4
    <2>. QED  BY <1>1, <1>3, <2>1, <2>5 DEF CursorInv, FailsAlone
  <1>. QED  BY <1>2, <1>3

\* At first nothing was written.
LEMMA CursorInitOk == CursorInit => CursorInv
  BY CursorAssumption DEF CursorInit, CursorInv, Buffers

\* A call that changes none of this.
LEMMA CursorStays == CursorInv /\ UNCHANGED cursorVars => CursorInv' /\ UNCHANGED <<buffer, writer, reader>>
  BY DEF CursorInv, cursorVars

\* Where a write puts what it wrote.
LEMMA ItemFields ==
  ASSUME NEW kind, NEW value, NEW width, NEW endian, NEW start, NEW end
  PROVE  LET i == [Item(kind, value, width, endian) EXCEPT !.start = start, !.end = end] IN
         /\ i.kind = kind /\ i.value = value /\ i.width = width /\ i.endian = endian
         /\ i.start = start /\ i.end = end
  BY DEF Item

\* A number is written, or not.
LEMMA PutNumberOk ==
  ASSUME CursorInv, NEW width \in Widths, NEW value \in Numbers, NEW endian,
         HasWidth(value, width), PutNumber(width, value, endian)
  PROVE  CursorInv' /\ FailsAlone
  <1>. DEFINE w == WriteNumber(writer, buffer, width, value, endian)
              item == Item("number", <<value>>, width, endian)
              new == [item EXCEPT !.start = writer, !.end = w.position]
              digits == Encoded(value, width, endian)
  <1>1. /\ writer \in 0..Size /\ buffer \in Buffers /\ width \in Nat /\ value \in Nat
        /\ Write(w, item)
    BY CursorAssumption DEF PutNumber, Write, CursorInv
  <1>2. /\ Written(w, writer, buffer, width) /\ w.ok \in BOOLEAN
        /\ w.ok => Holds(w.bytes, writer, digits)
    BY <1>1, WriteNumberOk
  <1>. HIDE DEF w
  <1>3. /\ new.kind = "number" /\ new.value = <<value>> /\ new.width = width
        /\ new.endian = endian /\ new.start = writer /\ new.end = w.position
    BY ItemFields
  <1>4. w.ok => ItemIn(w.bytes, new)
    <2>1. w.ok => w.position = writer + width /\ w.position \in 0..Size
      BY <1>1, <1>2, CursorAssumption DEF Written
    <2>2. new.value[1] = value
      BY <1>3
    <2>. HIDE DEF new, item
    <2>. QED  BY <1>1, <1>2, <1>3, <2>1, <2>2 DEF ItemIn, NumberIn
  <1>. HIDE DEF item
  <1>. QED  BY <1>1, <1>2, <1>4, WriteKeeps

\* A length and bytes are written, or not.
LEMMA PutBytesOk ==
  ASSUME CursorInv, NEW value \in ByteStrings, NEW endian, PutBytes(value, endian)
  PROVE  CursorInv' /\ FailsAlone
  <1>. DEFINE w == WriteBytes(writer, buffer, value, endian)
              item == Item("bytes", value, 0, endian)
              new == [item EXCEPT !.start = writer, !.end = w.position]
              n == Len(value)
  <1>1. /\ writer \in 0..Size /\ buffer \in Buffers /\ n \in Nat /\ PrefixWidth \in Nat
        /\ Write(w, item)
    BY CursorAssumption DEF PutBytes, Write, CursorInv, ByteStrings
  <1>2. /\ Written(w, writer, buffer, PrefixWidth + n) /\ w.ok \in BOOLEAN
        /\ w.ok => /\ HasWidth(n, PrefixWidth)
                   /\ Holds(w.bytes, writer, Encoded(n, PrefixWidth, endian))
                   /\ Holds(w.bytes, writer + PrefixWidth, value)
    BY <1>1, WriteBytesOk
  <1>. HIDE DEF w
  <1>3. /\ new.kind = "bytes" /\ new.value = value
        /\ new.endian = endian /\ new.start = writer /\ new.end = w.position
    BY ItemFields
  <1>4. w.ok => ItemIn(w.bytes, new)
    <2>1. w.ok => w.position = writer + (PrefixWidth + n) /\ w.position \in 0..Size
      BY <1>1, <1>2, CursorAssumption DEF Written
    <2>. HIDE DEF new, item
    <2>. QED  BY <1>1, <1>2, <1>3, <2>1 DEF ItemIn, BytesIn
  <1>5. PrefixWidth + n \in Nat
    BY <1>1
  <1>. HIDE DEF item, n
  <1>. QED  BY <1>1, <1>2, <1>4, <1>5, WriteKeeps

\* A read moves the reader, or does nothing.
LEMMA ReadKeeps ==
  ASSUME CursorInv, reader # NULL, NEW r, ReadOk(r, reader.position), Read(r)
  PROVE  CursorInv' /\ FailsAlone
  <1>1. /\ reader = [position |-> reader.position, length |-> reader.length]
        /\ reader' = [position |-> r.position, length |-> reader.length]
        /\ outcome' = IF r.ok THEN "ok" ELSE "err"
        /\ UNCHANGED <<buffer, writer, items>>
    BY DEF CursorInv, Read, Result
  <1>2. outcome' = "err" => reader' = reader
    BY <1>1 DEF ReadOk
  <1>3. reader' = [position |-> reader'.position, length |-> reader'.length]
    BY <1>1
  <1>. QED  BY <1>1, <1>2, <1>3 DEF CursorInv, FailsAlone

\* Every call of a cursor.
LEMMA CursorStepOk ==
  ASSUME CursorInv, NEW payloads \in SUBSET ByteStrings, CursorNext(payloads)
  PROVE  CursorInv' /\ FailsAlone
  <1>1. CASE NewWriter \/ DropWriter
    BY <1>1, CursorAssumption DEF NewWriter, DropWriter, CursorInv, FailsAlone, Result
  <1>2. CASE NewReader \/ DropReader
    <2>1. reader' # NULL => reader' = [position |-> reader'.position, length |-> reader'.length]
      <3>1. CASE NewReader
        <4>. DEFINE limit == IF writer = NULL THEN Size ELSE writer
        <4>1. reader' = [position |-> 0, length |-> limit]
          BY <3>1 DEF NewReader
        <4>. HIDE DEF limit
        <4>. QED  BY <4>1
      <3>. QED  BY <1>2, <3>1 DEF DropReader
    <2>2. outcome' = "ok" /\ UNCHANGED <<buffer, writer, items>>
      BY <1>2 DEF NewReader, DropReader, Result
    <2>. QED  BY <2>1, <2>2 DEF CursorInv, FailsAlone
  <1>3. ASSUME NEW position \in 0..(Size + 1), SeekWriter(position)
        PROVE  CursorInv' /\ FailsAlone
    <2>1. writer' \in 0..Size
      BY <1>3, CursorAssumption DEF SeekWriter, CursorInv
    <2>2. outcome' = "err" => writer' = writer
      BY <1>3 DEF SeekWriter, Result
    <2>3. UNCHANGED <<buffer, reader, items>>
      BY <1>3 DEF SeekWriter
    <2>. QED  BY <2>1, <2>2, <2>3 DEF CursorInv, FailsAlone
  <1>4. ASSUME NEW position \in 0..(Size + 1), SeekReader(position)
        PROVE  CursorInv' /\ FailsAlone
    <2>1. reader = [position |-> reader.position, length |-> reader.length]
      BY <1>4 DEF SeekReader, CursorInv
    <2>2. reader' = [position |-> reader'.position, length |-> reader'.length]
      BY <1>4, <2>1 DEF SeekReader
    <2>3. (outcome' = "err" => reader' = reader) /\ UNCHANGED <<buffer, writer, items>>
      BY <1>4 DEF SeekReader, Result
    <2>. QED  BY <2>2, <2>3 DEF CursorInv, FailsAlone
  <1>5. ASSUME NEW width \in Widths, NEW endian \in Endians, NEW value \in Numbers,
               HasWidth(value, width), PutNumber(width, value, endian)
        PROVE  CursorInv' /\ FailsAlone
    BY <1>5, PutNumberOk
  <1>6. ASSUME NEW value \in payloads, NEW endian \in Endians, PutBytes(value, endian)
        PROVE  CursorInv' /\ FailsAlone
    BY <1>6, PutBytesOk
  <1>7. ASSUME NEW count \in 0..(Size + 1), Skip(count)  PROVE CursorInv' /\ FailsAlone
    BY <1>7, ReadExactOk, ReadKeeps DEF Skip
  <1>8. ASSUME NEW width \in Widths, NEW endian \in Endians, GetNumber(width, endian)
        PROVE  CursorInv' /\ FailsAlone
    BY <1>8, ReadNumberOk, ReadKeeps DEF GetNumber
  <1>9. ASSUME NEW endian \in Endians, GetBytes(endian)  PROVE CursorInv' /\ FailsAlone
    BY <1>9, ReadBytesOk, ReadKeeps DEF GetBytes
  <1>10. ASSUME NEW endian \in Endians, GetStr(endian)  PROVE CursorInv' /\ FailsAlone
    BY <1>10, ReadStrOk, ReadKeeps DEF GetStr
  <1>. QED
    BY <1>1, <1>2, <1>3, <1>4, <1>5, <1>6, <1>7, <1>8, <1>9, <1>10, Zenon DEF CursorNext

-----------------------------------------------------------------------------
(* What was written is read back.                                          *)

Success(position, value) == [ok |-> TRUE, position |-> position, value |-> value]

Failure(position) == [ok |-> FALSE, position |-> position, value |-> NULL]

\* Bytes are read where they are, by a reader that may read all of them.
LEMMA ExactReadBack ==
  ASSUME buffer \in Buffers, NEW position \in Nat, NEW limit \in 0..Size, NEW value \in ByteStrings,
         Holds(buffer, position, value)
  PROVE  /\ position + Len(value) <= limit =>
              ReadExact(position, limit, Len(value)) = Success(position + Len(value), value)
         /\ position + Len(value) > limit =>
              ReadExact(position, limit, Len(value)) = Failure(position)
  <1>. DEFINE n == Len(value)
              l == SubSeq(buffer, position + 1, position + n)
  <1>1. Size \in Nat /\ n \in Nat /\ value \in Seq(Nat) /\ buffer \in Seq(Nat) /\ Len(buffer) = Size
    BY CursorAssumption DEF ByteStrings, Buffers
  <1>2. ASSUME position + n <= limit
        PROVE  ReadExact(position, limit, n) = Success(position + n, value)
    <2>1. l \in Seq(Nat) /\ Len(l) = n /\ \A k \in 1..n : l[k] = buffer[position + k]
      <3>1. position + 1 \in 1..(Len(buffer) + 1) /\ position + n \in position..Len(buffer)
        BY <1>1, <1>2
      <3>. HIDE DEF n
      <3>. QED  BY <1>1, <3>1
    <2>2. \A k \in 1..n : l[k] = value[k]
      BY <2>1 DEF Holds
    <2>. HIDE DEF l
    <2>3. l = value
      BY <1>1, <2>1, <2>2, SeqEqual
    <2>4. ~(position + n > limit)
      BY <1>1, <1>2
    <2>. HIDE DEF n
    <2>. QED  BY <2>3, <2>4, Zenon DEF ReadExact, Success, l
  <1>3. ASSUME position + n > limit  PROVE ReadExact(position, limit, n) = Failure(position)
    BY <1>3 DEF ReadExact, Failure
  <1>. QED  BY <1>2, <1>3

\* So is a number.
LEMMA NumberReadBack ==
  ASSUME buffer \in Buffers, NEW position \in Nat, NEW limit \in 0..Size, NEW value \in Nat,
         NEW width \in Nat, NEW endian, HasWidth(value, width),
         Holds(buffer, position, Encoded(value, width, endian))
  PROVE  /\ position + width <= limit =>
              ReadNumber(position, limit, width, endian) = Success(position + width, value)
         /\ position + width > limit =>
              ReadNumber(position, limit, width, endian) = Failure(position)
  <1>. DEFINE bytes == Encoded(value, width, endian)
              r == ReadExact(position, limit, width)
  <1>1. bytes \in ByteStrings /\ Len(bytes) = width /\ Decoded(bytes, endian) = value
    BY EncodedType, DecodedOk DEF ByteStrings
  <1>2. /\ position + width <= limit => r = Success(position + width, bytes)
        /\ position + width > limit => r = Failure(position)
    <2>. HIDE DEF bytes
    <2>1. Holds(buffer, position, bytes)
      BY DEF bytes
    <2>. QED  BY <1>1, <2>1, ExactReadBack
  <1>3. ReadNumber(position, limit, width, endian)
          = IF r.ok THEN [r EXCEPT !.value = Decoded(@, endian)] ELSE r
    BY DEF ReadNumber
  <1>. HIDE DEF bytes, r
  <1>4. ASSUME position + width <= limit
        PROVE  ReadNumber(position, limit, width, endian) = Success(position + width, value)
    <2>. DEFINE after == position + width
    <2>1. r = Success(after, bytes)
      BY <1>2, <1>4
    <2>. HIDE DEF after
    <2>. QED  BY <1>1, <1>3, <2>1 DEF Success, after
  <1>5. ASSUME position + width > limit
        PROVE  ReadNumber(position, limit, width, endian) = Failure(position)
    BY <1>2, <1>3, <1>5 DEF Failure
  <1>. QED  BY <1>4, <1>5

\* A call that failed is undone, and one that did not is not.
LEMMA UndoneIs ==
  ASSUME NEW position, NEW value, NEW start
  PROVE  /\ Undone(Success(position, value), start) = Success(position, value)
         /\ Undone(Failure(position), start) = Failure(start)
  BY DEF Undone, Success, Failure

\* So are bytes after their length.
LEMMA BytesReadBack ==
  ASSUME buffer \in Buffers, NEW position \in Nat, NEW limit \in 0..Size, NEW value \in ByteStrings,
         NEW endian, HasWidth(Len(value), PrefixWidth),
         Holds(buffer, position, Encoded(Len(value), PrefixWidth, endian)),
         Holds(buffer, position + PrefixWidth, value)
  PROVE  LET end == position + (PrefixWidth + Len(value)) IN
         /\ end <= limit => ReadBytes(position, limit, endian) = Success(end, value)
         /\ end > limit => ReadBytes(position, limit, endian) = Failure(position)
  <1>. DEFINE n == Len(value)
              middle == position + PrefixWidth
              end == position + (PrefixWidth + n)
              prefix == ReadNumber(position, limit, PrefixWidth, endian)
              payload == IF prefix.ok THEN ReadExact(prefix.position, limit, prefix.value) ELSE prefix
  <1>1. /\ Size \in Nat /\ limit \in Nat /\ PrefixWidth \in Nat /\ n \in Nat /\ middle \in Nat
        /\ end = middle + n /\ end \in Nat
    BY CursorAssumption DEF ByteStrings
  <1>2. /\ middle <= limit => prefix = Success(middle, n)
        /\ middle > limit => prefix = Failure(position)
    BY <1>1, NumberReadBack
  <1>3. ReadBytes(position, limit, endian) = Undone(payload, position)
    BY DEF ReadBytes
  <1>. HIDE DEF prefix
  <1>4. CASE middle > limit
    <2>1. prefix = Failure(position) /\ end > limit /\ ~(end <= limit)
      BY <1>1, <1>2, <1>4
    <2>2. payload = Failure(position)
      BY <2>1 DEF Failure
    <2>. QED  BY <1>3, <2>1, <2>2, UndoneIs
  <1>5. CASE middle <= limit
    <2>1. payload = ReadExact(middle, limit, n)
      BY <1>2, <1>5 DEF Success
    <2>2. /\ end <= limit => payload = Success(end, value)
          /\ end > limit => payload = Failure(middle)
      BY <1>1, <2>1, ExactReadBack
    <2>. HIDE DEF payload, end
    <2>. QED  BY <1>3, <2>2, UndoneIs DEF end
  <1>. QED  BY <1>1, <1>4, <1>5

\* So are bytes that are a text.
LEMMA StrReadBack ==
  ASSUME NEW position, NEW limit, NEW endian, NEW end, NEW value \in Utf8
  PROVE  /\ ReadBytes(position, limit, endian) = Success(end, value) =>
              ReadStr(position, limit, endian) = Success(end, value)
         /\ ReadBytes(position, limit, endian) = Failure(position) =>
              ReadStr(position, limit, endian) = Failure(position)
  <1>. DEFINE bytes == ReadBytes(position, limit, endian)
              text == IF bytes.ok /\ bytes.value \notin Utf8 THEN [bytes EXCEPT !.ok = FALSE] ELSE bytes
  <1>1. ReadStr(position, limit, endian) = Undone(text, position)
    BY DEF ReadStr
  <1>. HIDE DEF bytes
  <1>2. bytes = Success(end, value) => text = Success(end, value)
    BY DEF Success
  <1>3. bytes = Failure(position) => text = Failure(position)
    BY DEF Failure
  <1>. QED  BY <1>1, <1>2, <1>3, UndoneIs DEF bytes

\* In every state of a buffer, what was written is read back.
LEMMA InvReadsBack == CursorInv => ItemsReadBack
  <1>. SUFFICES ASSUME CursorInv, NEW item \in items
                PROVE  /\ \A limit \in item.end..Size :
                            ReadItem(item, limit) = Success(item.end, Content(item))
                       /\ \A limit \in item.start..(item.end - 1) :
                            ReadItem(item, limit) = Failure(item.start)
    BY DEF ItemsReadBack, Success, Failure
  <1>1. /\ Size \in Nat /\ PrefixWidth \in Nat /\ Widths \subseteq Nat /\ buffer \in Buffers
        /\ ItemIn(buffer, item)
    BY CursorAssumption DEF CursorInv
  <1>2. item.start \in 0..Size /\ item.end \in 0..Size
    BY <1>1 DEF ItemIn
  <1>. DEFINE Back(limit) ==
                /\ item.end <= limit => ReadItem(item, limit) = Success(item.end, Content(item))
                /\ item.end > limit => ReadItem(item, limit) = Failure(item.start)
  <1>3. ASSUME NEW limit \in 0..Size  PROVE Back(limit)
    <2>1. CASE NumberIn(buffer, item)
      <3>1. /\ ReadItem(item, limit) = ReadNumber(item.start, limit, item.width, item.endian)
            /\ Content(item) = item.value[1]
        BY <2>1 DEF NumberIn, ReadItem, Content
      <3>2. /\ item.start \in Nat /\ item.width \in Nat /\ item.value[1] \in Nat
            /\ HasWidth(item.value[1], item.width) /\ item.end = item.start + item.width
            /\ Holds(buffer, item.start, Encoded(item.value[1], item.width, item.endian))
        <4>1. item.start \in Nat
          BY <1>1, <1>2
        <4>. QED  BY <1>1, <2>1, <4>1 DEF NumberIn
      <3>. QED  BY <1>1, <3>1, <3>2, NumberReadBack
    <2>2. CASE BytesIn(buffer, item)
      <3>. DEFINE read == ReadBytes(item.start, limit, item.endian)
      <3>1. /\ item.start \in Nat /\ item.value \in ByteStrings /\ Content(item) = item.value
            /\ HasWidth(Len(item.value), PrefixWidth)
            /\ item.end = item.start + (PrefixWidth + Len(item.value))
            /\ Holds(buffer, item.start, Encoded(Len(item.value), PrefixWidth, item.endian))
            /\ Holds(buffer, item.start + PrefixWidth, item.value)
        BY <1>1, <1>2, <2>2 DEF BytesIn, Content
      <3>2. /\ item.end <= limit => read = Success(item.end, item.value)
            /\ item.end > limit => read = Failure(item.start)
        <4>1. buffer \in Buffers /\ limit \in 0..Size
          BY <1>1
        <4>. QED  BY <3>1, <4>1, BytesReadBack
      <3>3. CASE item.value \in Utf8
        <4>1. ReadItem(item, limit) = ReadStr(item.start, limit, item.endian)
          BY <2>2, <3>3 DEF BytesIn, ReadItem
        <4>. QED  BY <3>1, <3>2, <3>3, <4>1, StrReadBack
      <3>4. CASE item.value \notin Utf8
        <4>1. ReadItem(item, limit) = read
          BY <2>2, <3>4 DEF BytesIn, ReadItem
        <4>. QED  BY <3>1, <3>2, <4>1
      <3>. QED  BY <3>3, <3>4
    <2>. QED  BY <1>1, <2>1, <2>2 DEF ItemIn
  <1>4. ASSUME NEW limit \in item.end..Size
        PROVE  ReadItem(item, limit) = Success(item.end, Content(item))
    <2>1. limit \in 0..Size /\ item.end <= limit
      BY <1>1, <1>2
    <2>2. Back(limit)
      BY <1>3, <2>1
    <2>. QED  BY <2>1, <2>2
  <1>5. ASSUME NEW limit \in item.start..(item.end - 1)
        PROVE  ReadItem(item, limit) = Failure(item.start)
    <2>1. limit \in 0..Size /\ item.end > limit
      BY <1>1, <1>2
    <2>2. Back(limit)
      BY <1>3, <2>1
    <2>. QED  BY <2>1, <2>2
  <1>. QED  BY <1>4, <1>5

-----------------------------------------------------------------------------
(* The builder and the cursors together.                                   *)

\* The inductive invariant of both.
BuffersInv == TransportInv /\ CursorInv

\* What the calls of a step do.
Built ==
  /\ \A text \in Pieces : AppendText(text) => AsBytes' = AsBytes \o text
  /\ \A text \in Pieces : AssignText(text) => AsBytes' = text
  /\ storage'.borrowed <=> storage.borrowed /\ length' < Len(storage.bytes)
  /\ AsBytesWithNul' = AsBytes' \o <<NUL>>

\* Every step keeps the invariant, fails alone, and builds the text.
LEMMA BuffersStepOk ==
  ASSUME BuffersInv, [Next]_vars
  PROVE  /\ BuffersInv'
         /\ UNCHANGED cursorVars \/ FailsAlone
         /\ UNCHANGED transportVars \/ Built
  <1>1. CASE Pack
    <2>1. AsBytes \in ByteStrings /\ AsBytesWithNul \in ByteStrings
      BY TextIsBytes DEF BuffersInv
    <2>2. {AsBytes, AsBytesWithNul} \in SUBSET ByteStrings
      BY <2>1
    <2>3. CursorInv' /\ FailsAlone
      BY <1>1, <2>2, CursorStepOk DEF Pack, BuffersInv
    <2>4. TransportInv' /\ UNCHANGED transportVars
      BY <1>1 DEF Pack, BuffersInv, TransportInv, transportVars
    <2>. QED  BY <2>3, <2>4 DEF BuffersInv
  <1>2. CASE Build
    <2>1. TransportInv' /\ Built
      BY <1>2, TransportStepOk DEF Build, BuffersInv, Built
    <2>2. CursorInv' /\ UNCHANGED cursorVars
      BY <1>2, CursorStays DEF Build, BuffersInv
    <2>. QED  BY <2>1, <2>2 DEF BuffersInv
  <1>3. CASE UNCHANGED vars
    BY <1>3, CursorStays DEF vars, cursorVars, transportVars, BuffersInv, TransportInv
  <1>. QED  BY <1>1, <1>2, <1>3 DEF Next

\* The invariant holds in every state.
THEOREM BuffersAreBytes == Spec => []BuffersInv
  <1>1. Init => BuffersInv
    BY TransportInitOk, CursorInitOk DEF Init, BuffersInv
  <1>2. BuffersInv /\ [Next]_vars => BuffersInv'
    BY BuffersStepOk
  <1>. QED  BY <1>1, <1>2, PTL DEF Spec

\* A read, a write or a seek that reports an error leaves the buffer, the writer
\* and the reader as they were.
THEOREM FailuresAreClean == Spec => FailedCallsChangeNothing
  <1>1. BuffersInv /\ [Next]_vars => [FailsAlone]_cursorVars
    BY BuffersStepOk
  <1>2. Spec => [][FailsAlone]_cursorVars
    BY <1>1, BuffersAreBytes, PTL DEF Spec
  <1>. QED  BY <1>2 DEF FailedCallsChangeNothing, FailsAlone

\* The builder holds the text that its calls describe, with its terminator, in the
\* caller's buffer for as long as it fits there.
THEOREM TextsAreBuilt == Spec => CallsBuildText
  <1>1. BuffersInv /\ [Next]_vars => [Built]_transportVars
    BY BuffersStepOk
  <1>2. Spec => [][Built]_transportVars
    BY <1>1, BuffersAreBytes, PTL DEF Spec
  <1>. QED  BY <1>2 DEF CallsBuildText, Built

\* Numbers and byte strings that were written, in either order, and not overwritten
\* are read as what they were, by a reader that may read all of their bytes and by
\* no other.
THEOREM WhatIsWrittenIsRead == Spec => []ItemsReadBack
  <1>1. BuffersInv => ItemsReadBack
    BY InvReadsBack DEF BuffersInv
  <1>. QED  BY <1>1, BuffersAreBytes, PTL
=============================================================================
