----------------------------- MODULE TableQueries -----------------------------
(***************************************************************************)
(* What is computed from a table without changing it: hash indexes over a  *)
(* column (table/index.rs) or a tuple of columns (table/composite.rs), the *)
(* left joins that use them (also in table/selection.rs), and row orders   *)
(* (table/ordering.rs, row_order in table.rs).  All of them borrow the     *)
(* table, so each is computed from one state of it.                        *)
(***************************************************************************)
EXTENDS Table

CONSTANTS
  KeyTypes,  \* types whose values an index accepts as keys
  KeyOf,     \* KeyOf[v]: the key of a value, its integers widened
  Less       \* <<v, w>> is in Less if cmp puts v before w, a value of its type

\* Values of one type have different keys, and a tuple of keys is not NULL; nulls
\* have none.  Each type has a total preorder: Ord::cmp, str::cmp or total_cmp.
ASSUME QueriesAssumption ==
  /\ \A v, w \in Values :
       TypeOf[v] = TypeOf[w] /\ TypeOf[v] \in KeyTypes /\ KeyOf[v] = KeyOf[w] => v = w
  /\ NullType \notin KeyTypes
  /\ NULL \notin Seq({KeyOf[v] : v \in Values})
  /\ ERR \notin Seq(Nat \X (Nat \cup {NULL}))
  /\ \A v, w \in Values : TypeOf[v] = TypeOf[w] => ~(<<v, w>> \in Less /\ <<w, v>> \in Less)
  /\ \A u, v, w \in Values :
       TypeOf[u] = TypeOf[v] /\ TypeOf[v] = TypeOf[w] /\ <<u, w>> \in Less
         => <<u, v>> \in Less \/ <<v, w>> \in Less

-----------------------------------------------------------------------------
(* Indexes.                                                                *)

EmptyMap == [key \in {} |-> <<>>]

\* entry(key).or_default().push(i)
Filed(map, key, i) ==
  [k \in DOMAIN map \cup {key} |->
     IF k # key THEN map[k]
     ELSE IF k \in DOMAIN map THEN Append(map[k], i) ELSE <<i>>]

Indexable(T, c) == c \in Positions(T.schema) /\ T.schema.columns[c].type \in KeyTypes

\* Mutant: a null cell is recognised before a mark is.
FiledNullFirst(T, c, index, i) ==
  LET v == Cell(T, i, c) IN
  IF v = NULL THEN [index EXCEPT !.null_rows = Append(@, i)]
  ELSE IF IsTombstoned(T, i) THEN [index EXCEPT !.tombstoned_rows = Append(@, i)]
  ELSE [index EXCEPT !.by_key = Filed(@, KeyOf[v], i)]

\* One round of ColumnIndex::new.
FiledRow(T, c, index, i) ==
  LET v == Cell(T, i, c) IN
  IF IsTombstoned(T, i) THEN [index EXCEPT !.tombstoned_rows = Append(@, i)]
  ELSE IF v = NULL THEN [index EXCEPT !.null_rows = Append(@, i)]
  ELSE [index EXCEPT !.by_key = Filed(@, KeyOf[v], i)]

\* At i, the index of the first i rows.
IndexUpto(T, c) ==
  LET upto[i \in 0..T.rowCount] ==
        IF i = 0 THEN [by_key |-> EmptyMap, null_rows |-> <<>>, tombstoned_rows |-> <<>>]
        ELSE FiledRow(T, c, upto[i - 1], i)
  IN upto

\* ColumnIndex::new: Table::index.
IndexOf(T, c) == IF Indexable(T, c) THEN IndexUpto(T, c)[T.rowCount] ELSE ERR

\* ColumnIndex::rows.
KeyMatches(index, key) == IF key \in DOMAIN index.by_key THEN index.by_key[key] ELSE <<>>

FALSEKey == <<"bool", FALSE>>

\* Mutant: a null component leaves the placeholder in the key.
KeyWithHoles(T, cs, i) ==
  [j \in DOMAIN cs |-> LET v == Cell(T, i, cs[j]) IN IF v = NULL THEN FALSEKey ELSE KeyOf[v]]

\* row_key: no key if a component is null.
RowKey(T, cs, i) ==
  LET at(j) == Cell(T, i, cs[j]) IN
  IF \E j \in DOMAIN cs : at(j) = NULL THEN NULL ELSE [j \in DOMAIN cs |-> KeyOf[at(j)]]

\* One round of CompositeIndex::new: buckets are numbered as their keys appear.
FiledTuple(T, cs, index, i) ==
  LET key == RowKey(T, cs, i) IN
  IF IsTombstoned(T, i) THEN [index EXCEPT !.tombstoned_rows = Append(@, i)]
  ELSE IF key = NULL THEN [index EXCEPT !.null_rows = Append(@, i)]
  ELSE IF key \in DOMAIN index.by_key
       THEN [index EXCEPT !.matches[index.by_key[key]] = Append(@, i)]
       ELSE [index EXCEPT !.matches = Append(@, <<i>>),
                          !.by_key = [k \in DOMAIN @ \cup {key} |->
                                        IF k = key THEN Len(index.matches) + 1 ELSE @[k]]]

\* At i, the index of the first i rows.
CompositeUpto(T, cs) ==
  LET upto[i \in 0..T.rowCount] ==
        IF i = 0 THEN [by_key |-> EmptyMap, matches |-> <<>>,
                       null_rows |-> <<>>, tombstoned_rows |-> <<>>]
        ELSE FiledTuple(T, cs, upto[i - 1], i)
  IN upto

TupleIndexable(T, cs) == cs # <<>> /\ \A j \in DOMAIN cs : Indexable(T, cs[j])

\* CompositeIndex::new: Table::composite_index.
CompositeOf(T, cs) == IF TupleIndexable(T, cs) THEN CompositeUpto(T, cs)[T.rowCount] ELSE ERR

\* CompositeIndex::rows.
TupleMatches(index, key) ==
  IF key \in DOMAIN index.by_key THEN index.matches[index.by_key[key]] ELSE <<>>

-----------------------------------------------------------------------------
(* Left joins: the pairs of left and right positions, NULL for no partner. *)

PairsOf(i, matches) ==
  IF matches = <<>> THEN <<<<i, NULL>>>> ELSE [k \in DOMAIN matches |-> <<i, matches[k]>>]

\* At i, the pairs of the live ones of the first i rows of T, one row after the
\* other: row r matches the rows matches[r].
PairsUpto(T, matches) ==
  LET upto[i \in 0..T.rowCount] ==
        IF i = 0 THEN <<>>
        ELSE IF IsTombstoned(T, i) THEN upto[i - 1]
        ELSE upto[i - 1] \o PairsOf(i, matches[i])
  IN upto

\* left_join and left_join_rows of column c against the index of S's column d.
LeftJoin(T, c, S, d) ==
  LET index == IndexOf(S, d)
      matches == [i \in 1..T.rowCount |->
                    LET v == Cell(T, i, c) IN IF v = NULL THEN <<>> ELSE KeyMatches(index, KeyOf[v])]
  IN IF \/ ~Indexable(S, d) \/ c \notin Positions(T.schema)
        \/ T.schema.columns[c].type # S.schema.columns[d].type
     THEN ERR
     ELSE PairsUpto(T, matches)[T.rowCount]

\* left_join_composite and left_join_rows_composite.
LeftJoinComposite(T, cs, S, ds) ==
  LET index == CompositeOf(S, ds)
      matches == [i \in 1..T.rowCount |->
                    LET key == RowKey(T, cs, i) IN
                    IF key = NULL THEN <<>> ELSE TupleMatches(index, key)]
  IN IF \/ ~TupleIndexable(S, ds)
        \/ \E j \in DOMAIN cs : \/ cs[j] \notin Positions(T.schema)
                               \/ T.schema.columns[cs[j]].type # S.schema.columns[ds[j]].type
     THEN ERR
     ELSE PairsUpto(T, matches)[T.rowCount]

-----------------------------------------------------------------------------
(* Orders.                                                                 *)

Reversed(ordering) ==
  CASE ordering = "less" -> "greater" [] ordering = "greater" -> "less" [] OTHER -> "equal"

\* Mutant: the direction reverses the place of nulls too.
ComparedReversed(v, w, direction, nulls) ==
  LET forward == IF v = NULL /\ w = NULL THEN "equal"
                 ELSE IF v = NULL THEN IF nulls = "first" THEN "less" ELSE "greater"
                 ELSE IF w = NULL THEN IF nulls = "first" THEN "greater" ELSE "less"
                 ELSE IF <<v, w>> \in Less THEN "less"
                 ELSE IF <<w, v>> \in Less THEN "greater" ELSE "equal"
  IN IF direction = "ascending" THEN forward ELSE Reversed(forward)

\* compare_optional.
Compared(v, w, direction, nulls) ==
  LET order == IF <<v, w>> \in Less THEN "less"
               ELSE IF <<w, v>> \in Less THEN "greater" ELSE "equal"
  IN IF v = NULL /\ w = NULL THEN "equal"
     ELSE IF v = NULL THEN IF nulls = "first" THEN "less" ELSE "greater"
     ELSE IF w = NULL THEN IF nulls = "first" THEN "greater" ELSE "less"
     ELSE IF direction = "ascending" THEN order ELSE Reversed(order)

\* ColumnStorage::compare_rows: the rows of a column of type Null are equal.
ComparedRows(T, c, direction, nulls, i, j) ==
  IF T.schema.columns[c].type = NullType THEN "equal"
  ELSE Compared(Cell(T, i, c), Cell(T, j, c), direction, nulls)

\* Behind the last element of s that is not greater than i.
PlaceOf(s, compared, i) ==
  CHOOSE p \in 0..Len(s) : /\ p > 0 => compared[s[p]][i] # "greater"
                           /\ \A k \in (p + 1)..Len(s) : compared[s[k]][i] = "greater"

InsertedAt(s, p, i) ==
  [k \in 1..(Len(s) + 1) |-> IF k <= p THEN s[k] ELSE IF k = p + 1 THEN i ELSE s[k - 1]]

\* At i, the first i elements in the order of slice::sort_by, which is stable.
SortedUpto(n, compared) ==
  LET upto[i \in 0..n] ==
        IF i = 0 THEN <<>>
        ELSE InsertedAt(upto[i - 1], PlaceOf(upto[i - 1], compared, i), i)
  IN upto

\* Table::row_order: all rows, the marked ones included.
RowOrder(T, c, direction, nulls) ==
  LET n == T.rowCount
      compared == [i \in 1..n |-> [j \in 1..n |-> ComparedRows(T, c, direction, nulls, i, j)]]
  IN IF c \in Positions(T.schema) THEN SortedUpto(n, compared)[n] ELSE ERR

\* Table::row_order_named.
RowOrderNamed(T, n, direction, nulls) ==
  IF ColumnIndex(T.schema, n) = NULL THEN ERR
  ELSE RowOrder(T, ColumnIndex(T.schema, n), direction, nulls)

\* RowOrder::live_rows.
LiveRows(T, order) ==
  LET live == KeptOf({k \in DOMAIN order : ~IsTombstoned(T, order[k])}, Len(order))
  IN [k \in DOMAIN live |-> order[live[k]]]

-----------------------------------------------------------------------------
(* Properties.                                                             *)

LiveOf(T) == {i \in 1..T.rowCount : ~IsTombstoned(T, i)}

Increasing(s) == \A k \in 1..(Len(s) - 1) : s[k] < s[k + 1]

SetOf(s) == {s[k] : k \in DOMAIN s}

\* What is computed from the tables is looked at after each call that succeeds:
\* the others change no table.
Changed == outcome = "ok"

\* Every row of a table is filed in exactly one place of an index of it: the
\* marked ones among the marked, the live ones without a key among the nulls,
\* and the others, in their order, under their key and no other.
IndexesPartitionRows ==
  Changed => \A t \in Tables : \A c \in Positions(table[t].schema) :
    LET T == table[t]
        index == IndexOf(T, c)
        dead == {i \in 1..T.rowCount : IsTombstoned(T, i)}
        under(key) == {i \in LiveOf(T) : Cell(T, i, c) # NULL /\ KeyOf[Cell(T, i, c)] = key}
    IN index # ERR =>
         /\ SetOf(index.tombstoned_rows) = dead
         /\ SetOf(index.null_rows) = {i \in LiveOf(T) : Cell(T, i, c) = NULL}
         /\ \A key \in DOMAIN index.by_key :
              SetOf(index.by_key[key]) = under(key) /\ Increasing(index.by_key[key])
         /\ UNION {SetOf(index.by_key[key]) : key \in DOMAIN index.by_key}
              = (LiveOf(T) \ SetOf(index.null_rows))

\* The columns a join may be asked for: one, or two, equal ones included.
Tuples(T) == UNION {[1..k -> Positions(T.schema)] : k \in 1..2}

\* The pairs of a left join, by definition: equal in every column, null equal
\* to nothing, each live left row at least once.
Related(T, cs, S, ds) ==
  LET equal(i, j) == \A k \in DOMAIN cs : /\ Cell(T, i, cs[k]) # NULL
                                          /\ Cell(T, i, cs[k]) = Cell(S, j, ds[k])
      partners(i) == {j \in LiveOf(S) : equal(i, j)}
  IN UNION {IF partners(i) = {} THEN {<<i, NULL>>} ELSE {i} \X partners(i) : i \in LiveOf(T)}

\* By left row, then by right row.
InSourceOrder(pairs) ==
  \A k \in 1..(Len(pairs) - 1) :
    \/ pairs[k][1] < pairs[k + 1][1]
    \/ pairs[k][1] = pairs[k + 1][1] /\ pairs[k][2] < pairs[k + 1][2]

\* Both kinds of left join, of two tables or of a table with itself, return the
\* pairs of the relational join, each once and in source order; they agree on
\* one column, and are refused exactly if a column has no keys or another type.
JoinsAreRelational ==
  Changed => \A t, u \in Tables : \A cs \in Tuples(table[t]), ds \in Tuples(table[u]) :
    LET T == table[t]
        S == table[u]
        pairs == LeftJoinComposite(T, cs, S, ds)
    IN Len(cs) = Len(ds) =>
         /\ (pairs = ERR) = \E k \in DOMAIN cs :
              \/ S.schema.columns[ds[k]].type \notin KeyTypes
              \/ T.schema.columns[cs[k]].type # S.schema.columns[ds[k]].type
         /\ pairs # ERR => SetOf(pairs) = Related(T, cs, S, ds) /\ InSourceOrder(pairs)
         /\ Len(cs) = 1 => LeftJoin(T, cs[1], S, ds[1]) = pairs

\* compare_rows is a total preorder, as sort_by demands: a comparison that is
\* not may panic.  The order holds every row once, nulls on the side that was
\* asked for in either direction, and leaves equal rows as they were; without the
\* marked rows it is the order of the live ones.
OrdersAreStable ==
  Changed => \A t \in Tables : \A c \in Positions(table[t].schema) :
  \A direction \in {"ascending", "descending"}, nulls \in {"first", "last"} :
    LET T == table[t]
        rows == 1..T.rowCount
        order == RowOrder(T, c, direction, nulls)
        live == LiveRows(T, order)
        compare(i, j) == ComparedRows(T, c, direction, nulls, i, j)
        null(i) == Cell(T, i, c) = NULL
    IN /\ \A i, j \in rows : compare(i, j) = Reversed(compare(j, i))
       /\ \A i, j, k \in rows : compare(i, j) # "greater" /\ compare(j, k) # "greater"
                                  => compare(i, k) # "greater"
       /\ SetOf(order) = rows /\ Len(order) = T.rowCount
       /\ \A a, b \in rows : a < b =>
            LET i == order[a]
                j == order[b]
            IN /\ compare(i, j) # "greater"
               /\ compare(i, j) = "equal" => i < j
               /\ null(i) /\ ~null(j) => nulls = "first"
               /\ ~null(i) /\ null(j) => nulls = "last"
       /\ SetOf(live) = LiveOf(T)
       /\ \A a, b \in DOMAIN live : a < b =>
            LET i == live[a]
                j == live[b]
            IN compare(i, j) # "greater" /\ (compare(i, j) = "equal" => i < j)
=============================================================================
