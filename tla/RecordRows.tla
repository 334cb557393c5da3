------------------------------ MODULE RecordRows ------------------------------
(***************************************************************************)
(* What shared-record tables promise (table/shared_record.rs): every table *)
(* is a sequence of records of its own.  That the records of two tables    *)
(* may be the same memory shows in nothing.                                *)
(***************************************************************************)
EXTENDS Naturals, Sequences

CONSTANTS
  Slots,       \* names that tables are bound to
  Threads,     \* threads, each of which may hold one record outside tables
  Records,     \* values of records
  Selections,  \* sequences of row positions that callers copy
  NULL         \* no table, no record

VARIABLES
  rows,   \* rows[t]: the records of table t, NULL if there is none
  single  \* single[h]: the record that thread h holds, or NULL

vars == <<rows, single>>

Init ==
  /\ rows = [t \in Slots |-> NULL]
  /\ single = [h \in Threads |-> NULL]

Exists(t) == rows[t] # NULL

Become(t, s) ==
  /\ rows' = [rows EXCEPT ![t] = s]
  /\ UNCHANGED single

NewTable(t) == ~Exists(t) /\ Become(t, <<>>)

Push(t, v) == Exists(t) /\ Become(t, Append(rows[t], v))

\* copy_rows: positions may repeat; one that does not exist is refused.
Copy(t, u, positions) ==
  /\ Exists(t) /\ ~Exists(u)
  /\ \A j \in DOMAIN positions : positions[j] <= Len(rows[t])
  /\ Become(u, [j \in DOMAIN positions |-> rows[t][positions[j]]])

\* The elements of s, in order, that are accepted.
Chosen(s, accepted) ==
  LET upto[i \in 0..Len(s)] ==
        IF i = 0 THEN <<>>
        ELSE IF s[i] \in accepted THEN Append(upto[i - 1], s[i]) ELSE upto[i - 1]
  IN upto[Len(s)]

\* filter: the records, in order, that a predicate accepts; clone accepts all.
Filter(t, u, accepted) ==
  /\ Exists(t) /\ ~Exists(u)
  /\ Become(u, Chosen(rows[t], accepted))

Edit(t, i, v) ==
  /\ Exists(t) /\ i <= Len(rows[t])
  /\ Become(t, [rows[t] EXCEPT ![i] = v])

Remove(t) == Exists(t) /\ Become(t, NULL)

Take(h, t, i) ==
  /\ Exists(t) /\ i <= Len(rows[t]) /\ single[h] = NULL
  /\ single' = [single EXCEPT ![h] = rows[t][i]]
  /\ UNCHANGED rows

Give(h, t) ==
  /\ Exists(t) /\ single[h] # NULL
  /\ rows' = [rows EXCEPT ![t] = Append(@, single[h])]
  /\ single' = [single EXCEPT ![h] = NULL]

Release(h) ==
  /\ single[h] # NULL
  /\ single' = [single EXCEPT ![h] = NULL]
  /\ UNCHANGED rows

Next ==
  \/ \E t \in Slots :
       \/ NewTable(t) \/ Remove(t)
       \/ \E v \in Records : Push(t, v)
       \/ Exists(t) /\ \E v \in Records, i \in 1..Len(rows[t]) : Edit(t, i, v)
       \/ \E u \in Slots :
            \/ \E accepted \in SUBSET Records : Filter(t, u, accepted)
            \/ \E positions \in Selections : Copy(t, u, positions)
  \/ \E h \in Threads :
       \/ Release(h)
       \/ \E t \in Slots :
            \/ Give(h, t)
            \/ Exists(t) /\ \E i \in 1..Len(rows[t]) : Take(h, t, i)

Spec == Init /\ [][Next]_vars
=============================================================================
