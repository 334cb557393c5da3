---------------------------- MODULE InternedCells ----------------------------
(***************************************************************************)
(* What an interned string column promises its callers, with no sharing   *)
(* in sight: a cell holds a text of its own or nothing.  A write replaces  *)
(* exactly the cell it was asked to replace, by exactly the text it was    *)
(* asked for; a copy gives a new column the texts of the rows it selects;  *)
(* nothing else ever changes the text a cell reads as.                     *)
(* Interner implements this specification (Interner!Cells).                *)
(***************************************************************************)
CONSTANTS
  Threads,  \* the threads that hold views of the columns
  Columns,  \* identities of columns
  Slots,    \* row positions of one column
  Texts,    \* the strings that are stored
  NULL      \* no text, no request

VARIABLES
  content,  \* content[c]: the text of cell c
  request   \* request[t]: the write that thread t has started

absVars == <<content, request>>

Cells == Columns \X Slots

Write == [cell : Cells, text : Texts]

Init ==
  /\ content = [c \in Cells |-> NULL]
  /\ request = [t \in Threads |-> NULL]

Ask(t, w) ==
  /\ request[t] = NULL
  /\ \A u \in Threads : request[u] # NULL => request[u].cell # w.cell
  /\ request' = [request EXCEPT ![t] = w]
  /\ UNCHANGED content

Commit(t) ==
  /\ request[t] # NULL
  /\ content' = [content EXCEPT ![request[t].cell] = request[t].text]
  /\ request' = [request EXCEPT ![t] = NULL]

Clear(c) ==
  /\ \A t \in Threads : request[t] # NULL => request[t].cell # c
  /\ content' = [content EXCEPT ![c] = NULL]
  /\ UNCHANGED request

\* A column is created with the rows of another one; rows may repeat.
Copy(k, from, rows) ==
  /\ \A s \in Slots : content[<<k, s>>] = NULL
  /\ content' = [c \in Cells |->
                   IF c[1] # k THEN content[c]
                   ELSE IF rows[c[2]] = NULL THEN NULL
                   ELSE content[<<from, rows[c[2]]>>]]
  /\ UNCHANGED request

\* One cell is appended with the text of a cell of another column.
Extend(c, from) ==
  /\ content[c] = NULL
  /\ content' = [content EXCEPT ![c] = content[from]]
  /\ UNCHANGED request

Next ==
  \/ \E t \in Threads, w \in Write : Ask(t, w)
  \/ \E t \in Threads : Commit(t)
  \/ \E c \in Cells : Clear(c)
  \/ \E k, from \in Columns, rows \in [Slots -> Slots \cup {NULL}] : Copy(k, from, rows)
  \/ \E c, from \in Cells : Extend(c, from)

Spec == Init /\ [][Next]_absVars
=============================================================================
