------------------------------ MODULE TextColumns ------------------------------
(***************************************************************************)
(* String columns as their users see them: sequences of texts and nulls.   *)
(* There are no slots, offsets or buffers here.  FixedStrings implements   *)
(* this specification (FixedStrings!ImplementsTexts).                      *)
(***************************************************************************)
EXTENDS Naturals, Sequences, Subsequences

CONSTANTS
  Columns,     \* columns
  Texts,       \* the texts that callers store
  Selections,  \* sequences of row positions that callers copy
  NULL         \* no text

VARIABLE content  \* content[c]: the texts of column c

\* A text that was edited in place need not be one of Texts.
Init == content = [c \in Columns |-> <<>>]

Push(c, value) == content' = [content EXCEPT ![c] = Append(@, value)]

Pop(c) ==
  /\ content[c] # <<>>
  /\ content' = [content EXCEPT ![c] = SubSeq(@, 1, Len(@) - 1)]

Set(c, i, value) ==
  /\ i \in DOMAIN content[c]
  /\ content' = [content EXCEPT ![c][i] = value]

AppendColumn(c, d) == content' = [content EXCEPT ![c] = @ \o content[d]]

\* Column d is appended to c and used up.
TakeColumn(c, d) == content' = [content EXCEPT ![c] = @ \o content[d], ![d] = <<>>]

CopyRows(c, d, rows) ==
  /\ \A j \in DOMAIN rows : rows[j] \in DOMAIN content[c]
  /\ content' = [content EXCEPT ![d] = [j \in DOMAIN rows |-> content[c][rows[j]]]]

\* The rows in kept stay, in their order.
Retain(c, kept) ==
  LET order == KeptOf(kept, Len(content[c]))
  IN content' = [content EXCEPT ![c] = [j \in DOMAIN order |-> content[c][order[j]]]]

Next ==
  \E c \in Columns :
    \/ \E value \in Texts \cup {NULL} : Push(c, value)
    \/ Pop(c)
    \/ \E i \in DOMAIN content[c], value \in Texts \cup {NULL} : Set(c, i, value)
    \/ \E d \in Columns \ {c} :
         \/ AppendColumn(c, d) \/ TakeColumn(c, d)
         \/ \E rows \in Selections : CopyRows(c, d, rows)
    \/ \E kept \in SUBSET DOMAIN content[c] : Retain(c, kept)

Spec == Init /\ [][Next]_content
=============================================================================
