---------------------------- MODULE MCFixedStrings ----------------------------
(***************************************************************************)
(* Instances of FixedStrings for TLC.                                      *)
(***************************************************************************)
EXTENDS FixedStrings

\* Slots, for texts that fill more than half of one, but not all.
MCLong == [c \in Columns |-> [capacity |-> 3, nullable |-> TRUE]]

\* The lead byte of <<lead, more>> is no text of its own.
MCTexts == {<<"a">>, <<"lead", "more">>, <<"a", "a", "a", "a">>}

\* A row, a row twice, and rows in another order.
MCSelections == {<<2>>, <<1, 1>>, <<2, 1>>}

\* The second column is appended to the first.
TwoRows == [c \in Columns |-> IF c = "left" THEN 2 ELSE 1]
=============================================================================
