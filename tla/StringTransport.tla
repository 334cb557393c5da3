---------------------------- MODULE StringTransport ----------------------------
(***************************************************************************)
(* A text builder over a buffer of its caller that moves to a buffer of    *)
(* its own when a text and its terminator no longer fit (StringTransport   *)
(* in string_transport.rs).                                                *)
(***************************************************************************)
EXTENDS Naturals, Sequences

CONSTANTS
  NUL,       \* the byte that ends a text, and that may also be part of one
  Lent,      \* buffers that callers lend, with whatever bytes are in them
  Pieces,    \* texts to assign and append: UTF-8 byte strings
  MaxText    \* bound: texts have at most this many bytes

ASSUME TransportAssumption ==
  /\ NUL \in Nat
  /\ Lent \subseteq Seq(Nat)
  /\ Pieces \subseteq Seq(Nat)

VARIABLES
  storage,   \* the bytes, and whether they are the caller's
  length     \* length of the text

transportVars == <<storage, length>>

\* new, of a borrowed buffer: its first byte, if any, becomes the terminator.
Borrowing(buffer) ==
  [borrowed |-> TRUE, bytes |-> [k \in DOMAIN buffer |-> IF k = 1 THEN NUL ELSE buffer[k]]]

\* owned: nothing is allocated yet.
Empty == [borrowed |-> FALSE, bytes |-> <<>>]

TransportInit ==
  /\ storage \in {Borrowing(buffer) : buffer \in Lent} \cup {Empty}
  /\ length = 0

AsBytes == SubSeq(storage.bytes, 1, length)

AsBytesWithNul ==
  IF storage.bytes = <<>> THEN <<NUL>> ELSE SubSeq(storage.bytes, 1, length + 1)

\* Mutant: the room for the terminator is forgotten.
FitsText(end) == storage.borrowed /\ end <= Len(storage.bytes)

\* Whether the first end bytes of the caller's buffer leave room for another.
Fits(end) == storage.borrowed /\ end < Len(storage.bytes)

\* append, after a text of the given length: in place, or in a buffer made for
\* exactly this text.
AppendAt(start, text) ==
  LET end == start + Len(text)
      at(k) == IF k <= start THEN storage.bytes[k] ELSE text[k - start]
  IN /\ end <= MaxText
     /\ storage' = IF Fits(end)
                   THEN [storage EXCEPT !.bytes =
                           [k \in DOMAIN @ |-> IF k <= end THEN at(k)
                                               ELSE IF k = end + 1 THEN NUL ELSE @[k]]]
                   ELSE [borrowed |-> FALSE,
                         bytes |-> [k \in 1..(end + 1) |-> IF k <= end THEN at(k) ELSE NUL]]
     /\ length' = end

AppendText(text) == AppendAt(length, text)

AssignText(text) == AppendAt(0, text)

TransportNext == \E text \in Pieces : AppendText(text) \/ AssignText(text)

TransportSpec == TransportInit /\ [][TransportNext]_transportVars

-----------------------------------------------------------------------------
(* Properties.                                                             *)

\* The builder holds the text that its calls describe, followed by NUL, wherever
\* the text is; and it leaves the caller's buffer, for good, in the call whose
\* text with its terminator does not fit there.
CallsBuildText ==
  [][/\ \A text \in Pieces : AppendText(text) => AsBytes' = AsBytes \o text
     /\ \A text \in Pieces : AssignText(text) => AsBytes' = text
     /\ storage'.borrowed <=> storage.borrowed /\ length' < Len(storage.bytes)
     /\ AsBytesWithNul' = AsBytes' \o <<NUL>>
    ]_transportVars
=============================================================================
