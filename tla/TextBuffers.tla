----------------------------- MODULE TextBuffers -----------------------------
(***************************************************************************)
(* A caller that builds texts and packs them, with numbers, into a buffer: *)
(* the byte strings that are written are those that were built.            *)
(***************************************************************************)
EXTENDS BinaryCursor, StringTransport

vars == <<buffer, writer, reader, items, outcome, storage, length>>

Init == CursorInit /\ TransportInit

\* The text as it is, or with its terminator.
Pack ==
  /\ CursorNext({AsBytes, AsBytesWithNul})
  /\ UNCHANGED transportVars

Build ==
  /\ TransportNext
  /\ UNCHANGED cursorVars

Next == Pack \/ Build

Spec == Init /\ [][Next]_vars

-----------------------------------------------------------------------------
(* An instance for TLC: bytes are 0 and 1, 0 is NUL, and a character is 0   *)
(* or 1 0.                                                                  *)

MCPieces == {<<>>, <<0>>, <<1, 0>>}

Strings == UNION {[1..n -> {0, 1}] : n \in 0..(Size + 1)}

\* Every 1 is followed by a 0.
MCUtf8 == {s \in Strings : \A k \in DOMAIN s : s[k] = 1 => k < Len(s) /\ s[k + 1] = 0}

MCLent == {<<>>, <<1, 1>>}
=============================================================================
