----------------------------- MODULE BinaryCursor -----------------------------
(***************************************************************************)
(* Cursors over a byte buffer that another part of the program owns        *)
(* (BinaryReader and BinaryWriter in binary.rs).                           *)
(*                                                                         *)
(* The buffer is lent to one writer, or read by a reader: of all of it     *)
(* while there is no writer, or of the part written so far while there is  *)
(* one.  A number is written by its bits, so signed numbers and floats are *)
(* here the unsigned number with the same bits.  The code's numbers are of *)
(* base 256 and 1, 2, 4 or 8 bytes wide, and its length prefixes are 4     *)
(* bytes wide.                                                             *)
(***************************************************************************)
EXTENDS Naturals, Sequences

CONSTANTS
  Base,          \* values of a byte
  Widths,        \* widths of numbers, in bytes
  Numbers,       \* the numbers a caller writes
  PrefixWidth,   \* width of the length before a byte string
  Size,          \* length of the buffer
  NativeOrder,   \* "big" or "little": what "native" stands for
  Endians,       \* the orders a caller asks for
  Utf8,          \* byte strings that are valid UTF-8
  NULL

ASSUME CursorAssumption ==
  /\ Base \in Nat \ {0, 1}
  /\ Widths \subseteq Nat \ {0}
  /\ PrefixWidth \in Nat \ {0}
  /\ Numbers \subseteq Nat
  /\ Size \in Nat
  /\ NULL \notin Nat

VARIABLES
  buffer,    \* the bytes
  writer,    \* position of the writer; NULL without one
  reader,    \* its position and the length it may read; NULL without one
  items,     \* what was written and not overwritten since, and where
  outcome    \* "ok" or "err": how the last call ended

cursorVars == <<buffer, writer, reader, items, outcome>>

Byte == 0..(Base - 1)

-----------------------------------------------------------------------------
(* Numbers as bytes.                                                       *)

Order(endian) == IF endian = "native" THEN NativeOrder ELSE endian

\* At k, the number without its k lowest bytes.
Shifted(value, width) ==
  LET shifted[k \in 0..width] == IF k = 0 THEN value ELSE shifted[k - 1] \div Base IN shifted

\* A number of at most width bytes.
HasWidth(value, width) == Shifted(value, width)[width] = 0

Encoded(value, width, endian) ==
  [k \in 1..width |->
     LET place == IF Order(endian) = "little" THEN k - 1 ELSE width - k
     IN Shifted(value, width)[place] % Base]

\* The bytes of a number, the most significant first.
Significant(bytes, endian, k) ==
  IF Order(endian) = "little" THEN bytes[Len(bytes) + 1 - k] ELSE bytes[k]

\* At k, the number that the first k of these are.
Prefixes(bytes, endian) ==
  LET number[k \in 0..Len(bytes)] ==
        IF k = 0 THEN 0 ELSE Base * number[k - 1] + Significant(bytes, endian, k)
  IN number

\* read_array and from_be_bytes, from_le_bytes, from_ne_bytes.
Decoded(bytes, endian) == Prefixes(bytes, endian)[Len(bytes)]

-----------------------------------------------------------------------------
(* Reads: whether one succeeds, where it leaves the cursor, what it reads.  *)

\* checked_add and the bounds check are one condition on unbounded numbers.
ReadExact(position, length, count) ==
  IF position + count > length THEN [ok |-> FALSE, position |-> position, value |-> NULL]
  ELSE [ok |-> TRUE, position |-> position + count,
        value |-> SubSeq(buffer, position + 1, position + count)]

ReadNumber(position, length, width, endian) ==
  LET read == ReadExact(position, length, width) IN
  IF read.ok THEN [read EXCEPT !.value = Decoded(@, endian)] ELSE read

\* Mutant: the cursor stays behind the length.
LeftBehind(read, start) == read

\* A call that failed puts the cursor back where it was.
Undone(read, start) == IF read.ok THEN read ELSE [read EXCEPT !.position = start]

\* read_bytes_u32.
ReadBytes(position, length, endian) ==
  LET prefix == ReadNumber(position, length, PrefixWidth, endian)
      payload == IF prefix.ok THEN ReadExact(prefix.position, length, prefix.value) ELSE prefix
  IN Undone(payload, position)

\* read_str_u32.
ReadStr(position, length, endian) ==
  LET bytes == ReadBytes(position, length, endian)
      text == IF bytes.ok /\ bytes.value \notin Utf8 THEN [bytes EXCEPT !.ok = FALSE] ELSE bytes
  IN Undone(text, position)

-----------------------------------------------------------------------------
(* Writes: whether one succeeds, and the cursor and the bytes after it.     *)

WriteExact(position, bytes, value) ==
  LET end == position + Len(value) IN
  IF end > Size THEN [ok |-> FALSE, position |-> position, bytes |-> bytes]
  ELSE [ok |-> TRUE, position |-> end,
        bytes |-> [k \in 1..Size |-> IF k \in (position + 1)..end THEN value[k - position]
                                     ELSE bytes[k]]]

WriteNumber(position, bytes, width, value, endian) ==
  WriteExact(position, bytes, Encoded(value, width, endian))

\* Mutant: the room for the payload is only checked after its length is written.
WriteBytesInTurn(position, bytes, value, endian) ==
  LET prefix == WriteNumber(position, bytes, PrefixWidth, Len(value), endian) IN
  IF ~HasWidth(Len(value), PrefixWidth) THEN [ok |-> FALSE, position |-> position, bytes |-> bytes]
  ELSE IF prefix.ok THEN WriteExact(prefix.position, prefix.bytes, value) ELSE prefix

\* write_bytes_u32: nothing is written unless both parts fit.
WriteBytes(position, bytes, value, endian) ==
  IF ~HasWidth(Len(value), PrefixWidth) \/ PrefixWidth + Len(value) > Size - position
  THEN [ok |-> FALSE, position |-> position, bytes |-> bytes]
  ELSE LET prefix == WriteNumber(position, bytes, PrefixWidth, Len(value), endian)
       IN WriteExact(prefix.position, prefix.bytes, value)

-----------------------------------------------------------------------------
(* Calls.                                                                  *)

CursorInit ==
  /\ buffer = [k \in 1..Size |-> 0]
  /\ writer = NULL /\ reader = NULL
  /\ items = {}
  /\ outcome = "ok"

Result(ok) == outcome' = IF ok THEN "ok" ELSE "err"

NewWriter ==
  /\ writer = NULL /\ reader = NULL
  /\ writer' = 0
  /\ Result(TRUE)
  /\ UNCHANGED <<buffer, reader, items>>

DropWriter ==
  /\ writer # NULL /\ reader = NULL
  /\ writer' = NULL
  /\ Result(TRUE)
  /\ UNCHANGED <<buffer, reader, items>>

\* A reader of the whole buffer, or of what the writer has written.
NewReader ==
  /\ reader = NULL
  /\ reader' = [position |-> 0, length |-> IF writer = NULL THEN Size ELSE writer]
  /\ Result(TRUE)
  /\ UNCHANGED <<buffer, writer, items>>

DropReader ==
  /\ reader # NULL
  /\ reader' = NULL
  /\ Result(TRUE)
  /\ UNCHANGED <<buffer, writer, items>>

SeekWriter(position) ==
  /\ writer # NULL /\ reader = NULL
  /\ Result(position <= Size)
  /\ writer' = IF position <= Size THEN position ELSE writer
  /\ UNCHANGED <<buffer, reader, items>>

SeekReader(position) ==
  /\ reader # NULL
  /\ Result(position <= reader.length)
  /\ reader' = IF position <= reader.length THEN [reader EXCEPT !.position = position] ELSE reader
  /\ UNCHANGED <<buffer, writer, items>>

\* The cursor and the buffer after a write, which hides what it overwrites.
Write(written, item) ==
  /\ writer # NULL /\ reader = NULL
  /\ buffer' = written.bytes
  /\ writer' = written.position
  /\ Result(written.ok)
  /\ items' = IF ~written.ok THEN items
              ELSE {i \in items : i.end <= writer \/ written.position <= i.start}
                     \cup {[item EXCEPT !.start = writer, !.end = written.position]}
  /\ UNCHANGED reader

Item(kind, value, width, endian) ==
  [kind |-> kind, value |-> value, width |-> width, endian |-> endian, start |-> 0, end |-> 0]

PutNumber(width, value, endian) ==
  Write(WriteNumber(writer, buffer, width, value, endian), Item("number", <<value>>, width, endian))

\* write_bytes_u32 and write_str_u32.
PutBytes(value, endian) ==
  Write(WriteBytes(writer, buffer, value, endian), Item("bytes", value, 0, endian))

\* The cursor after a read.
Read(read) ==
  /\ reader' = [reader EXCEPT !.position = read.position]
  /\ Result(read.ok)
  /\ UNCHANGED <<buffer, writer, items>>

\* read_exact and skip.
Skip(count) == reader # NULL /\ Read(ReadExact(reader.position, reader.length, count))

GetNumber(width, endian) ==
  reader # NULL /\ Read(ReadNumber(reader.position, reader.length, width, endian))

GetBytes(endian) == reader # NULL /\ Read(ReadBytes(reader.position, reader.length, endian))

GetStr(endian) == reader # NULL /\ Read(ReadStr(reader.position, reader.length, endian))

CursorNext(payloads) ==
  \/ NewWriter \/ DropWriter \/ NewReader \/ DropReader
  \/ \E position \in 0..(Size + 1) : SeekWriter(position) \/ SeekReader(position)
  \/ \E width \in Widths, endian \in Endians :
       \E value \in Numbers : HasWidth(value, width) /\ PutNumber(width, value, endian)
  \/ \E value \in payloads, endian \in Endians : PutBytes(value, endian)
  \/ \E count \in 0..(Size + 1) : Skip(count)
  \/ \E width \in Widths, endian \in Endians : GetNumber(width, endian)
  \/ \E endian \in Endians : GetBytes(endian) \/ GetStr(endian)

-----------------------------------------------------------------------------
(* Properties.                                                             *)

\* "Failed operations do not change the cursor position or buffer."
FailedCallsChangeNothing ==
  [][outcome' = "err" => UNCHANGED <<buffer, writer, reader>>]_cursorVars

ReadItem(item, length) ==
  IF item.kind = "number" THEN ReadNumber(item.start, length, item.width, item.endian)
  ELSE IF item.value \in Utf8 THEN ReadStr(item.start, length, item.endian)
  ELSE ReadBytes(item.start, length, item.endian)

Content(item) == IF item.kind = "number" THEN item.value[1] ELSE item.value

\* What was written and not overwritten is read back as it was by a reader that
\* is given all of it, and not at all by one that is not, which stays in front.
ItemsReadBack ==
  \A item \in items :
    /\ \A length \in item.end..Size :
         ReadItem(item, length) = [ok |-> TRUE, position |-> item.end, value |-> Content(item)]
    /\ \A length \in item.start..(item.end - 1) :
         ReadItem(item, length) = [ok |-> FALSE, position |-> item.start, value |-> NULL]
=============================================================================
