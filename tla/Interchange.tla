----------------------------- MODULE Interchange -----------------------------
(***************************************************************************)
(* Tables written as JSON or CSV (format.rs) and read back                 *)
(* (format_import.rs).                                                     *)
(*                                                                         *)
(* A reader takes a document one row at a time into a table of its own,    *)
(* through buffers that it uses again for every row; the document is not   *)
(* known in advance, so any row may come next, and the table is returned   *)
(* only when all of it could be read.  A JSON document is a sequence of    *)
(* objects, an object a sequence of fields <<name, token>>, a token        *)
(* <<kind, text>>; a CSV document is a sequence of records of texts.  How  *)
(* either is written in characters is left to the serde_json and csv       *)
(* crates.                                                                 *)
(***************************************************************************)
EXTENDS TableData

CONSTANTS
  Schemas,       \* schemas a caller may read with
  Texts,         \* texts of fields and tokens, the empty one "" among them
  TextOf,        \* TextOf[v]: how a value is written, in either format
  Parsed,        \* Parsed[type][text]: the value a text is read as, or ERR
  StringOf,      \* StringOf[text]: the string value
  NumberOf,      \* NumberOf[text]: json_number, the value of a number, or ERR
  Finite,        \* values a JSON number or string can stand for
  HexTypes,      \* Bytes and Uuid, which are written as text
  Objects,       \* JSON objects a document may hold
  Headers,       \* header records a CSV document may start with
  Records,       \* other records it may hold
  MaxRows        \* bound: documents have at most this many rows

VARIABLES
  table,    \* the table that is read into
  format,   \* "json" or "csv"
  layout,   \* the target of each field of a record; NULL before the header
  buffers,  \* what the reader keeps from row to row: values, seen, extras
  status    \* "reading", "done", "failed"

vars == <<table, format, layout, buffers, status>>

-----------------------------------------------------------------------------
(* One row of JSON.                                                        *)

\* json_natural.
Natural(token) ==
  CASE token[1] = "null" -> NULL
    [] token[1] = "string" -> StringOf[token[2]]
    [] token[1] = "number" -> NumberOf[token[2]]
    [] token[1] = "bool" -> Parsed["bool"][token[2]]
    [] token[1] = "nested" -> ERR

\* json_cell: as the column's type if the token reads as one.
JsonCell(token, spec) ==
  LET read == Parsed[spec.type][token[2]]
      reads == \/ token[1] = "string" /\ spec.type \in HexTypes
               \/ token[1] = "number" /\ spec.type \in Numbers
  IN IF reads /\ read # ERR /\ read \in Finite THEN read ELSE Natural(token)

\* Mutant: what was seen of the last object is not forgotten.
ClearedValues(schema) ==
  [values |-> [c \in Positions(schema) |-> NULL],
   seen |-> IF DOMAIN buffers.seen = Positions(schema) THEN buffers.seen
            ELSE [c \in Positions(schema) |-> FALSE],
   extras |-> NoExtras]

\* The buffers are cleared and sized before each row.
Cleared(schema) ==
  [values |-> [c \in Positions(schema) |-> NULL],
   seen |-> [c \in Positions(schema) |-> FALSE],
   extras |-> NoExtras]

\* The loop of visit_map: one field of an object, or ERR.
FieldRead(schema, read, name, token) ==
  LET c == ColumnIndex(schema, name)
      v == IF c # NULL THEN JsonCell(token, schema.columns[c]) ELSE Natural(token)
      repeated == IF c # NULL THEN read.seen[c] ELSE name \in DOMAIN read.extras
  IN IF repeated \/ v = ERR \/ (c = NULL /\ ~schema.open) THEN ERR
     ELSE IF c # NULL THEN [read EXCEPT !.values[c] = v, !.seen[c] = TRUE]
     ELSE [read EXCEPT !.extras = WithExtra(@, name, v)]

\* visit_map: the buffers after an object.
ObjectRead(schema, start, object) ==
  LET after[k \in 0..Len(object)] ==
        IF k = 0 THEN start
        ELSE IF after[k - 1] = ERR THEN ERR
        ELSE FieldRead(schema, after[k - 1], object[k][1], object[k][2])
  IN after[Len(object)]

-----------------------------------------------------------------------------
(* One record of CSV.                                                      *)

\* csv_cell: an empty field is null, except where it can only be empty.
CsvCell(text, spec) ==
  LET read == Parsed[spec.type][text] IN
  IF text = "" /\ spec.type = "string" /\ ~spec.nullable THEN StringOf[""]
  ELSE IF text = "" /\ spec.type = "bytes" /\ ~spec.nullable THEN read
  ELSE IF text = "" THEN NULL
  ELSE IF spec.type \in HexTypes \cup Numbers \cup {"bool"} /\ read # ERR THEN read
  ELSE StringOf[text]

\* csv_header_layout: what each field of a record is for, or ERR.
HeaderLayout(schema, header) ==
  LET target(k) == IF ColumnIndex(schema, header[k]) # NULL
                   THEN <<"column", ColumnIndex(schema, header[k])>>
                   ELSE <<"extra", header[k]>>
  IN IF \/ \E k, l \in DOMAIN header : k # l /\ target(k) = target(l)
        \/ ~schema.open /\ \E k \in DOMAIN header : target(k)[1] = "extra"
     THEN ERR
     ELSE [k \in DOMAIN header |-> target(k)]

\* Without a header, the columns in their order.
ColumnLayout(schema) == [c \in Positions(schema) |-> <<"column", c>>]

\* The buffers after a record: empty extra fields are not stored.
RecordRead(schema, targets, start, record) ==
  LET for(kind, x) == {k \in DOMAIN record : targets[k] = <<kind, x>>}
      named == {k \in DOMAIN record : targets[k][1] = "extra" /\ record[k] # ""}
  IN [start EXCEPT
        !.values = [c \in DOMAIN @ |->
                      IF for("column", c) = {} THEN @[c]
                      ELSE CsvCell(record[CHOOSE k \in for("column", c) : TRUE],
                                   schema.columns[c])],
        !.extras = [n \in {targets[k][2] : k \in named} |->
                      StringOf[record[CHOOSE k \in for("extra", n) : TRUE]]]]

-----------------------------------------------------------------------------
(* The reader.                                                             *)

Init ==
  /\ \E schema \in Schemas : table = NewTable(schema)
  /\ format \in {"json", "csv"}
  /\ layout \in IF format = "csv" THEN {NULL, ColumnLayout(table.schema)} ELSE {NULL}
  /\ buffers = [values |-> [c \in Positions(table.schema) |-> NULL],
                seen |-> [c \in Positions(table.schema) |-> FALSE],
                extras |-> NoExtras]
  /\ status = "reading"

\* push_row_buffer_with_extras: the values and extra fields are drained.
PushBuffer(T, read) ==
  LET row == PrepareRow(T.schema, read.values)
      more == Collected(T.schema, SetToSeq({<<n, read.extras[n]>> : n \in DOMAIN read.extras}))
  IN IF row = ERR \/ more = ERR THEN ERR ELSE Pushed(T, row, more)

\* The table with the row that was read, or ERR.
Taken(read) == IF read = ERR THEN ERR ELSE PushBuffer(table, read)

\* A row that is not read, or not accepted, ends the import.
Accept(read) ==
  LET T == Taken(read) IN
  IF T = ERR
  THEN status' = "failed" /\ UNCHANGED <<table, format, layout, buffers>>
  ELSE /\ table' = T
       /\ buffers' = [read EXCEPT !.values = <<>>, !.extras = NoExtras]
       /\ UNCHANGED <<format, layout, status>>

\* visit_seq: the next element of the array.
ReadObject(object) ==
  /\ status = "reading" /\ format = "json"
  /\ table.rowCount < MaxRows
  /\ Accept(ObjectRead(table.schema, Cleared(table.schema), object))

ReadHeader(header) ==
  /\ status = "reading" /\ format = "csv" /\ layout = NULL
  /\ LET targets == HeaderLayout(table.schema, header) IN
     IF targets = ERR
     THEN status' = "failed" /\ UNCHANGED layout
     ELSE layout' = targets /\ UNCHANGED status
  /\ UNCHANGED <<table, format, buffers>>

\* Records of another length than the layout are refused, by the csv crate or
\* by the reader itself.
ReadRecord(record) ==
  /\ status = "reading" /\ format = "csv" /\ layout # NULL
  /\ table.rowCount < MaxRows
  /\ Accept(IF Len(record) # Len(layout) THEN ERR
            ELSE RecordRead(table.schema, layout, Cleared(table.schema), record))

\* The document breaks the rules of its format.
Malformed ==
  /\ status = "reading"
  /\ status' = "failed"
  /\ UNCHANGED <<table, format, layout, buffers>>

\* The document ends; one without a header is an empty table.
Finish ==
  /\ status = "reading"
  /\ status' = "done"
  /\ UNCHANGED <<table, format, layout, buffers>>

\* The caller has the table, and deletes rows of it.
Mark(i) ==
  /\ status = "done"
  /\ i \in 1..table.rowCount
  /\ table' = SetFlag(table, i, TRUE)
  /\ UNCHANGED <<format, layout, buffers, status>>

Next ==
  \/ \E object \in Objects : ReadObject(object)
  \/ \E header \in Headers : ReadHeader(header)
  \/ \E record \in Records : ReadRecord(record)
  \/ Malformed
  \/ Finish
  \/ \E i \in 1..MaxRows : Mark(i)

Spec == Init /\ [][Next]_vars

-----------------------------------------------------------------------------
(* Writing.                                                                *)

\* Mutant: deleted rows are written too.
AllPositions(T) == [i \in 1..T.rowCount |-> i]

LivePositions(T) == SelectSeq([i \in 1..T.rowCount |-> i], LAMBDA i : ~IsTombstoned(T, i))

\* write_json_value: the token of a value, or ERR.
JsonToken(v) ==
  IF v = NULL THEN <<"null", "">>
  ELSE IF v \notin Finite THEN ERR
  ELSE IF TypeOf[v] \in Numbers THEN <<"number", TextOf[v]>>
  ELSE IF TypeOf[v] = "bool" THEN <<"bool", TextOf[v]>>
  ELSE <<"string", TextOf[v]>>

AllColumns(T) == [c \in Positions(T.schema) |-> c]

\* rows_to_json: the document of the given rows and columns, or ERR.
RowsToJson(T, rows, columns) ==
  LET token(i, k) == JsonToken(Cell(T, i, columns[k]))
      object(i) == [k \in DOMAIN columns |-> <<T.schema.columns[columns[k]].name, token(i, k)>>]
  IN IF \E j \in DOMAIN rows, k \in DOMAIN columns : token(rows[j], k) = ERR THEN ERR
     ELSE [j \in DOMAIN rows |-> object(rows[j])]

\* rows_to_csv: the records after the header, or ERR.
RowsToCsv(T, rows, columns) ==
  LET field(v) == IF v = NULL THEN "" ELSE TextOf[v] IN
  IF columns = <<>> THEN ERR
  ELSE [j \in DOMAIN rows |-> [k \in DOMAIN columns |-> field(Cell(T, rows[j], columns[k]))]]

TableToJson(T) == RowsToJson(T, LivePositions(T), AllColumns(T))

TableToCsv(T) == RowsToCsv(T, LivePositions(T), AllColumns(T))

\* Mutant: every row of a selection is written.
AllAmong(T, positions) == positions

\* The rows at the positions of a selection or an order that are not deleted.
LiveAmong(T, positions) == SelectSeq(positions, LAMBDA i : ~IsTombstoned(T, i))

\* selection_to_json and shared_selection_to_json; row_order_to_json is that of
\* all columns.
SelectionToJson(T, positions, columns) == RowsToJson(T, LiveAmong(T, positions), columns)

\* selection_to_csv and shared_selection_to_csv.
SelectionToCsv(T, positions, columns) == RowsToCsv(T, LiveAmong(T, positions), columns)

\* Table::select, of different columns.
Selected(T, positions, columns) ==
  LET copy == Copied(T, positions) IN
  [copy EXCEPT !.schema = SchemaOf([k \in DOMAIN columns |-> @.columns[columns[k]]], @.open),
               !.columns = [k \in DOMAIN columns |-> @[columns[k]]]]

HeaderOf(schema) == [c \in Positions(schema) |-> schema.columns[c].name]

\* A whole document read into a new table: table_from_json, table_from_csv.
TableFromJson(schema, document) ==
  LET after[k \in 0..Len(document)] ==
        IF k = 0 THEN NewTable(schema)
        ELSE LET read == ObjectRead(schema, Cleared(schema), document[k])
             IN IF after[k - 1] = ERR \/ read = ERR THEN ERR ELSE PushBuffer(after[k - 1], read)
  IN after[Len(document)]

TableFromCsv(schema, targets, document) ==
  LET after[k \in 0..Len(document)] ==
        IF k = 0 THEN NewTable(schema)
        ELSE IF after[k - 1] = ERR THEN ERR
        ELSE PushBuffer(after[k - 1], RecordRead(schema, targets, Cleared(schema), document[k]))
  IN after[Len(document)]
-----------------------------------------------------------------------------
(* Properties.                                                             *)

\* What field k of an object stands for: a column, or an extra field.
Meant(schema, object, k) ==
  LET c == ColumnIndex(schema, object[k][1]) IN
  IF c = NULL THEN <<"extra", object[k][1]>> ELSE <<"column", c>>

ValueIn(schema, object, k) ==
  LET c == ColumnIndex(schema, object[k][1]) IN
  IF c = NULL THEN Natural(object[k][2]) ELSE JsonCell(object[k][2], schema.columns[c])

FieldsFor(schema, object, target) == {k \in DOMAIN object : Meant(schema, object, k) = target}

ExtraNames(schema, object) ==
  {n \in {object[k][1] : k \in DOMAIN object} : ColumnIndex(schema, n) = NULL}

\* An object says one thing about each column and each extra field, under
\* whichever name, and says it in a form that can be stored.
WellFormed(schema, object) ==
  /\ \A k, l \in DOMAIN object : Meant(schema, object, k) = Meant(schema, object, l) => k = l
  /\ \A k \in DOMAIN object : ValueIn(schema, object, k) # ERR
  /\ ExtraNames(schema, object) # {} => schema.open

\* The cells that an object gives to a row: null where it is silent.
CellsOf(schema, object) ==
  [c \in Positions(schema) |->
     LET here == FieldsFor(schema, object, <<"column", c>>) IN
     IF here = {} THEN NULL ELSE ValueIn(schema, object, CHOOSE k \in here : TRUE)]

\* An object becomes a row of what it says itself, whatever the objects before
\* it said, and no field of it is lost; one that says too much, or what the
\* schema does not accept, ends the import.
ObjectsAreRows ==
  status = "reading" /\ format = "json" /\ table.rowCount < MaxRows =>
    \A object \in Objects :
      LET schema == table.schema
          row == PrepareRow(schema, CellsOf(schema, object))
          T == Taken(ObjectRead(schema, Cleared(schema), object))
          last == RowsOf(T)[table.rowCount + 1]
      IN IF WellFormed(schema, object) /\ row # ERR
         THEN /\ T # ERR /\ T.rowCount = table.rowCount + 1
              /\ last.cells = row
              /\ last.extra = [n \in ExtraNames(schema, object) |->
                   ValueIn(schema, object,
                           CHOOSE k \in FieldsFor(schema, object, <<"extra", n>>) : TRUE)]
         ELSE T = ERR

\* The rows of T that are not deleted, without their extra fields.
Written(T) ==
  LET rows == SelectSeq(RowsOf(T), LAMBDA row : ~row.dead) IN [k \in DOMAIN rows |-> rows[k].cells]

CellsIn(T) == [i \in 1..T.rowCount |-> [c \in Positions(T.schema) |-> Cell(T, i, c)]]

\* What CSV cannot tell from null, in a column that may be null.
Blurred(schema, rows) ==
  [k \in DOMAIN rows |-> [c \in Positions(schema) |->
     IF rows[k][c] # NULL /\ TextOf[rows[k][c]] = "" /\ schema.columns[c].nullable THEN NULL
     ELSE rows[k][c]]]

\* A table that is written and read with its own schema comes back: exactly from
\* JSON, unless a number has no JSON form, and from CSV, with or without header,
\* up to empty texts.  Deleted rows and extra fields are left behind.
TablesAreReadBack ==
  LET T == table
      json == TableToJson(T)
      csv == TableToCsv(T)
      header == HeaderLayout(T.schema, HeaderOf(T.schema))
  IN status = "done" =>
       /\ json # ERR =>
            LET back == TableFromJson(T.schema, json) IN back # ERR /\ CellsIn(back) = Written(T)
       /\ (json = ERR) = \E k \in DOMAIN Written(T), c \in Positions(T.schema) :
                           Written(T)[k][c] # NULL /\ Written(T)[k][c] \notin Finite
       /\ csv # ERR => \A targets \in {header, ColumnLayout(T.schema)} :
            LET back == TableFromCsv(T.schema, targets, csv)
            IN back # ERR /\ CellsIn(back) = Blurred(T.schema, Written(T))

\* What a selection writes, without making a table of its rows, is what the table
\* of its rows writes: live rows only, in its order, as often as it has them.
SelectionsAreWritten ==
  LET T == table
      orders == UNION {[1..k -> 1..T.rowCount] : k \in 0..MaxRows}
      choices == {columns \in UNION {[1..k -> Positions(T.schema)] : k \in 0..Width(T.schema)} :
                    IsInjective(columns)}
  IN status = "done" =>
       \A positions \in orders, columns \in choices :
         LET S == Selected(T, positions, columns) IN
         /\ SelectionToJson(T, positions, columns) = TableToJson(S)
         /\ SelectionToCsv(T, positions, columns) = TableToCsv(S)
=============================================================================
