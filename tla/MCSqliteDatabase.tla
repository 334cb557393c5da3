--------------------------- MODULE MCSqliteDatabase ---------------------------
(***************************************************************************)
(* An instance of SqliteDatabase for TLC: a value is its type and its      *)
(* content.                                                                *)
(***************************************************************************)
EXTENDS SqliteDatabase, TLC

MCTypes == {"bool", "u8", "i64", "u64", "f32", "f64", "string", "bytes", "uuid", "null"}

\* 300 is beyond U8, "big" beyond I64, and "huge" beyond F32.
MCRange == [type \in {"bool", "u8", "i64", "u64"} |->
  CASE type = "bool" -> {"0", "1"}
    [] type = "u8" -> {"0", "1"}
    [] type = "i64" -> {"0", "1", "300"}
    [] type = "u64" -> {"0", "1", "300", "big"}]

MCValues ==
  UNION {{type} \X MCRange[type] : type \in DOMAIN MCRange}
    \cup {"f32", "f64"} \X {"0", "1", "300", "huge", "nan"}
    \cup {"string", "bytes"} \X {"0", "1", "x", "u", "bad"} \cup {<<"uuid", "u">>}

MCTypeOf == [v \in MCValues |-> v[1]]

MCZero == [type \in {"u8", "i64", "u64", "f32", "f64"} |-> <<type, "0">>]

MCRaws ==
  {"integer"} \X {"0", "1", "300"} \cup {"real"} \X {"0", "1", "300", "huge"}
    \cup {"text", "blob"} \X {"0", "1", "x", "u", "bad"}

MCAsFloat == [type \in {"f32", "f64"} |->
  [raw \in MCRaws |-> IF raw[1] \notin {"integer", "real"} \/ (type = "f32" /\ raw[2] = "huge")
                      THEN ERR ELSE <<type, raw[2]>>]]

MCAsUuid == [raw \in MCRaws |-> IF raw[2] = "u" THEN <<"uuid", "u">> ELSE ERR]

MCDeclared == [declared \in {"INTEGER", "UINT8", "REAL", "F32", "TEXT", "STRING", "UUID", "MONEY"} |->
  CASE declared = "INTEGER" -> "i64"
    [] declared = "UINT8" -> "u8"
    [] declared = "REAL" -> "f64"
    [] declared = "F32" -> "f32"
    [] declared \in {"TEXT", "STRING"} -> "string"
    [] declared = "UUID" -> "uuid"
    [] OTHER -> ERR]

\* The engine's affinities: a number may become a float or a text, and a text
\* that reads as a number a number, but not in a TEXT column.
MCCoerced == [declared \in DOMAIN MCDeclared |-> [raw \in MCRaws \cup {NULL} |->
  IF raw = NULL \/ raw[1] = "blob" THEN raw
  ELSE IF declared = "TEXT" THEN <<"text", raw[2]>>
  ELSE IF raw[2] \notin {"0", "1", "300"} THEN raw
  ELSE IF declared = "REAL" THEN <<"real", raw[2]>>
  ELSE <<"integer", raw[2]>>]]

Col(name, declared, notNull, pk, hidden) ==
  [name |-> name, declared |-> declared, notNull |-> notNull, pk |-> pk, hidden |-> hidden]

Tab(columns, indexed, rowid, rows) ==
  [columns |-> columns, indexed |-> indexed, rowid |-> rowid, rows |-> rows]

\* In turn: a key that is the row number; keys that are not, one of them declared
\* in descending order and one of two columns; a hidden column; a type that is not
\* known; columns of one type; all columns hidden.
MCTables ==
  {Tab(<<Col("id", "INTEGER", FALSE, 1, 0), Col("note", "TEXT", FALSE, 0, 0)>>, FALSE, "id", <<>>),
   Tab(<<Col("id", "INTEGER", FALSE, 1, 0), Col("note", "STRING", TRUE, 0, 0)>>, TRUE, NULL, <<>>),
   Tab(<<Col("note", "UUID", FALSE, 1, 0), Col("id", "UINT8", FALSE, 2, 0)>>, TRUE, NULL,
       <<<<<<"text", "u">>, NULL>>>>),
   Tab(<<Col("key", "TEXT", FALSE, 0, 1), Col("id", "REAL", TRUE, 0, 2)>>, FALSE, NULL,
       <<<<<<"real", "1">>>>>>),
   Tab(<<Col("id", "MONEY", FALSE, 0, 0)>>, FALSE, NULL, <<<<<<"integer", "300">>>>, <<NULL>>>>),
   Tab(<<Col("note", "F32", FALSE, 0, 0)>>, FALSE, NULL, <<<<<<"real", "huge">>>>>>),
   Tab(<<Col("id", "TEXT", FALSE, 0, 1)>>, FALSE, NULL, <<<<>>>>)}

Insert(parameters, columns, returning) ==
  [parameters |-> parameters, columns |-> columns, returning |-> returning]

MCStatements ==
  {Insert(<<NULL, NULL>>, <<1, 2>>, FALSE),
   Insert(<<NULL, NULL>>, <<2, 1>>, TRUE),
   Insert(<<<<":", "a">>, <<"@", "a">>>>, <<1, 2>>, FALSE),
   Insert(<<<<":", "a">>, <<"$", "b">>>>, <<2, 1>>, FALSE),
   Insert(<<<<":", "a">>>>, <<1>>, FALSE),
   Insert(<<<<"?", "1">>, <<":", "a">>>>, <<1, 2>>, FALSE),
   Insert(<<>>, <<>>, FALSE)}

MCArgumentNames == {NULL, <<"", "a">>, <<":", "a">>, <<"", "b">>}

MCGiven == {NULL, <<"u64", "1">>, <<"u64", "big">>, <<"uuid", "u">>}

MCCallerSchemas ==
  {SchemaOf(<<ColumnOf("id", "bool", FALSE), ColumnOf("text", "bytes", TRUE)>>, FALSE),
   SchemaOf(<<ColumnOf("any", "f32", TRUE)>>, FALSE)}

\* A value that was bound and stored as it is comes back in a column of its type.
ASSUME BoundValuesComeBack ==
  \A v \in MCValues : SqlValue(v) # ERR /\ v[2] \notin {"huge", "bad"} /\ v[1] # "bytes" =>
    TypedValue(v[1], SqlValue(v)) = v
=============================================================================
