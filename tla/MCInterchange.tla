---------------------------- MODULE MCInterchange ----------------------------
(***************************************************************************)
(* An instance of Interchange, and of what is written from its tables and  *)
(* from argument lists, for TLC.  A value is its type and its text.        *)
(***************************************************************************)
EXTENDS ArgumentDocuments, TLC

\* "big" is a number beyond every float; a float reads it as infinity.
MCTexts == {"", "1", "1.0", "big", "inf", "ff", "true", "a+b", "%2b", "&="}

MCTypes == {"i64", "f64", "bool", "bytes", "string"}

MCValues ==
  {<<"i64", "1">>, <<"f64", "1.0">>, <<"f64", "inf">>, <<"bool", "true">>,
   <<"bytes", "">>, <<"bytes", "ff">>} \cup {<<"string", text>> : text \in MCTexts}

MCTypeOf == [v \in MCValues |-> v[1]]

MCZero == [type \in {"i64", "f64"} |-> <<type, "0">>]

MCTextOf == [v \in MCValues |-> v[2]]

MCStringOf == [text \in MCTexts |-> <<"string", text>>]

\* An integer text is read as a float too.
MCParsed ==
  [type \in MCTypes |->
     [text \in MCTexts |->
        IF type = "f64" /\ text \in {"1", "1.0"} THEN <<"f64", "1.0">>
        ELSE IF type = "f64" /\ text \in {"big", "inf"} THEN <<"f64", "inf">>
        ELSE IF type # "string" /\ <<type, text>> \in MCValues THEN <<type, text>>
        ELSE ERR]]

MCNumberOf ==
  [text \in MCTexts |-> CASE text = "1" -> <<"i64", "1">>
                          [] text = "1.0" -> <<"f64", "1.0">>
                          [] OTHER -> ERR]

MCFinite == MCValues \ {<<"f64", "inf">>}

MCNames == {"id", "key", "data", "note"}

Column(name, alias, type, nullable) ==
  [name |-> name, alias |-> alias, type |-> type, nullable |-> nullable,
   fits |-> MCValues, converter |-> NULL]

\* A column that takes true for 1.
Converted(spec) ==
  [spec EXCEPT !.converter = [v \in MCValues |-> IF v = <<"bool", "true">> THEN <<"i64", "1">> ELSE ERR]]

MCSchemas ==
  {SchemaOf(<<Converted(Column("id", "key", "i64", FALSE)), Column("data", NULL, "bytes", TRUE)>>, TRUE),
   SchemaOf(<<Column("id", "key", "f64", TRUE), Column("data", NULL, "string", FALSE)>>, FALSE),
   SchemaOf(<<Column("id", NULL, "string", TRUE), Column("data", "key", "bytes", FALSE)>>, TRUE),
   SchemaOf(<<Column("data", NULL, "bool", TRUE)>>, FALSE),
   SchemaOf(<<>>, TRUE)}

MCTokens ==
  {<<"null", "">>, <<"string", "">>, <<"string", "ff">>, <<"number", "1">>, <<"number", "big">>,
   <<"bool", "true">>, <<"nested", "">>}

Few == {<<"number", "1">>, <<"string", "ff">>}

MCObjects ==
  {<<>>}
    \cup {<<<<name, token>>>> : name \in MCNames, token \in MCTokens}
    \cup {<<<<m, s>>, <<n, t>>>> : m \in MCNames, n \in MCNames, s \in Few, t \in Few}
    \cup {<<<<"id", <<"bool", "true">>>>, <<"data", <<"string", "ff">>>>, <<"note", <<"null", "">>>>>>}

MCHeaders ==
  {<<name>> : name \in MCNames} \cup {<<"note", "data", "id">>}
    \cup {<<m, n>> : m \in MCNames, n \in MCNames}

MCRecords ==
  {<<"">>, <<"1">>, <<"ff">>, <<"inf">>, <<"1", "">>, <<"", "ff">>, <<"ff", "1">>, <<"inf", "ff">>,
   <<"1", "ff", "1">>, <<"", "ff", "1">>}

\* A name and some texts that a query cannot hold as they are.
MCSpelling ==
  [x \in MCTexts \cup {"id", "key"} |->
     CASE x = "id" -> <<"i", "d">>
       [] x = "key" -> <<"=", "k">>
       [] x = "a+b" -> <<"a", "+", "b">>
       [] x = "%2b" -> <<"%", "2", "b">>
       [] x = "&=" -> <<"&", "=", " ">>
       [] x = "" -> <<>>
       [] x = "1.0" -> <<"1", ".", "0">>
       [] OTHER -> <<x>>]

MCNibbles ==
  [c \in {"%", "+", " ", "&", "=", "2", "b", "B"} |->
     CASE c = "%" -> <<2, 5>> [] c = "+" -> <<2, 11>> [] c = " " -> <<2, 0>> [] c = "&" -> <<2, 6>>
       [] c = "=" -> <<3, 13>> [] c = "2" -> <<3, 2>> [] c = "b" -> <<6, 2>> [] c = "B" -> <<4, 2>>]

MCDigit == (0 :> "0") @@ (2 :> "2") @@ (3 :> "3") @@ (5 :> "5") @@ (6 :> "6") @@ (11 :> "B") @@ (13 :> "D")

MCDigitValue ==
  ("0" :> 0) @@ ("2" :> 2) @@ ("3" :> 3) @@ ("5" :> 5) @@ ("6" :> 6)
    @@ ("B" :> 11) @@ ("b" :> 11) @@ ("D" :> 13)

MCArguments ==
  {Argument(name, value) : name \in {NULL, "id", "key"},
     value \in {NULL, <<"i64", "1">>, <<"f64", "inf">>, <<"string", "a+b">>, <<"string", "%2b">>,
               <<"string", "&=">>, <<"string", "">>, <<"bytes", "ff">>}}

MCArgumentLists == UNION {[1..k -> MCArguments] : k \in 0..2}
=============================================================================
