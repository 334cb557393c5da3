--------------------------- MODULE ArgumentDocuments ---------------------------
(***************************************************************************)
(* Argument lists written as JSON objects and as URI queries (format.rs).  *)
(* There is no reader of queries in the library; the one here does what a  *)
(* server does with them, with the library's decoder.                      *)
(***************************************************************************)
EXTENDS Interchange, Arguments, TextFunctions

CONSTANTS
  Spelling,      \* Spelling[x]: the characters of a name or a text
  ArgumentLists  \* lists that a caller writes

Unnamed(arguments) == \E k \in DOMAIN arguments : arguments[k].name = NULL

\* arguments_to_json: an object, or ERR.
ArgumentsToJson(arguments) ==
  LET names == {arguments[k].name : k \in DOMAIN arguments}
      tokens == [k \in DOMAIN arguments |-> JsonToken(arguments[k].value)]
  IN IF \/ Unnamed(arguments)
        \/ Cardinality(names) # Len(arguments)
        \/ \E k \in DOMAIN tokens : tokens[k] = ERR
     THEN ERR
     ELSE [k \in DOMAIN arguments |-> <<arguments[k].name, tokens[k]>>]

\* write_uri_value: only strings have characters to escape.
UriText(v) ==
  IF v = NULL THEN <<>>
  ELSE IF TypeOf[v] = "string" THEN Encoded(Spelling[TextOf[v]])
  ELSE Spelling[TextOf[v]]

\* arguments_to_uri: the characters of the query, or ERR.
ArgumentsToUri(arguments) ==
  LET pair(k) == Encoded(Spelling[arguments[k].name]) \o <<"=">> \o UriText(arguments[k].value) IN
  IF Unnamed(arguments) THEN ERR
  ELSE FlattenSeq([k \in DOMAIN arguments |-> IF k = 1 THEN pair(k) ELSE <<"&">> \o pair(k)])

-----------------------------------------------------------------------------
(* Properties.                                                             *)

\* The parts of a text between the separators.
Split(text, separator) ==
  FoldLeft(LAMBDA parts, c : IF c = separator THEN Append(parts, <<>>)
                             ELSE [parts EXCEPT ![Len(parts)] = Append(@, c)],
           <<<<>>>>, text)

\* The names and texts of a query.
QueryPairs(query) ==
  IF query = <<>> THEN <<>>
  ELSE LET pairs == Split(query, "&") IN
       [k \in DOMAIN pairs |->
          [side \in DOMAIN Split(pairs[k], "=") |-> Decoded(Split(pairs[k], "=")[side])]]

SpelledPairs(arguments) ==
  [k \in DOMAIN arguments |->
     <<Spelling[arguments[k].name],
       IF arguments[k].value = NULL THEN <<>> ELSE Spelling[TextOf[arguments[k].value]]>>]

\* Of a text that is encoded and decoded, nothing changes, whatever characters it
\* has; and a text that nobody encoded is decoded only if its escapes are whole.
PercentIsReversed ==
  \A text \in UNION {[1..k -> {"%", "+", " ", "2", "b", "B"}] : k \in 0..3} :
    /\ Decoded(Encoded(text)) = text
    /\ Decoded(text) # ERR =>
         \A k \in DOMAIN text : text[k] = "%" =>
           \/ k + 2 <= Len(text) /\ {text[k + 1], text[k + 2]} \subseteq DOMAIN DigitValue

\* A query has every argument, in order and with its text, and an object every
\* argument under its name; a list that one of them cannot hold is refused.
ArgumentsAreReadBack ==
  \A arguments \in ArgumentLists :
    LET query == ArgumentsToUri(arguments)
        object == ArgumentsToJson(arguments)
        open == SchemaOf(<<>>, TRUE)
        names == {arguments[k].name : k \in DOMAIN arguments}
        argument(n) == NthNamed(arguments, n, 1)
        extras == [n \in names |-> Natural(JsonToken(argument(n).value))]
    IN /\ (query = ERR) = (NULL \in names)
       /\ query # ERR => QueryPairs(query) = SpelledPairs(arguments)
       /\ (object = ERR) = \/ NULL \in names
                           \/ \E n \in names : NthNamed(arguments, n, 2) # NULL
                           \/ \E k \in DOMAIN arguments : JsonToken(arguments[k].value) = ERR
       /\ object # ERR =>
            RowsOf(TableFromJson(open, <<object>>))
              = <<[cells |-> <<>>, extra |-> extras, dead |-> FALSE]>>

\* Lists of texts are split where they were joined.
SplitsAreReversed == PartsAreReadBack({";", "b"}, ";", 6)

\* What the library writes, its readers, or those of its formats, read back; and
\* what others wrote for its readers is what they read.
WrittenIsReadBack ==
  /\ TablesAreReadBack
  /\ SelectionsAreWritten
  /\ PercentIsReversed
  /\ ArgumentsAreReadBack
  /\ SplitsAreReversed
=============================================================================
