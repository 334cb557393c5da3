---------------------------- MODULE SqliteDatabase ----------------------------
(***************************************************************************)
(* Statements and loads on one connection to a SQLite database             *)
(* (SqliteDatabase in sqlite.rs), while other connections may alter the    *)
(* table that they are about.                                              *)
(*                                                                         *)
(* A load is several statements, and a query is prepared before its first  *)
(* row is read: the table may be another one in between.  A statement that *)
(* has started sees one state of the database, and a transaction that has  *)
(* read something keeps others from committing; to prepare a statement is  *)
(* not to read.                                                            *)
(***************************************************************************)
EXTENDS SqliteTables

CONSTANTS
  Tables,         \* tables that other connections create
  Statements,     \* INSERT statements: the parameter for each column, and whether
                  \* the row is returned
  ArgumentNames,  \* names that a caller gives to arguments
  Given,          \* values that a caller gives to them
  Coerced,        \* Coerced[declared][v]: what a column stores for a value
  CallerSchemas,  \* schemas that a caller queries with
  RowIds,         \* row numbers that the engine assigns
  MaxArguments,   \* bound: lists have at most this many arguments
  MaxRows         \* bound: tables have at most this many rows

VARIABLES
  arguments,    \* a list of the caller
  stored,       \* the table in the database, NULL if there is none
  transaction,  \* "none", "begun", or "reading" once it has read something
  call,         \* the query that is running, and how far it is
  altered,      \* whether others altered the table during it
  result        \* what the last query returned, or ERR; NULL before

vars == <<arguments, stored, transaction, call, altered, result>>

Idle == [kind |-> "none"]

Init ==
  /\ arguments = <<>>
  /\ stored \in Tables \cup {NULL}
  /\ transaction = "none"
  /\ call = Idle
  /\ altered = FALSE
  /\ result = NULL

-----------------------------------------------------------------------------
(* The argument list.                                                      *)

Arrange(list) ==
  /\ call = Idle
  /\ arguments' = list
  /\ result' = NULL
  /\ UNCHANGED <<stored, transaction, call, altered>>

\* push_named and push_positional.
PushArgument(name, value) ==
  /\ Len(arguments) < MaxArguments
  /\ Arrange(Append(arguments, Argument(name, value)))

\* get_mut and value_mut.
SetArgument(position, value) ==
  /\ position \in DOMAIN arguments
  /\ Arrange([arguments EXCEPT ![position] = Argument(@.name, value)])

RemoveArgument(position) == position \in DOMAIN arguments /\ Arrange(Without(arguments, position))

RemoveNamed(name) == name # NULL /\ Arrange(WithoutNamed(arguments, name))

ClearArguments == Arrange(<<>>)

-----------------------------------------------------------------------------
(* The engine.                                                             *)

BeginTransaction ==
  /\ transaction = "none" /\ call = Idle
  /\ transaction' = "begun"
  /\ result' = NULL
  /\ UNCHANGED <<arguments, stored, call, altered>>

Commit ==
  /\ transaction # "none" /\ call = Idle
  /\ transaction' = "none"
  /\ result' = NULL
  /\ UNCHANGED <<arguments, stored, call, altered>>

\* A statement that is stepped in a transaction takes its lock; one that is only
\* prepared does not.
Access == transaction' = IF transaction = "none" THEN "none" ELSE "reading"

\* Another connection drops, creates or alters the table.
Alter(table) ==
  /\ transaction # "reading"
  /\ stored' = table
  /\ altered' = (call # Idle)
  /\ result' = NULL
  /\ UNCHANGED <<arguments, transaction, call>>

\* The row that the engine stores, with a number for the rows' alias, or ERR.
Inserted(table, row, id) ==
  LET columns == table.columns
      filled == [c \in DOMAIN row |-> IF columns[c].name = table.rowid /\ row[c] = NULL
                                      THEN <<"integer", id>>
                                      ELSE Coerced[columns[c].declared][row[c]]]
      number(c) == columns[c].name = table.rowid
  IN IF \/ \E c \in DOMAIN columns : columns[c].notNull /\ filled[c] = NULL
        \/ \E c \in DOMAIN columns : number(c) /\
             (filled[c][1] # "integer" \/ \E k \in DOMAIN table.rows : table.rows[k][c] = filled[c])
     THEN ERR
     ELSE filled

-----------------------------------------------------------------------------
(* The binding.                                                            *)

\* The engine can prepare the statement, it returns no rows, and its parameters
\* are bound.
Ready(statement) ==
  /\ stored # NULL
  /\ Len(statement.columns) = Len(stored.columns)
  /\ \A c \in DOMAIN stored.columns : stored.columns[c].hidden = 0
  /\ ~statement.returning
  /\ Bound(statement.parameters, arguments) # ERR

\* The table after the statement ran.
Changed(statement, id) ==
  LET bound == Bound(statement.parameters, arguments)
      row == [c \in DOMAIN statement.columns |-> bound[statement.columns[c]]]
      new == Inserted(stored, row, id)
  IN IF Len(stored.rows) = MaxRows \/ new = ERR THEN stored
     ELSE [stored EXCEPT !.rows = Append(@, new)]

\* execute, of a statement that inserts one row: nothing happens if it would
\* return the row, or unless all of its parameters could be bound, and no row is
\* added unless the engine takes it.
Execute(statement, id) ==
  /\ call = Idle
  /\ IF Ready(statement)
     THEN stored' = Changed(statement, id) /\ Access
     ELSE UNCHANGED <<stored, transaction>>
  /\ result' = NULL
  /\ UNCHANGED <<arguments, call, altered>>

\* The next step of a query, or its end.
Proceed(next) ==
  /\ call' = next
  /\ result' = NULL
  /\ altered' = (altered /\ call # Idle)
  /\ UNCHANGED <<arguments, stored>>

Return(value) ==
  /\ call' = Idle
  /\ result' = value
  /\ altered' = (altered /\ call # Idle)
  /\ UNCHANGED <<arguments, stored>>

\* table_has_primary_key_index, the first statement of load_table.
LoadTable ==
  /\ call = Idle
  /\ Proceed([kind |-> "load", step |-> "columns", indexed |-> stored # NULL /\ stored.indexed])
  /\ Access

\* schema_for_table; a table without columns is no table.
DiscoverSchema ==
  /\ call.kind = "load" /\ call.step = "columns"
  /\ LET schema == IF stored = NULL THEN ERR ELSE Discovered(stored, call.indexed) IN
     IF schema = ERR THEN Return(ERR)
     ELSE Proceed([kind |-> "load", step |-> "prepare", schema |-> schema])
  /\ Access

\* Whether a statement that returns all columns can be read with a schema.
Matches(schema) == stored # NULL /\ Len(Visible(stored)) = Width(schema)

PrepareLoad ==
  /\ call.kind = "load" /\ call.step = "prepare"
  /\ IF Matches(call.schema) THEN Proceed([call EXCEPT !.step = "rows"]) ELSE Return(ERR)
  /\ UNCHANGED transaction

\* query_table_with_schema, of all columns of the table; the statement has no
\* parameters.
QueryWithSchema(schema) ==
  /\ call = Idle
  /\ IF Matches(schema) /\ arguments = <<>>
     THEN Proceed([kind |-> "typed", step |-> "rows", schema |-> schema])
     ELSE Return(ERR)
  /\ UNCHANGED transaction

\* The statement is prepared again if the table is another one by now.
StreamRows ==
  /\ call.kind \in {"load", "typed"} /\ call.step = "rows"
  /\ Return(IF stored = NULL THEN ERR ELSE Streamed(call.schema, stored.rows))
  /\ Access

\* query_table, of all columns of the table.
QueryTable ==
  /\ call = Idle
  /\ IF stored # NULL /\ arguments = <<>>
     THEN Proceed([kind |-> "inferred", step |-> "rows",
                   names |-> [c \in DOMAIN Visible(stored) |-> Visible(stored)[c].name]])
     ELSE Return(ERR)
  /\ UNCHANGED transaction

BufferRows ==
  /\ call.kind = "inferred"
  /\ Return(IF stored = NULL THEN ERR ELSE Inferred(call.names, stored.rows))
  /\ Access

Next ==
  \/ \E name \in ArgumentNames, value \in Given : PushArgument(name, value)
  \/ \E position \in 1..MaxArguments, value \in Given : SetArgument(position, value)
  \/ \E position \in 1..MaxArguments : RemoveArgument(position)
  \/ \E name \in ArgumentNames : RemoveNamed(name)
  \/ ClearArguments
  \/ BeginTransaction
  \/ Commit
  \/ \E table \in Tables \cup {NULL} : Alter(table)
  \/ \E statement \in Statements, id \in RowIds : Execute(statement, id)
  \/ LoadTable
  \/ DiscoverSchema
  \/ PrepareLoad
  \/ \E schema \in CallerSchemas : QueryWithSchema(schema)
  \/ StreamRows
  \/ QueryTable
  \/ BufferRows

Spec == Init /\ [][Next]_vars

-----------------------------------------------------------------------------
(* Properties.                                                             *)

\* Arguments by the names that SQLite compares, without their prefix.
Pairs(arguments_) ==
  {<<Normalized(arguments_[k].name), SqlValue(arguments_[k].value)>> : k \in DOMAIN arguments_}

\* What is bound is what the caller supplied, each argument to every parameter
\* that has its name, whatever the prefix, or to the one in its place; and an
\* argument or a parameter that is left over, or a value that has no form in
\* SQLite, means that nothing is bound.
BindingIsExact ==
  \A statement \in Statements :
    LET parameters == statement.parameters
        bound == Bound(parameters, arguments)
        bindable == \A k \in DOMAIN arguments : SqlValue(arguments[k].value) # ERR
    IN CASE StatementMode(parameters) = "positional" ->
              bound = IF ArgumentMode(arguments) = "positional" /\ bindable
                           /\ Len(arguments) = Len(parameters)
                      THEN [k \in DOMAIN arguments |-> SqlValue(arguments[k].value)] ELSE ERR
         [] StatementMode(parameters) = "named" ->
              LET names == {Normalized(parameters[p]) : p \in DOMAIN parameters} IN
              IF bound # ERR
              THEN {<<Normalized(parameters[p]), bound[p]>> : p \in DOMAIN parameters} = Pairs(arguments)
              ELSE ~(/\ ArgumentMode(arguments) = "named" /\ bindable
                     /\ {pair[1] : pair \in Pairs(arguments)} = names
                     /\ Len(arguments) = Cardinality(names))
         [] OTHER -> (bound = ERR) = (StatementMode(parameters) = "mixed" \/ arguments # <<>>)

\* The index of a list finds what a search of the list finds, every argument of a
\* name in turn, and removing one by its name leaves the next.  A table's
\* properties, which are a list without a name twice, stay so when one is set: it
\* has its new value, and the others are where they were.
NamesAreFound ==
  LET index == IndexOfNames(arguments)
      names == ArgumentNames \ {NULL}
      times(list, name) == Cardinality({k \in DOMAIN list : list[k].name = name})
  IN \A name \in names :
       /\ \A n \in 1..(MaxArguments + 1) :
            NthIndexed(arguments, index, name, n) = NthNamed(arguments, name, n)
       /\ NthNamed(WithoutNamed(arguments, name), name, 1) = NthNamed(arguments, name, 2)
       /\ (\A k \in DOMAIN arguments : times(arguments, arguments[k].name) = 1) =>
            \A value \in Given :
              LET list == WithProperty(arguments, name, value) IN
              /\ times(list, name) = 1
              /\ NthNamed(list, name, 1).value = value
              /\ \A k \in DOMAIN arguments : arguments[k].name # name => list[k] = arguments[k]
              /\ NthNamed(WithoutNamed(list, name), name, 1) = NULL

\* A list of arguments keeps every argument that a caller put into it, for a
\* search, for the index and for a statement.
ArgumentsAreExact == BindingIsExact /\ NamesAreFound

\* What load_table promises of a table that nobody alters: a column of each
\* visible column's type, nullable if the engine lets it be null, and every cell
\* of it; or an error if a type is unknown or a cell is not of its column's.
Promised(table) ==
  LET columns == Visible(table)
      type(c) == DeclaredType[columns[c].declared]
      cell(k, c) == TypedValue(type(c), table.rows[k][c])
      schema == SchemaOf([c \in DOMAIN columns |->
                  ColumnOf(columns[c].name, type(c),
                           ~columns[c].notNull /\ columns[c].name # table.rowid)], FALSE)
  IN IF \/ columns = <<>>
        \/ \E c \in DOMAIN columns : type(c) = ERR \/ \E k \in DOMAIN table.rows : cell(k, c) = ERR
     THEN ERR
     ELSE [NewTable(schema) EXCEPT
             !.columns = [c \in DOMAIN columns |-> Filled(schema.columns[c],
                            [k \in DOMAIN table.rows |-> cell(k, c)])],
             !.rowCount = Len(table.rows)]

\* The cells of T are those of the table's first columns, as T's columns read
\* them, and fit T's schema.
Represents(T, table) ==
  /\ T.rowCount = Len(table.rows)
  /\ \A k \in DOMAIN table.rows, c \in Positions(T.schema) :
       /\ Cell(T, k, c) = TypedValue(T.schema.columns[c].type, table.rows[k][c])
       /\ Accepts(T.schema.columns[c], Cell(T, k, c))

\* A query that returns, returns the table as it is in one state of the database,
\* and load_table, unless the table is altered during it, exactly what it
\* promises; and once a transaction has read something, as the first statement of
\* a load does, no table is altered before a query in it returns.
QueriesAreFaithful ==
  [][call # Idle /\ call' = Idle =>
       /\ result' # ERR => stored # NULL /\ Represents(result', stored)
       /\ call.kind = "load" /\ ~altered =>
            result' = IF stored = NULL THEN ERR ELSE Promised(stored)
       /\ transaction = "reading" => ~altered]_vars
=============================================================================
