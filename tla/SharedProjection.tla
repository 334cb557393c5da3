--------------------------- MODULE SharedProjection ---------------------------
(***************************************************************************)
(* SharedTableProjection (table/shared_projection.rs): threads that read   *)
(* and write one table through an RwLock, each under a plan that names the *)
(* columns it sees and the schema it was made for.                         *)
(*                                                                         *)
(* The lock is std::sync::RwLock: a thread that panics with write access   *)
(* poisons it.  Threads do not acquire the lock while they hold a guard,   *)
(* which the type's documentation forbids.                                 *)
(***************************************************************************)
EXTENDS Table

CONSTANTS
  Threads,  \* threads with a handle on the source
  Source    \* the shared table

ASSUME SourceAssumption == Source \in Tables

VARIABLES
  plan,      \* plan[t]: the projection t uses, [schema, columns], or NULL
  guard,     \* guard[t]: "none", "read", "write", or "raw" (source_arc().write())
  poisoned   \* the lock is poisoned

sharedVars == <<table, outcome, plan, guard, poisoned>>

source == table[Source]

FullPlan(schema) == [schema |-> schema, columns |-> [c \in Positions(schema) |-> c]]

Readers == {t \in Threads : guard[t] = "read"}

Writers == {t \in Threads : guard[t] \in {"write", "raw"}}

\* validate_schema: pointers or contents are equal.
Matches(t) == plan[t] # NULL /\ plan[t].schema = source.schema

SharedInit ==
  /\ Init
  /\ plan = [t \in Threads |-> NULL]
  /\ guard = [t \in Threads |-> "none"]
  /\ poisoned = FALSE

Free(t) == guard[t] = "none"

-----------------------------------------------------------------------------
(* Plans.                                                                  *)

\* from_shared captures the schema under a read lock; a poisoned one fails.
FromShared(t) ==
  /\ Free(t)
  /\ Writers = {}
  /\ ~poisoned
  /\ plan' = [plan EXCEPT ![t] = FullPlan(source.schema)]
  /\ UNCHANGED <<table, outcome, guard, poisoned>>

\* project keeps the captured schema, without looking at the source.
Project(t, positions) ==
  /\ Free(t) /\ plan[t] # NULL
  /\ \A j \in DOMAIN positions : positions[j] \in DOMAIN plan[t].columns
  /\ LET columns == [j \in DOMAIN positions |-> plan[t].columns[positions[j]]] IN
     /\ DistinctNames([j \in DOMAIN columns |-> plan[t].schema.columns[columns[j]]])
     /\ plan' = [plan EXCEPT ![t].columns = columns]
  /\ UNCHANGED <<table, outcome, guard, poisoned>>

-----------------------------------------------------------------------------
(* Guards.                                                                 *)

\* Mutant: the lock is released when the schema has been validated.
ReadUnlocked(t) ==
  /\ Free(t)
  /\ ~poisoned
  /\ Matches(t)
  /\ guard' = [guard EXCEPT ![t] = "read"]
  /\ UNCHANGED <<table, outcome, plan, poisoned>>

\* read and write fail on a poisoned lock or another schema, and keep nothing.
Read(t) ==
  /\ Free(t)
  /\ Writers = {}
  /\ ~poisoned
  /\ Matches(t)
  /\ guard' = [guard EXCEPT ![t] = "read"]
  /\ UNCHANGED <<table, outcome, plan, poisoned>>

\* Mutant: the plan is only compared with its own schema.
WriteUnvalidated(t) ==
  /\ Free(t)
  /\ Writers = {} /\ Readers = {}
  /\ ~poisoned
  /\ plan[t] # NULL
  /\ guard' = [guard EXCEPT ![t] = "write"]
  /\ UNCHANGED <<table, outcome, plan, poisoned>>

Write(t) ==
  /\ Free(t)
  /\ Writers = {} /\ Readers = {}
  /\ ~poisoned
  /\ Matches(t)
  /\ guard' = [guard EXCEPT ![t] = "write"]
  /\ UNCHANGED <<table, outcome, plan, poisoned>>

\* The owner of the table locks it directly.
LockSource(t) ==
  /\ Free(t)
  /\ Writers = {} /\ Readers = {}
  /\ ~poisoned
  /\ guard' = [guard EXCEPT ![t] = "raw"]
  /\ UNCHANGED <<table, outcome, plan, poisoned>>

Unlock(t) ==
  /\ ~Free(t)
  /\ guard' = [guard EXCEPT ![t] = "none"]
  /\ UNCHANGED <<table, outcome, plan, poisoned>>

\* A converter, or the application, panics under the guard.
Panic(t) ==
  /\ ~Free(t)
  /\ guard' = [guard EXCEPT ![t] = "none"]
  /\ poisoned' = (poisoned \/ t \in Writers)
  /\ UNCHANGED <<table, outcome, plan>>

-----------------------------------------------------------------------------
(* Writes.  Positions of columns are relative to the projection.           *)

ProjectedIndex(t, name) ==
  LET here == {j \in DOMAIN plan[t].columns :
                 name \in NamesOf(plan[t].schema.columns[plan[t].columns[j]])}
  IN IF here = {} THEN NULL ELSE CHOOSE j \in here : TRUE

SetProjected(t, i, j, v) ==
  /\ guard[t] = "write"
  /\ IF j \in DOMAIN plan[t].columns
     THEN SetCell(Source, i, plan[t].columns[j], v)
     ELSE Refuse
  /\ UNCHANGED <<plan, guard, poisoned>>

\* Mutant: a name outside the projection is left to the table.
SetAnyNamed(t, i, name, v) ==
  /\ guard[t] = "write"
  /\ LET j == ProjectedIndex(t, name) IN
     IF j # NULL THEN SetCell(Source, i, plan[t].columns[j], v)
     ELSE SetNamed(Source, i, name, v)
  /\ UNCHANGED <<plan, guard, poisoned>>

\* An omitted column is not found, even when the schema stores unknown names.
SetProjectedNamed(t, i, name, v) ==
  /\ guard[t] = "write"
  /\ LET j == ProjectedIndex(t, name) IN
     IF j # NULL THEN SetCell(Source, i, plan[t].columns[j], v)
     ELSE IF ColumnIndex(plan[t].schema, name) # NULL THEN Refuse
     ELSE SetNamed(Source, i, name, v)
  /\ UNCHANGED <<plan, guard, poisoned>>

MarkProjected(t, i) ==
  /\ guard[t] = "write"
  /\ TombstoneRow(Source, i) \/ RestoreRow(Source, i)
  /\ UNCHANGED <<plan, guard, poisoned>>

\* With the whole table at hand: rows come and go, or another table is put in
\* its place.
EditSource(t) ==
  /\ guard[t] = "raw"
  /\ \/ \E values \in RowInputs, extras \in ExtraInputs : PushRow(Source, values, extras)
     \/ PopRow(Source)
     \/ Compact(Source)
     \/ \E schema \in Schemas : Return(Source, NewTable(schema))
  /\ UNCHANGED <<plan, guard, poisoned>>

SharedNext ==
  \E t \in Threads :
    \/ FromShared(t)
    \/ \E positions \in Selections : Project(t, positions)
    \/ Read(t) \/ Write(t) \/ LockSource(t) \/ Unlock(t) \/ Panic(t)
    \/ \E i \in RowPositions(Source) :
         \/ \E v \in CellInputs :
              \/ \E j \in 1..(Width(source.schema) + 1) : SetProjected(t, i, j, v)
              \/ \E name \in Names : SetProjectedNamed(t, i, name, v)
         \/ MarkProjected(t, i)
    \/ EditSource(t)

SharedSpec == SharedInit /\ [][SharedNext]_sharedVars

-----------------------------------------------------------------------------
(* Properties.                                                             *)

\* While a projection's guard is held, the source has the schema that the plan
\* was made for, although others may replace it at any time between guards.
GuardMatchesSchema ==
  \A t \in Threads : guard[t] \in {"read", "write"} => Matches(t)

\* No table is changed under a reader, by whatever kind of writer.
ReadersAreStable == [][Readers # {} => table' = table]_sharedVars

\* What one thread does through a projection's write guard leaves all the
\* columns outside the projection, the number of rows and the schema alone.
OmittedColumnsUntouched ==
  [][\A t \in Threads :
       guard[t] = "write" =>
         LET after == table'[Source] IN
         /\ after.schema = source.schema
         /\ after.rowCount = source.rowCount
         /\ \A c \in DOMAIN source.columns :
              (\A j \in DOMAIN plan[t].columns : plan[t].columns[j] # c)
                => after.columns[c] = source.columns[c]]_sharedVars

\* After a panic of a writer no one reads or writes the table any more, so a
\* half finished edit is never seen.
PoisonedIsUnused == poisoned => \A t \in Threads : Free(t)

\* Whoever holds a guard may use it: the table is whole, and has the columns the
\* guard's plan names.
GuardsAreUsable == GuardMatchesSchema /\ PoisonedIsUnused
=============================================================================
