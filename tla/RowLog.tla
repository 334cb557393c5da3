-------------------------------- MODULE RowLog --------------------------------
(***************************************************************************)
(* What a concurrent collector of rows promises: one log, to which every   *)
(* call adds its rows in one step and from which nothing is lost, a count  *)
(* of the rows that are visible, and a table that in the end takes the     *)
(* whole log or, if it is refused, nothing.  ConcurrentBuilder implements  *)
(* it (ConcurrentBuilder!ImplementsLog).                                   *)
(***************************************************************************)
EXTENDS Naturals, Sequences

CONSTANTS
  Batches,   \* sequences of rows that one call can add
  Existing,  \* rows that a destination table has already
  NULL       \* no table yet

VARIABLES
  log,      \* the rows added so far
  visible,  \* how many of them are counted
  result    \* the rows of the resulting table

logVars == <<log, visible, result>>

Init ==
  /\ log = <<>>
  /\ visible = 0
  /\ result = NULL

Add(batch) ==
  /\ result = NULL
  /\ log' = log \o batch
  /\ UNCHANGED <<visible, result>>

\* More rows become visible, in order.
Show ==
  /\ visible' \in (visible + 1)..Len(log)
  /\ UNCHANGED <<log, result>>

Take(before) ==
  /\ result = NULL
  /\ visible = Len(log)
  /\ result' = before \o log
  /\ UNCHANGED <<log, visible>>

Refuse ==
  /\ result = NULL
  /\ visible = Len(log)
  /\ result' = Existing
  /\ log' = <<>> /\ visible' = 0

Next ==
  \/ \E batch \in Batches : Add(batch)
  \/ Show
  \/ \E before \in {<<>>, Existing} : Take(before)
  \/ Refuse

Spec == Init /\ [][Next]_logVars
=============================================================================
