SPECIFICATION FairSpec
CONSTANTS
  Values <- MCValues
  Types = {"i64"}
  TypeOf <- MCTypeOf
  Names = {"id", "note"}
  NULL = NULL
  ERR = ERR
  Operations <- MCOperations
  InitialRows <- MCRows
  Numbers = {"i64"}
  Zero = "1"
  Grains = {1, 2}
  Callers = {"c"}
  Pool = {"p", "q"}
INVARIANTS RangesAreExclusive
PROPERTIES ImplementsRowEdits OperationsFinish
