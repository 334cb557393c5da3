SPECIFICATION SharedSpec
CONSTANTS
  Threads = {t1, t2}
  Tables = {source}
  Source = source
  NULL = NULL
  ERR = ERR
  Values <- MCValues
  Types = {"i64"}
  TypeOf <- MCTypeOf
  Names = {"id", "key", "qty", "note"}
  NullType = "null"
  Numbers = {"i64"}
  HashThreshold = 1
  Zero <- MCZero
  Schemas <- MCSchemas
  RowInputs <- MCRows
  ExtraInputs <- MCExtras
  CellInputs = {"2"}
  SlotInputs = {}
  Lanes = 1
  SumTypes = {}
  Selections <- MCSelections
  Mappings = {}
  MaxRows <- MCMax
SYMMETRY Symmetry
INVARIANTS GuardsAreUsable
PROPERTIES ReadersAreStable OmittedColumnsUntouched
CHECK_DEADLOCK FALSE
