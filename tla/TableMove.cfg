SPECIFICATION Spec
CONSTANTS
  left = left
  right = right
  NULL = NULL
  ERR = ERR
  Values <- MoveValues
  Types <- MoveTypes
  TypeOf <- MoveTypeOf
  Names = {"id", "gap", "note"}
  NullType = "null"
  Numbers = {"f64"}
  HashThreshold = 2
  Zero <- MoveZero
  Tables <- MCTables
  Schemas <- MoveSchemas
  RowInputs <- MoveRows
  ExtraInputs <- NoMoreExtras
  CellInputs <- MoveCells
  SlotInputs = {"1"}
  Lanes = 2
  SumTypes = {"f64"}
  Selections <- MoveSelections
  Mappings <- MoveMappings
  KeyTypes <- MCKeyTypes
  KeyOf <- MCKeyOf
  Less <- MCLess
  MaxRows <- MoveMax
INVARIANTS Aligned ViewsAgree
PROPERTIES CompactionTracksRows ImplementsRows
