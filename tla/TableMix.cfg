SPECIFICATION Spec
CONSTANTS
  left = left
  right = right
  NULL = NULL
  ERR = ERR
  Values <- MCValues
  Types <- MCTypes
  TypeOf <- MCTypeOf
  Names <- MCNames
  NullType = "null"
  Numbers = {"i64"}
  HashThreshold = 2
  Zero <- MixZero
  Tables <- MCTables
  Schemas <- MixSchemas
  RowInputs <- MixRows
  ExtraInputs <- MixExtras
  CellInputs <- MixCells
  SlotInputs = {NULL, "1"}
  Lanes = 2
  SumTypes = {}
  Selections = {}
  Mappings <- MixMappings
  KeyTypes <- MCKeyTypes
  KeyOf <- MCKeyOf
  Less <- MCLess
  MaxRows <- MixMax
INVARIANTS AppendsTakeWholeSources RowsAreLegal IndexesPartitionRows JoinsAreRelational OrdersAreStable
PROPERTIES AppendsFollowSchemas
