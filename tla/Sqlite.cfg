SPECIFICATION Spec
CONSTANTS
  NULL = NULL
  ERR = ERR
  Values <- MCValues
  Types <- MCTypes
  TypeOf <- MCTypeOf
  Names = {"id", "note", "key", "text", "any"}
  NullType = "null"
  Numbers = {"u8", "i64", "u64", "f32", "f64"}
  HashThreshold = 1
  Zero <- MCZero
  IntegerTypes = {"u8", "i64", "u64"}
  FloatTypes = {"f32", "f64"}
  RangeOf <- MCRange
  NaNs = {"nan"}
  DeclaredType <- MCDeclared
  AsFloat <- MCAsFloat
  AsUuid <- MCAsUuid
  InvalidText = {"bad"}
  Tables <- MCTables
  Statements <- MCStatements
  ArgumentNames <- MCArgumentNames
  Given <- MCGiven
  Coerced <- MCCoerced
  CallerSchemas <- MCCallerSchemas
  RowIds = {"0", "1"}
  MaxArguments = 2
  MaxRows = 2
INVARIANTS ArgumentsAreExact
PROPERTIES QueriesAreFaithful
CHECK_DEADLOCK FALSE
