SPECIFICATION Spec
CONSTANTS
  NULL = NULL
  ERR = ERR
  Values <- MCValues
  Types <- MCTypes
  TypeOf <- MCTypeOf
  Names <- MCNames
  NullType = "null"
  Numbers = {"i64", "f64"}
  HashThreshold = 1
  Zero <- MCZero
  Schemas <- MCSchemas
  Texts <- MCTexts
  TextOf <- MCTextOf
  Parsed <- MCParsed
  StringOf <- MCStringOf
  NumberOf <- MCNumberOf
  Finite <- MCFinite
  HexTypes = {"bytes"}
  Objects <- MCObjects
  Headers <- MCHeaders
  Records <- MCRecords
  MaxRows = 2
  Characters = {"%", "+", " ", "&", "=", "2", "b", "B"}
  Reserved = {"%", "+", " ", "&", "="}
  Nibbles <- MCNibbles
  Digit <- MCDigit
  DigitValue <- MCDigitValue
  Spelling <- MCSpelling
  ArgumentLists <- MCArgumentLists
INVARIANTS WrittenIsReadBack ObjectsAreRows
CHECK_DEADLOCK FALSE
