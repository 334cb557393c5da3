SPECIFICATION FairSpec
CONSTANTS
  Producers = {p1, p2, p3}
  NULL = NULL
  ERR = ERR
  Values <- MCValues
  Types = {"i64", "string"}
  TypeOf <- MCTypeOf
  Names = {"id", "note"}
  Schema <- MCSchema
  Targets <- MCTargets
  Existing <- MCExisting
  Inputs <- MCInputs
  MaxCalls = 3
INVARIANTS PositionsAreFinal
PROPERTIES ImplementsLog ReservedIsCounted
CHECK_DEADLOCK FALSE
