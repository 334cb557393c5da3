SPECIFICATION Spec
CONSTANTS
  Values <- MCValues
  Types = {"i64"}
  TypeOf <- MCTypeOf
  Names = {"id", "key", "name", "note"}
  NullType = "null"
  Numbers = {"i64"}
  HashThreshold = 1
  Zero <- MCZero
  NULL = NULL
  ERR = ERR
  Sources <- MCSources
  RowLists <- MCRowLists
  ColumnLists <- MCColumnLists
  Tests <- MCTests
  Ranges <- MCRanges
INVARIANT PositionsExist
PROPERTY CallsFollowPicks
