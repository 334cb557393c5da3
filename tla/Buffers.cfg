SPECIFICATION Spec
CONSTANTS
  Base = 2
  Widths = {1, 2}
  Numbers = {1}
  PrefixWidth = 2
  Size = 4
  NativeOrder = "little"
  Endians = {"big", "native"}
  Utf8 <- MCUtf8
  NULL = NULL
  NUL = 0
  Lent <- MCLent
  Pieces <- MCPieces
  MaxText = 2
INVARIANTS ItemsReadBack
PROPERTIES FailedCallsChangeNothing CallsBuildText
CHECK_DEADLOCK FALSE
