SPECIFICATION Spec
CONSTANTS
  Columns = {"left", "right"}
  Layout <- MCLong
  Bytes = {"zero", "a", "lead", "more"}
  ZERO = "zero"
  Texts <- MCTexts
  Selections <- MCSelections
  NULL = NULL
  MaxRows <- TwoRows
INVARIANTS SlotsFollow ReadsAreTexts ViewsOwnSlots
PROPERTIES ImplementsTexts
