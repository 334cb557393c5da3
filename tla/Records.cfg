SPECIFICATION Spec
CONSTANTS
  Slots = {s1, s2}
  Threads = {h1, h2}
  Addresses = {a1, a2, a3}
  Records = {v1, v2}
  Selections <- MCSelections
  ParDropRows = 2
  MaxRows = 2
  NULL = NULL
INVARIANTS StrongCountsExact
PROPERTIES ImplementsRecordRows
SYMMETRY MCSymmetry
