SPECIFICATION Spec
CONSTANTS
  Pages = {p1, p2}
  Slots = {s1, s2}
  None = None
  Limit = 1
  MaxNotes = 2
SYMMETRY Symmetry
INVARIANTS
  TypeOK
  ClearedComeBackRead
  ReadMeansStored
  DoublesExplained
