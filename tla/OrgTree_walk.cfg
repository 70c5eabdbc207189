SPECIFICATION Spec
CONSTANTS
  ceo = ceo
  mgr = mgr
  emp = emp
  plain = plain
  Ids = {ceo, mgr, emp}
  Unknown = Unknown
  NoManager = NoManager
  NoRow = NoRow
  Profiles = {plain}
  Seed <- MCSeed
  Slots = {s1, s2}
INVARIANT TypeOK
PROPERTIES
  LoopsNeedInterference
  RefusalsAreJustified
  WalkEnds
