SPECIFICATION Spec
CONSTANTS
  ceo = ceo
  tab = tab
  emp = emp
  week1 = week1
  week2 = week2
  Cycles = {week1, week2}
  Newest <- MCNewest
  Deadlines = {"fri"}
  OtherStatuses = {"CLOSED"}
  JsonTexts = {}
  NoRow = NoRow
  None = None
  Error = Error
  Admins = {ceo}
  Pages = {tab}
  People = {emp}
  Slots = {s1, s2}
INVARIANT ImpersonationsAudited
