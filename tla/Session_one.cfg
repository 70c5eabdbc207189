SPECIFICATION Spec
CONSTANTS
  ceo = ceo
  emp = emp
  Users <- MCUsers
  NoUser = NoUser
  Role <- MCRole
  Manager <- MCManager
  Tabs = {t1}
  Slots = {s1, s2}
  Views = {"employee", "executive", "audit"}
  None = None
INVARIANTS
  OwnPage
  NoReportMeansFailed
PROPERTY
  LoadingEnds
