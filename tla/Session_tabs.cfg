SPECIFICATION Spec
CONSTANTS
  ceo = ceo
  emp = emp
  Users <- MCUsers
  NoUser = NoUser
  Role <- MCRole
  Manager <- MCManager
  Tabs = {t1, t2}
  Slots = {s1}
  Views = {"employee", "executive", "audit"}
  None = None
SYMMETRY TabSymmetry
INVARIANTS
  TypeOK
  OwnPage
  ReturnGoesHome
