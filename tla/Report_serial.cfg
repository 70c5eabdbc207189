SPECIFICATION SerialSpec
CONSTANTS
  emp = emp
  boss = boss
  other = other
  dir = dir
  r1 = r1
  r2 = r2
  Reports = {r1, r2}
  Fields = {"completed"}
  Texts = {"t1"}
  NoText = NoText
  NoRow = NoRow
  NoUser = NoUser
  Users <- MCUsers
  Role <- MCRole
  Manager <- MCManager
  Owner <- MCOwner
  Slots = {s1, s2}
  MaxVersions = 6
CONSTRAINT SecondIsShort
SYMMETRY SlotSymmetry
PROPERTIES
  ImplementsLifecycle
  ApprovedIsFinal
