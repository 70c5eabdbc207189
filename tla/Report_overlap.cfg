SPECIFICATION Spec
CONSTANTS
  emp = emp
  boss = boss
  other = other
  dir = dir
  r1 = r1
  r2 = r2
  Reports = {r1}
  Fields = {"completed"}
  Texts = {"t1"}
  NoText = NoText
  NoRow = NoRow
  NoUser = NoUser
  Users <- MCUsers
  Role <- MCRole
  Manager <- MCManager
  Owner <- MCOwner
  Slots = {s1, s2}
  MaxVersions = 5
SYMMETRY SlotSymmetry
INVARIANTS
  TypeOK
  RowConsistent
  ApprovedWasSubmitted
  MailsJustified
PROPERTIES
  OnlyStaleSavesAreIllegal
  ImplementsVersions
