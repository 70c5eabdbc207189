SPECIFICATION EditorSpec
CONSTANTS
  emp = emp
  boss = boss
  Mine = Mine
  Reports = {Mine}
  Fields = {"completed"}
  Texts = {"t1"}
  NoText = NoText
  NoRow = NoRow
  NoUser = NoUser
  None = None
  Error = Error
  Users <- MCUsers
  Role <- MCRole
  Manager <- MCManager
  Owner <- MCOwner
  Slots = {s1, s2}
  MaxVersions = 3
  MaxKeys = 2
INVARIANTS
  EditorTypeOK
  TypedIsTracked
  CopyWasStored
PROPERTY TypingSettles
