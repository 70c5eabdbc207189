SPECIFICATION DeskSpec
CONSTANTS
  emp = emp
  peer = peer
  boss = boss
  r1 = r1
  r2 = r2
  Boss = boss
  Reports = {r1, r2}
  Fields = {}
  Texts = {"t1"}
  NoText = NoText
  NoRow = NoRow
  NoUser = NoUser
  None = None
  Error = Error
  Users <- MCUsers
  Role <- MCRole
  Manager <- MCManager
  Owner <- MCOwner
  Slots = {s1, s2}
  MaxVersions = 3
CONSTRAINT PeerDraftOnly
SYMMETRY SlotSymmetry
INVARIANTS
  DeskTypeOK
  ShownWasStored
  NotesWereStored
  QueueIsReviewable
