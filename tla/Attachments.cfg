SPECIFICATION Spec
CONSTANTS
  author = author
  peer = peer
  Users <- MCUsers
  MayAccess <- MCMayAccess
  Pages = {p1, p2}
  Slots = {s1, s2}
  None = None
  MaxFiles = 2
SYMMETRY Symmetry
INVARIANTS
  TypeOK
  RowsHaveFiles
  FilesAreListed
  ShownWasStored
  BusyMeansUploading
PROPERTY ImplementsLife
