SPECIFICATION Spec
CONSTANTS
  Names = {f, g}
  LongNames = {}
  x = x
  y = y
  Contents <- SmallContents
  Zero = Zero
  NoName = NoName
  Absent = Absent
  Torn = Torn
  MaxIno = 3
  LastBlk = 7
  Direct = 2
  Slots = 2
  FlakyReads = TRUE
SYMMETRY Symmetry
INVARIANTS
  MountableIsSound
  FilesDisjoint
  FilesReadBack
  NothingLeaks
