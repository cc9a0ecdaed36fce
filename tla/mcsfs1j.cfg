SPECIFICATION Spec
CONSTANTS
  Names = {f, g, h}
  Contents = {x, y}
  LastIno = 2
  InoPerBlock = 2
  LastBlk = 3
  LastDirent = 3
  MaxRecords = 4
  Zero = Zero
  NoName = NoName
  NoDesc = NoDesc
SYMMETRY Symmetry
INVARIANTS
  FsckAlwaysOk
  FilesDisjoint
  FileAllOrNothing
  WrittenFilesDurable
