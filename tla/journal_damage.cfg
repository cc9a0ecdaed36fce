SPECIFICATION FaultSpec
CONSTANTS
  Lba = {a, b}
  Value = {zero, one}
  MaxRecords = 2
  Zero = zero
  NoDesc = NoDesc
INVARIANTS
  FailsClosed
  MountShowsCommitted
