SPECIFICATION FairSpec
CONSTANTS
  Lba = {a, b, c}
  Value = {zero, one}
  MaxRecords = 2
  Zero = zero
  NoDesc = NoDesc
INVARIANTS
  TypeOK
  CommittedJournalReplayable
  MountedDiskIsCurrent
PROPERTIES
  HomeWrittenOnlyAfterCommit
  AtomicDiskSpec
  CommittedIsReplayed
