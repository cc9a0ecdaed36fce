SPECIFICATION Spec
CONSTANTS
  Proc = {p, q}
  Fd = {0, 1}
  Root = "/"
  Names = {"f", "fx"}
  Stored <- Cut
  Byte = {0, 1}
  Buffers <- SmallBuffers
  MaxLen = 2
  SizeT = 4
  Positions <- SmallPositions
  AsInt <- Signed
  MaxNodes = 3
  Capacity = 2
  ArenaBytes = 3
  Closed = Closed
SYMMETRY Symmetry
CONSTRAINT FewOpen
INVARIANTS
  DescriptorsValid
PROPERTIES
  FileSpec
