SPECIFICATION Spec
CONSTANTS
  Devices = {"a", "b"}
  StorageSize <- TwoSizes
  BlockSize = 2
  Blocks <- BeyondTheEnd
  Requests <- SmallRequests
  MaxDevices = 1
  NoBlock <- None
  NoData = nodata
  Value = {zero, one}
  Zero = zero
  EntryCount = 2
INVARIANTS
  CacheCoherent
PROPERTIES
  WriteBackSpec
