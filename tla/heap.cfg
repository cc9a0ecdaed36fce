SPECIFICATION HeapSpec
CONSTANTS
  Align = 2
  HeaderSize = 5
  MaskSize = 128
  Arenas <- SmallArenas
  Requests = {4, 9, 127}
  Junk = Junk
INVARIANTS
  BlocksTile
  
