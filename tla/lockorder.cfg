SPECIFICATION Spec
CONSTANTS
  Threads = {a, b, c}
  k = k
  l = l
  m = m
  n = n
  Locks = {k, l, m, n}
  Class <- SmallClass
  MaxClass = 30
  MaxHeld = 2
  NoLock = NoLock
INVARIANTS
  OneHolder
  ValidatorKnows
  NoCircularWait
