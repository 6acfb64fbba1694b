SPECIFICATION FairSpec
CONSTANTS
  k1 = k1
  k2 = k2
  k3 = k3
  s1 = s1
  s2 = s2
  small = small
  middle = middle
  large = large
  None = None
  Key <- Keys
  Session <- Sessions
  Value <- Values
  Size <- Sizes
  MaxSize = 3
  Address <- Addresses
INVARIANTS TypeOK MapMatchesList Accounted
PROPERTIES Released ImplementsLRU
