CONSTANTS
  k1 = k1  k2 = k2  k3 = k3  k4 = k4
  NULL = NULL
  Key   <- MCKey
  Hash  <- MCHash
  Value = {256, 300}
  DEFAULT_MAP_CAPACITY = 4
  MaxCapacity = 8
SPECIFICATION Spec
INVARIANTS TypeOK ListsIntact NamesFindable LenIsBound
PROPERTIES IsNameMap
