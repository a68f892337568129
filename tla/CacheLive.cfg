\* Two keys and a third that makes room scarce; files as large as their values.
SPECIFICATION LiveSpec
CONSTANTS
  Keys = {k1, k2, k3}
  small = small
  large = large
  Values = {small, large}
  None = None
  RawSize <- Raw
  DiskSize <- Compressed
  Limit = 3
  CheckBytes = 2
  MaxCleaners = 1
INVARIANT TypeOK
PROPERTIES RefinesPartialMap EvictsOldest EvictionSuffices CleanupTakesPlace
