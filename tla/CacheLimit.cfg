\* Files larger than their values: the cache without compression, or with
\* attachments that do not compress.
SPECIFICATION Spec
CONSTANTS
  Keys = {k1, k2, k3}
  small = small
  large = large
  Values = {small, large}
  None = None
  RawSize <- Raw
  DiskSize <- Encoded
  Limit = 5
  CheckBytes = 4
  MaxCleaners = 1
PROPERTY EvictionSuffices
