CONSTANTS
  Tasks = {t1, t2}
  b1 = b1
  b2 = b2
  b3 = b3
  Blocks = {b1, b2, b3}
  Values = {v1, v2}
  Sizes = {1, 2}
  BUFFER_BUCKETS = 2
  BUFFER_HASH <- MCHash
  NoBlock = NoBlock
  Fragile = {b3}
SYMMETRY Symmetry
SPECIFICATION Spec
INVARIANTS CacheSound
PROPERTIES ImplementsStore
