SPECIFICATION AnySpec
CONSTANTS
  Versions = {3, 4}
  Vectors = {v1, v2}
  Values = {x1, x2}
  Buffers = {b1, b2, b3}
  nullptr = nullptr
  MaxUsed = 3
  Given <- MCGiven
INVARIANTS MemoryOwned
PROPERTIES AllImplementVec AllReturn
CHECK_DEADLOCK FALSE
