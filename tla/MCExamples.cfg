CONSTANTS
  Keys = {k1, k2, k3, k4}
  NULL = NULL
  MaxCapacity = 3
  MaxCount = 5
  IntMax = 12
  Digits = {0, 1, 3}
  MaxKeys = 3
  start = 1
  fin = 4
  Lists <- MCLists
  Factors <- MCFactors
  Triangles <- MCTriangles
  Graphs <- MCGraphs
  Conts <- MCConts
  Matrices <- MCMatrices
  Blocks = {b1, b2, b3, b4, b5, b6, b7, b8}
  nullptr = nullptr
  MaxNodes = 2
  DrawNodes = {1, 2, 3, 4, 5, 6, 7}
  MaxTop = 3
  MaxMade = 2
  ArrayBlocks = {1, 2, 3}
  MaxSize = 3
  MaxElts = 5
SPECIFICATION AnySpec
INVARIANTS HitsPrinted PermutationsRight WorklistsComplete ComputedRight OwnersKept
CHECK_DEADLOCK FALSE
