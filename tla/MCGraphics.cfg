CONSTANTS
  Points <- MCPoints
  Sizes <- MCSizes
  MaxEvents = 3
  MaxUpdates = 2
  Xs = {0, 1, 400}
  MaxCallbacks = 4
SPECIFICATION AnySpec
INVARIANTS VulkanInOrder VulkanFresh DestroyedInOrder InputNoted FramesRight
CHECK_DEADLOCK FALSE
