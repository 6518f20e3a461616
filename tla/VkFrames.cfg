SPECIFICATION FairSpec
CONSTANTS
  MAX_FRAMES_IN_FLIGHT = 2
  MinImages = 1
  MaxImages = 2
  GraphicsQueue = q0
  PresentQueue = q0
  Sizes = {0, 2}
  MinExtent = 1
  MaxExtent = 2
  MaxResizes = 3
INVARIANTS CommandBufferFree FenceMatches SemaphoresFree RecreateIdle
PROPERTIES NeverHangs SizeSettles CloseEnds
