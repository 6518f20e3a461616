SPECIFICATION Spec
CONSTANTS
  Kernels = {"simple"}
  AX = 1
  AY = 2
  BY_ = 2
  LSZ = 1
  Inputs <- MCInputs
  Garbage = 99
INVARIANT ChecksPass
