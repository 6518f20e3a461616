CONSTANTS
  Kernels = {"simple", "localmem"}
  AX = 2
  AY = 4
  BY_ = 2
  LSZ = 2
  Inputs <- MCInputs
  Garbage = 99
  HistKernels = {"hist", "onlyg-corr", "onlyg"}
  DataSize = 5
  HistSize = 3
  GlobalSize = 4
  HistLSZ = 2
  UCHAR = 2
  LocalGarbage = {1}
  BufferGarbage = {2}
  Junk = {0, 2}
  MaxPlatforms = 2
  MaxDevices = 1
SPECIFICATION AnySpec
INVARIANTS ResultsExact GroupsCounted TilesCurrent RaceLosesOnly HostsTidy
PROPERTIES ProgramsEnd
CHECK_DEADLOCK FALSE
