SPECIFICATION Spec
CONSTANTS
  Kernels = {"onlyg-corr"}
  DataSize = 4
  HistSize = 3
  GlobalSize = 4
  LSZ = 2
  UCHAR = 2
  LocalGarbage = {1}
  BufferGarbage = {0, 1}
INVARIANT ChecksPass
