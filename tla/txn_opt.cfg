SPECIFICATION Spec
CONSTANTS
  Ops <- OptOps
  MaxOps <- TxnBounds
  MaxBuffers = 0
  Inputs <- OptInput
  Buffers = {}
  Patches = {}
  DmaIndices = {0, 4, 5}
  PmSize <- ImageSizes
  Pdis = {0}
  Prebuilt <- PrebuiltCode
  ShimBDs = {0, 8}
  MemBDs = {16}
  PacketSize = 48
  Range32 = 255
INVARIANTS
  RejectedInSequence
