SPECIFICATION Spec
CONSTANTS
  Ops <- TxnOps
  MaxOps <- TxnBounds
  MaxBuffers = 2
  Inputs <- TxnInputs
  Buffers <- JsonBuffers
  Patches <- JsonPatches
  DmaIndices = {0, 4, 5}
  PmSize <- ImageSizes
  Pdis = {0}
  Prebuilt <- PrebuiltCode
  ShimBDs = {0, 8}
  MemBDs = {16}
  PacketSize = 48
  Range32 = 255
INVARIANTS
  PatchPlaced
  PmPlaced
  RejectedInSequence
  ArgumentsNamed
  ScratchSized
