SPECIFICATION GenSpec
CONSTANTS
  Columns = {0, 1}
  ColumnCounts = {1, 2}
  MEMTILE_SIZE = 2
  data_size = 2
  FIFO_DEPTH = 1
  MaxRounds <- Rounds
  Resets <- MCResets
  ArgBuffer <- ScratchPadOnly
  Transactions <- MCTransactions
INVARIANTS
  MemoryRestored
  SyncAfterData
PROPERTIES
  Resumes
  CopyArrives
  DescriptorsStable
