SPECIFICATION Spec
CONSTANTS
  Lines <- SourceLines
  MaxLines = 4
  Transactions <- GivenTransactions
  HeaderSize = 4
  BaseSize <- Sizes
  Capacity <- Capacities
INVARIANTS
  EncodedAsWritten
  LastColumnEncoded
  WalkEndsAtSize
  Reassembles
