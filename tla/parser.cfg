SPECIFICATION Spec
CONSTANTS
  Lines <- SourceLines
  MaxLines = 5
  MaxDepth = 2
INVARIANTS
  LinesPlaced
  TextAfterInclude
  StatesCoverFiles
