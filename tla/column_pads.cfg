SPECIFICATION ColumnSpec
CONSTANTS
  Job = {1, 2, 3, 4, 5}
  Barrier = {b1}
  Label = {1, 2}
  PageLabel = {"main", "save", "restore", "lost"}
  Eop = Eop
  Eof = Eof
  PageSize = 96
  Programs = {}
  Columns <- PadColumns
  JobName <- JobItself
  LabelName <- LabelItself
  Garbage = {0, 7}
INVARIANT
  PadsFilledInPlace
