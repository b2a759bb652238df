SPECIFICATION Spec
CONSTANTS
  Job = {1, 2, 3}
  Barrier = {b1}
  Label = {}
  PageLabel = {}
  Eop = Eop
  Eof = Eof
  PageSize = 96
  Programs <- DeferredPrograms
INVARIANT
  NothingTwiceOnPage
