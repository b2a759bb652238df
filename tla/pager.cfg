SPECIFICATION Spec
CONSTANTS
  Job = {1, 2, 3, 4}
  Barrier = {b1, b2}
  Label = {1, 2, 3}
  PageLabel = {}
  Eop = Eop
  Eof = Eof
  PageSize = 96
  Programs <- PagePrograms
INVARIANTS
  TypeOK
  PageFits
  LastPageMarked
  BarriersStayOnPage
  EveryJobPlaced
  PlacedOnce
  EopEndsPage
  DataWithJobs
PROPERTY
  ImplementsStream
