SPECIFICATION Spec
CONSTANTS
  Job = {j1, j2}
  Barrier = {b1}
  Label = {l1, l2}
  PageLabel = {}
  Eop = Eop
  Eof = Eof
  NoJob = NoJob
  NoLabel = NoLabel
  Lines <- GroupLines
  MaxLines = 5
SYMMETRY Interchangeable
INVARIANTS
  ProgramRecorded
  CrashesOutsideJobs
