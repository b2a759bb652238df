SPECIFICATION ControlSpec
CONSTANTS
  Inputs <- ElfInputs
  KeyOrder <- SectionNames
  ControlColumns <- CodeColumns
  PAGE_SIZE = 192
  Field <- FieldValues
INVARIANTS
  RelocationsResolve
  LoadsOwnSection
  GroupsDivideSections
  InstancesKept
  PageAsAnnounced
  TablesPatched
