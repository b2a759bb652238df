SPECIFICATION ControlSpec
CONSTANTS
  Inputs <- NoInputs
  KeyOrder <- SectionNames
  ControlColumns <- SetColumns
  PAGE_SIZE = 192
  Field <- FieldValues
INVARIANT
  SetsPatched
