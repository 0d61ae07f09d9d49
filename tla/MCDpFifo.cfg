CONSTANTS
  None = None
  Instr = {a, b}
  Scale = 4
  Depth = 8
SPECIFICATION Spec
INVARIANTS
  WholeWords
  WritesFindRoom
  InnerNeverOverflows
PROPERTIES
  KeepsProgramOrder
  IsOffered
