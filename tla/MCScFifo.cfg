CONSTANTS
  Data = {a, b}
  Words = 4
SPECIFICATION Spec
INVARIANTS
  FlagsAgreeWithCounts
  NotEmptyShowsHead
PROPERTIES
  RegisteredOutputIsPopped
  ImplementsFifo
