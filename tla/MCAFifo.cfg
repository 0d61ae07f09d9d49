CONSTANTS
  Data = {a, b}
  FIFO_DEPTH = 2
  Stages = 2
SPECIFICATION Spec
INVARIANTS
  NotEmptyShowsHead
PROPERTIES
  KeepsQueue
  WrittenIsSeen
  EmptiedIsWritable
