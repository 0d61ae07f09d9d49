CONSTANTS
  ClassInts = {"a", "b"}
  LocalInts = {"t", "n", "m"}
  ClassFloats = {"f"}
  LocalFloats = {"g", "h"}
  Params = {"p"}
  MAX_INT_SIZE = 2
  MAX_POINTER_SIZE = 3
  Rounds = 6
  Steps = 70
  Kernels <- ElseLeaves
  Inputs <- Bits
SPECIFICATION Spec
CHECK_DEADLOCK FALSE
INVARIANT
  CodeMeansKernel
