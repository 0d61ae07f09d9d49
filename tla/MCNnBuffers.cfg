SPECIFICATION Spec
CONSTANTS
  N = 3
  Layers = 3
  MaxSize = 2
  Storage <- AllStorage
INVARIANTS
  SharersDisjoint
  SharersFit
  FreedOnce
  AllGetMemory
