SPECIFICATION Spec
CONSTANTS
  Tensors = {t1, t2, t3}
  Blocks = {b1, b2, b3}
  Screens = {display}
  NoShm = NoShm
SYMMETRY Symmetry
INVARIANTS
  OneOwner
  NoBadFree
