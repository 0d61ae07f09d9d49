SPECIFICATION FairSpec
CONSTANTS
  Images = {gaussian, canny}
  NoImage = NoImage
  MaxYields = 4
INVARIANTS
  TypeOK
  InstructionsCarryTheirProcess
  ReturnsWhenBothHave
  ConstantsInPlace
PROPERTY
  CallReturns
