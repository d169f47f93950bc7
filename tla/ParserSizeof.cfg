SPECIFICATION Spec
CONSTANTS
  Texts <- TypeSizes
INVARIANTS
  TypeSizesAreAccepted
