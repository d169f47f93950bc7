SPECIFICATION Spec
CONSTANTS
  Texts <- MCTexts
INVARIANTS
  TokensTile
  NewlinesAreLines
  LabelsAreWhereTheyPoint
PROPERTY
  IsMaximalMunch
