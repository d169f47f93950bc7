SPECIFICATION Spec
CONSTANTS
  Texts <- MCTexts
INVARIANTS
  TypeOK
  AcceptedIsTheSource
  GrammaticalIsAccepted
  NothingIsLostSilently
  BracesMatch
  PanicsOnlyAcrossFiles
  EveryRoundConsumes
