SPECIFICATION SafeCSpec
CONSTANTS
  Programs <- SafePrograms
  HirExpr <- SafeHirExpr
  HirStmt <- SafeHirStmt
  Functions <- MCFunctions
  Answers <- MCAnswers
  Fuel = 100
  MaxLocal = 24
  NoBlock = NoBlock
  NoSpan = NoSpan
INVARIANTS
  TypeOK
  RunsLikeTheSource
  EveryBlockClosed
  ReportsAreTheMisuses
  PanicsOnlyWithoutPlace
PROPERTIES
  ClosedBlocksStay
