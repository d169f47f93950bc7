SPECIFICATION SafeCSpec
CONSTANTS
  Programs <- NullCheckPrograms
  HirExpr <- NullCheckHirExpr
  HirStmt <- NullCheckHirStmt
  Functions <- MCFunctions
  Answers <- MCAnswers
  Fuel = 100
  MaxLocal = 24
  NoBlock = NoBlock
  NoSpan = NoSpan
INVARIANTS
  OnlyMisusesAreReported
