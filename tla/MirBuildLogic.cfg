SPECIFICATION Spec
CONSTANTS
  Programs <- LogicPrograms
  HirExpr <- LogicHirExpr
  HirStmt <- LogicHirStmt
  Functions <- MCFunctions
  Answers <- MCAnswers
  Fuel = 100
INVARIANTS
  RunsLikeTheSource
