SPECIFICATION Spec
CONSTANTS
  Modules <- MCModules
  Ast <- MCAst
INVARIANTS
  TypeOK
  ItemsAreIndependent
  RefsAreLexical
  AcceptsExactlyTheTyped
  HirIsTheSource
