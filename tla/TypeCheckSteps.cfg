SPECIFICATION Spec
CONSTANTS
  Modules <- StepModules
  Ast <- StepAst
INVARIANTS
  StepsAreOfLvalues
