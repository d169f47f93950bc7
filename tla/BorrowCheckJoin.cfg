SPECIFICATION Spec
CONSTANTS
  Local <- MCLocal
  Bodies <- IfElseBodies
  NoBlock = NoBlock
  NoSpan = NoSpan
INVARIANTS
  CleanIsSafe
