SPECIFICATION FairSpec
CONSTANTS
  Local <- MCLocal
  Bodies <- MCBodies
  NoBlock = NoBlock
  NoSpan = NoSpan
INVARIANTS
  TypeOK
  NoSpuriousReport
  ReportedOnce
  DrainedIsExact
  WalkedExactlyReachable
  InBlockUseReported
  CompleteWithoutJoins
PROPERTIES
  EntryStatesRise
  Drains
