SPECIFICATION Spec
CONSTANTS
  CommandLines <- MCCommandLines
  Dashed <- MCAllDashed
  Attached <- MCAttached
  GoodDefines = {"N"}
  KnownCodes = {"E0001"}
  Readable = {"a.c", "b.c", "N"}
  MaxFound = 2
INVARIANTS
  TypeOK
  CommandLineIsRead
  FailuresStayLocal
  NothingIsLost
  SafeCModesDecide
