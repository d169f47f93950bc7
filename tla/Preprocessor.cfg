SPECIFICATION FairSpec
CONSTANTS
  Disks <- MCDisks
  Unreadable = Unreadable
  Roots <- MCRoots
  IncludePaths <- MCIncludePaths
  UserDefines <- MCUserDefines
  Token <- MCToken
  Ident <- MCIdent
  MaxIncludeDepth = 3
  MaxExpansionDepth = 3
INVARIANTS
  TypeOK
  OutputIsCs
  IncludeErrorsAreReal
PROPERTIES
  Terminates
