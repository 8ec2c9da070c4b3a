CONSTANTS
  d1 = d1
  g1 = g1
  g2 = g2
  None = None
  Directories <- MCDirectories
  Groups <- MCGroups
  Domains <- MCDomains
  CommonNames <- MCCommonNames
  MaxOps = 6
  UniqueNames = TRUE
  AllowEdits = TRUE
SPECIFICATION Spec
PROPERTY ImplementsDirectoryTree
CHECK_DEADLOCK FALSE
