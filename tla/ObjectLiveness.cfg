CONSTANTS
  d1 = d1
  g1 = g1
  g2 = g2
  None = None
  Directories <- MCDirectories
  Groups <- MCGroups
  Domains <- MCDomains
  CommonNames <- MCCommonNames
  MaxOps = 5
  UniqueNames = TRUE
  AllowEdits = FALSE
SPECIFICATION Spec
PROPERTY EventuallyReady
CHECK_DEADLOCK FALSE
