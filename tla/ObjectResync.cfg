CONSTANTS
  d1 = d1
  g1 = g1
  g2 = g2
  None = None
  Directories <- MCDirectories
  Groups <- MCGroups
  Domains <- MCDomains
  CommonNames <- MCThreeNames
  MaxOps = 4
  UniqueNames = TRUE
  AllowEdits = TRUE
SPECIFICATION SpecWithResync
PROPERTY EventuallyReady
CHECK_DEADLOCK FALSE
