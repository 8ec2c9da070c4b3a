CONSTANTS
  d1 = d1
  d2 = d2
  g1 = g1
  g2 = g2
  g3 = g3
  None = None
  Directories <- MCDirectories
  Groups <- MCGroups
  Domains <- MCDomains
  CommonNames <- MCCommonNames
SPECIFICATION Spec
INVARIANT DNComputationTerminates
