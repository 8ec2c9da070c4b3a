CONSTANTS
  p1 = p1
  p2 = p2
  Passwords <- MCOnePassword
  NoPassword = NoPassword
  MaxGen = 1
SPECIFICATION Spec
PROPERTY FailedOnlyWhenStatefulSetMissing
