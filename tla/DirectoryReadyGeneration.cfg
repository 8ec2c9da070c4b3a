CONSTANTS
  p1 = p1
  p2 = p2
  Passwords <- MCOnePassword
  NoPassword = NoPassword
  MaxGen = 2
SPECIFICATION Spec
PROPERTY ReadyRecordsRunningGeneration
