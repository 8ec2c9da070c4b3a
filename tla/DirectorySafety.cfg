CONSTANTS
  p1 = p1
  p2 = p2
  Passwords <- MCPasswords
  NoPassword = NoPassword
  MaxGen = 2
SPECIFICATION Spec
SYMMETRY MCSymmetry
INVARIANT TypeOK
INVARIANT SecretBeforeStatefulSet
INVARIANT VolumeMergeMatchesReference
PROPERTY PasswordNeverReplaced
