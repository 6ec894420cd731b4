SPECIFICATION Spec
CONSTANTS
  NoSession = NoSession
  NoEmployee = NoEmployee
  Session = {s1, s2, s3}
  Employee = {e1}
  ApiCall = {c1, c2}
  Admin = {a1}
SYMMETRY Perms
INVARIANTS
  ParentRevoked
  FamilyIsSound
