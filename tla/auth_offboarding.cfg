SPECIFICATION Spec
CONSTANTS
  NoSession = NoSession
  NoEmployee = NoEmployee
  Session = {s1, s2}
  Employee = {e1}
  ApiCall = {c1, c2}
  Admin = {a1, a2}
SYMMETRY Perms
INVARIANTS
  OffboardedIsLockedOut
  ActiveIsNotLocked
