SPECIFICATION DomainSpec
CONSTANTS
  Item = {i1, i2}
  Employee = {e1, e2}
  Day = {1, 2}
  DomainCall = {c1, c2}
  MaxOps = 5
SYMMETRY Symmetry
INVARIANTS
  RowsConsistent
  NoDoubleBooking
  GrantsEnd
PROPERTY
  DecisionStands
CHECK_DEADLOCK FALSE
