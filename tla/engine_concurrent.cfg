SPECIFICATION Spec
CONSTANTS
  ann = ann
  bob = bob
  cyd = cyd
  r1 = r1
  r2 = r2
  NoUser = NoUser
  Cron = Cron
  Request = {r1}
  ApiCall = {c1, c2}
  User <- MCUser
  TypeOf <- AccessOnly
  RequesterOf <- MCRequester
  Holds <- MCHolds
  WorkerTypes <- RequestType
  Delegable <- StandIn
INVARIANTS
  ChainApproved
  OutcomeAnnounced
  RowConsistent
SYMMETRY CallSymmetry
