SPECIFICATION FairSpec
CONSTANTS
  ann = ann
  bob = bob
  cyd = cyd
  r1 = r1
  r2 = r2
  NoUser = NoUser
  Cron = Cron
  Request = {r1, r2}
  ApiCall = {c1}
  User <- MCUser
  TypeOf <- OnboardingLeave
  RequesterOf <- MCRequester
  Holds <- MCHolds
  WorkerTypes <- RequestType
  Delegable <- NoPairs
PROPERTIES
  OverdueIsClosed
  LifecycleSpec
CHECK_DEADLOCK FALSE
