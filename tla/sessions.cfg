CONSTANTS
  u1 = u1
  s1 = s1
  NoCall = NoCall
  UserCalls = {u1}
  ServiceCalls = {s1}
  Devices = 2
  MaxBreaks = 2
  Prompt = TRUE
SPECIFICATION FairSpec
INVARIANTS
  TypeOK
  LoggedOutWhenFree
  UserFlagMeansUserHoldsLock
  OkMeansApplied
  AuthErrorMeansRefused
PROPERTIES
  NoForeignExecution
  ImplementsCommandService
  EveryCallReturns
