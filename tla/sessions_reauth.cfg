CONSTANTS
  u1 = u1
  s1 = s1
  s2 = s2
  NoCall = NoCall
  UserCalls = {u1}
  ServiceCalls = {s1, s2}
  Devices = 1
  MaxBreaks = 0
  Prompt = TRUE
SPECIFICATION Spec
INVARIANTS
  ReauthOnlyForServicePin
