CONSTANTS
  MaxChanges = 1
  MaxBreaks = 1
  MaxProbes = 1
SPECIFICATION Spec
INVARIANTS
  PushesKeepEntitiesAvailable
