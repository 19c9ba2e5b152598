CONSTANTS
  NumDevices = 3
  Bus = {1, 3}
  MaxBreaks = 1
SPECIFICATION FairSpec
INVARIANTS
  TypeOK
  RespondersAreReported
  InfoIsOfOneDevice
  LateAnswersOnlyLag
  DiagnosticsAreStopped
PROPERTIES
  ProbeEnds
