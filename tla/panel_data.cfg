CONSTANTS
  ReportSize = 64
  MaxChanges = 2
  Sections = {1, 2, 16}
  Devices = {1, 8, 31}
  AnsweringDevices <- MCAnsweringDevices
SPECIFICATION Spec
INVARIANTS
  TypeOK
  DecodesTheReport
  EntitiesShowThePanel
  AnswersAreTheDevices
PROPERTIES
  CommandsReachTheirSection
