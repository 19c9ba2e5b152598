CONSTANTS
  SectionRecords <- MCSectionRecords
  DeviceRecords <- MCDeviceRecords
  MaxSections = 2
  MaxDevices = 2
  MaxNameLength = 3
  NamesSize = 20
  SectionReach = 50
  RfReach = 60
SPECIFICATION Spec
INVARIANTS
  EntriesAreTheRecords
  NamesAreTheSections
