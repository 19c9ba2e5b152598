CONSTANTS
  w1 = w1
  Writers = {w1}
  MaxFd = 3
  MaxUnplugs = 2
  MaxErrors = 2
  MaxForeign = 1
SPECIFICATION FairSpec
INVARIANTS
  TypeOK
  NoHandleForgotten
  DisconnectCloses
  FdNamesThePanel
  ChangesArriveInOrder
PROPERTIES
  ForeignFilesStayOpen
  Reconnects
  DisconnectReturns
