CONSTANTS
  s1 = s1
  q1 = q1
  a = a
  b = b
  c = c
  Nowhere = Nowhere
  Panels = {s1, q1}
  WithSerial = {s1}
  Paths = {a, b, c}
  MaxMoves = 3
  MaxChanges = 3
SPECIFICATION FairSpec
INVARIANTS
  TypeOK
  RightPanel
  EntryInEffect
  ClientsAccounted
PROPERTIES
  SetupRecovers
