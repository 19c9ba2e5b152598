CONSTANTS
  MaxChanges = 2
  MaxBreaks = 2
  MaxProbes = 1
SPECIFICATION FairSpec
INVARIANTS
  TypeOK
  EntityShowsPanel
  LoadedHasEntity
PROPERTIES
  EntityNeverRegresses
  SetupEnds
  EntityCatchesUp
