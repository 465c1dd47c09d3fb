CONSTANTS
  Snapshots <- MCSnapshots
  SquadFiles <- MCSquadFiles
  Picks <- MCPicks
  Names = {None, "mine", "yours"}
  VaastavFiles <- MCVaastavFiles
  HistoryFiles <- MCHistoryFiles
  Windows <- MCWindows
  EvidenceFiles <- MCEvidenceFiles
  Databases <- MCDatabases
  LastGW = 3
  None = None
  MaxTime = 2
  MaxImports = 2
  ModelAsks <- MCModelAsks
  MaxRows = 4
SPECIFICATION Spec
INVARIANTS
  InputsAreCausal
  BoundariesAgree
  StoredSquadsLoad
  ImportsAreExact
  UpgradeIsHonest
PROPERTIES
  ImportsAreKept
CHECK_DEADLOCK FALSE
