SPECIFICATION AppSpec
CONSTANTS
  Procs = {p1, p2}
  None = None
  Orphan = Orphan
  Files = 2
  MaxLaunches = 2
  MaxFaults = 1
  Uploads = {u1}
INVARIANTS
  SchemaReady
  DrainedBeforeClose
  RowsHaveBlobs
PROPERTIES
  LivesGoOn
CHECK_DEADLOCK FALSE
