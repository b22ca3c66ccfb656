SPECIFICATION Spec
CONSTANTS
    Clients = {c1, c2}
    Syncer = syncer
    Blocks = {x1, x2, x3}
    NULL = NULL
    MAX = 3
    Loads <- MCLoads
SYMMETRY Symmetry
INVARIANTS
  LatestVersion
  SyncComplete
