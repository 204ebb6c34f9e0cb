SPECIFICATION FairSpec
CONSTANTS
  Replicas = {r1, r2}
  Nodes = {n1}
  Ours = ours
  Clash = clash
  Other = other
  Absent = absent
  WatchOnlyTainted = FALSE
  Attempts = 2
  Disturbances = 4
INVARIANTS
  TaintTypeOK
  RoundSettles
PROPERTIES
  OthersKept
  WritesAreJustified
  ReadyNodesCleared
  UnreadyNodesTainted
