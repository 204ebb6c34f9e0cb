SPECIFICATION Spec
CONSTANTS
  Replicas = {r1}
  Nodes = {n1}
  Ours = ours
  Clash = clash
  Other = other
  Absent = absent
  WatchOnlyTainted = TRUE
  Attempts = 2
  Disturbances = 3
PROPERTY OnlyTaintedTouched
