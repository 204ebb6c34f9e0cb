SPECIFICATION NodeSpec
CONSTANTS
  None = None
  Pods = {p1}
  Profiles = {f1}
  Misconfigured = {}
  Ifaces = {net1}
  Net = net1
  Profile = f1
  EniIds = {e1, e2}
  V4 = {a1}
  V6 = {}
  MaxInterfaces = 3
  DefaultMax = 3
  QueueSize = 2
  MaxBoxes = 2
  Faults = {"crash", "plugin", "timeout", "force", "slow"}
SYMMETRY Symmetry
CHECK_DEADLOCK FALSE
INVARIANTS
  NodeTypeOK
  CleanBoxKeepsItsEni
  FirstBoxKeepsItsEni
  UpHasItsAddress
  WatcherReleasesRest
PROPERTIES
  LinksPods
