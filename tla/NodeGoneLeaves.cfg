SPECIFICATION NodeSpec
CONSTANTS
  None = None
  Pods = {p1}
  Profiles = {f1}
  Misconfigured = {}
  Ifaces = {net1}
  Net = net1
  Profile = f1
  EniIds = {e1, e2}
  V4 = {a1, a2}
  V6 = {}
  MaxInterfaces = 3
  DefaultMax = 3
  QueueSize = 3
  MaxBoxes = 1
  Faults = {}
CHECK_DEADLOCK FALSE
INVARIANT GoneLeavesNothing
