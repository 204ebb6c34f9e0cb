SPECIFICATION ManagerSpec
CONSTANTS
  None = None
  Pods = {p1}
  Profiles = {f1, f2}
  Misconfigured = {f2}
  Ifaces = {net1}
  EniIds = {e1, e2}
  V4 = {a1}
  V6 = {b1}
  MaxInterfaces = 3
  DefaultMax = 4
  Faults = {"error"}
INVARIANT ReleaseDeletes
