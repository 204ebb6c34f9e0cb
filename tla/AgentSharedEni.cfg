SPECIFICATION Spec
CONSTANTS
  None = None
  Pods = {p1}
  Profiles = {f1}
  Misconfigured = {}
  Ifaces = {net1, net2}
  EniIds = {e1, e2}
  V4 = {a1}
  V6 = {}
  MaxInterfaces = 3
  DefaultMax = 3
  QueueSize = 2
  Faults = {}
INVARIANT OneEniPerInterface
