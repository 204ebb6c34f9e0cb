SPECIFICATION FairSpec
CONSTANTS
  None = None
  Pods = {p1}
  Profiles = {f1}
  Misconfigured = {}
  Ifaces = {net1, net2}
  EniIds = {e1}
  V4 = {}
  V6 = {}
  MaxInterfaces = 2
  DefaultMax = 3
  QueueSize = 2
  Faults = {"slow"}
PROPERTIES
  WatchedReleaseServed
  CallsReturn
  ServesInOrder
