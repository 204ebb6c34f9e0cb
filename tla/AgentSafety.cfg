SPECIFICATION Spec
CONSTANTS
  None = None
  Pods = {p1}
  Profiles = {f1}
  Misconfigured = {}
  Ifaces = {net1}
  EniIds = {e1, e2}
  V4 = {a1}
  V6 = {}
  MaxInterfaces = 2
  DefaultMax = 3
  QueueSize = 2
  Faults = {"error", "crash", "relist"}
SYMMETRY Symmetry
INVARIANTS
  TypeOK
  StateAgreesWithEc2
  LastJobWins
PROPERTY DrivesManager
