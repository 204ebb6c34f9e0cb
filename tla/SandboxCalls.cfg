SPECIFICATION FairSpec
CONSTANTS
  Boxes = {b1, b2}
  Ifaces = {net1, net2}
  Posts = 1
  Families = {"v4", "v6"}
  Listed = {"v4"}
  LinkLocal = "fe80"
  None = None
  MaxFaults = 1
INVARIANTS
  SandboxTypeOK
  NothingHangs
  ToldWhatIpamGave
  UpIsLeftAlone
  DoneIsReleased
  DoneIsUnplugged
PROPERTY
  DelsGetThrough
