SPECIFICATION Spec
CONSTANTS
  Devices = {d1, d2}
  d1 = d1
  d2 = d2
  Cards <- MCCards
  MaxDevices = 2
  MaxMajors = 2
  Channels = 2
  UserIrqs = 1
INVARIANTS
  NoDoubleRelease
  LiveWhileReachable
  UndoReleases
  InstanceUnique
  NodeOpensItsDevice
