CONSTANTS
  v1 = v1  v2 = v2  v3 = v3
  sda = sda  sdb = sdb  sdc = sdc
  n1 = n1  n2 = n2
  Volumes = {v1, v2, v3}
  Names = {sda, sdb, sdc}
  NodeID = n1
  VolumeNode <- MCVolumeNode
  Steps = 5
  Blocking = FALSE
  MaxRenames = 2
  MaxTouches = 1

SPECIFICATION Spec

INVARIANT QuiescentLabelsMatch

CHECK_DEADLOCK FALSE
