CONSTANTS
  v20 = v20
  v30 = v30
  d1 = d1
  p1 = p1
  sda = sda
  u1 = u1
  Volumes <- MCVolumes
  Capacity <- MCCapacity
  VolumeDrive <- MCVolumeDrive
  Drives = {d1}
  Devices = {p1}
  Names = {sda}
  FSUUIDs = {u1}
  Sizes = {100}
  MinSupportedDeviceSize = 10
  InitialDevice <- MCInitialDevice
  DriveOf <- MCDriveOf
  MaxFailures = 2
  MaxPublish = 2

SPECIFICATION Spec

INVARIANT TypeOK
INVARIANT CapacityConservation
PROPERTY VolumeReleaseRefinement

CHECK_DEADLOCK FALSE
