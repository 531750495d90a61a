CONSTANTS
  v20 = v20  v30 = v30
  d1 = d1
  p1 = p1  sda = sda  u1 = u1  w1 = w1
  Volumes <- MCVolumes
  Capacity <- MCCapacity
  VolumeDrive <- MCVolumeDrive
  Drives = {d1}
  Devices = {p1}
  Names = {sda}
  FSUUIDs = {u1}
  Sizes = {40, 100}
  MinSupportedDeviceSize = 50
  InitialDevice <- MCInitialDevice
  DriveOf <- MCDriveOf
  MaxFailures = 0
  MaxPublish = 0
  Workers = {w1}
  FindMatchingDrive <- ContractMatcher
  AllowRename = FALSE
  MaxEvents = 2

SPECIFICATION Spec


INVARIANT CapacityBounds
CHECK_DEADLOCK FALSE
