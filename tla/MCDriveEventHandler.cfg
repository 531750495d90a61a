CONSTANTS
  v20 = v20  v30 = v30
  d1 = d1  d2 = d2  d3 = d3  d4 = d4
  p1 = p1  p2 = p2  sda = sda  sdb = sdb  u1 = u1  w1 = w1  w2 = w2
  Volumes <- MCVolumes
  Capacity <- MCCapacity
  VolumeDrive <- MCVolumeDrive
  Drives = {d1, d2, d3, d4}
  Devices = {p1, p2}
  Names = {sda, sdb}
  FSUUIDs = {u1}
  Sizes = {40, 100}
  MinSupportedDeviceSize = 50
  InitialDevice <- MCInitialDevice
  DriveOf <- MCDriveOf
  Workers = {w1}
  FindMatchingDrive <- StubMatcher
  AllowRename = FALSE
  MaxEvents = 4

SPECIFICATION Spec

INVARIANT OneDrivePerDevice

CHECK_DEADLOCK FALSE
