------------------------------ MODULE DirectCSI ------------------------------
(***************************************************************************)
(* The records both controllers of the node agent share: the Device the   *)
(* kernel reports, the DirectCSIDrive and DirectCSIVolume records of the   *)
(* cluster store, the finalizer encoding and the drive status rule.  The   *)
(* API types live in pkg/apis and pkg/client, outside this repository's    *)
(* sources; fields the controllers only copy are left out.                 *)
(***************************************************************************)
EXTENDS Integers, FiniteSets, Functions

CONSTANTS
  Drives,        \* names (uuids) a DirectCSIDrive record can have
  Volumes,       \* names of the DirectCSIVolume records
  VolumeDrive,   \* VolumeDrive[v]: Status.Drive of volume v
  Capacity,      \* Capacity[v]: Status.TotalCapacity of volume v
  Devices,       \* the physical block devices of the node
  Names,         \* kernel device names (sda, sdb, ...)
  FSUUIDs,       \* filesystem uuids a device can carry
  Sizes,         \* device sizes
  MinSupportedDeviceSize,
  InitialDevice, \* InitialDevice[p]: the state of device p at start
  DriveOf        \* DriveOf[id]: the device drive id was created for, or NoDevice

ASSUME VolumeDrive \in [Volumes -> Drives]
ASSUME Capacity \in [Volumes -> Nat \ {0}]
ASSUME Sizes \subseteq Nat /\ MinSupportedDeviceSize \in Nat
ASSUME DriveOf \in [Drives -> Devices \cup {"none"}]

NoUUID == ""                       \* an empty FSUUID
NoDevice == "none"                 \* Drive.dev of a record never created

(* Mount points: none, the managed path MountRoot/<FSUUID>, or a path      *)
(* outside the managed root.                                               *)
NoMount == <<>>
Managed(fsuuid) == <<"MountRoot", fsuuid>>
ElseWhere == <<"elsewhere">>
MountPoints == {NoMount, ElseWhere} \cup {Managed(u) : u \in FSUUIDs}

DriveStatuses == {"Available", "Unavailable", "InUse", "Ready", "Terminating"}
ActiveStatuses == {"InUse", "Ready", "Terminating"}

(* Finalizer strings.  prefix + volumeName is the encoding of "volume v is *)
(* allocated on this drive"; it is injective, so a tagged pair stands for  *)
(* it and TrimPrefix is the projection.                                    *)
DriveFinalizer(volumeName) == <<"DirectCSIDriveFinalizerPrefix", volumeName>>
DataProtection == <<"DirectCSIDriveFinalizerDataProtection", "">>
PurgeProtection == "DirectCSIVolumeFinalizerPurgeProtection"
DriveFinalizers == {DataProtection} \cup {DriveFinalizer(v) : v \in Volumes}

(* sys.Device as the handler sees it.  readOnly stands for the four flags  *)
(* that make a device unusable alike (ReadOnly, Partitioned, SwapOn,       *)
(* Master != "").                                                          *)
Device ==
  [name: Names, size: Sizes, fsuuid: FSUUIDs \cup {NoUUID},
   mount: MountPoints, readOnly: BOOLEAN]

(* A DirectCSIDrive record.  Capacities are byte counts (int64 fields     *)
(* that are never meant to go below zero).  path is Status.Path =          *)
(* "/dev/" + name and the drive label SanitizeDrivePath(name), both kept   *)
(* as the device name.  dev is a history field: the physical device the    *)
(* record was created for.                                                 *)
DriveRecord ==
  [exists: BOOLEAN, ver: Nat, dev: Devices \cup {NoDevice}, path: Names,
   total: Nat, alloc: Nat, free: Nat, fsuuid: FSUUIDs \cup {NoUUID},
   mount: MountPoints, readOnly: BOOLEAN, status: DriveStatuses,
   finalizers: SUBSET DriveFinalizers]

VolumeRecord ==
  [ver: Nat, exists: BOOLEAN, deleting: BOOLEAN, published: BOOLEAN,
   finalizers: SUBSET {PurgeProtection}]

(* isDirectCSIMount: no mount point, or one under the managed root.        *)
IsDirectCSIMount(mount) == mount = NoMount \/ mount[1] = "MountRoot"

(* client.NewDriveStatus: Available unless the device is too small,        *)
(* unusable, or mounted outside the managed root.                          *)
NewDriveStatus(device) ==
  IF \/ device.size < MinSupportedDeviceSize
     \/ device.readOnly
     \/ ~IsDirectCSIMount(device.mount)
  THEN "Unavailable" ELSE "Available"

\* The volumes whose finalizer a drive record carries.
Holders(d) == {v \in Volumes : DriveFinalizer(v) \in d.finalizers}

(* A drive in use by every volume allocated on it, as the provisioner      *)
(* leaves it: all capacity of its volumes allocated, their finalizers and  *)
(* the data protection finalizer set.                                      *)
InUseDrive(id, device, physical) ==
  LET held == {v \in Volumes : VolumeDrive[v] = id}
      alloc == SumFunctionOnSet(Capacity, held)
  IN [exists |-> TRUE, ver |-> 1, dev |-> physical, path |-> device.name,
      total |-> device.size, alloc |-> alloc, free |-> device.size - alloc,
      fsuuid |-> device.fsuuid, mount |-> device.mount,
      readOnly |-> device.readOnly, status |-> "InUse",
      finalizers |-> {DataProtection} \cup {DriveFinalizer(v) : v \in held}]

(* A drive record as add() leaves it (client.NewDirectCSIDriveStatus):     *)
(* every field from the device, nothing allocated.                         *)
NewDrive(device, physical) ==
  [exists |-> TRUE, ver |-> 1, dev |-> physical, path |-> device.name,
   total |-> device.size, alloc |-> 0, free |-> device.size,
   fsuuid |-> device.fsuuid, mount |-> device.mount,
   readOnly |-> device.readOnly, status |-> NewDriveStatus(device),
   finalizers |-> {}]

Absent ==
  [exists |-> FALSE, ver |-> 0, dev |-> NoDevice, path |-> CHOOSE n \in Names : TRUE,
   total |-> 0, alloc |-> 0, free |-> 0, fsuuid |-> NoUUID, mount |-> NoMount,
   readOnly |-> FALSE, status |-> "Available", finalizers |-> {}]


(* The store at start: the drives created before, a drive holding volumes  *)
(* in use.                                                                 *)
InitialDrives ==
  [id \in Drives |->
     IF DriveOf[id] = NoDevice THEN Absent
     ELSE IF \E v \in Volumes : VolumeDrive[v] = id
          THEN InUseDrive(id, InitialDevice[DriveOf[id]], DriveOf[id])
          ELSE NewDrive(InitialDevice[DriveOf[id]], DriveOf[id])]

=============================================================================
