------------------------------ MODULE NodeAgent ------------------------------
(***************************************************************************)
(* The node agent's two writers of the drive records, side by side: the   *)
(* uevent-driven drive reconciler (DriveEventHandler) and the volume       *)
(* teardown controller (VolumeEventHandler).  They share nothing but the   *)
(* store, where each writes a drive with a read-modify-write cycle that    *)
(* the store's version check guards.  Their steps interleave freely.       *)
(***************************************************************************)
EXTENDS DirectCSI

CONSTANTS
  MaxFailures, MaxPublish,
  Workers, FindMatchingDrive(_, _, _, _), AllowRename, MaxEvents

VARIABLES
  drives,
  volume, hostPath, vpc, obj, got, failures, published,
  device, present, queue, sent, wpc, ev, snap, target, read

volumeVars == <<volume, hostPath, vpc, obj, got, failures, published>>
driveVars == <<device, present, queue, sent, wpc, ev, snap, target, read>>
vars == <<drives, volumeVars, driveVars>>

V == INSTANCE VolumeEventHandler
D == INSTANCE DriveEventHandler

Init == V!Init /\ D!Init

Next ==
  \/ V!Next /\ UNCHANGED driveVars
  \/ D!Next /\ UNCHANGED volumeVars

Spec == Init /\ [][Next]_vars /\ V!Fairness /\ D!Fairness

-----------------------------------------------------------------------------
(* Both handlers' variables keep their types while they interleave: in    *)
(* particular every drive record the reconciler or the controller writes   *)
(* has capacities in Nat.                                                  *)
TypeOK == V!TypeOK /\ D!TypeOK

(* The reconciler's Update of a drive it listed before a volume was        *)
(* released must not bring the released volume's finalizer back: no drive *)
(* ever carries the finalizer of a volume record that is gone.             *)
NoOrphanDriveFinalizer == V!NoOrphanDriveFinalizer

(* Every volume whose deletion is requested and that is not published is   *)
(* eventually torn down, though the reconciler's writes make the teardown *)
(* conflict and start over.                                                *)
VolumeEventuallyReleased == V!VolumeEventuallyReleased

(* The two writers together keep every drive's capacity accounted for:   *)
(* free plus the capacity of the volumes whose finalizers the drive holds  *)
(* is its total, though update() rewrites total and free on a resize that  *)
(* stays above the allocation (uevent.go 91-98) and releaseVolume gives    *)
(* capacity back from a drive it read before that write.  A shrink below   *)
(* the allocation breaks it (node_agent_shrink), and the run's sizes leave *)
(* that case to that run.                                                  *)
CapacityConservation == V!CapacityConservation

(* A drive's capacity stays within bounds when update() sees a device     *)
(* shrink below its allocation and releaseVolume later returns the         *)
(* volumes' capacity: 0 <= allocated <= total, free = total - allocated.   *)
CapacityBounds == D!CapacityBounds

(* Once every uevent is handled, each plugged device's drive agrees with  *)
(* the device, though releaseVolume writes the same drive records.  Spec   *)
(* 4.5 asks for a reconciliation that loses the version race to be retried *)
(* with a fresh read; update() returns the conflict instead (uevent.go     *)
(* 273-275) and nothing retries the event.                                 *)
QuiescentDriveReflectsDevice == D!QuiescentDriveReflectsDevice

=============================================================================
