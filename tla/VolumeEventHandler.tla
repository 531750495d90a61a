------------------------- MODULE VolumeEventHandler -------------------------
(***************************************************************************)
(* The volume controller of pkg/volume/volume.go: VolumeEventHandler.      *)
(* remove() tears down a Volume that is marked for deletion and is not     *)
(* published, and releaseVolume() gives its capacity and its finalizer     *)
(* back to the owning Drive.  Both records live in the cluster store and   *)
(* are written with a conditional Update (resourceVersion check).  One     *)
(* handler run per volume is in flight at a time (the work queue hands a   *)
(* key to one worker); runs for different volumes of the same drive        *)
(* interleave freely, and a run may stop at any step (API error or agent  *)
(* restart), after which the key is handed out again.                      *)
(***************************************************************************)
EXTENDS DirectCSI

CONSTANTS
  MaxFailures,   \* bound on handler runs that stop half-way
  MaxPublish     \* bound on publish operations by the node server

ASSUME MaxFailures \in Nat /\ MaxPublish \in Nat

VARIABLES
  drives,     \* drives[id]: the DirectCSIDrive record id in the store
  volume,     \* volume[v]: the DirectCSIVolume record v in the store
  hostPath,   \* hostPath[v]: the volume's directory still exists on disk
  vpc,        \* vpc[v]: where the handler run for volume v is
  obj,        \* obj[v]: the volume object the event delivered (args.Object)
  got,        \* got[v]: the drive as read by releaseVolume's Get
  failures,   \* number of runs that stopped half-way
  published   \* number of publish operations so far

vars == <<drives, volume, hostPath, vpc, obj, got, failures, published>>

Init ==
  /\ drives = InitialDrives
  /\ volume \in [Volumes -> {[ver |-> 1, exists |-> TRUE, deleting |-> FALSE,
                              published |-> p, finalizers |-> {PurgeProtection}]
                             : p \in BOOLEAN}]
  /\ hostPath = [v \in Volumes |-> TRUE]
  /\ vpc = [v \in Volumes |-> "idle"]
  /\ obj = volume
  /\ got = [v \in Volumes |-> drives[VolumeDrive[v]]]
  /\ failures = 0
  /\ published = 0

-----------------------------------------------------------------------------
(* excludeFinalizer: the list without the finalizer, and whether it was in *)
(* it.                                                                     *)
ExcludeFinalizer(finalizers, finalizer) == finalizers \ {finalizer}

(* Fault injection: remove() skips releaseVolume and drops the volume's  *)
(* finalizer first.                                                        *)
RemoveSkippingRelease(v) ==
  /\ vpc[v] = "idle"
  /\ volume[v].exists
  /\ volume[v].deleting
  /\ ~volume[v].published
  /\ hostPath' = [hostPath EXCEPT ![v] = FALSE]
  /\ obj' = [obj EXCEPT ![v] = volume[v]]
  /\ vpc' = [vpc EXCEPT ![v] = "updateVolume"]
  /\ UNCHANGED <<drives, volume, got, failures, published>>

(* Handle dispatches Add and Update events to remove(); remove() returns   *)
(* nil unless the deletion timestamp is set and errors out while the       *)
(* volume is published (both leave the state unchanged, so they are       *)
(* stuttering steps); otherwise it removes the volume's directory and      *)
(* calls releaseVolume.                                                    *)
Remove(v) ==
  /\ vpc[v] = "idle"
  /\ volume[v].exists
  /\ volume[v].deleting
  /\ ~volume[v].published
  /\ hostPath' = [hostPath EXCEPT ![v] = FALSE]
  /\ obj' = [obj EXCEPT ![v] = volume[v]]
  /\ vpc' = [vpc EXCEPT ![v] = "release"]
  /\ UNCHANGED <<drives, volume, got, failures, published>>

(* releaseVolume: Get the drive.                                           *)
ReleaseGetDrive(v) ==
  /\ vpc[v] = "release"
  /\ got' = [got EXCEPT ![v] = drives[VolumeDrive[v]]]
  /\ vpc' = [vpc EXCEPT ![v] = "updateDrive"]
  /\ UNCHANGED <<drives, volume, hostPath, obj, failures, published>>

(* releaseVolume: drop the volume's finalizer from the drive that was      *)
(* read, return the capacity, mark the drive Ready when only the data      *)
(* protection finalizer is left, and Update it.  The store rejects the     *)
(* Update when the drive changed since the Get (conflict: remove returns   *)
(* the error and the key is handed out again).  When the finalizer is not *)
(* found nothing is written and err stays nil.                             *)
ReleasedDrive(d, v) ==
  LET finalizers == ExcludeFinalizer(d.finalizers, DriveFinalizer(v))
      free == d.free + Capacity[v]
  IN [d EXCEPT !.ver = d.ver + 1,
               !.finalizers = finalizers,
               !.status = IF finalizers = {DataProtection} THEN "Ready" ELSE d.status,
               !.free = free,
               !.alloc = d.total - free]

(* Fault injection: releaseVolume without the "found" guard, and         *)
(* releaseVolume returning an error when the finalizer is already gone.    *)
ReleaseUpdateDriveIgnoringFound(v) ==
  /\ vpc[v] = "updateDrive"
  /\ \/ /\ drives[VolumeDrive[v]].ver = got[v].ver
        /\ drives' = [drives EXCEPT ![VolumeDrive[v]] = ReleasedDrive(got[v], v)]
        /\ vpc' = [vpc EXCEPT ![v] = "updateVolume"]
     \/ /\ drives[VolumeDrive[v]].ver # got[v].ver
        /\ vpc' = [vpc EXCEPT ![v] = "idle"]
        /\ UNCHANGED drives
  /\ UNCHANGED <<volume, hostPath, obj, got, failures, published>>

ReleaseUpdateDriveFailingNotFound(v) ==
  /\ vpc[v] = "updateDrive"
  /\ \/ /\ DriveFinalizer(v) \notin got[v].finalizers
        /\ vpc' = [vpc EXCEPT ![v] = "idle"]
        /\ UNCHANGED drives
     \/ /\ DriveFinalizer(v) \in got[v].finalizers
        /\ drives[VolumeDrive[v]].ver = got[v].ver
        /\ drives' = [drives EXCEPT ![VolumeDrive[v]] = ReleasedDrive(got[v], v)]
        /\ vpc' = [vpc EXCEPT ![v] = "updateVolume"]
     \/ /\ DriveFinalizer(v) \in got[v].finalizers
        /\ drives[VolumeDrive[v]].ver # got[v].ver
        /\ vpc' = [vpc EXCEPT ![v] = "idle"]
        /\ UNCHANGED drives
  /\ UNCHANGED <<volume, hostPath, obj, got, failures, published>>

(* Fault injection: on a conflict the Update is retried with the drive    *)
(* object that was read, never read again.                                 *)
ReleaseUpdateDriveRetryingStale(v) ==
  /\ vpc[v] = "updateDrive"
  /\ \/ /\ DriveFinalizer(v) \notin got[v].finalizers
        /\ vpc' = [vpc EXCEPT ![v] = "updateVolume"]
        /\ UNCHANGED drives
     \/ /\ DriveFinalizer(v) \in got[v].finalizers
        /\ drives[VolumeDrive[v]].ver = got[v].ver
        /\ drives' = [drives EXCEPT ![VolumeDrive[v]] = ReleasedDrive(got[v], v)]
        /\ vpc' = [vpc EXCEPT ![v] = "updateVolume"]
     \/ /\ DriveFinalizer(v) \in got[v].finalizers
        /\ drives[VolumeDrive[v]].ver # got[v].ver
        /\ UNCHANGED <<drives, vpc>>
  /\ UNCHANGED <<volume, hostPath, obj, got, failures, published>>

ReleaseUpdateDrive(v) ==
  /\ vpc[v] = "updateDrive"
  /\ \/ /\ DriveFinalizer(v) \notin got[v].finalizers
        /\ vpc' = [vpc EXCEPT ![v] = "updateVolume"]
        /\ UNCHANGED drives
     \/ /\ DriveFinalizer(v) \in got[v].finalizers
        /\ drives[VolumeDrive[v]].ver = got[v].ver
        /\ drives' = [drives EXCEPT ![VolumeDrive[v]] = ReleasedDrive(got[v], v)]
        /\ vpc' = [vpc EXCEPT ![v] = "updateVolume"]
     \/ /\ DriveFinalizer(v) \in got[v].finalizers
        /\ drives[VolumeDrive[v]].ver # got[v].ver
        /\ vpc' = [vpc EXCEPT ![v] = "idle"]
        /\ UNCHANGED drives
  /\ UNCHANGED <<volume, hostPath, obj, got, failures, published>>

(* remove: drop the purge-protection finalizer from the event's volume     *)
(* object and Update it; with the deletion timestamp set and no finalizer *)
(* left the store deletes the record.  A conflict returns the error.       *)
UpdateVolume(v) ==
  /\ vpc[v] = "updateVolume"
  /\ \/ /\ volume[v].ver = obj[v].ver
        /\ LET finalizers == ExcludeFinalizer(obj[v].finalizers, PurgeProtection)
           IN volume' = [volume EXCEPT ![v] = [obj[v] EXCEPT
                           !.ver = obj[v].ver + 1,
                           !.finalizers = finalizers,
                           !.exists = ~(obj[v].deleting /\ finalizers = {})]]
     \/ /\ volume[v].ver # obj[v].ver
        /\ UNCHANGED volume
  /\ vpc' = [vpc EXCEPT ![v] = "idle"]
  /\ UNCHANGED <<drives, hostPath, obj, got, failures, published>>

(* A Get or Update fails for another reason, or the agent restarts: the    *)
(* run ends with an error wherever it was.                                 *)
Abort(v) ==
  /\ vpc[v] # "idle"
  /\ failures < MaxFailures
  /\ vpc' = [vpc EXCEPT ![v] = "idle"]
  /\ failures' = failures + 1
  /\ UNCHANGED <<drives, volume, hostPath, obj, got, published>>

-----------------------------------------------------------------------------
(* The environment: the user deletes a volume, the node server publishes  *)
(* and unpublishes it.  A volume whose deletion was requested is no longer *)
(* published by the node server.                                           *)
RequestDelete(v) ==
  /\ volume[v].exists /\ ~volume[v].deleting
  /\ volume' = [volume EXCEPT ![v].deleting = TRUE, ![v].ver = @ + 1]
  /\ UNCHANGED <<drives, hostPath, vpc, obj, got, failures, published>>

Publish(v) ==
  /\ volume[v].exists /\ ~volume[v].deleting /\ ~volume[v].published
  /\ published < MaxPublish
  /\ volume' = [volume EXCEPT ![v].published = TRUE, ![v].ver = @ + 1]
  /\ published' = published + 1
  /\ UNCHANGED <<drives, hostPath, vpc, obj, got, failures>>

Unpublish(v) ==
  /\ volume[v].exists /\ volume[v].published
  /\ volume' = [volume EXCEPT ![v].published = FALSE, ![v].ver = @ + 1]
  /\ UNCHANGED <<drives, hostPath, vpc, obj, got, failures, published>>

Next ==
  \E v \in Volumes :
    \/ Remove(v) \/ ReleaseGetDrive(v) \/ ReleaseUpdateDrive(v)
    \/ UpdateVolume(v) \/ Abort(v)
    \/ RequestDelete(v) \/ Publish(v) \/ Unpublish(v)

(* The work queue hands an errored key out again, so every step of the     *)
(* controller that stays enabled is eventually taken.                      *)
Fairness ==
  \A v \in Volumes :
    /\ WF_vars(Remove(v)) /\ WF_vars(ReleaseGetDrive(v))
    /\ WF_vars(ReleaseUpdateDrive(v)) /\ WF_vars(UpdateVolume(v))

Spec == Init /\ [][Next]_vars /\ Fairness

-----------------------------------------------------------------------------
TypeOK ==
  /\ drives \in [Drives -> DriveRecord]
  /\ volume \in [Volumes -> VolumeRecord]
  /\ hostPath \in [Volumes -> BOOLEAN]
  /\ vpc \in [Volumes -> {"idle", "release", "updateDrive", "updateVolume"}]
  /\ obj \in [Volumes -> VolumeRecord]
  /\ got \in [Volumes -> DriveRecord]
  /\ failures \in 0..MaxFailures
  /\ published \in 0..MaxPublish

(* Capacity bookkeeping of releaseVolume under concurrent releases of     *)
(* volumes on the same drive and retried runs: the drive's free capacity   *)
(* plus the capacity of every volume whose finalizer it still carries is   *)
(* its total, and allocated = total - free.  A lost update (two releases   *)
(* from the same Get) or a second release of the same volume after a run  *)
(* that stopped between the drive and the volume Update breaks it.         *)
CapacityConservation ==
  \A id \in Drives :
    LET d == drives[id] IN
    /\ d.free + SumFunctionOnSet(Capacity, Holders(d)) = d.total
    /\ d.alloc = d.total - d.free

(* remove() releases the drive before it drops the volume's purge          *)
(* finalizer: a drive never keeps the finalizer of a volume record that is *)
(* gone (such a finalizer would block the drive's deletion forever).       *)
NoOrphanDriveFinalizer ==
  \A v \in Volumes, id \in Drives :
    DriveFinalizer(v) \in drives[id].finalizers => volume[v].exists

(* Every volume whose deletion is requested and that is not published is   *)
(* eventually torn down: its record is gone and the drive no longer holds  *)
(* its finalizer, whatever runs stop half-way and are retried.             *)
VolumeEventuallyReleased ==
  \A v \in Volumes :
    (volume[v].deleting /\ ~volume[v].published)
      ~> (~volume[v].exists /\ DriveFinalizer(v) \notin drives[VolumeDrive[v]].finalizers)

(* The controller implements the atomic release of VolumeRelease: the      *)
(* drive record's finalizers and free capacity are the abstract held and  *)
(* free, the volume record is the abstract state.  Every step of remove() *)
(* is a step of the abstract spec or leaves the mapped state alone, and    *)
(* the fairness of the work queue gives the abstract one.  This is about   *)
(* the order of releaseVolume and the volume Update in remove(), the       *)
(* "found" guard, and the conflict handling of both Updates.               *)
Abstract ==
  INSTANCE VolumeRelease WITH
    held <- {v \in Volumes : DriveFinalizer(v) \in drives[VolumeDrive[v]].finalizers},
    free <- [id \in Drives |-> drives[id].free],
    state <- [v \in Volumes |-> IF ~volume[v].exists THEN "gone"
                                 ELSE IF volume[v].deleting THEN "deleting" ELSE "live"],
    pub <- [v \in Volumes |-> volume[v].published]

VolumeReleaseRefinement == Abstract!ASpec

=============================================================================
