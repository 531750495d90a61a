--------------------------- MODULE VolumeLabelSync ---------------------------
(***************************************************************************)
(* The two writers of a volume's drive-path label (spec section 4.6):     *)
(*  - the tail of driveEventHandler.update() in pkg/node/uevent.go: after *)
(*    the drive's Update, when its path (and so its path label) changed,  *)
(*    one goroutine per volume finalizer of the drive rewrites that        *)
(*    volume's label under retry.RetryOnConflict, with the name the drive *)
(*    was given captured when the goroutine starts;                        *)
(*  - SyncVolumes in pkg/volume/volume.go: one pass over the listed        *)
(*    volumes of this node, each relabelled under RetryOnConflict from a   *)
(*    fresh read of its drive (getLabels).                                 *)
(* With Blocking, the rename's label writes are those of syncVolumeLabels  *)
(* (src/unnamed/part_001): the same updateLabels, called for one volume   *)
(* after another by the handler itself, which returns on the first error. *)
(* One drive; its name stands for SanitizeDrivePath of its path and for   *)
(* filepath.Base of it (both give the device name).  Every write of a      *)
(* volume is a conditional Update on its resourceVersion.                  *)
(***************************************************************************)
EXTENDS Naturals, FiniteSets

CONSTANTS
  Volumes,        \* the volume records in the store
  Names,          \* the device names the drive can be found under
  NodeID,         \* this node
  VolumeNode,     \* VolumeNode[v]: Status.NodeName of volume v
  Steps,          \* retry.DefaultRetry.Steps: attempts RetryOnConflict makes
  Blocking,       \* the label writes are syncVolumeLabels' loop, not goroutines
  MaxRenames,     \* bound on renames the reconciler sees
  MaxTouches      \* bound on writes of a volume by other writers

NoDrive == "."    \* filepath.Base("") : the label of a volume its drive does not hold

Labels == Names \cup {NoDrive}

\* The label goroutines: the r-th rename's goroutine for volume v.
Goroutines == (1..MaxRenames) \X Volumes

VARIABLES
  drive,      \* [name, holds]: the drive's name and the volumes whose finalizer it has
  vol,        \* vol[v]: [exists, ver, label] of the volume record v
  renames,    \* number of renames so far
  captured,   \* captured[r]: the name the r-th rename's goroutines write
  gpc,        \* gpc[g]: "none", "queued", "get", "update", "done", "failed", "skipped"
  gver,       \* gver[g]: the resourceVersion the goroutine's Get read
  gatt,       \* gatt[g]: attempts RetryOnConflict has made
  spc,        \* SyncVolumes: "idle", "next", "get", "labels", "update", "done"
  todo,       \* the listed volumes of this node SyncVolumes has still to do
  cur,        \* the volume SyncVolumes is at
  sver,       \* the resourceVersion SyncVolumes' Get read
  slabel,     \* the label getLabels computed
  satt,       \* attempts of SyncVolumes' RetryOnConflict for cur
  touches     \* writes by other writers so far

vars == <<drive, vol, renames, captured, gpc, gver, gatt,
          spc, todo, cur, sver, slabel, satt, touches>>

Init ==
  /\ drive \in [name : Names, holds : {{v \in Volumes : VolumeNode[v] = NodeID}}]
  /\ vol = [v \in Volumes |-> [exists |-> TRUE, ver |-> 1, label |-> drive.name]]
  /\ renames = 0
  /\ captured = [r \in 1..MaxRenames |-> drive.name]
  /\ gpc = [g \in Goroutines |-> "none"]
  /\ gver = [g \in Goroutines |-> 0]
  /\ gatt = [g \in Goroutines |-> 0]
  /\ spc = "idle"
  /\ todo = {}
  /\ cur = CHOOSE v \in Volumes : TRUE
  /\ sver = 0
  /\ slabel = NoDrive
  /\ satt = 0
  /\ touches = 0

syncVars == <<spc, todo, cur, sver, slabel, satt>>
labelVars == <<renames, captured, gpc, gver, gatt>>

-----------------------------------------------------------------------------
(* update() found the device under a new name: the drive's Update wrote   *)
(* the new path and path label (lines 115-123, 266-276), and since         *)
(* nameChanged it starts one goroutine per finalizer with the volume       *)
(* prefix (lines 278-318).  The goroutines are not waited for.             *)
Rename(n) ==
  /\ renames < MaxRenames
  /\ n # drive.name
  /\ Blocking => \A g \in Goroutines : gpc[g] \notin {"queued", "get", "update"}
  /\ LET r == renames + 1 IN
     /\ drive' = [drive EXCEPT !.name = n]
     /\ renames' = r
     /\ captured' = [captured EXCEPT ![r] = n]
     /\ gpc' = [g \in Goroutines |->
                  IF g[1] = r /\ g[2] \in drive.holds
                  THEN IF Blocking THEN "queued" ELSE "get"
                  ELSE gpc[g]]
  /\ UNCHANGED <<vol, gver, gatt, syncVars, touches>>

(* syncVolumeLabels' loop (part_001 lines 152-166) moves to the next      *)
(* finalizer once updateLabels of the last one returned nil.               *)
NextVolume(g) ==
  /\ gpc[g] = "queued"
  /\ \A h \in Goroutines : h[1] = g[1] => gpc[h] \notin {"get", "update"}
  /\ gpc' = [gpc EXCEPT ![g] = "get"]
  /\ UNCHANGED <<drive, vol, renames, captured, gver, gatt, syncVars, touches>>

(* RetryOnConflict returned an error: the goroutine logs it; the loop of   *)
(* syncVolumeLabels logs it and returns, leaving the rest of its list.     *)
LabelFailed(g) ==
  [h \in Goroutines |->
     IF h = g THEN "failed"
     ELSE IF Blocking /\ h[1] = g[1] /\ gpc[h] = "queued" THEN "skipped"
     ELSE gpc[h]]

(* updateLabels, first half: Get the volume.  A volume that is gone ends   *)
(* RetryOnConflict with the (non-conflict) error, which is logged.         *)
LabelGet(g) ==
  /\ gpc[g] = "get"
  /\ IF vol[g[2]].exists
     THEN /\ gver' = [gver EXCEPT ![g] = vol[g[2]].ver]
          /\ gpc' = [gpc EXCEPT ![g] = "update"]
     ELSE /\ gpc' = LabelFailed(g)
          /\ UNCHANGED gver
  /\ UNCHANGED <<drive, vol, renames, captured, gatt, syncVars, touches>>

(* updateLabels, second half: set the label to the captured name and       *)
(* Update.  A conflict makes RetryOnConflict call updateLabels again, with *)
(* the same captured name, until DefaultRetry's steps are used up; any     *)
(* other error (the volume is gone) ends it.                               *)
LabelUpdate(g) ==
  /\ gpc[g] = "update"
  /\ LET v == g[2] IN
     \/ /\ vol[v].exists /\ vol[v].ver = gver[g]
        /\ vol' = [vol EXCEPT ![v].ver = @ + 1, ![v].label = captured[g[1]]]
        /\ gpc' = [gpc EXCEPT ![g] = "done"]
        /\ UNCHANGED gatt
     \/ /\ vol[v].exists /\ vol[v].ver # gver[g]
        /\ gatt' = [gatt EXCEPT ![g] = @ + 1]
        /\ gpc' = IF gatt[g] + 1 < Steps THEN [gpc EXCEPT ![g] = "get"]
                  ELSE LabelFailed(g)
        /\ UNCHANGED vol
     \/ /\ ~vol[v].exists
        /\ gpc' = LabelFailed(g)
        /\ UNCHANGED <<vol, gatt>>
  /\ UNCHANGED <<drive, renames, captured, gver, syncVars, touches>>

-----------------------------------------------------------------------------
(* SyncVolumes: List the volumes (a List error returns at once) and keep   *)
(* those of this node.                                                     *)
SyncList ==
  /\ spc = "idle"
  /\ todo' = {v \in Volumes : vol[v].exists /\ VolumeNode[v] = NodeID}
  /\ spc' = "next"
  /\ UNCHANGED <<drive, vol, labelVars, cur, sver, slabel, satt, touches>>

(* The loop over the listed volumes, in the store's order.                  *)
SyncNext ==
  /\ spc = "next"
  /\ \/ \E v \in todo :
          /\ cur' = v
          /\ todo' = todo \ {v}
          /\ satt' = 0
          /\ spc' = "get"
     \/ /\ todo = {}
        /\ spc' = "done"
        /\ UNCHANGED <<todo, cur, satt>>
  /\ UNCHANGED <<drive, vol, labelVars, sver, slabel, touches>>

(* updateLabels: Get the volume again; an error is logged and the loop      *)
(* goes on.                                                                 *)
SyncGet ==
  /\ spc = "get"
  /\ IF vol[cur].exists
     THEN /\ sver' = vol[cur].ver
          /\ spc' = "labels"
     ELSE /\ spc' = "next"
          /\ UNCHANGED sver
  /\ UNCHANGED <<drive, vol, labelVars, todo, cur, slabel, satt, touches>>

(* getLabels: Get the volume's drive; its path is the label only while the *)
(* drive holds the volume's finalizer, otherwise the label is Base("").    *)
GetLabels(v) == IF v \in drive.holds THEN drive.name ELSE NoDrive

SyncGetLabels ==
  /\ spc = "labels"
  /\ slabel' = GetLabels(cur)
  /\ spc' = "update"
  /\ UNCHANGED <<drive, vol, labelVars, todo, cur, sver, satt, touches>>

(* updateLabels: SetLabels and Update, under RetryOnConflict.              *)
SyncUpdate ==
  /\ spc = "update"
  /\ \/ /\ vol[cur].exists /\ vol[cur].ver = sver
        /\ vol' = [vol EXCEPT ![cur].ver = @ + 1, ![cur].label = slabel]
        /\ spc' = "next"
        /\ UNCHANGED satt
     \/ /\ vol[cur].exists /\ vol[cur].ver # sver
        /\ satt' = satt + 1
        /\ spc' = IF satt + 1 < Steps THEN "get" ELSE "next"
        /\ UNCHANGED vol
     \/ /\ ~vol[cur].exists
        /\ spc' = "next"
        /\ UNCHANGED <<vol, satt>>
  /\ UNCHANGED <<drive, labelVars, todo, cur, sver, slabel, touches>>

-----------------------------------------------------------------------------
(* The environment: another writer updates a volume (publish, status);     *)
(* the volume controller's teardown releases the drive's finalizer and     *)
(* then the volume record goes.                                            *)
Touch(v) ==
  /\ vol[v].exists /\ touches < MaxTouches
  /\ vol' = [vol EXCEPT ![v].ver = @ + 1]
  /\ touches' = touches + 1
  /\ UNCHANGED <<drive, labelVars, syncVars>>

ReleaseDrive(v) ==
  /\ v \in drive.holds
  /\ drive' = [drive EXCEPT !.holds = @ \ {v}]
  /\ UNCHANGED <<vol, labelVars, syncVars, touches>>

DeleteVolume(v) ==
  /\ vol[v].exists /\ v \notin drive.holds
  /\ vol' = [vol EXCEPT ![v].exists = FALSE, ![v].ver = @ + 1]
  /\ UNCHANGED <<drive, labelVars, syncVars, touches>>

Next ==
  \/ \E n \in Names : Rename(n)
  \/ \E g \in Goroutines : NextVolume(g) \/ LabelGet(g) \/ LabelUpdate(g)
  \/ SyncList \/ SyncNext \/ SyncGet \/ SyncGetLabels \/ SyncUpdate
  \/ \E v \in Volumes : Touch(v) \/ ReleaseDrive(v) \/ DeleteVolume(v)

Spec == Init /\ [][Next]_vars

-----------------------------------------------------------------------------
TypeOK ==
  /\ drive \in [name : Names, holds : SUBSET Volumes]
  /\ vol \in [Volumes -> [exists : BOOLEAN, ver : Nat, label : Labels]]
  /\ renames \in 0..MaxRenames
  /\ captured \in [1..MaxRenames -> Names]
  /\ gpc \in [Goroutines -> {"none", "queued", "get", "update", "done", "failed", "skipped"}]
  /\ gatt \in [Goroutines -> 0..Steps]
  /\ spc \in {"idle", "next", "get", "labels", "update", "done"}
  /\ todo \subseteq Volumes /\ cur \in Volumes
  /\ slabel \in Labels /\ satt \in 0..Steps
  /\ touches \in 0..MaxTouches

(* No label write is in flight: every label goroutine has ended and        *)
(* SyncVolumes is not half-way.                                            *)
Quiescent ==
  /\ \A g \in Goroutines : gpc[g] \notin {"queued", "get", "update"}
  /\ spc \in {"idle", "done"}

(* Spec section 4.6: every volume finalizer of a drive names a volume whose *)
(* drive-path label is the drive's current one, once the writers of the    *)
(* label are done.  This is about the label goroutines of update() (their  *)
(* captured name, their order, their retries), syncVolumeLabels' return  *)
(* on the first error, and SyncVolumes' getLabels,                        *)
(* racing each other, renames, and other writers of the volume.            *)
QuiescentLabelsMatch ==
  Quiescent => \A v \in drive.holds : vol[v].label = drive.name

=============================================================================
