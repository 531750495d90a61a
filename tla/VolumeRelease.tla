--------------------------- MODULE VolumeRelease ---------------------------
(***************************************************************************)
(* What the volume controller promises (spec section 4.6, teardown path), *)
(* with every release one atomic step: a volume whose deletion was        *)
(* requested and that is not published gives its capacity and its         *)
(* finalizer back to its drive in one step, and its record goes only      *)
(* after that.  Publishing is the node server's; it never publishes a     *)
(* volume being deleted.                                                   *)
(***************************************************************************)
EXTENDS DirectCSI

VARIABLES
  held,    \* the volumes whose finalizer (and capacity) their drive holds
  free,    \* free[id]: the free capacity of drive id
  state,   \* state[v]: "live", "deleting" or "gone"
  pub      \* pub[v]: volume v is published

avars == <<held, free, state, pub>>

AInit ==
  /\ held = {v \in Volumes : DriveFinalizer(v) \in InitialDrives[VolumeDrive[v]].finalizers}
  /\ free = [id \in Drives |-> InitialDrives[id].free]
  /\ state = [v \in Volumes |-> "live"]
  /\ pub \in [Volumes -> BOOLEAN]

ARequestDelete(v) ==
  /\ state[v] = "live"
  /\ state' = [state EXCEPT ![v] = "deleting"]
  /\ UNCHANGED <<held, free, pub>>

APublish(v) ==
  /\ state[v] = "live" /\ ~pub[v]
  /\ pub' = [pub EXCEPT ![v] = TRUE]
  /\ UNCHANGED <<held, free, state>>

AUnpublish(v) ==
  /\ state[v] # "gone" /\ pub[v]
  /\ pub' = [pub EXCEPT ![v] = FALSE]
  /\ UNCHANGED <<held, free, state>>

(* The drive takes the volume back: finalizer and capacity in one step.    *)
ARelease(v) ==
  /\ state[v] = "deleting" /\ ~pub[v]
  /\ v \in held
  /\ held' = held \ {v}
  /\ free' = [free EXCEPT ![VolumeDrive[v]] = @ + Capacity[v]]
  /\ UNCHANGED <<state, pub>>

(* The volume record goes once its drive no longer holds it.               *)
AForget(v) ==
  /\ state[v] = "deleting" /\ ~pub[v]
  /\ v \notin held
  /\ state' = [state EXCEPT ![v] = "gone"]
  /\ UNCHANGED <<held, free, pub>>

ANext ==
  \E v \in Volumes :
    \/ ARequestDelete(v) \/ APublish(v) \/ AUnpublish(v)
    \/ ARelease(v) \/ AForget(v)

ASpec ==
  /\ AInit /\ [][ANext]_avars
  /\ \A v \in Volumes : WF_avars(ARelease(v)) /\ WF_avars(AForget(v))

=============================================================================
