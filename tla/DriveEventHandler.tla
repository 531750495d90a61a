-------------------------- MODULE DriveEventHandler --------------------------
(***************************************************************************)
(* The drive reconciler of pkg/node/uevent.go: driveEventHandler.Handle    *)
(* and its add/update/remove paths, fed by the listener's event queue and  *)
(* its pool of workers.  The kernel changes, unplugs and replugs devices   *)
(* and emits one uevent per change.  A worker pops an event, builds the    *)
(* device snapshot (createDevice), lists the node's drives carrying the    *)
(* device's name label, asks the matcher for the drive the device is, and  *)
(* then creates a new drive record or writes the reconciled one with a     *)
(* conditional Update.  An error return ends the event: nothing in the     *)
(* handler or the listener retries it.                                     *)
(***************************************************************************)
EXTENDS DirectCSI, Sequences

CONSTANTS
  Workers,            \* the listener's worker pool
  FindMatchingDrive(_, _, _, _),
                      \* FindMatchingDrive(drives, candidates, device, p):
                      \* the candidates the matcher says device p is
  AllowRename,        \* a replugged device may come back under a new name
  MaxEvents           \* bound on the uevents the kernel emits

ASSUME MaxEvents \in Nat /\ AllowRename \in BOOLEAN

VARIABLES
  drives,     \* drives[id]: the DirectCSIDrive record id in the store
  device,     \* device[p]: the kernel's current view of physical device p
  present,    \* present[p]: device p is plugged in
  queue,      \* the listener's FIFO of uevents not yet handed to a worker
  sent,       \* number of uevents emitted so far
  wpc,        \* wpc[w]: where worker w is in Handle
  ev,         \* ev[w]: the event worker w handles
  snap,       \* snap[w]: the device createDevice built for it
  target,     \* target[w]: the matched drive
  read        \* read[w]: that drive as GetDriveList returned it

hvars == <<drives, wpc, ev, snap, target, read>>
kvars == <<device, present, queue, sent>>
vars == <<drives, device, present, queue, sent, wpc, ev, snap, target, read>>

Actions == {"add", "change", "remove"}
Event == [action: Actions, dev: Devices, name: Names]

Init ==
  /\ drives = InitialDrives
  /\ device = InitialDevice
  /\ present = [p \in Devices |-> TRUE]
  /\ queue = <<>>
  /\ sent = 0
  /\ wpc = [w \in Workers |-> "idle"]
  /\ ev = [w \in Workers |-> CHOOSE e \in Event : TRUE]
  /\ snap = [w \in Workers |-> InitialDevice[ev[w].dev]]
  /\ target = [w \in Workers |-> CHOOSE id \in Drives : TRUE]
  /\ read = [w \in Workers |-> drives[target[w]]]

-----------------------------------------------------------------------------
(* update(), capacity: on a resize allocated is clamped to the new total  *)
(* and free follows it; otherwise both stay.                               *)
ClampedAllocated(d, dv) ==
  IF d.total # dv.size /\ d.alloc > dv.size THEN dv.size ELSE d.alloc

(* update(), mount point: an InUse/Ready/Terminating drive takes a new     *)
(* mount point only when the filesystem uuid is unchanged and the device   *)
(* is mounted at the managed path of that uuid; other drives take the      *)
(* device's, mounted or not.                                               *)
SyncedMountOnlyWhenMounted(d, dv) ==
  IF dv.mount # NoMount /\ d.mount # dv.mount
     /\ (d.status \in ActiveStatuses =>
            d.fsuuid = dv.fsuuid /\ dv.mount = Managed(dv.fsuuid))
  THEN dv.mount ELSE d.mount

SyncedMount(d, dv) ==
  IF d.status \in ActiveStatuses
  THEN IF /\ d.fsuuid = dv.fsuuid
          /\ dv.mount # NoMount /\ d.mount # dv.mount
          /\ dv.mount = Managed(dv.fsuuid)
       THEN dv.mount ELSE d.mount
  ELSE dv.mount

(* update(), status: NewDriveStatus(device) replaces the status of a      *)
(* drive that is not active; an active drive keeps its status.             *)
SyncedStatus(d, dv) ==
  IF d.status \in ActiveStatuses THEN d.status ELSE NewDriveStatus(dv)

(* Mutant of UpdatedDrive: a resize sets the new total (and clamps the     *)
(* allocation) but leaves FreeCapacity as it was.                          *)
UpdatedDriveKeepingFree(d, dv) ==
  [d EXCEPT !.total = dv.size, !.alloc = ClampedAllocated(d, dv),
            !.path = dv.name, !.fsuuid = dv.fsuuid, !.readOnly = dv.readOnly,
            !.mount = SyncedMount(d, dv), !.status = SyncedStatus(d, dv)]

(* update(): the field-by-field diff of the drive against the device.     *)
(* Path (and the drive label) follow the device name; filesystem uuid and  *)
(* read-only flag follow the device.  The record differs from the one read *)
(* exactly when update() sets its updated flag.                            *)
UpdatedDrive(d, dv) ==
  LET alloc == ClampedAllocated(d, dv)
      resized == d.total # dv.size
  IN [d EXCEPT !.total = dv.size, !.alloc = alloc,
               !.free = IF resized THEN dv.size - alloc ELSE d.free,
               !.path = dv.name, !.fsuuid = dv.fsuuid, !.readOnly = dv.readOnly,
               !.mount = SyncedMount(d, dv), !.status = SyncedStatus(d, dv)]

(* GetDriveList(node, label = device.Name): the records of the node whose *)
(* drive label is the device's current name.                               *)
ListedDrives(dv) == {id \in Drives : drives[id].exists /\ drives[id].path = dv.name}

-----------------------------------------------------------------------------
(* A free worker takes the oldest event from the queue.                    *)
Pop(w) ==
  /\ wpc[w] = "idle"
  /\ queue # <<>>
  /\ ev' = [ev EXCEPT ![w] = Head(queue)]
  /\ queue' = Tail(queue)
  /\ wpc' = [wpc EXCEPT ![w] = "createDevice"]
  /\ UNCHANGED <<drives, device, present, sent, snap, target, read>>

(* createDevice(event): add and change events read the device's current   *)
(* state and fail (Handle returns nil) when it is gone; a remove event is  *)
(* built from the event's own fields.                                      *)
CreateDevice(w) ==
  /\ wpc[w] = "createDevice"
  /\ \/ /\ ev[w].action = "remove"
        /\ snap' = [snap EXCEPT ![w] = [device[ev[w].dev] EXCEPT !.name = ev[w].name]]
        /\ wpc' = [wpc EXCEPT ![w] = "list"]
     \/ /\ ev[w].action # "remove"
        /\ present[ev[w].dev]
        /\ snap' = [snap EXCEPT ![w] = device[ev[w].dev]]
        /\ wpc' = [wpc EXCEPT ![w] = "list"]
     \/ /\ ev[w].action # "remove"
        /\ ~present[ev[w].dev]
        /\ wpc' = [wpc EXCEPT ![w] = "idle"]
        /\ UNCHANGED snap
  /\ UNCHANGED <<drives, device, present, queue, sent, ev, target, read>>

(* Handle: list the drives, match, and dispatch.  No match: a remove event *)
(* is ignored, any other goes to add().  One match: remove() does nothing, *)
(* update() returns when nothing differs.  More than one: an error.        *)
ListAndMatch(w) ==
  /\ wpc[w] = "list"
  /\ LET m == FindMatchingDrive(drives, ListedDrives(snap[w]), snap[w], ev[w].dev)
     IN \/ /\ m = {}
           /\ wpc' = [wpc EXCEPT ![w] = IF ev[w].action = "remove" THEN "idle" ELSE "add"]
           /\ UNCHANGED <<target, read>>
        \/ \E id \in m :
           /\ m = {id}
           /\ target' = [target EXCEPT ![w] = id]
           /\ read' = [read EXCEPT ![w] = drives[id]]
           /\ wpc' = [wpc EXCEPT ![w] =
                        IF ev[w].action = "remove"
                           \/ UpdatedDrive(drives[id], snap[w]) = drives[id]
                        THEN "idle" ELSE "update"]
        \/ /\ Cardinality(m) > 1
           /\ wpc' = [wpc EXCEPT ![w] = "idle"]
           /\ UNCHANGED <<target, read>>
  /\ UNCHANGED <<drives, device, present, queue, sent, ev, snap>>

(* add(): CreateDrive under a fresh uuid, status from the device.          *)
Add(w) ==
  /\ wpc[w] = "add"
  /\ \E id \in Drives :
       /\ ~drives[id].exists
       /\ drives' = [drives EXCEPT ![id] = NewDrive(snap[w], ev[w].dev)]
  /\ wpc' = [wpc EXCEPT ![w] = "idle"]
  /\ UNCHANGED <<device, present, queue, sent, ev, snap, target, read>>

(* Fault injection: an Update that overwrites whatever the store holds.    *)
UpdateBlind(w) ==
  /\ wpc[w] = "update"
  /\ drives' = [drives EXCEPT ![target[w]] =
                  [UpdatedDrive(read[w], snap[w]) EXCEPT !.ver = drives[target[w]].ver + 1]]
  /\ wpc' = [wpc EXCEPT ![w] = "idle"]
  /\ UNCHANGED <<device, present, queue, sent, ev, snap, target, read>>

(* update(): Update the reconciled record; the store rejects it when the  *)
(* drive changed since the list.  The error ends the event.                *)
Update(w) ==
  /\ wpc[w] = "update"
  /\ \/ /\ drives[target[w]].ver = read[w].ver
        /\ drives' = [drives EXCEPT ![target[w]] =
                        [UpdatedDrive(read[w], snap[w]) EXCEPT !.ver = read[w].ver + 1]]
     \/ /\ drives[target[w]].ver # read[w].ver
        /\ UNCHANGED drives
  /\ wpc' = [wpc EXCEPT ![w] = "idle"]
  /\ UNCHANGED <<device, present, queue, sent, ev, snap, target, read>>

-----------------------------------------------------------------------------
(* The kernel.  A change event reports one property of the device changed *)
(* (a resize, a mount, a format, the read-only flag) or none (a udevadm    *)
(* trigger); several changes are several events, and a change keeps the   *)
(* name.  An unplug emits a remove event carrying the name; a replug       *)
(* comes back under the same name or, when AllowRename, any name no        *)
(* plugged device has.                                                     *)
Emit(e) ==
  /\ sent < MaxEvents
  /\ queue' = Append(queue, e)
  /\ sent' = sent + 1

ChangeDevice(p, dv) ==
  /\ present[p]
  /\ dv.name = device[p].name
  /\ Cardinality({f \in {"size", "fsuuid", "mount", "readOnly"} : dv[f] # device[p][f]}) <= 1
  /\ device' = [device EXCEPT ![p] = dv]
  /\ Emit([action |-> "change", dev |-> p, name |-> dv.name])
  /\ UNCHANGED <<present>> /\ UNCHANGED hvars

Unplug(p) ==
  /\ present[p]
  /\ present' = [present EXCEPT ![p] = FALSE]
  /\ Emit([action |-> "remove", dev |-> p, name |-> device[p].name])
  /\ UNCHANGED <<device>> /\ UNCHANGED hvars

Replug(p, n) ==
  /\ ~present[p]
  /\ n = device[p].name \/ AllowRename
  /\ \A q \in Devices : present[q] => device[q].name # n
  /\ present' = [present EXCEPT ![p] = TRUE]
  /\ device' = [device EXCEPT ![p].name = n]
  /\ Emit([action |-> "add", dev |-> p, name |-> n])
  /\ UNCHANGED hvars

Next ==
  \/ \E w \in Workers :
       Pop(w) \/ CreateDevice(w) \/ ListAndMatch(w) \/ Add(w) \/ Update(w)
  \/ \E p \in Devices :
       \/ \E dv \in Device : ChangeDevice(p, dv)
       \/ Unplug(p)
       \/ \E n \in Names : Replug(p, n)

(* Every worker keeps popping and finishing events: the pool's goroutines  *)
(* loop for the life of the agent.                                         *)
Fairness ==
  \A w \in Workers :
    WF_vars(Pop(w) \/ CreateDevice(w) \/ ListAndMatch(w) \/ Add(w) \/ Update(w))

Spec == Init /\ [][Next]_vars /\ Fairness

-----------------------------------------------------------------------------
TypeOK ==
  /\ drives \in [Drives -> DriveRecord]
  /\ device \in [Devices -> Device]
  /\ present \in [Devices -> BOOLEAN]
  /\ queue \in Seq(Event) /\ Len(queue) <= MaxEvents
  /\ sent \in 0..MaxEvents
  /\ wpc \in [Workers -> {"idle", "createDevice", "list", "add", "update"}]
  /\ ev \in [Workers -> Event]
  /\ snap \in [Workers -> Device]
  /\ target \in [Workers -> Drives]
  /\ read \in [Workers -> DriveRecord]

(* Matching exists so that a device is registered once: whatever the      *)
(* kernel does (changes, triggers, unplug and replug) and however the      *)
(* workers interleave, no physical device ever has two drive records.  A   *)
(* second record doubles the device's capacity for the scheduler.          *)
OneDrivePerDevice ==
  \A p \in Devices :
    Cardinality({id \in Drives : drives[id].exists /\ drives[id].dev = p}) <= 1

(* A drive's capacity stays within bounds through any sequence of resizes *)
(* seen by update() and any interleaving of conditional writes:            *)
(* 0 <= allocated <= total and free = total - allocated.                   *)
CapacityBounds ==
  \A id \in Drives :
    drives[id].exists =>
      /\ 0 <= drives[id].alloc /\ drives[id].alloc <= drives[id].total
      /\ drives[id].free = drives[id].total - drives[id].alloc

(* Once every event is handled, the store agrees with the kernel: the      *)
(* drive of each plugged device has its name, size, filesystem uuid and    *)
(* read-only flag, and a drive that is not in use has its mount point and  *)
(* the status NewDriveStatus gives the device.  The handler acts on the   *)
(* last event of a device last, so the last write wins with the device's  *)
(* latest state.                                                           *)
Reflects(d, dv) ==
  /\ d.path = dv.name /\ d.total = dv.size
  /\ d.fsuuid = dv.fsuuid /\ d.readOnly = dv.readOnly
  /\ d.status \notin ActiveStatuses =>
       d.mount = dv.mount /\ d.status = NewDriveStatus(dv)

QuiescentDriveReflectsDevice ==
  (queue = <<>> /\ \A w \in Workers : wpc[w] = "idle") =>
    \A p \in Devices, id \in Drives :
      (present[p] /\ drives[id].exists /\ drives[id].dev = p)
        => Reflects(drives[id], device[p])

=============================================================================
