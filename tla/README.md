# TLA+ models of the DirectPV node agent

This directory holds TLA+ models of the device-discovery and reconciliation core
of DirectPV (`src/`). The modules are checked with TLC. `PROJECT.json` records
three things:
- which module models which source lines;
- which runs check what;
- the mutants that show each checked property can be broken by a plausible bug.

## 1. The system

The node agent has two writers of the shared `DirectCSIDrive` records. Both go
through the cluster store's conditional `Update`: a write succeeds only if the
record's resourceVersion is still the one that was read.

| Part | Source | What it does |
|---|---|---|
| Wire decoder | `pkg/uevent/listener.go` `parse`, `parseUdevData`, `unmarshalDeviceUevent`/`parseAndLoadEventData`, `normalizeUUID` | Turns a netlink datagram into a key/value event, then into udev data or a deviceEvent, depending on the version of the file. |
| Event socket listener | `listener.go` `Run`, `getNextDeviceUEvent`, `msgPeek`/`msgRead`/`ReadMsg` | Reads datagrams and pushes decoded events onto a queue. A worker pool pops them; the queue and the workers are not in the sources. |
| Device snapshot builder | `sys.CreateDevice`, called from `pkg/node/uevent.go` `Handle` | Builds a `sys.Device` from the event, or from the live udev data. |
| Identity matcher | `node/uevent.go` `findMatchingDrive`; `pkg/uevent/match.go` | Decides which drive record a device is. The handler calls a stub that never matches. `match.go` holds three drafts of the matcher algorithm. |
| Drive reconciler | `node/uevent.go` `Handle`, `add`, `update`, `remove` | Creates a drive for an unmatched device, or diffs the matched drive against the device and writes it. |
| Cross-reference synchronizer | `node/uevent.go` 278-318; `unnamed/part_001` `syncVolumeLabels` | After a rename, rewrites each volume's drive-path label with RetryOnConflict, in fire-and-forget goroutines. |
| Volume teardown controller | `pkg/volume/volume.go` | For a volume marked for deletion and not published, it does three things in order: removes the volume's directory, releases the volume from its drive (finalizer, capacity, Ready status), then drops the volume's purge finalizer. |
| Startup sync | `unnamed/part_001` `syncDriveStates` | Reconciles drives with the devices probed at start. |

The parts interact in two ways:
- **Within the reconciler.** The listener's workers run `Handle` concurrently.
  Two events of the same device may be handled at once, and each ends with a
  read-modify-write of one drive.
- **Across controllers.** The reconciler's `update()` and the volume
  controller's `releaseVolume()` write the same drive records. Each uses a
  Get/List followed by a conditional Update. A conflict ends the run with an
  error:
  - The volume controller's work queue hands the key out again.
  - The uevent handler has no retry: the event is lost.

### What is hard here

- **Interleavings of read-modify-write cycles** on one drive. These happen
  between two releases, between two uevent workers, and between a worker and a
  release.
- **Partial failure.** A release can stop between the drive Update and the
  volume Update, and is then retried.
- **Identity.** A device must end up with exactly one drive record across
  changes, unplug/replug, renames and concurrent events.
- **Capacity arithmetic** when `update()` sees a device shrink below its
  allocation.
- **Liveness.** Every deleted, unpublished volume is eventually released.
- **Label writers that race.** After a rename, fire-and-forget goroutines
  rewrite volume labels with the name captured when they start. They race each
  other, the start-up `SyncVolumes`, and other writers of the same volume.

## 2. Modules and how they correspond to the code

- **`DirectCSI`** holds the shared types and the rules both controllers use:
  - `Device` is `sys.Device`. Its `readOnly` stands for the four "unusable"
    flags.
  - `DriveRecord` is `DirectCSIDrive`. Its `dev` field is a history variable:
    the physical device the record was created for.
  - `VolumeRecord`.
  - The finalizer encoding. `prefix + volumeName` is injective, so
    `DriveFinalizer(v)` is a tagged pair.
  - `IsDirectCSIMount` and `NewDriveStatus` (the Available/Unavailable rule).
  - `NewDrive`, what `add()` creates.
  - The initial store, `InitialDrives`. A drive holding volumes is in the state
    of `listener_test.go`'s fixture.

- **`VolumeEventHandler`** models `volume.go`.
  - **State:** `drives` and `volume` (the store); `hostPath` (the volume's
    directory); and per volume key, the handler's program counter `vpc`, the
    event object `obj` and the drive `got` read by `releaseVolume`.
  - **Actions**, one per step of `remove()`:
    - `Remove`: the guards at lines 141-150, then `RemoveAll`.
    - `ReleaseGetDrive`: the Get.
    - `ReleaseUpdateDrive`: `excludeFinalizer`, the `found` guard, the Ready
      rule, the capacity arithmetic, and the conditional Update with its
      conflict.
    - `UpdateVolume`: drops the purge finalizer and does the conditional volume
      Update. With the deletion timestamp set and no finalizer left, the store
      deletes the record.
    - `Abort`: an error or restart at any step.
  - **Environment:** `RequestDelete`, `Publish`, `Unpublish`.
  - **Refinement:** `Abstract` instances `VolumeRelease` with a mapping:
    - `held` is the set of volumes whose finalizer the drive carries;
    - `free` is the drive's free capacity;
    - `state` is live, deleting or gone, read off the volume record;
    - `pub` is the published flag.

    `VolumeReleaseRefinement` is the abstract `ASpec`, fairness included.

- **`VolumeRelease`** is the abstract specification of the teardown: what the
  controller promises, one atomic step per outcome.
  - `ARelease` gives a deleting, unpublished volume's finalizer and capacity
    back to its drive in one step.
  - `AForget` removes the record, but only once no drive holds the volume.
  - It has weak fairness on both.

- **`VolumeLabelSync`** models the writers of a volume's drive-path label.
  - **State:**
    - one drive (`name`, and `holds`, the volumes whose finalizer it carries);
    - the volume records (`exists`, `ver`, `label`);
    - per label goroutine `<<rename, volume>>`: `gpc`, the `gver` its Get read,
      its RetryOnConflict attempt count `gatt`, and the name `captured` for its
      rename;
    - `SyncVolumes`' loop (`spc`, `todo`, `cur`, `sver`, `slabel`, `satt`).
  - **Rename side:**
    - `Rename` is `update()`'s tail after a successful drive Update with
      `nameChanged`, lines 283-312. It starts one goroutine per volume
      finalizer.
    - `LabelGet` and `LabelUpdate` are `updateLabels`, lines 289-303. A
      conflict retries with the same captured name until `Steps` (5,
      `retry.DefaultRetry`) attempts are used.
    - `LabelFailed` is the logged give-up.
  - **Blocking variant.** With `Blocking = TRUE`, the same writes are
    `syncVolumeLabels` (`unnamed/part_001` 137-167):
    - `NextVolume` takes the finalizers one after another;
    - the first error abandons the rest;
    - the handler (one worker) does not take the next rename until the loop
      ends.
  - **Start-up side:** `SyncList`, `SyncNext`, `SyncGet`, `SyncGetLabels` and
    `SyncUpdate` are `SyncVolumes` (`volume.go` 230-276). `GetLabels` is
    `getLabels` (199-228): the drive's path while it holds the volume's
    finalizer, otherwise `Base("") = "."`.
  - **Environment:** `Touch` (another writer of the volume), `ReleaseDrive` and
    `DeleteVolume` (the teardown, in its order).
  - **Abstractions:**
    - The drive's name stands for both `SanitizeDrivePath(path)` and
      `filepath.Base(path)`. Both give the device name, and spec §4.6 names one
      drive-path label.
    - The backoff sleeps between attempts are left out; TLC's interleavings
      cover every timing.

- **`DriveEventHandler`** models `node/uevent.go`.
  - **State:** the store `drives`, and the kernel's `device`/`present`.
  - **Queue:** the listener's FIFO `queue` and the count `sent` of events
    emitted.
  - **Per worker:** `wpc`, the event `ev`, the device snapshot `snap`, and the
    matched `target` with the record `read` as listed.
  - **Worker steps:**
    - `Pop` (the queue; spec-modelled).
    - `CreateDevice`. It reads the live device for add/change and fails if the
      device is gone; for remove it uses the event's fields.
    - `ListAndMatch`. It runs `GetDriveList` filtered by the name label, then
      `FindMatchingDrive` and the dispatch of `Handle`.
    - `Add` (`add()`: `CreateDrive` under a fresh uuid).
    - `Update`, the conditional Update of `update()`.
  - **`UpdatedDrive`** is `update()`'s diff. It is built from three operators:
    - `ClampedAllocated`: lines 91-98.
    - `SyncedMount`: the mount switch, lines 232-252.
    - `SyncedStatus`: the status switch, lines 254-264.
  - **Kernel:** `ChangeDevice` (one property per event, or none for a trigger),
    `Unplug` and `Replug`, each emitting its event through `Emit`.
  - **`FindMatchingDrive`** is a constant operator. The MC modules give it
    either the code's stub (`StubMatcher`, lines 337-341, used by
    `drive_reconcile`) or the matcher's contract from spec §4.4
    (`ContractMatcher`: the listed drives recorded for this physical device).
    `ContractMatcher` is not code. With the stub, `update()` and `remove()`
    are unreachable from `Handle`. The runs that use the contract check
    `update()` as `Handle` would call it once a matcher returns the listed
    drive, as the uncompiled draft `Handle` at lines 758-767 already does.
    What they find about `update()` is therefore latent in today's code.

- **`Listener`** models `pkg/uevent/listener.go`. The file holds three
  versions of the listener: the `udev.Data` one (lines 355-536) and two that
  decode into a `deviceEvent` (lines 1-290 and 538-830, the second moving the
  decoder into a method). Their loops are the same; the variable `build`,
  chosen at Init from the constant `Builds`, says which decoder runs.
  - **Datagrams** are abstracted to what `parse` tells apart: the length class
    (under 12 bytes, under 17, long enough), the signature, the magic, where the
    offset byte points, and the fields after the offset. A field is `<<>>`
    (empty), `<<key>>` (no `=`) or `<<key, val>>`.
  - **Decoder:** `Parse` is `parse`, with `Decode` (RECURSIVE) as its field
    loop. The unchecked reads of `msg[8:12]` and `msg[16]` on a short datagram
    are a `"panic"` outcome. `ParseUdevData` is `parseUdevData`; the udev data
    reads behind `ReadRunUdevData` and `EventMapToUdevData` are a boolean input
    `found`, because both can fail. `UnmarshalDeviceUevent` is the deviceEvent
    decoder: SUBSYSTEM test, `filepath.Base` of DEVPATH (`PathBase`, `"."` for
    a missing DEVPATH), Atoi of MAJOR, MINOR and a present
    ID_PART_ENTRY_NUMBER, the action switch, and `NormalizeUUID` of MD_UUID.
    DEVPATH and MD_UUID values are sequences (of path elements, of characters)
    so that both conversions are computed, not assumed. The verbatim-copied
    ID_* fields are left out. That version's case list names Go's builtin
    `delete` and leaves the switch unclosed, so it does not compile; the model
    reads the third case as `remove`.
  - **Read loop:** `Select` is the `select` on `ctx.Done()` at the head of
    `Run`'s loop. `Receive` is one iteration of `getNextDeviceUEvent`: read a
    datagram, decode it, then skip it, push it, or end `Run`. `RecvFails` is a
    failing `Recvfrom`.
  - **Peek loop:** `Receive` takes a datagram whole. `PeekBufferLength` is
    `msgPeek`'s loop, with `Recvd` standing for what `Recvfrom` returns (at
    most the buffer's length, since no `MSG_TRUNC` is passed).
    `ReadMsgLength` is `msgRead` cutting the buffer to `n`.
    `PeekReadsWholeDatagram` checks that this composition returns every
    length in `DatagramSizes` unchanged, which is what justifies the
    one-step read.
  - **Environment:** `Deliver` (udevd sends a datagram) and `Cancel`.
  - **History:** `received` (every datagram read) and `pushedAtCancel` (the
    queue length when the context was canceled) exist only for the
    properties.
  - **References:** `RefClass` and `RefDecode` state spec §4.1's contract
    independently of `parse`.

- **`Matcher`** models the three versions in `pkg/uevent/match.go`; the
  variable `version`, chosen at Init from the constant `Versions`, says which
  runs: `"matchers"` (lines 383-693, the live matcher list), `"generic"`
  (lines 17-179) and `"split"` (lines 196-366).
  - **Identities:** a device and each drive are functions from the properties
    the matchers read to their values.
  - **Matchers:** `Matchers` is the matcher list in order; each entry names its
    decision table and its property. The tables are `PartitionNumberMatcher`
    (never inconclusive), `ImmutablePropertyMatcher`, `FsPropertyMatcher` and
    `SizeMatcher`.
  - **The loops of `getMatchingDrives`:**
    - `MatchStep` applies one matcher.
    - `Exhausted` ends a drive on which every matcher was inconclusive.
    - `Record` is the write `matchList[drive] = matchedFn`.
  - **Aggregate decision:** `Conclude` is `runMatcher`.
  - **The generic draft** runs the same `runMatcher` and loop over its own
    list (`GenericMatchers`, applied by `ApplyGenericMatcher`), with the
    drive's value as alpha: `GenericMatcher` continues on an equal value and
    stops only on an unequal one; the "empty or equal" matchers return
    `(ok, ok)`; `PtTypeEqual` lower-cases and identifies the DOS types.
  - **The split draft** has only `splitByMatch`: `Split` computes
    `SplitByMatch` in one step. `SplitClass` sorts a drive by the first kind
    of identity it records (`IsHWInfoAvailable` ... `IsFSUUIDAvailable`) and
    the matching check of that kind (`MatchDeviceHWInfo` ...).
    `strings.ToLower` and `sys.FSTypeEqual` are constant operators; the
    identities checked leave both types empty.
  - **Reference:** `RefResult` states spec §4.4 independently: one decision
    table, with an empty side inconclusive; the first conclusive matcher decides
    a drive. It runs over each version's own list (`RefOrder`), and over the
    spec's precedence for the split draft, which has no list; `RefSplit` is
    the spec's matched/unmatched classification.

- **`NodeAgent`** composes the two handler modules. It instances both over the
  same `drives` variable. Its next-state relation is either module's step, with
  the other module's variables unchanged.

- **`MC*`** modules define the model values and the constant functions for TLC.

## 3. Runs

| Run | Config | Expect | What it shows |
|---|---|---|---|
| volume_teardown | MCVolumeEventHandler.cfg | pass | Two volumes (20 and 30 on a drive of 100) are torn down concurrently. Two runs may stop half-way, and the volume may be published twice. The drive keeps `free + Σ held capacities = total`, and the controller refines `VolumeRelease`: every release is an atomic release, and a record goes only after its drive gave it up. With the abstract fairness, every deleted, unpublished volume is eventually released. |
| drive_reconcile | MCDriveEventHandler.cfg | violation | The reconciler as the code runs it, with the `findMatchingDrive` stub and one worker. The first change event of a registered device goes to `add()`, and the device has two drives (`OneDrivePerDevice`). |
| node_agent | MCNodeAgent.cfg | pass | Reconciler (with the contract matcher) and teardown together. Both keep their types (`TypeOK`). A stale reconciler Update never resurrects a released finalizer, and teardown still completes. Capacity stays accounted across both writers (`CapacityConservation`): free + held = total through resizes that `update()` writes and releases that `releaseVolume` writes. The sizes, 80 and 100 against an allocation of 50, never shrink below the allocation; `node_agent_shrink` shows that case breaks capacity accounting. |
| drive_concurrent_add | MCDriveRace.cfg | violation | Two workers both add the same new device. |
| drive_rename | MCDriveRename.cfg | violation | A device replugged under another name is registered again: the list is filtered by the new name. |
| drive_stale_snapshot | MCDriveStale.cfg | violation | `createDevice` runs before the list, so an older device snapshot is written after a newer one. Retrying the list and Update does not help. |
| node_agent_conflict | MCNodeAgentConflict.cfg | violation | A reconciler Update that loses to a release is dropped, and the device change is never applied. |
| matcher_contract | MCMatcher.cfg | violation | `runMatcher` panics on the first drive of any non-empty list: `getMatchingDrives` assigns into its named result map `matchList`, which is nil (line 465). The generic draft (`Versions` includes it) has the same write at line 92. |
| listener_decode | MCListener.cfg | pass | Up to three datagrams, covering every header failure and payload shape, in both decoder versions. What `Run` pushes is exactly the spec's decoding of datagrams that passed every header check (last write wins; numeric fields; MD UUIDs regrouped 8-4-4-4-12 by a reference written from spec §4.3), in the order they were read. After a cancellation at most one more event is pushed (`AtMostOnePushAfterCancel`). `ReadMsg` returns datagrams of 0 to 13 bytes whole with 4-byte pages (`PeekReadsWholeDatagram`). Under weak fairness of the read loop, a cancellation eventually ends `Run` unless `Run` is blocked in `Recvfrom` on an empty socket (`CancelEventuallyEndsRun`). |
| listener_block_skip | MCListenerSkip.cfg | violation | A well-formed `SUBSYSTEM=block` add event is read and skipped: the test at line 453 is inverted. |
| node_agent_shrink | MCNodeAgentShrink.cfg | violation | Shrinking a device below its allocation, then releasing its volumes, gives allocated = -10. |
| label_sync_race | MCVolumeLabelSync.cfg | violation | Two renames (sda→sdb→sda) start two goroutines for the same volume. The newer one writes sda. The older one loses the conflict, re-reads the volume, and writes its captured sdb last. Every writer is done, yet the volume's label names a path the drive no longer has. |

The two-worker interleavings of the reconciler (two Updates of the same drive,
ambiguous matches) are checked by the violation runs `drive_concurrent_add`
and `drive_stale_snapshot`. A passing two-worker run of `CapacityBounds`
(three uevents, about 70 s) was given up to make room for `label_sync_race`.
`CapacityBounds` is checked only by `node_agent_shrink`, where it fails. With
the contract matcher and no shrink below the allocation it held, but it then
only restates the clamp at lines 93-96. `drive_reconcile` no longer uses the
contract matcher, so it checks neither `CapacityBounds` nor
`QuiescentDriveReflectsDevice`: with the stub, both would fail on the
duplicate the run already shows.

Checked by hand with `MCVolumeLabelSync` and other constants, without a run of
their own:
- **One rename** (`MaxRenames = 1`): `QuiescentLabelsMatch` holds over 5.4
  million states. So SyncVolumes' stale drive read and the other writers are
  repaired by the conflict retry.
- **`Blocking = TRUE` with one rename:** the violation takes 6 states.
  `syncVolumeLabels` read the drive's finalizers, then a volume is released and
  deleted, and its failed Get returns before the other volume is relabelled.

### Bounds

- **Volumes.** Two volumes on one drive: the fixture of `listener_test.go`. Two
  is the least that lets two releases of the same drive interleave.
- **Failure and publish budgets.** Two aborted runs let a release stop between
  its drive Update and its volume Update, then run again (twice, or in both
  volumes). Two publishes let deletion wait on unpublish, with a publish
  before and after.
- **Devices and drive ids.**
  - Two devices: one registered with volumes, one unregistered (to exercise
    `add()`).
  - Four drive ids: the registered one plus three fresh uuids.
- **Device properties.**
  - Sizes 40 and 100, with a minimum supported size of 50. So 40 makes a device
    Unavailable and shrinks it below its allocation of 50.
  - One filesystem uuid or none (a format).
  - Three mount points: none, managed, elsewhere.
  - The read-only flag.
- **Events.** Three or four uevents: enough for change, unplug, replug and a
  second change of the same device to be in flight together.
- **Composition.** `NodeAgent` uses device p1 only, and sizes 80/100 in its
  passing run, to stay within five minutes. The shrink below the allocation has
  its own violation run. Runs that stop half-way (`MaxFailures`) and
  publishing (`MaxPublish`) are 0 here, because each multiplies the
  composed state space past the time budget (one publish alone takes it
  from 188k to 594k states). `volume_teardown` checks both faults on the
  controller alone.

- **Peek sizes.** `PageSize = 4` and lengths 0..13 cover an empty datagram,
  both sides of each of three page boundaries, and a datagram that needs
  three peeks. The loop depends only on the length relative to the page
  size, so larger pages add nothing.

- **Datagrams.** `MCListener` builds its core payloads from two choices:
  `SUBSYSTEM` (block, net) and `ACTION` (add, and `bind`, which the action
  switch rejects). It adds special payloads for the remaining cases:
  - remove and change;
  - a non-numeric `MAJOR` on `bind`, so the order of the Atoi and action
    checks decides the outcome;
  - a key written twice, a bare key, an empty field, and `SUBSYSTEM`
    overwritten.
  The core set is kept this small because the liveness check makes every
  state cost more: a `remove` or non-numeric variant of every core payload
  adds no path through the decoders.
  The bad headers are each header failure on one payload. Three more payloads
  exercise the deviceEvent decoder: a partition number with an MD UUID in
  mdadm's colon form (32 digits), a bare ID_PART_ENTRY_NUMBER (Atoi of ""),
  and an MD UUID of exactly 20 digits with a dash, the boundary
  `normalizeUUID` leaves alone. Three datagrams let a skip, a push and a stop
  follow each other, and a cancel fall between a read and the next.

- **Identities.** `MCMatcher` varies the partition number (0, 1), the uevent
  serial (empty, two values), the WWID, the uevent filesystem uuid, the
  partition-table uuid (empty, one value each) and the logical block size (0,
  512); every other property is empty. One or two drives: one drive is enough
  for the panic, two for an ambiguity.

- **Label sync.** The label sync bounds are chosen to fit each race:
  - Three volumes: two of this node on the drive, one of another node (so
    `SyncVolumes`' node filter drops it).
  - Three names, and two renames: the fewest that let goroutines of two renames
    race on one volume.
  - One write by another writer.
  - `Steps = 5`, as in `retry.DefaultRetry`. Exhausting the retries needs five
    competing writes of one volume; no run reaches that, and the hazard list
    says so.

### Fairness

- **Volume controller.** Weak fairness on each step for each key. listener2's
  work queue hands a key whose run returned an error out again, and each step
  is an API call that returns.
- **Uevent workers.** Weak fairness on each worker's steps. The pool's
  goroutines loop for the agent's lifetime.
- **Environment.** No fairness: the user, the node server and the kernel are
  free to do nothing.
- **Listener.** `FairSpec` has weak fairness on `Select` and `Receive`. `Run`'s
  loop is a single goroutine: the `select` at its head never blocks (it has a
  `default`), and `Recvfrom` returns once a datagram is queued. `Deliver`,
  `Cancel` and `RecvFails` are udevd, the caller and the kernel, so they get
  no fairness.
- **Matcher and VolumeLabelSync.** These check safety only, so their
  specifications have no fairness.
- **VolumeRelease.** Its weak fairness on `ARelease` and `AForget` is what the
  controller's fairness must deliver. The refinement check shows it does.
- **Deadlock.** `CHECK_DEADLOCK FALSE` throughout. Once the kernel's and the
  user's budgets are spent, the agent waits for input, and that is a legitimate
  final state.

## 4. Not modelled yet, and the plan

These parts are planned for the next modules, in this order:

1. **`Matcher`, after the panic**: the first counterexample of
   `matcher_contract` is the nil map. Behind it, several divergences cannot be
   shown while the code panics first:
   - `partitionNumberMatcher` is first in the list and never inconclusive;
   - `immutablePropertyMatcher` is conclusive when only the drive's value is
     set;
   - `fsPropertyMatcher` and `sizeMatcher` are inconclusive on unequal values,
     where `match_test.go` expects them to be conclusive.

   The generic draft hides a further bug behind the same panic:
   `genericMatcher` continues on an equal value, so no drive is ever matched.
   The split draft is modelled but not in the run. Checked by hand with
   `Versions = {"split"}`, its first disagreement with `RefSplit` is a drive
   recorded only by partition number 1 and a partition-table UUID. The spec
   reference matches it on the partition number; `splitByMatch` puts it in
   neither set, because it reads a partition-table UUID only for partition 0.
   That turns on whether a partition number is an identity, which the spec
   leaves open. Rejecting a drive whose hardware identity the device does not
   report is the clearer divergence; the hazard list records it.
2. **`VolumeLabelSync` in `NodeAgent`**: the label writers composed with the
   reconciler and the teardown controller, instead of the environment actions
   `Rename`/`ReleaseDrive`/`DeleteVolume`. The rename is reachable only with a
   matcher that does not filter by name.
3. **Listener prompt exit and error class (c)**: cancellation is looked at
   only at the loop head, so `Run` does not exit while it is blocked in
   `Recvfrom` (spec §5 says it should exit promptly).
   `CancelEventuallyEndsRun` checks that this is the only case in which it
   does not exit. The stronger spec statement would be a violation run of its
   own. An unparsable numeric field ends `Run` where spec
   error class (c) drops the one event, and an event without DEVPATH is queued
   under the name `"."`. `Listener` reaches all three; stating them needs
   violation runs of their own, which the run budget does not leave room
   for.
4. **`syncDriveStates`** (`unnamed/part_001`, lines 38-135). `syncDrive` is not
   called anywhere in the sources. Read as written:
   - line 83 resets the status to Available/Unavailable;
   - line 96 then tests for InUse, which can never hold;
   - so an in-use drive's allocation would be recomputed from the device's
     free capacity.

   Worth a module only once a caller exists. The older `Handle` draft in
   `unnamed/part_000` (its `update` does nothing) is in the same position.

5. **Faults in the composition**: `node_agent` runs without half-way stops
   and publishing. With `MaxFailures = 1`, TLC had not finished after fifteen
   minutes. Checking them together with the reconciler needs a symmetry or a
   smaller device model first.

Not modelled at all, for these reasons:
- The uevent.go draft at lines 392-770 does not compile.
- Loopback provisioning and the CLI are not in the sources.
- Logging is left out.
- Fields `update()` only copies (model, serial, block sizes, WWID, ...) cannot
  change any property above.
