# A TLA+ model of the Datera CSI driver

This directory specifies and verifies the parts of the driver that decide what
happens to a user's data: the controller service (`pkg/driver/controller.go`),
the node service (`pkg/driver/node.go`), the client functions both call
(`pkg/client/`: `volume.go`, `snapshots.go`, `acl.go`, `login.go`, `mount.go`),
and the guard against duplicate requests that every handler goes through
(`Driver.InitFunc` in `pkg/driver/driver.go`).  TLC checks small instances; TLAPS
proves the theorems for every instance.

Run TLC on a module `MC*.tla` with one of its `.cfg` files
(`tlc -config MCControllerLife.cfg MCController`), and the prover on a
proof module (`tlapm ControllerInvariants.tla`).  `PROJECT.json` lists the runs,
what each definition models (file and lines), the hazards and the findings.


## 1. Inventory

The driver is one Go process per node.  A gRPC server runs every CSI request in a
goroutine of its own.  All requests share one `DateraClient` and one map of
requests in progress; everything that lasts is kept by the Datera storage system,
reached over REST, or by the host (mounts, iSCSI sessions).

| Part | State | Operations | Hard about it | Correct when |
|---|---|---|---|---|
| Duplicate-request guard (`driver.go`) | `rpcStatus`, a plain map | look up and store in `InitFunc`, delete in the cleaner | no lock; a lost key, a key never deleted | one handler per request; every key goes away again |
| Controller: volumes (`controller.go`, `volume.go`) | app instances on the storage system | `CreateVolume`, `DeleteVolume`, `ControllerExpandVolume` | several remote calls per request, each of which may fail or succeed unseen; retries; restarts; other requests for the same volume | idempotent; what it answers is so; never deletes what it should keep |
| Controller: snapshots (`controller.go`, `snapshots.go`) | snapshots of app instances | `CreateSnapshot`, `DeleteSnapshot` | as above; a snapshot takes time to become available | as above; ready means available |
| Listing of snapshots | none between calls; tokens are offsets | `ListSnapshots` | each page is cut from a new list, collected volume by volume in goroutines | what stays is reported once |
| Listing of volumes, capacity, capabilities | none | `ListVolumes`, `GetCapacity`, ... | nothing | reads only |
| Node service (`node.go`) | volume metadata, device, mounts | stage, unstage, publish, unpublish, expand | metadata are read, changed and written back; format then record; cleanup that goes on after errors | data are never formatted over or removed; a staged volume stays reachable |
| Initiators and ACLs (`acl.go`) | ACL policy of a storage instance | register, unregister | read-modify-write by several nodes | a node that has staged a volume is in its ACL |
| Mount, format, grow (`mount.go`), iSCSI login (`login.go`) | the host | shell commands with retry loops | a failed command in the middle | as the node service |
| Heartbeat and identity (`driver.go`, `identity.go`, `system.go`) | a health flag | the heartbeat loop, `Probe` | a loop nobody watches | keeps running; `Probe` tells the truth |
| Log pusher, environment, logging | none that matters | - | - | - |
| Version comparison, names (`util.go`) | none | pure functions | boundaries | agree with a reference |
| iSCSI shim (`cmd/iscsi-*`) | initiator name file | remote `iscsiadm` | crash between mkdir and write | the file is there in the end |
| Shared client context (`client.go`) | the context of the latest request | overwritten by each request | unsynchronised; but `WithCtxt` drops the caller's context, so it holds a trace id and no deadline | log lines name their own request |

Interactions: a handler calls `InitFunc`, then client functions, each of which is
one or a few REST calls; the node service reads metadata that `CreateVolume`
wrote; `NodeUnstageVolume` may delete the volume itself (`delete_on_unmount`).
Handlers of different requests do not exclude each other: the guard compares
whole requests, so `DeleteVolume` and `CreateSnapshot` of one volume run
together.


## 2. Modules

    RpcGuard          the guard: also what the controller promises about keys
    Datera            the storage system as the client code uses it (external)
    Controller        EXTENDS RpcGuard, Datera: the five handlers
    Listing           ListSnapshots and a caller that walks its pages
    VolumeData        what the node service owes the owner of a volume (abstract)
    NodeService       the node service of several nodes; implements VolumeData
    Versions          the comparison of software versions and its reference
    MCRpcGuard, MCController, MCListing, MCNodeService         instances for TLC
    RpcGuardProofs, ControllerProofs, ControllerInvariants,
    ListingProofs, NodeServiceTypes, NodeServiceInvariants,
    NodeServiceProofs, VersionsProofs                          proofs

### RpcGuard

`rpcStatus` is the set of keys in the map, `phase[p]` where goroutine `p` is, and
`key[p]` the key it serves.  The key in the code is the service, the function and
`%+v` of the request; the request types print their content, so equal requests
have equal keys.

* `FindKey`, `MissKey`: the lookup (`driver.go:334`), one way or the other.
* `Record`: the store.  `Return`: the handler returns and the deferred cleaner
  starts.  `Clean`: the deletion.  `ReturnDup`: the duplicate answers `Aborted`.
* `Restart`: the process dies; `NewDateraDriver` makes an empty map.

Lookup and store are two steps because nothing in the code makes them one.
Accesses that overlap a write of another goroutine are a data race on a Go map:
the lookup may miss a present key, the write may be lost, or the runtime throws,
which is a `Restart`.  These are nondeterministic branches guarded by `Writers(p)
# {}`.  The history variable `raced` holds the keys this has happened to.

### Datera

An app instance has one storage instance and one volume, so it is one record.  It
is found by name, and the object that comes back is used by its path, which is
that of one incarnation: `uid`.  A call on a deleted incarnation fails even when
the name is in use again.  A snapshot is identified by its time stamp; its UUID
is a hash of its CSI name, so a second snapshot of the same name in a volume is
refused.  Deleting an app instance (with `force`) deletes its snapshots.  The
field `by` is a ghost: the request that gave the volume its size.

### Controller

One action is one call to the storage system with the code after it up to the
next call or the answer.  Between two actions any other handler may run and the
process may die.  `h[p].pc` names the call that comes next; the prefix tells the
handler (`CV_` CreateVolume, `DV_` DeleteVolume, `CS_` CreateSnapshot, `DS_`
DeleteSnapshot, `EX_` ControllerExpandVolume).

A call succeeds; or fails because its object is not there; or fails without
effect for no fault of the request (`Errs`); or takes effect while the answer is
lost (`Errs` together with the effect).  The code cannot tell the last two apart,
and neither can the handler of the model.  `Errs` counts towards `MaxFaults`, and
`hit` remembers which handlers were affected.  An effect that arrives after its
handler has already answered is not modelled: the client waits for a call to end.

Which errors are swallowed is taken from the code, not from what it intends:
`CreateVolume` goes on to create when the lookup fails for any reason;
`DeleteVolume` answers OK to every error but "has snapshots"; `DeleteSnapshot`
answers OK to everything; a failed reload in `Volume.ListSnapshots` is an empty
list; a failing `SetMetadata` is ignored.

Data: sizes are numbers of GiB on the storage system and bytes in requests, `GiB`
being a constant; names and ids are model values; `form` says whether a request
is well-formed.  A request names the volume `GenName` makes of its name.  Left
out: negative capacity ranges, which CSI forbids; an expansion without a range,
which CSI requires (the handler dereferences it); QoS, which is always off on
this path; and the wording of errors, except where the code compares it.

The handlers use the guard's actions unchanged: `Call` is `FindKey` or `MissKey`,
`Admit` is `Record` and the start of the body, `Answer` is `Return`, `Done` is
`Clean`, `Abort` is `ReturnDup`, `Die` is `Restart`.  So `GuardSpec` is the
abstract specification of the controller under the identity mapping, and "every
path of every handler releases its key" is the refinement.

### Listing

`Resolve` finds the volumes (`ListVolumes` or `GetVolume`), `Collect(v)` is the
goroutine of one volume, `Answer` sorts and cuts the page.  `Take` and `Drop`
change the snapshots at any moment, between two goroutines of one call too.
`walk` is the caller, which is external: it passes the token on and stops at an
empty token or an empty page.  Snapshots of different volumes may have equal time
stamps and then come in any order, since `sort.Slice` is not stable.  The ids are
compared as strings, which is the order of the time stamps as long as these have
the same number of digits.

### NodeService

One volume, the drivers of several nodes, and a target path for each pod.  State:

* `vol`: the app instance: what is on it (`content`), whether it came from a
  snapshot or a template (`clone`), admin state, ACL, metadata, size, and the
  capability it is used with (`access`).
* `host[n]`: the iSCSI session, the file of the device, the mount at the staging
  path and the size of the device as node `n` sees it.  `pods[t]`: what is mounted at target `t`: nothing,
  the volume, or a bare directory of the host.
* `h[r]`: the handler of request `r`, by the call that comes next.  `mpath` is the
  `MountPath` that `GetVolume` read, `md` the metadata that `GetMetadata` read a
  call later, with the handler's own changes.
* `co`: what the caller (kubelet, external) knows of each node and target: a call
  moves it to "coming" or "leaving", an OK that is heard to "in" or "out".
* `dirty`: a ghost, the nodes and targets where an error that the code only logs,
  or a handler cut off between its mount and its record, left something behind.

One action is one call with the code after it: `GetVolume`, `GetMetadata`,
`CreateGetInitiator`, `AclGet`, `AclSet`, `SetMetadata` are shared by the
handlers; `Online`, `Login`, `FindFs`, `Mkfs`, `StageMount` belong to
`NodeStageVolume`; `StageUnmount`, `Logout`, `Offline`, `Delete` to
`NodeUnstageVolume`; `PublishMount` and `PublishUnmount` to the two publish calls;
`CheckDeviceSize` and `ExpandFs` to `NodeExpandVolume`.  Calls succeed, fail
without effect, or take effect and report an error, as in `Controller`.  `Panic`
is a nil dereference, which ends every handler of the node: `NodePublishVolume`
goes on with the nil volume of a failed `GetVolume`, and `NodeStageVolume` and
`NodeUnstageVolume` with the nil initiator of a failed lookup.  `Die` is the
death of a driver, `Reboot` the loss of a node with its mounts and sessions.

Taken from the code as it is: `RegisterAcl` drops the entries with a `Tenant`;
`UnregisterAcl` writes the leaving node once for every other entry; `findMnt`
never finds a mount; every failure of `lsblk` reads "no file system"; `unmount`
removes the path recursively whether or not `umount` worked, which for a block
volume is the file of its device, so that a session that outlives it cannot be used
again; `bind_mount` never shrinks, because only the in-memory set is changed;
`checkDeviceSize` multiplies the expected size in every round, in 64 bits (`Word`); errors after the first
lookup of `NodeUnstageVolume` are logged and the answer is OK.

Abstractions.  The metadata are the four keys that decide something; setting them
merges by key, which is how `SetMetadata` itself computes the result when it
checks sizes.  `device_path` and the informational keys (pod names, access mode,
QoS) are left out.  `GetVolume` is two reads in the code, the app instance and its
metadata; what the handlers use of the first (name, path, addresses) never
changes.  A handler is named by its request, so the guard is used in the form
`RpcGuard` proves: one handler per request, races aside.  A raw block volume is
staged, and publishing it fails: `mount` has made the target a directory, to which
a device cannot be bound.  A repeated `mount` of the same device on the same path
is refused by the kernel, and `mkfs` refuses a mounted device.  A call whose
effect comes after its handler has answered is not modelled.

The caller follows the rules of CSI: stage before publish, unpublish before
unstage, one call for a volume and node at a time, except that the calls for
different pods go together.  It repeats a call until it hears OK, and may turn to
unstaging or unpublishing instead.  It need not hear an OK (`Reply`): the answer
comes after its deadline, or it is restarted, and "K8s will often call a long
running function many times" (`driver.go:323`).  So every call may run again after
it is complete, and a volume whose deletion by `delete_on_unmount` was not heard of
is unstaged for ever, in vain: `NodeUnstageVolume` does not find it and answers an
error.

`MultiNode` is the set of the kinds of access with which the caller may use a
volume on several nodes at a time.  The driver announces `SINGLE_NODE_WRITER` alone
for mounted volumes (`controller.go:430`), and for block volumes
`MULTI_NODE_SINGLE_WRITER` and `MULTI_NODE_MULTI_WRITER` as well
(`controller.go:441-457`).  What is claimed of a volume is claimed for use on one
node at a time: `MultiNode` is empty in the runs, and the theorems that need it
assume it of the volume at hand (`OneNode`).  A mounted volume is always used so.
A block volume that is not can lose an entry of its ACL, see below.

### VolumeData

Three facts about a volume, as five actions over `content` and `users`: it is
formatted only while it is blank and nobody uses it; what was written stays; it is
deleted only while no pod sees it.  `NodeService` implements it with `content <-
vol.content` and `users <-` the targets that show the volume (`DataKept`).

### Versions

`versionToInt` as a weighted sum of five places (from the sixth on the factor is
cut to 0), and the lexicographic order as its reference.  `Controller` does not
use it: the outcome only selects fields of a request.


## 3. Runs

Passing runs:

| Run | Asks | Instance |
|---|---|---|
| `guard` | `ExclusiveUnlessRace`, `KeyHasOwner`, `KeyReleased`, `GuardTypeOK` | 3 goroutines, 2 keys, any number of restarts |
| `life` | `SnapshotBlocksDelete`, `DeleteReported`, `SnapshotDeleteReported`, `OnlyItsOwnIsDeleted`, `RetryAccepted`, `GuardSpec`, `TypeOK` | 2 handlers; create, delete, snapshot, delete snapshot of one name; 2 incarnations of the volume, 1 failing call |
| `source` | `CapacityReported`, `RetryAccepted`, `EveryCallAnswered` | every kind of `CreateVolume`: odd sizes, no range, bad range, both kinds of template, clones of a snapshot, bad arguments; an expansion, a deletion, snapshots, all retried; one handler at a time, 1 failing call, 1 restart |
| `listing` | `ReportedOnce`, `ListingTypeOK` | 2 volumes, 3 snapshots, 1 deletion, 1 failing call, pages of 0 (all), 1 and 2 |
| `node` | `DataKept`, `PublishedReachable`, `CleanLeave`, `RecordTrue`, `NodeTypeOK` | 2 nodes, 2 pods on the first, blank and cloned volumes, all three kinds of access, with and without `delete_on_unmount`; 1 failing call, 1 death, any number of answers that are not heard |
| `node_calls` | `GrownDevice`, `NodeCallsAnswered` | 1 node, 1 pod, an expansion; `lsblk`, `umount` and `blockdev` may fail; 1 failing call, 1 death |

* `ExclusiveUnlessRace`, `KeyHasOwner`: short of a race, one handler runs per
  request and no key stays behind without a handler.
* `KeyReleased`: a key that is stored is deleted (or hit by a race).
* `SnapshotBlocksDelete`: once `DeleteVolume` has seen no snapshot, the volume it
  is going to delete can only have snapshots taken after that look.
* `DeleteReported`, `SnapshotDeleteReported`: both handlers answer OK to nearly
  everything; when none of their own calls failed, OK is true, whatever the
  others did.
* `OnlyItsOwnIsDeleted`: a volume that was deleted and created again under a
  running `DeleteVolume` is not deleted by it.
* `RetryAccepted`: a retry of a request for a whole number of GiB accepts the
  volume its earlier attempt made.
* `CapacityReported`: the capacity answered is that of the volume, where the
  storage system takes the size from the request.
* `GuardSpec`: refinement; every early return of every handler is covered.
* `EveryCallAnswered`: every request that is let in is answered.
* `ReportedOnce`: a snapshot that exists throughout a walk is on exactly one
  page, if no call failed, no time stamps collided and only snapshots that were
  old and not yet reported were deleted.  Each of these conditions is needed.
* `DataKept`: refinement of `VolumeData`: a crash between `mkfs` and its record, a
  lost answer, a repeated call or a move to another node never costs what a pod has
  written, as long as `lsblk` and `umount` do what they are asked.
* `PublishedReachable`: what was reported as published shows the volume (not a
  directory of the host) and the node still has session, ACL entry and an online
  volume, whatever others did to ACL and metadata since.
* `CleanLeave`: after an OK of `NodeUnstageVolume` nothing is left on the node,
  short of the errors it swallows (`dirty`), although the stage before it may have
  been complete without the caller knowing; after an OK of `NodeUnpublishVolume`
  nothing is left at the target.  Without its exception for `MultiNode` the ACL of
  a block volume on several nodes refutes it.
* `RecordTrue`: `formatted` is never stored ahead of the format, although the
  handlers of two pods write back the metadata they read some calls earlier.
* `GrownDevice`: as long as `blockdev` works, the overflow in `checkDeviceSize`
  does not end the wait for a device that has not grown.  When `blockdev` fails
  after the overflow, it does.
* `NodeCallsAnswered`: `mkfs` and the wait for the device give up.

Runs that find a violation of what the repository says of itself:

| Run | Claim | What the code does |
|---|---|---|
| `guard_exclusive` | `driver.go:325` "only allows execution if the previous function is complete" | two equal requests both pass the lookup before either is stored |
| `lost` | `volume.go:419` "stop any deletion of a volume currently possessing snapshots" | a failed reload looks like a volume without snapshots; one handler is enough |
| `ready` | `controller.go:595` `ReadyToUse: true` after "Poll for availability" | a retry answers with the snapshot of the first attempt unpolled |
| `node_repeat` | `driver.go:323` repeats are expected, and run "if the previous function is complete" | a stage that is complete and whose OK was not heard fails at its own mount when it is repeated (`mount.go:296`) |
| `node_acl` | `acl.go:148` "Remove the matching initiator from the initiators list" | the leaving node is written in place of every other one |
| `node_format` | `volume.go:385` "DO NOT FORMAT when volume is created from another source" | nothing records it, and when `lsblk` fails the volume is formatted |

`NoSnapshotLost` is violated in two ways.  The run stops at the shorter one.  With
`MaxFaults = 0` in `MCControllerLost.cfg` it shows the other: two handlers, no
failure, and a snapshot taken between the look of `DeleteVolume` and its deletion.

Two more disagreements are visible in `Controller` and need a single request to
be seen: a new volume is sized by `LimitBytes` and an existing one compared with
`RequiredBytes`, so a retry with a larger limit is refused (`Mismatch`;
`controller.go:226`), and a volume as source, announced by `CLONE_VOLUME`
(`controller.go:545`), is ignored (`Content`).

What the passing run `node` depends on: with `UmountFails` or `LsblkFails` set to
`TRUE` in `MCNodeService.cfg` TLC refutes `DataKept` (so the hazards of
`mount.go:306` and `mount.go:29` are not covered by it), and with `MultiNode =
{"mount"}`, which the driver does not announce, it refutes `PublishedReachable`
without any fault.  What is wrong with a repeated publish is the same as with a
repeated stage (`node.go:211`); an unpublish can be repeated at any time, and an
unstage as long as the volume is there.

### Bounds

`Procs` (2, in `guard` 3): the conflicts of handlers are between two, one that
holds something stale and one that changed it; the guard gets a third for the
race of an owner, a deleter and a newcomer.  `MaxUid = 2` lets a name be deleted
and created again under a handle; `MaxTs` bounds the snapshots taken before the
last `CreateSnapshot` is issued (1 in `life`, where two handlers may have issued
one; 2 in `source`, where a snapshot is retried); one fault and, in `source`, one
restart suffice for each single failure, and several failures of one request end
it at the first in nearly every handler.  `PollLimit = 2` stands for 30: a round that goes on and one that gives
up.  A GiB is two bytes, so that sizes fall on, below and between GiBs.
`Permutations(Procs)` is the only symmetry and is not used in liveness runs.  The
bounds are in `Issuable`, `Errs`, `Die`, `Take` and `Drop`.  The theorems below do
not depend on them.

`source` has one handler at a time, so the size of a volume it answers for does not
change and the volume is not deleted under it; `CapacityAnswersTruly` covers that.
`life` has no restart, which would make it several times as large; `source` has it for
the retries, and the theorems cover it for the rest.

`node`: a second node is what it takes for a volume to move while something of it
stays behind, and two pods on one node for two handlers that write back metadata;
either node may be the first, one comes back with a `Tenant` and one without.  The
pods are on the first node and the second one only stages, which is enough to
leave something behind on either.  One fault and one death in any order cover
every pair of a swallowed error and a cut-off handler.  `MaxSize = 1`: expansions
are answered at once and are the matter of `node_calls`.  `MdLimit = 3` is never
reached with two targets.

`node_calls`: `GiB = 8` and `Word = 256` make the third multiplication of
`checkDeviceSize` overflow to 0, which is also the third one in the code (2^30
three times is beyond 2^64); `SizeTimeout = 2` stands for 60 and leaves three
rounds.  `FormatTimeout = 1` allows three attempts of `mkfs`.  `MaxSize = 2` is one
expansion.  One node is enough: handlers of other nodes share only the metadata
and the ACL, which neither loop reads.

In `MCController`, `ASSUME VersionsAgree` compares `DatVersionGte` with its
reference on 138 versions.

### Fairness

`GuardFairSpec` and `FairSpec` assume weak fairness of each goroutine that has
been let in: the Go scheduler runs it, a REST call returns or fails (which is
up to the HTTP client of the SDK), and the poll counts down.  Nothing is assumed of callers (they
need not call or retry), of the storage system (a snapshot need not become
available), or of the process (it need not die).  `FairSpec` of `NodeService`
assumes weak fairness of each handler: calls of the storage system and commands of
the host return, with or without success.  The commands have no timeout in the
code, so a command that hangs is outside of `NodeCallsAnswered`.


## 4. Proofs

All theorems are for any sets of goroutines, requests, volumes and names and any
value of the other constants, assuming only the named assumptions
(`NoKeyAssumption`, `SizeAssumption`, `BoundAssumption`, `RequestAssumption`).

* **RpcGuardProofs.**  `ExclusiveUnlessRace` and `KeyHasOwner` are inductive
  together with `GuardTypeOK` and `ServesAKey`, a goroutine has a key exactly
  while it serves a request (`GuardInv`).  They need each other: a lookup misses
  a key without a race only if nobody holds it, and that the holder's key is in
  the map is the second half of `ExclusiveUnlessRace`.
* **ControllerProofs.**  `TypeCorrect`, from `TInv` = `TypeOK`, `ServesAKey`, and
  a handler that has a next call is in the phase "run".  `ControllerRefinesGuard`:
  every step of the controller is a step of the guard or leaves it alone; hence
  `ControllerExcludes`.
* **ControllerInvariants.**  `IInv` = `TInv`, `Local(p)` for every handler and
  `VolumeInv(v)` for every volume.  `Local` says what a handler knows at each
  call (its request is of the matching kind, its handle is older than the next
  uid, its look stands, what it reported gone is gone, the size it computed);
  `VolumeInv` that uids and time stamps in use are below the counters and that a
  volume made by an exact request has the size it asked for.

  Interference is handled once, by `Moves`: whatever a step does to the storage
  system, incarnations that appear are new, those that go do not come back, and
  snapshots that appear have new time stamps.  `OthersKeepLocal` shows that
  `Moves` preserves `Local(p)` of every handler that does not step; one lemma per
  operation of `Datera` shows that it `Moves`; one lemma per action shows that
  the handler that steps keeps its own `Local`.

  From it: `DeleteRespectsItsLook`, `DeleteAnswersTruly`,
  `SnapshotDeleteAnswersTruly`, `OnlyItsOwn`, `RetriesAccepted`,
  `CapacityAnswersTruly`.  The last needs `CapacityTold`: a `CreateVolume` that
  answers OK has told the size its request stands for, as long as the incarnation
  it holds is alive and still has its size from this request.  That it had it
  before is part of the argument: `Moves` says that a live incarnation, once
  resized, never counts as made by a `CreateVolume` again.
* **ListingProofs.**  For any volumes, snapshots and page sizes.  `ListingTypes`;
  and `SnapshotsReportedOnce`, from `CleanWalk`, which says of a walk that met no
  failure, no equal time stamps and no harmful deletion where it stands: the
  snapshots that were there from the start (`since`) are older than the others,
  none of them is reported twice, and a running call has found them or will; and
  either those reported so far are the oldest of them, as many as the token says
  (`CaseOld`), or all of them are reported and the token is past them (`CaseAll`).
  The step that matters is the answer of one page while snapshots come and go
  between the goroutines of the call.  It rests on three facts about sequences that are proved without induction: the
  sorted list enumerates the set of what was collected (`SortedIsEnumeration`), a
  part of it that is closed downwards is a prefix (`DownClosedIsPrefix`), and a
  page taken at the end of that prefix extends it (`AppendPage`).
* **NodeServiceTypes, NodeServiceInvariants, NodeServiceProofs.**  For any nodes,
  targets and bounds, assuming `NodeAssumption` and `NodeBoundAssumption`.
  `NodeTypeCorrect` and `RecordsTrue` hold with every fault switched on; the second
  needs `RecordInv`, that a handler whose local metadata say "formatted" works on a
  volume that is not blank, since it may write them back much later.

  The others are proved for hosts that are `Regular`, on which `lsblk` and `umount`
  do not fail on a volume that is there (`~LsblkFails`, `~UmountFails`), and for a
  volume whose access is not one of several nodes at a time (`OneNode`, a predicate
  of the initial state that no action changes: `AccessKept`); each of the three is
  needed, see the runs.  The inductive
  invariant `NodeInv` ties three views of the volume together that no property
  relates on its own: what the caller knows (`CallerInv`: which handlers can run
  together, and that at most one node is not "out"), what the host has (`StagedInv`,
  `PodInv`), and what ACL and metadata say (`MountKeyInv`, `LeaveInv`).  `StageInv`
  and `UnstageInv` say how far a handler has come: what is in place before each of
  its calls, and that a mount the caller does not know of is in the metadata, where
  the unstage will find it.  Without them no property is inductive: that a
  published volume is reachable depends on what staging put in place several calls
  earlier and on no unstage having started since, and that a node is left clean
  depends on what a stage recorded whose OK was never heard.

  The steps of a handler are grouped by what they touch (`StageStepKeepsInv`,
  `UnstageStepKeepsInv`, `UseStepKeepsInv`), so that each action is only proved to
  keep the parts it can disturb.  From `NodeInv`: `Reachable`, `LeftClean`
  and `Implements`, where every step of the node service is a
  step of `VolumeData` or leaves `content` and `users` alone.

  `GrowsAfterDevice` (`GrownDevice`) holds with every fault switched on and does
  not need `Regular` but `SizesFit`: an int64 wraps around at a multiple of `GiB *
  GiB` (2^64 is 16 times 2^60) and no volume is larger than `GiB * GiB` bytes, an
  exbibyte.  The number of rounds is arbitrary.  `SizeInv` relates the sizes that
  are known in different places: the nodes know no size the volume has not got to,
  a device with a session or a mount has a size, an expansion was asked for a size
  the volume has, and waits for that size or, after a round, for a multiple of
  `GiB`.  Sizes only grow (`SizesGrow`), which is all a handler needs of the steps
  of others.  `RoundMatches` is the arithmetic: in the first round equal products
  mean equal sizes; later the expected size is a multiple of `GiB * GiB` modulo
  `Word`, and a device is never that but at the largest size there is.  The bound is
  needed: with a volume of `GiB + 1` the second round matches a device of `GiB`.
* **VersionsProofs.**  `VersionOrder`: `DatVersionGte` is the lexicographic order
  for versions with numbers below 100, which is what its comment says is supported.

The inductive invariants were checked by TLC before they were proved, on the
instances of the runs and on larger ones (`CleanWalk` with four snapshots and two
deletions, `SizeInv` up to the largest size and with five rounds).

Only model-checked: `KeyReleased`, `EveryCallAnswered` and `NodeCallsAnswered`,
because the prover does not treat liveness under fairness.  Every invariant, action
property and refinement of a passing run is a theorem, those of the node service
but `NodeTypeOK`, `RecordTrue` and `GrownDevice` under `Regular` and `OneNode`.  No proved module uses a
`RECURSIVE` operator.


## 5. Not modelled

The heartbeat and the iSCSI shim: a loop around one call that sets a flag, and a
remote `iscsiadm`; their hazards (a nil dereference on the first failure, a
directory made before the file in it, a timeout that is thrown away) are listed in
`PROJECT.json` and need no second actor to be seen.  `ListVolumes`, `GetCapacity`,
`ValidateVolumeCapabilities`, `NodeGetVolumeStats`, `NodeGetInfo`, the identity
service: they read and answer.  Inside the login: multipath, CHAP, the library's
own retries.  A caller that unstages while its abandoned stage still runs is
excluded by `May`.  Two nodes that stage one volume together, as block volumes may
be, are in the model (`MultiNode`) and not in what is claimed.  Snapshots of a volume
that `delete_on_unmount` deletes: `NodeService` has none.  Logging, the log pusher,
environment parsing and the entry point: I/O.  `iscsi-rpc.pb.go`: generated.  IP
pools and performance policies: one call each, and no handler uses them with
effect.


## 6. Plan

Done, in the order of importance: the guard; the storage system; the controller;
the proofs of both; the listing and its proofs; the node service with its ACLs, mounts and
metadata, the abstract specification it implements and its proofs; the comparison
of versions.  Left:

1. A caller that unstages under a running stage, with the residue it can leave.
   Block volumes on several nodes: what of their ACL can be promised.
2. An abstract specification of the controller, volumes and snapshots that appear
   and disappear in one step per request, and `Controller` shown to implement it
   where it does.
3. `delete_on_unmount` against the snapshots of `Datera`.
