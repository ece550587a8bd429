# TLA+ specification of the Azure Disk CSI driver (Constellation fork)

The driver lets Kubernetes use Azure managed disks as volumes. A *controller
plugin* creates, attaches, detaches, resizes and deletes disks through Azure
Resource Manager (ARM); a *node plugin* on every VM finds an attached disk, opens
it as an encrypted dm-crypt device, formats, mounts and resizes it. Sidecars and
the kubelet call both through CSI, in any order, with timeouts and retries.

This directory holds TLA+ modules for the parts of the driver that keep state,
TLC configurations that check them on small instances, and TLAPS proofs of the
most important results for all instances. `PROJECT.json` lists the components,
the runs, which source lines each definition models, the hazards and the
findings.

## 1. The system

| Component | State it keeps | Operations | What makes it correct |
|---|---|---|---|
| Batching disk controller (`azure_controller_common.go`) | `attachDiskMap`, `detachDiskMap`: requests queued per node; `lockMap`: a mutex per node; `diskStateMap` | `AttachDisk`, `DetachDisk`, `UpdateVM`, `SetDiskLun`, `GetDiskLun` | one VM update at a time; no request is lost; distinct free LUNs; success is only reported for what happened |
| Controller service, attach (`controllerserver.go`) | `volumeLocks` (delete only) | `ControllerPublishVolume`, `ControllerUnpublishVolume`, `DeleteVolume` | the LUN that is answered is the LUN the disk has; a disk that is in use is not deleted |
| Managed disk controller (`azure_managedDiskController.go`) | none of its own; the disk in ARM | `CreateManagedDisk`, `DeleteManagedDisk`, `ResizeDisk` | the size answered is there; the disk has the properties that were asked for |
| Controller service, volumes; `azureutils` | `volumeLocks` by name | `CreateVolume`, `ControllerExpandVolume`, parsing and normalising of parameters | one disk per volume; size, zone, caching and shares that are answered fit the disk, though calls are repeated and expansion takes no lock |
| Snapshots (`controllerserver.go`, `azure_snapshot_utils.go`) | `volumeLocks` by name; snapshots in ARM | `CreateSnapshot`, `DeleteSnapshot`, `ListSnapshots` | an answered snapshot is complete and stays as it is; the temporary snapshot of a cross-region copy is neither lost nor left behind; retries get there |
| Listing (`controllerserver.go`, `azure_snapshot_utils.go`) | none; the token is the client's | `ListVolumes`, `ListSnapshots` | paging returns everything once and ends |
| Node service (`nodeserver.go`) | `volumeLocks` by volume; the kernel's mounts and mappings | `NodeStageVolume`, `NodeUnstageVolume`, `NodePublishVolume`, `NodeUnpublishVolume`, `NodeExpandVolume`, `NodeGetInfo` | a pod sees its volume; nothing stays mounted or mapped after an OK; locks are not leaked; the disk limit is that of the VM |
| Device discovery (`azure_common_linux.go`) | none; sysfs and the links of udev | `findDiskByLun`, rescans | finds the disk of the LUN and no other, or gives up |
| Performance optimisation (`optimization/`) | none; tables | `getOptimalDeviceSettings`, `OptimizeDiskPerformance` | settings are those of the profile, for the device of the volume, and let it reach its bandwidth |
| Driver v2 (`*_v2.go`, a build tag) | as above | older copies of the handlers | as above |
| Throttling caches (`azuredisk.go`) | timed caches | `isGetDiskThrottled`, `isCheckDiskLunThrottled` | an entry that is set is the entry that is read |

**Interaction.** Every CSI call is a goroutine. Calls for one node meet in the
queues and at the node's mutex: each puts its disk into the queue and waits for
the mutex; whoever gets it first (the *leader*) takes the whole queue and makes
one VM update for all; the others (*followers*) find the queue empty and read the
VM to see what became of their disk. The VM is read through a cache. The node
plugin knows the controller's work only from the LUN and the volume context it is
given.

**What is hard.** Goroutines that interleave at locks and ARM calls; state read
before a lock and used after it; a batch that fails for its followers; VM updates
that fail, are preempted, or land after they were reported failed; a stale cache;
calls that are repeated while the first one, or its effect in ARM, is under way; a
kubelet that stops waiting and makes the next call while a handler still runs;
disks that come, go and change their names while one of them is looked for;
restarts, which lose the plugins' memory but not ARM's nor the kernel's; tokens
and sizes at their boundaries. `PROJECT.json` has the list, under `hazards`, with
the properties that address each.

## 2. Modules

| Module | Models | Used by |
|---|---|---|
| `AzureVM` | external: VMs with their data disks, the VM cache, ARM updates | `DiskAttach` |
| `DiskAttach` | publish, unpublish, delete and the batching controller | `DiskAttachV2`, the proofs |
| `DiskAttachV2` | the one step of v2's publish that v1 does not have; the steps of either driver | `DiskAttachRefines` |
| `VolumeAttach` | abstract: what publish, unpublish and delete promise | `DiskAttachRefines` |
| `DiskAttachRefines` | the refinement mapping from `DiskAttach` to `VolumeAttach` | `MCDiskAttach` |
| `DiskAttachProofs` | theorems about `DiskAttach` | `DiskAttachRefinesProofs` |
| `DiskAttachRefinesProofs` | the same for both drivers, and the refinement | |
| `Provisioning` | `CreateVolume`: parameters, zones, sources, the disk and the answer | `MCProvisioning`, `ProvisioningProofs` |
| `VolumeSize` | creation, expansion and the sizes set by the node plugin | `MCVolumeSize`, the proofs |
| `VolumeSizeProofs` | theorems about `VolumeSize` | |
| `Snapshot` | creating, deleting and looking up snapshots | `MCSnapshot`, `SnapshotProofs` |
| `Listing` | `ListVolumes` and `ListSnapshots` with a paging client | `MCListing`, `ListingProofs` |
| `NodeServer` | stage, unstage, publish, unpublish on a node | `MCNodeServer`, `NodeServerProofs` |
| `DevicePerf` | the SKU tables and the device settings computed from them | `Device` |
| `Device` | `NodeGetInfo`, finding the device of a LUN, tuning and opening it | `MCDevice`, `DeviceProofs` |

A request handler has a position `pc[r]`. One action runs from a point where
another goroutine can get in (a blocking lock, an ARM call or command, an unlocked
read of shared state) to the next, deferred calls included. A handler that has
ended is free for another call, so a fixed set of handlers makes any number of
calls. An operator whose comment begins with *Mutant* is a plausible mistake in
the definition that follows it; it is no part of a specification.

Driver v2 is a variable (`v2`, or a field of `opts` or of the registration) that is
chosen in the initial state; where its handler differs it has an action or an
operator of its own, named `...V2`.

### DiskAttach, DiskAttachV2 and AzureVM

| Variable | Code |
|---|---|
| `dataDisks`, `tbd`, `alive` | data disks of each VM with their LUN, those marked ToBeDetached, the VMs that exist (ARM) |
| `cached`, `cacheDisks`, `cacheTbd` | the vmset's VM cache |
| `pend` | attaches that were reported failed and may still land |
| `attachDiskMap`, `detachDiskMap`, `lock`, `diskStateMap` | the fields of `controllerCommon` |
| `batch[r]`, `plan[r]`, `lun[r]` | `diskMap`, the LUNs `SetDiskLun` put into it, the LUN to be returned |
| `seen[r]` | `ManagedBy` of the disk fetched by `checkDiskExists` |
| `occupied[r]` | `occupiedLuns` |
| `va` | the LUN in each VolumeAttachment |

A key of `diskStateMap` is a disk (for the URI that `DetachDisk` stores) or a
handler (for the `*armcompute.Disk` pointer that `AttachDisk` stores). Actions:
`CheckDiskExists`, `PublishGetDiskLun`, `GetOccupiedLuns`, `AttachDisk`,
`LockEntry`, `CleanAttachDiskRequests`, `Allocate`, `VMAttach`, `VMRetry`,
`AttachCheckLun` for a publish; `DetachDisk`, `CleanDetachDiskRequests`,
`VMDetach`, `VMForceDetach`, `DetachCheckLun` for a detach, also the one a publish
makes from the node a disk dangles on; `UpdateVM` for a VM in failed state;
`DeleteGuard`, `DeleteGetDisk`, `DeleteDisk`; `Restart`.

Publish of v2 goes on to attach when the VM could not be read
(`PublishUnreadVM`). `NextEither` has the steps of both drivers, so what holds of
`SpecEither` holds of each; the runs use it.

Assumed: `DisableDiskLunCheck` is off, as it is by default. The initial delay
before a batch is taken only lets more requests join, which they may in any case.

### VolumeAttach and the refinement

`VolumeAttach` has no queues, batches, locks or caches: a call is working, done or
failed; a publish is done at a moment when its disk has the LUN that will be
answered, an unpublish when the disk is off the VM, a delete when it is on none; a
disk is attached, detached or deleted only while a call that asks for it works.
`DiskAttachRefines` maps a handler to such a call (`Point`: it is done when it has
read its LUN, even if a failed VM is then updated before the answer) and a disk
that is ToBeDetached to one that has left (`AbstractLun`). A batch attaches for
calls whose handlers still wait, and a leader that fails after its batch was
attached is a `Fails` of its own call. The refinement needs `LateAttach = FALSE`:
an attach that lands after all its calls have ended is nobody's.

### Provisioning

One volume is asked for, by any of the `Inputs` (storage class parameters,
capabilities, sizes in half GiB, source), with a topology that may differ from call
to call. `CreateVolume` runs up to the write of the disk (parsing in any order of
the map, normalising, checks, size, zone, source, volume context),
`CreateManagedDisk` is that write, `PollProvisioningState` the wait and the answer,
which may be lost. `disks` is what ARM has, with the properties the properties
speak of; a write of an existing disk must not move it to another region or zone
or shrink it, and a clone is made where its source is (`ArmAccepts`).
`ControllerPublishVolume` is the part of publish that reads the volume context.
Parameter values are strings; numbers in them are parsed by `Atoi`, and `Unset` is
the empty one. `ParametersHonoured` follows every parameter that says what the disk is to
be into the disk: SKU, location, subscription, resource group, IOPS, MBps, shares, sector
size, bursting, performance plus, write accelerator, tags, encryption set and type, network
and public access and the DiskAccess resource. Section 4 has the two cases in which the
code drops one.

### VolumeSize

One volume. `disk` is its size in ARM, `device` what the node's kernel knows,
`crypt` and `fs` the mapping and the file system on it; `capacity` and
`nodeCapacity` are the largest sizes Kubernetes and the kubelet have been told.
ARM grows a disk and never shrinks it, and may have accepted a call that failed.
What else `CreateVolume` refuses is one refusal (`CreateRefused`), for
`Provisioning` has it. The kubelet asks for the capacity Kubernetes knows, which is
whole GiB since all of the driver's answers are. v2 has no encrypted mapping, so
`HeaderSize` is 0 there, and no online resize.

### Snapshot

`snap[i]` is a snapshot in ARM: its volume and source, the time it is of, whether
its provisioning state is Succeeded (`ready`) and its data has arrived (`done`).
ARM copies on its own (`Complete`). A snapshot for another region is made as
`local_<name>` in the region of the volume (`CreateOrUpdate`, `Wait`, `Get`),
copied (`Copy`, `WaitCopy`), and the temporary one is deleted (`DeleteTemporary`,
`GetCopy`). The snapshotter calls again while an earlier call runs, and, as a
fault, with another volume. `Faulty` counts failing ARM calls and restarts.

### Listing

`groups` is what there is to list: resource groups of disks of three kinds
(listed, not listed, listed but without an entry because something could not be
read). It is chosen at the start, in all ways within the bounds, and stays the
same. The client passes each token on until it is empty or a call fails. `mode` says
which of the three listings it is.

### NodeServer

The staging path is absent, an empty directory, mounted, or mounted with a file
system that no longer answers; the target path is a stack of mounts; `mapped` is
the set of open dm-crypt devices. `StageEnsureMountPoint` and
`PublishEnsureMountPoint` are the two uses of `ensureMountPoint`. The kubelet
(external) makes one call at a time per volume, publishes only what it believes
staged, and may give up on a call whose handler goes on. v2 opens no mapping,
locks publish as well, and takes the lock of unpublish after it has unmounted
(`UnpublishLock`).

### Device and DevicePerf

`name` has the kernel's device name of each disk, `udev` the disk whose links point
to a name, which lags behind. The handler lists the system disks, scans the SCSI
bus, looks for a link in `scsi1` and in `by-id`, one step each, and polls again if
it finds nothing; then it tunes the device (`OptimizeDiskPerformance`,
`ApplyDeviceSettings`, one setting per step) and opens it. `DevicePerf` has the SKU
tables with all sizes, and of the table of VM sizes the pairs of burst limits
that occur in it; results of float arithmetic that the code rounds up are integer
divisions rounded up. Of `azure_dd_max_disk_count.go` only the counts that occur are
kept, under one size each.

## 3. Runs

| Run | Checks | Result |
|---|---|---|
| `attach_batch` | two disks, one VM, three handlers: batching, the lock, LUNs, all answers | pass |
| `attach_two_nodes` | one disk, two VMs, two handlers: dangling attachments, forced detach, a deleted VM, restarts, deletion; it implements `VolumeAttach` | pass |
| `attach_shared` | a shared disk on two VMs, updates that land late, the LUN collision check, VolumeAttachments that cannot be listed | pass |
| `attach_live` | every call is answered, under fairness | pass |
| `create_volume` | all pairs of storage class entries, and single ones with capabilities, sizes, sources and names; two calls, failing writes, lost answers, both drivers, Azure Stack | pass |
| `volume_size` | one volume, file system or raw block, with and without online resize, both drivers, three calls at a time | pass |
| `snapshots` | one snapshot name, two volumes, two calls at a time, two failures or restarts, same and other region, full and incremental, both drivers; retries converge, under fairness | pass |
| `list_paging` | volumes of up to three resource groups, volumes without a kube client, snapshots | pass |
| `node_calls` | one volume, file system or raw block, three handlers, calls given up, restarts, file systems that go bad, both drivers | pass |
| `device` | two disks and two names beside OS disk, resource disk and DVD; all registrations and perf profiles; staging ends, under fairness | pass |
| `delete_guard_key` | a disk that is being attached is not deleted | violation |
| `list_groups_skip` | paging through several groups returns everything | violation |

**Bounds.** Two disks and three handlers on one VM are the least with a leader, a
follower in its batch and a request that comes too late for it; `MaxLUN` is small
enough for LUNs to run out. Two VMs and one disk are the least with a dangling
attachment. On the node three handlers let a call the kubelet has given up on run
next to two others. `MaxMounts` bounds the stack of mounts by a guard. With
`GiB = 4` and `Header = 1`, the sizes 1, 4, 6, 12 are below, at and between whole
GiB, below and above the minimum, and grow twice. The listing runs over every
arrangement of up to three groups of two disks, or one group of four, and every
page size up to past a group. Two calls of `CreateVolume` (`MaxCalls`) are a call
and its retry with another topology; the sizes of its requests include those at
which the limits of Ultra disks begin. Two faults (`MaxFaults`) fail the first
attempt at a snapshot and the next in another place; one write (`MaxWrites`) tells
a snapshot from one taken again later. Two polls (`MaxPolls`) are one that finds
nothing and the next, after which time is up; two disks and two names let a name
be used again. Handlers are interchangeable, and so are disks that are not shared;
runs with liveness properties use no symmetry. The runs of listing and of
`create_volume` do not check for deadlock: a client that has got everything stops.
What does not change, such as whether a volume is raw block, is chosen in the
initial state.

**Fairness.** `attach_live` assumes weak fairness of each handler (a goroutine
that can run runs; ARM calls return, if only with an error, since they carry a
context) and strong fairness of `LockEntry`: `sync.Mutex` goes into starvation
mode and hands the lock to the waiter that is first in line, so no waiter is
passed over for ever. `snapshots` assumes weak fairness of handlers and of ARM's
copying, and strong fairness of the call that the snapshotter repeats until it is
answered: each sidecar retries with backoff, whenever it has a worker for it.
Failures are bounded by `MaxFaults`, so they stop some time. `device` assumes weak
fairness of the handler only; neither the kernel nor udev has to do anything.
That paging ends is checked as `TokenAdvances`.

**Conditions.** `UnpublishedIsDetached`, `NoLunCollision` and
`ImplementsVolumeAttach` hold if no attach lands after it was reported failed
(`LateAttach = FALSE`): the checks read the VM cache, which a late attach gets past.
`PublishedIsAttached` holds in any case. `PatientPublishIsVolume` is about a kubelet
that waits. `OpensTheDisk` leaves out a link that udev has not updated yet and a
list of system disks that could be read in part only: the code cannot tell either.
The properties of `create_volume` are about storage classes that spell a parameter
in one way only, and `OneDiskPerName` about names that are valid disk names.

## 4. What the violations show

* `delete_guard_key`: `AttachDisk` keys `diskStateMap` by pointer, the guard of
  `DeleteManagedDisk` looks for the URI.
* `list_groups_skip`: the next token adds the start to a count that already holds
  the disks skipped to get there.

The models also contain, and the properties leave out, some behaviour that is less
than the code sets out to do:

* Occupied LUNs are read before the wait for the node lock, so a LUN that a
  VolumeAttachment still carries can be given out (`controllerserver.go:468`).
* For a VM in failed state a publish answers with the LUN it read before
  `UpdateVM`, which may carry out a pending detach (`controllerserver.go:453`).
* After a dangling detach the attach is "tried again" with the disk object fetched
  before, whose `ManagedBy` is old, so it refuses by itself; the sidecar's retry
  succeeds (`controllerserver.go:491`).
* The error of the wait for the provisioning state is only logged
  (`azure_managedDiskController.go:298`).
* Without a kube client the next token of `ListVolumes` is a count, not a position,
  so pages come again (`controllerserver.go:758`); the last page of snapshots
  carries a token that the next call refuses (`azure_snapshot_utils.go:101`).
* `NodePublishVolume` of v1 takes no lock and does not look whether the staging path
  is mounted, so next to an unstage the kubelet has given up on it can bind an empty
  directory (`nodeserver.go:319`). v2 takes the lock of unpublish only after it has
  unmounted (`nodeserver_v2.go:298`).
* The error of growing the file system is dropped when the block device is large
  enough (`nodeserver.go:576`).
* For VM sizes without a published bandwidth the bandwidth of the disk is in MB/s
  where kB/s are meant (`device_perf_linux.go:191`).
* A name that is no valid disk name is replaced by a new one on every retry
  (`azure_disk_utils.go:333`). A storage class that spells a parameter in two ways
  gets either, by the order of the map (`azure_disk_utils.go:616`).
* Two parameters of a storage class are accepted and dropped. `DriverV2` checks
  `diskEncryptionType` (`controllerserver_v2.go:137`) and leaves it out of the options of
  the disk (200-218), so the disk gets the default type, or is made without encryption set
  where the first driver refuses; `docs/driver-parameters.md:60` gives v2 the parameters of
  v1, this one (line 35) among them. A `diskAccessID` (line 40) without
  `networkAccessPolicy` is not looked at (`azure_managedDiskController.go:161`), while one
  that does not go with the policy is refused. `ParametersHonoured` leaves out these two,
  and the theorem `ParametersAreDropped` shows that they never have an effect.
* That a snapshot of the name exists for another volume is noticed within a region
  only: in another region the source that ARM compares is the temporary snapshot
  (`controllerserver.go:1060`).

## 5. Proofs

All theorems are for any sets of disks, nodes, names, requests and handlers and any
number of LUNs, calls and polls, from the named assumptions on the constants, which
TLC evaluates in the runs:

* `AzureAssumption`, `RequestAssumption`, `CallAssumption`, `SizeAssumption`,
  `SourceAssumption`, `ProvisioningAssumption`, `ListingAssumption`: the constants have
  their types, and values that stand for "none" are none of the others.
* `InputAssumption`: a request has sizes that are natural numbers, parameters that
  are strings, and zones with both a region and an id or neither.
* `DeviceAssumption`: data disks have LUNs of their own; a system disk is on a host up
  to 3, which is what the code relies on ("as observed, targets 0-3 are used by OS
  disks", `azure_common_linux.go:127`); driver v2 has no reserved slots. The LUN of a disk
  is fixed, so a LUN that another disk gets after a detach, with links of udev that still
  show the first, is not modelled.

**Attach and detach.** `DiskAttachProofs` is about `Spec`, the first driver;
`DiskAttachRefinesProofs` carries all of it over to `SpecEither`, both drivers, for
which one more step (`PublishUnreadVM`) is looked at.

* `ControlInvariant` proves `TypeOK /\ ControlInv` inductive. None of `QueueServed`,
  `BatchOnBehalf` and `DiskStateNotLeaked` is inductive alone: that a queue entry has
  a handler which will take it needs that a running handler has its arguments
  (`ArgumentsKnown`) and that between taking a queue and using it nobody else is
  inside (`LockHeld`); that a batch acts for a running call needs `QueueServed`. Most
  steps move one handler only; `QueueFrame`, `BatchFrame` and `StateFrame` settle
  those, which leaves the steps that fill or take a queue and those that run a VM
  update. `ControlEither` states the four properties for both drivers.
* `Invariant` adds `RightPoint` (a handler stands at a point of its own call) and
  `CacheSound`: a cached entry never shows a disk as attached that is not. It is the
  reason why `PublishedIsAttached` (`PublishIsTrueEither`) holds even when updates
  land late. If no attach lands late, `InvariantPrompt` adds `CacheComplete` (nor does
  it miss one), from which `LunsDoNotCollideEither` and `UnpublishIsTrueEither`
  follow. The steps of Azure and of handlers are first shown to be of a few kinds (a
  read fills an entry, an update writes VM and cache alike, an invalidation removes
  it); the invariant is then shown once for each kind.
* `Refinement`: `SpecEither => ImplementsVolumeAttach` if no attach lands late. The
  initial state maps to one of `VolumeAttach`, and every step to a step of it or to a
  stutter. The invariant `RefInv` adds to the above that a VM update attaches the disks
  of its batch and no others (`PlanFits`; with `BatchOnBehalf` every disk that comes on
  a VM is one that a working call asked for), that a publish detaches its disk from
  another node than its own (`DanglingElsewhere`), and that attached disks exist. The
  steps are of few kinds again: a handler moves and nothing changes outside; a
  handler's call becomes done or fails; disks come on a VM; disks leave one.

**Sizes.** `VolumeSizeProofs`, both drivers. `CapacityIsBacked` becomes inductive with
`PendingBacked`: what a handler is about to answer is there already. It holds without
a lock because ARM never shrinks a disk. `NodeCapacityHolds` and `FileSystemHolds`
rest on `NodeInv`: while the volume is not staged, the sizes answered and the file
system are held against the disk, which the next stage opens the mapping from; the
mapping was made or grown when the kernel's size was some whole number of GiB. The
comparison of rounded sizes is sound because the request is whole GiB.

**Node plugin.** `NodeServerProofs`, both drivers, calls given up and restarts included.
`IInv` says who holds the entry of `volumeLocks` (`LockInv`), what a handler between
two commands finds (`KernelInv`: before formatting the mapping is open, before closing
it the staging path is gone), and, while the kubelet has waited for all its calls, that
a volume known as staged is readable and no target shows an empty directory
(`PatientInv`). All six properties of `node_calls` follow.

**Snapshots.** `SnapshotProofs`. `Progress` has what a handler relies on between two
calls to ARM; it is kept because other calls leave the snapshots of the name as they
are (`Effect`), which in the first driver is due to the lock (`LockInv`) although the
temporary snapshot has another name, and in the second to ARM, which does not take a
snapshot again that exists.

**CreateVolume.** `ProvisioningProofs`. The parameters are read in an order that is not
known, so all is relative to a *reading*: `PlanInv`, `DisksInv` and `VolumeInv` say that
the plan, every disk and the answer are each those of some reading that was accepted.
The readings may differ (a retry may read the map in another order), but agree on all
fields that have one key (`ReadingsAgree`), which is why the disk has the properties and
the size of the answer although another call may have written it. `ParametersAreHonoured`
follows from `OptionsOf` (what either driver puts into the options) and `Honours` (what
`CreateManagedDisk` makes of them); `ParametersAreDropped` is from the same invariant. It
is the proof for every request that two accepted parameters come to nothing, and goes
with no run. `PlannedWhere` and
`PlannedV2Where` show for every topology, source and SKU that the zone answered is the
zone asked for; `ArmAccepts` keeps it. `UltraDefaults` shows the default IOPS and MBps
for every size. The attempt to prove the lower bound `iops <= 256 * mbps` failed:
`iops/256` is rounded down before it is compared with 100, so that a disk with 25601 to
25855 IOPS gets 100 MBps. `UltraInRange` states the bound that holds, and the run has a
size in that range.

**Device.** `DeviceProofs`. That a name has one disk (`OneName`) and a link one target
(`OneLink`) makes `FoundInv` and `PathInv` inductive: once found, the device stays that
of the disk, since its detach would have to wait for the stage, and udev leaves a link
alone that is right. `SettingsDrive` shows the computed queue depth and request size for
any positive rates; the tables are only used to show that theirs are positive.

**Listing.** `ListingProofs`, for any number of resource groups, disks and any page size.
The loop over the groups is a recursive function; `VisitedUnfolds` shows that it computes
what its equation says, and `LoopHas` that what each turn keeps holds at its end. Both
are inductions over the groups, made with sets instead of the library's induction rule:
a set that has 0, and with each number the next, has all up to `n` (`UpTo`), because a
set of naturals has a least element. `StopFacts` shows that the loop over the disks
stops, at the end or with entries. A turn keeps `RunInv` (entries lie after the start
and up to the next token; the loop stops early only with entries) and `RunCovers` (from a
start in the first group nothing is skipped). Every call then answers with a `Page`, or
fails for a `Cause`, from which `IInv` is inductive: `BehindStart` gives `NoneTwice`;
`OneGroupCovered` and `OneGroupTokens` give `OneGroupListed` and `TokensTaken`, without a
kube client too, where the token goes back but never past what was returned.
`FirstGroupListed` and `UnlimitedListed` say when `AllListed`, which run
`list_groups_skip` refutes, does hold: if the last page starts in the first resource
group, and if the client sets no limit. `StopsAtEnd` (a call that starts beyond the last
disk fails or is the last; `TotalIsOffset` counts the disks) together with
`TokenAdvances` bounds the number of calls by that of the disks and two more.

**Only model-checked**: liveness (`CallReturns`, `RetriesConverge`, `StageReturns`), which
is out of the prover's reach. Every other property of a passing run is a theorem.

## 6. Not modelled

Left out for good: Windows and macOS mounters, the identity service, flag parsing
and start-up, generated tables beyond the values that occur and their generator,
mocks and tests. The throttling caches decide whether a check is made, which the
models leave to choice; the entry for the LUN check is written to one cache and
looked up in the other (`azuredisk.go:377`). `ListVolumes` of v2 is a copy of the
first driver's. `filterNonExistingDisks`, write accelerator and caching mode are
left out of the attach requests: they decide options of a request, not which disk
goes where. `AttachDetachInitialDelayInMs`, which each publish with the parameter
overwrites for all, only changes how long a batch is collected.

The five hazards that have no property concern values that are handed on without being
checked again (the LUNs read before the node lock, the LUN of a VM in failed state), an
error that is dropped, the order of device names from `sdaa` on, and the throttling
entry above; `PROJECT.json` says why for each.
