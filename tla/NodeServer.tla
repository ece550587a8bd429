----------------------------- MODULE NodeServer -----------------------------
(* The node plugin: NodeStageVolume, NodeUnstageVolume, NodePublishVolume    *)
(* and NodeUnpublishVolume on one Linux node, of the driver (nodeserver.go)  *)
(* and of driver v2 (nodeserver_v2.go).  The first puts a dm-crypt mapping   *)
(* under every volume; stage and unstage hold the volume's entry of          *)
(* volumeLocks, publish and unpublish hold nothing.  The second has no       *)
(* mapping, holds the entry while it publishes, and takes it at the end of   *)
(* an unpublish.                                                             *)
(*                                                                           *)
(* External, modelled from how the handlers use it: the kernel's mounts, the *)
(* cryptmapper of Constellation, mount.CleanupMountPoint, and the kubelet,   *)
(* which makes one call at a time for a volume but may give up waiting for   *)
(* one and go on while its handler still runs.                               *)
EXTENDS Integers, Sequences, FiniteSets, Functions

CONSTANTS Vols,       \* volumes
          Reqs,       \* handlers that may run at the same time
          NoVol,
          MaxMounts,  \* bound on the mounts stacked on one target path
          Restarts,   \* may the node plugin restart?
          Corrupts    \* may a staged file system go bad?

ASSUME NodeAssumption ==
    /\ NoVol \notin Vols
    /\ MaxMounts \in Nat \ {0}
    /\ {Restarts, Corrupts} \subseteq BOOLEAN

VARIABLES v2,            \* which driver the node runs
          pc, op, vol,   \* the handler: position, call, volume
          awaited,       \* handlers whose answer the kubelet waits for
          volumeLocks,   \* entries of VolumeLocks
          staging,       \* staging[v]: what is at the staging path
          targetDir,     \* volumes whose target path exists
          target,        \* target[v]: mounts on the target path, latest last
          mapped,        \* volumes with an open /dev/mapper device
          staged, published,  \* what the kubelet knows: "no", "yes", "maybe"
          block,         \* the volumes used as raw block devices
          gaveUp         \* history: has the kubelet given up on a call?

kernelVars == <<staging, targetDir, target, mapped>>
kubeletVars == <<awaited, staged, published>>
vars == <<v2, pc, op, vol, volumeLocks, kernelVars, kubeletVars, block, gaveUp>>

Ops == {"stage", "unstage", "publish", "unpublish"}
StagePoints == {"device", "mountPoint", "open", "format", "resize"}
UnstagePoints == {"unmount", "remove", "close"}
LockedPoints == StagePoints \cup UnstagePoints \cup {"pubLocked"}
PublishPoints == {"pubMountPoint", "pubMount"}
UnpublishPoints == {"pubUnmount", "pubRemove", "pubLock", "pubLocked"}
PCs == LockedPoints \cup PublishPoints \cup UnpublishPoints \cup {"idle", "start", "ok", "err"}

\* A file system seen through the bind mount, an empty directory of the node's
\* own disk, or the mapped device.
Mounts == {"fs", "empty", "dev"}

\* The state has these types.
TypeOK ==
    /\ pc \in [Reqs -> PCs]
    /\ op \in [Reqs -> Ops]
    /\ vol \in [Reqs -> Vols \cup {NoVol}]
    /\ awaited \subseteq Reqs
    /\ volumeLocks \subseteq Vols
    /\ staging \in [Vols -> {"absent", "dir", "mounted", "corrupt"}]
    /\ targetDir \subseteq Vols
    /\ target \in [Vols -> Seq(Mounts)]
    /\ \A v \in Vols : Len(target[v]) <= MaxMounts
    /\ mapped \subseteq Vols
    /\ staged \in [Vols -> {"no", "yes", "maybe"}]
    /\ published \in [Vols -> {"no", "yes", "maybe"}]
    /\ block \subseteq Vols /\ {gaveUp, v2} \subseteq BOOLEAN

Init ==
    /\ v2 \in BOOLEAN
    /\ pc = [r \in Reqs |-> "idle"]
    /\ op = [r \in Reqs |-> "stage"]
    /\ vol = [r \in Reqs |-> NoVol]
    /\ awaited = {}
    /\ volumeLocks = {}
    /\ staging = [v \in Vols |-> "absent"]
    /\ targetDir = {}
    /\ target = [v \in Vols |-> <<>>]
    /\ mapped = {}
    /\ staged = [v \in Vols |-> "no"]
    /\ published = [v \in Vols |-> "no"]
    /\ block \in SUBSET Vols
    /\ gaveUp = FALSE

Goto(r, to) == pc' = [pc EXCEPT ![r] = to] /\ UNCHANGED <<v2, block, gaveUp>>

-----------------------------------------------------------------------------
(* The kubelet.                                                              *)

\* A publish follows a stage that answered OK, and an unstage an unpublish; what
\* is not known to be done, or undone, is called for again.
MayCall(o, v) ==
    /\ \A r \in awaited : vol[r] # v
    /\ \/ o = "stage"
       \/ o = "publish" /\ staged[v] = "yes"
       \/ o = "unpublish" /\ published[v] # "no"
       \/ o = "unstage" /\ published[v] = "no" /\ staged[v] # "no"

Call(r, o, v) ==
    /\ pc[r] = "idle"
    /\ MayCall(o, v)
    /\ op' = [op EXCEPT ![r] = o]
    /\ vol' = [vol EXCEPT ![r] = v]
    /\ awaited' = awaited \cup {r}
    /\ Goto(r, CASE o \in {"stage", "unstage"} -> "start"
                 [] o = "publish" -> IF v2 THEN "start" ELSE "pubMountPoint"
                 [] o = "unpublish" -> "pubUnmount")
    /\ staged' = [staged EXCEPT ![v] = IF o \in {"stage", "unstage"} THEN "maybe" ELSE @]
    /\ published' = [published EXCEPT ![v] = IF o \in {"publish", "unpublish"} THEN "maybe" ELSE @]
    /\ UNCHANGED <<volumeLocks, kernelVars>>

\* What the kubelet learns from an answer it still waits for.
Reply(r) ==
    LET learn == r \in awaited /\ pc[r] = "ok"
        v == vol[r]
    IN
    /\ pc[r] \in {"ok", "err"}
    /\ Goto(r, "idle")
    /\ op' = [op EXCEPT ![r] = "stage"]
    /\ vol' = [vol EXCEPT ![r] = NoVol]
    /\ awaited' = awaited \ {r}
    /\ staged' = IF learn /\ op[r] \in {"stage", "unstage"}
                 THEN [staged EXCEPT ![v] = IF op[r] = "stage" THEN "yes" ELSE "no"]
                 ELSE staged
    /\ published' = IF learn /\ op[r] \in {"publish", "unpublish"}
                    THEN [published EXCEPT ![v] = IF op[r] = "publish" THEN "yes" ELSE "no"]
                    ELSE published
    /\ UNCHANGED <<volumeLocks, kernelVars>>

Abandon(r) ==
    /\ r \in awaited
    /\ awaited' = awaited \ {r}
    /\ gaveUp' = TRUE
    /\ UNCHANGED <<v2, pc, op, vol, volumeLocks, kernelVars, staged, published, block>>

-----------------------------------------------------------------------------
(* volumeLocks.                                                              *)

\* The first step of a handler that has the lock.
FirstStep(o) ==
    CASE o = "stage" -> "device" [] o = "unstage" -> "unmount" [] OTHER -> "pubMountPoint"

\* Mutant: the lock is not looked at.
NotAcquired(v) == FALSE
Acquired(v) == v \in volumeLocks

TryAcquire(r) ==
    /\ pc[r] = "start"
    /\ IF Acquired(vol[r])
       THEN Goto(r, "err") /\ UNCHANGED volumeLocks
       ELSE /\ volumeLocks' = volumeLocks \cup {vol[r]}
            /\ Goto(r, FirstStep(op[r]))
    /\ UNCHANGED <<op, vol, kernelVars, kubeletVars>>

\* Mutant: an error path without the deferred Release.
ReturnsLocked(r, to) ==
    /\ Goto(r, to)
    /\ volumeLocks' = IF to = "err" THEN volumeLocks ELSE volumeLocks \ {vol[r]}
\* The handler returns: the deferred volumeLocks.Release.
Returns(r, to) ==
    /\ Goto(r, to)
    /\ volumeLocks' = volumeLocks \ {vol[r]}

\* The handler goes on.
Continues(r, to) == Goto(r, to) /\ UNCHANGED volumeLocks

\* NodePublishVolume returns.
PublishReturns(r, to) == IF v2 THEN Returns(r, to) ELSE Continues(r, to)

-----------------------------------------------------------------------------
(* NodeStageVolume.                                                          *)

\* getDevicePathWithLUN and OptimizeDiskPerformance; either may fail.
GetDevicePathWithLUN(r) ==
    /\ pc[r] = "device"
    /\ ~v2
    /\ Continues(r, "mountPoint") \/ Returns(r, "err")
    /\ UNCHANGED <<op, vol, kernelVars, kubeletVars>>

\* With that, driver v2 has staged a block volume.
GetDevicePathWithLUNV2(r) ==
    /\ pc[r] = "device"
    /\ v2
    /\ \/ IF vol[r] \in block THEN Returns(r, "ok") ELSE Continues(r, "mountPoint")
       \/ Returns(r, "err")
    /\ UNCHANGED <<op, vol, kernelVars, kubeletVars>>

\* What follows ensureMountPoint: driver v2 formats and mounts the disk itself.
AfterMountPoint == IF v2 THEN "format" ELSE "open"

\* Mutant: a mount that was just taken away is reported as mounted.
StageCorruptMounted(r) ==
    LET v == vol[r] IN
    /\ pc[r] = "mountPoint"
    /\ \/ /\ staging[v] \in {"mounted", "corrupt"}
          /\ Returns(r, "ok")
          /\ staging' = [staging EXCEPT ![v] = IF @ = "corrupt" THEN "dir" ELSE @]
       \/ /\ staging[v] \in {"absent", "dir"}
          /\ Continues(r, "open")
          /\ staging' = [staging EXCEPT ![v] = "dir"]
    /\ UNCHANGED <<op, vol, targetDir, target, mapped, kubeletVars>>
\* ensureMountPoint of the staging path.  A mount that cannot be read is
\* unmounted, and the call fails all the same.
StageEnsureMountPoint(r) ==
    LET v == vol[r] IN
    /\ pc[r] = "mountPoint"
    /\ \/ /\ staging[v] = "mounted"
          /\ Returns(r, "ok")
          /\ UNCHANGED staging
       \/ /\ staging[v] = "corrupt"
          /\ Returns(r, "err")
          /\ staging' = [staging EXCEPT ![v] = "dir"]
       \/ /\ staging[v] \in {"absent", "dir"}
          /\ Continues(r, AfterMountPoint)
          /\ staging' = [staging EXCEPT ![v] = "dir"]
       \/ Returns(r, "err") /\ UNCHANGED staging
    /\ UNCHANGED <<op, vol, targetDir, target, mapped, kubeletVars>>

\* A volume left open by an earlier attempt is opened again.
OpenCryptDevice(r) ==
    LET v == vol[r] IN
    /\ pc[r] = "open"
    /\ \/ /\ mapped' = mapped \cup {v}
          /\ IF v \in block THEN Returns(r, "ok") ELSE Continues(r, "format")
       \/ Returns(r, "err") /\ UNCHANGED mapped
    /\ UNCHANGED <<op, vol, staging, targetDir, target, kubeletVars>>

\* Mutant: the error of formatAndMount is dropped.
FormatUnchecked(r) ==
    /\ pc[r] = "format"
    /\ Continues(r, "resize")
    /\ \E to \in {"dir", "mounted"} : staging' = [staging EXCEPT ![vol[r]] = to]
    /\ UNCHANGED <<op, vol, targetDir, target, mapped, kubeletVars>>
\* The mapping stays open when the file system cannot be made or mounted.
FormatAndMount(r) ==
    /\ pc[r] = "format"
    /\ \/ /\ Continues(r, "resize")
          /\ staging' = [staging EXCEPT ![vol[r]] = "mounted"]
       \/ Returns(r, "err") /\ UNCHANGED staging
    /\ UNCHANGED <<op, vol, targetDir, target, mapped, kubeletVars>>

\* needResizeVolume, whose error is only logged, and resizeVolume.
StageResize(r) ==
    /\ pc[r] = "resize"
    /\ \E to \in {"ok", "err"} : Returns(r, to)
    /\ UNCHANGED <<op, vol, kernelVars, kubeletVars>>

-----------------------------------------------------------------------------
(* NodeUnstageVolume.                                                        *)

\* CleanupMountPoint has cleaned up the staging path.
Cleaned(r) == IF v2 THEN Returns(r, "ok") ELSE Continues(r, "close")

\* CleanupMountPoint: unmount, then remove the directory.
UnstageUnmount(r) ==
    LET v == vol[r] IN
    /\ pc[r] = "unmount"
    /\ \/ /\ staging[v] = "absent"
          /\ Cleaned(r)
          /\ UNCHANGED staging
       \/ /\ staging[v] # "absent"
          /\ Continues(r, "remove")
          /\ staging' = [staging EXCEPT ![v] = "dir"]
       \/ Returns(r, "err") /\ UNCHANGED staging
    /\ UNCHANGED <<op, vol, targetDir, target, mapped, kubeletVars>>

UnstageRemove(r) ==
    /\ pc[r] = "remove"
    /\ \/ /\ Cleaned(r)
          /\ staging' = [staging EXCEPT ![vol[r]] = "absent"]
       \/ Returns(r, "err") /\ UNCHANGED staging
    /\ UNCHANGED <<op, vol, targetDir, target, mapped, kubeletVars>>

\* A file system that is mounted anywhere keeps its device in use.
InUse(v) == staging[v] \in {"mounted", "corrupt"} \/ "fs" \in Range(target[v])

\* Mutant: the error of CloseCryptDevice is dropped.
CloseUnchecked(r) ==
    /\ pc[r] = "close"
    /\ mapped' = IF InUse(vol[r]) THEN mapped ELSE mapped \ {vol[r]}
    /\ Returns(r, "ok")
    /\ UNCHANGED <<op, vol, staging, targetDir, target, kubeletVars>>
\* Closing a volume that is not open succeeds.
CloseCryptDevice(r) ==
    /\ pc[r] = "close"
    /\ \/ /\ ~InUse(vol[r])
          /\ mapped' = mapped \ {vol[r]}
          /\ Returns(r, "ok")
       \/ Returns(r, "err") /\ UNCHANGED mapped
    /\ UNCHANGED <<op, vol, staging, targetDir, target, kubeletVars>>

-----------------------------------------------------------------------------
(* NodePublishVolume and NodeUnpublishVolume.                                *)

Unmounted(v) == [target EXCEPT ![v] = IF @ = <<>> THEN @ ELSE SubSeq(@, 1, Len(@) - 1)]

\* ensureMountPoint of the target path or, for a block volume,
\* ensureBlockTargetFile, which does not look for a mount; driver v2 finds the
\* device of a block volume first.
PublishEnsureMountPoint(r) ==
    LET v == vol[r] IN
    /\ pc[r] = "pubMountPoint"
    /\ \/ /\ v \notin block /\ target[v] # <<>>
          /\ \/ PublishReturns(r, "ok") /\ UNCHANGED target
             \/ Corrupts /\ PublishReturns(r, "err") /\ target' = Unmounted(v)
          /\ UNCHANGED targetDir
       \/ /\ v \in block \/ target[v] = <<>>
          /\ Continues(r, "pubMount")
          /\ targetDir' = targetDir \cup {v}
          /\ UNCHANGED target
       \/ PublishReturns(r, "err") /\ UNCHANGED <<targetDir, target>>
    /\ UNCHANGED <<op, vol, staging, mapped, kubeletVars>>

\* What a bind mount of the source shows; the mount fails if there is no source.
Source(v) ==
    CASE v \in block /\ (v2 \/ v \in mapped) -> {"dev"}
      [] v \notin block /\ staging[v] \in {"mounted", "corrupt"} -> {"fs"}
      [] v \notin block /\ staging[v] = "dir" -> {"empty"}
      [] OTHER -> {}

PublishMount(r) ==
    LET v == vol[r] IN
    /\ pc[r] = "pubMount"
    /\ \/ /\ v \in targetDir
          /\ Len(target[v]) < MaxMounts
          /\ \E m \in Source(v) : target' = [target EXCEPT ![v] = Append(@, m)]
          /\ PublishReturns(r, "ok")
       \/ PublishReturns(r, "err") /\ UNCHANGED target
    /\ UNCHANGED <<op, vol, staging, targetDir, mapped, kubeletVars>>

\* Mutant: the error of CleanupMountPoint is dropped.
UnmountUnchecked(r) ==
    /\ pc[r] = "pubUnmount"
    /\ \E left \in {target, Unmounted(vol[r])} : target' = left
    /\ Continues(r, "ok")
    /\ UNCHANGED <<op, vol, staging, targetDir, mapped, kubeletVars>>
\* Driver v2 looks for the lock when all is done.
Unpublished(r) == Continues(r, IF v2 THEN "pubLock" ELSE "ok")

\* CleanupMountPoint of the target path: one unmount, an error if something is
\* still mounted there, then the directory goes.  Driver v2 asks for no
\* extensive check and does not see a bind mount of a directory of the node's
\* own disk, which then cannot be removed.
SeenMounted(v) == target[v] # <<>> /\ (v2 => target[v][Len(target[v])] # "empty")
UnpublishUnmount(r) ==
    LET v == vol[r] IN
    /\ pc[r] = "pubUnmount"
    /\ \/ /\ v \notin targetDir
          /\ Unpublished(r)
          /\ UNCHANGED target
       \/ /\ v \in targetDir
          /\ target' = IF SeenMounted(v) THEN Unmounted(v) ELSE target
          /\ Continues(r, IF target'[v] = <<>> THEN "pubRemove" ELSE "err")
       \/ Continues(r, "err") /\ UNCHANGED target
    /\ UNCHANGED <<op, vol, staging, targetDir, mapped, kubeletVars>>

UnpublishRemove(r) ==
    LET v == vol[r] IN
    /\ pc[r] = "pubRemove"
    /\ \/ /\ target[v] = <<>>
          /\ Unpublished(r)
          /\ targetDir' = targetDir \ {v}
       \/ Continues(r, "err") /\ UNCHANGED targetDir
    /\ UNCHANGED <<op, vol, staging, target, mapped, kubeletVars>>

UnpublishLock(r) ==
    /\ \/ /\ pc[r] = "pubLock"
          /\ IF Acquired(vol[r])
             THEN Continues(r, "err")
             ELSE Goto(r, "pubLocked") /\ volumeLocks' = volumeLocks \cup {vol[r]}
       \/ pc[r] = "pubLocked" /\ Returns(r, "ok")
    /\ UNCHANGED <<op, vol, kernelVars, kubeletVars>>

-----------------------------------------------------------------------------
\* The plugin restarts: its locks and handlers are gone, the kernel's state and
\* what the kubelet knows are not.
Restart ==
    /\ Restarts
    /\ pc' = [r \in Reqs |-> "idle"]
    /\ op' = [r \in Reqs |-> "stage"]
    /\ vol' = [r \in Reqs |-> NoVol]
    /\ awaited' = {}
    /\ volumeLocks' = {}
    /\ UNCHANGED <<v2, kernelVars, staged, published, block, gaveUp>>

\* The mount at the staging path cannot be read any more.
StagingGoesBad(v) ==
    /\ Corrupts
    /\ staging[v] = "mounted"
    /\ staging' = [staging EXCEPT ![v] = "corrupt"]
    /\ UNCHANGED <<v2, pc, op, vol, volumeLocks, targetDir, target, mapped, kubeletVars,
                   block, gaveUp>>

Handler(r) ==
    \/ TryAcquire(r)
    \/ GetDevicePathWithLUN(r) \/ GetDevicePathWithLUNV2(r)
    \/ StageEnsureMountPoint(r) \/ OpenCryptDevice(r)
    \/ FormatAndMount(r) \/ StageResize(r)
    \/ UnstageUnmount(r) \/ UnstageRemove(r) \/ CloseCryptDevice(r)
    \/ PublishEnsureMountPoint(r) \/ PublishMount(r)
    \/ UnpublishUnmount(r) \/ UnpublishRemove(r) \/ UnpublishLock(r)
    \/ Reply(r)

Next ==
    \/ \E r \in Reqs :
          \/ \E o \in Ops, v \in Vols : Call(r, o, v)
          \/ Handler(r)
          \/ Abandon(r)
    \/ \E v \in Vols : StagingGoesBad(v)
    \/ Restart

Spec == Init /\ [][Next]_vars

-----------------------------------------------------------------------------
(* Properties.                                                               *)

\* nodeserver.go:149, "if volume is already mounted, we also already opened the
\* crypt device": no file system is mounted, at the staging or the target path,
\* without its mapping, whatever failed or was interrupted before.
MountedIsOpen == ~v2 => \A v \in Vols : InUse(v) => v \in mapped

\* An entry of volumeLocks belongs to exactly one handler that runs under it; a
\* leaked one would abort every later call for the volume.
LocksOwned ==
    \A v \in Vols :
        LET held == LockedPoints \cup (IF v2 THEN PublishPoints ELSE {})
            inside == {r \in Reqs : pc[r] \in held /\ vol[r] = v}
        IN /\ Cardinality(inside) <= 1
           /\ v \in volumeLocks <=> inside # {}

Answers(r, o) == pc[r] # "ok" /\ pc'[r] = "ok" /\ op[r] = o

\* NodeStageVolume answers OK only with the volume open and, unless it is a block
\* volume, mounted at the staging path.
StagedIsMounted ==
    [][\A r \in Reqs :
          Answers(r, "stage") =>
             /\ v2 \/ vol[r] \in mapped'
             /\ vol[r] \notin block => staging'[vol[r]] \in {"mounted", "corrupt"}]_vars

\* NodeUnstageVolume answers OK only when the mapping is closed, so that the disk
\* can be detached ("so we can properly remove the device from the node").
UnstagedIsClosed ==
    [][\A r \in Reqs :
          Answers(r, "unstage") => vol[r] \notin mapped' /\ staging'[vol[r]] = "absent"]_vars

\* NodeUnpublishVolume answers OK only when nothing is mounted at the target path.
\* Driver v2, which takes the lock after it has unmounted, lets a publish that the
\* kubelet has given up on mount in between; without one it keeps the promise too.
UnpublishedIsUnmounted ==
    [][\A r \in Reqs :
          Answers(r, "unpublish") /\ (v2 => ~gaveUp) => target'[vol[r]] = <<>>]_vars

\* "NodePublishVolume mount the volume from staging to target path"
\* (nodeserver.go:252): the pod sees the volume, never an empty directory of the
\* node's own disk.  It takes no lock, so a late unstage can get in between; it
\* holds as long as the kubelet has waited for every answer, whatever failed and
\* however often the plugin restarted.
PublishesVolume(r) ==
    Answers(r, "publish") /\ r \in awaited =>
        LET mounts == target'[vol[r]]
        IN mounts # <<>> /\ mounts[Len(mounts)] # "empty"
PatientPublishIsVolume == [][~gaveUp => \A r \in Reqs : PublishesVolume(r)]_vars
=============================================================================
