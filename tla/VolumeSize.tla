----------------------------- MODULE VolumeSize -----------------------------
(* The size of one volume from its creation to its file system:              *)
(* CreateVolume and ControllerExpandVolume (controllerserver.go),            *)
(* CreateManagedDisk and ResizeDisk (azure_managedDiskController.go) in the  *)
(* controller plugin; the part of NodeStageVolume that sets sizes and        *)
(* NodeExpandVolume (nodeserver.go) in the node plugin.  Driver v2           *)
(* (controllerserver_v2.go, nodeserver_v2.go) differs on the node: it has no *)
(* dm-crypt mapping, so crypt is then the disk itself.                       *)
(*                                                                           *)
(* Sizes are in bytes unless they are said to be in GiB; the LUKS header     *)
(* takes Header bytes of the disk.  External: the managed disk in ARM, the   *)
(* kernel's view of it, cryptmapper, and the sidecars, which may call again  *)
(* while an earlier call still runs.                                         *)
EXTENDS Integers, FiniteSets

CONSTANTS Reqs,          \* handlers that may run at the same time
          GiB, Header,   \* one GiB and cryptmapper.LUKSHeaderSize, scaled
          MinimumDiskSizeGiB,
          Requests       \* values of RequiredBytes

ASSUME SizeAssumption ==
    /\ GiB \in Nat \ {0} /\ Header \in Nat /\ Header < GiB
    /\ MinimumDiskSizeGiB \in Nat \ {0}
    /\ Requests \subseteq Nat

VARIABLES pc, req,      \* the handler: position and RequiredBytes
          nameLock,     \* entry of the controller's volumeLocks: by name
          nodeLock,     \* entry of the node's volumeLocks: by volume id
          disk,         \* size of the managed disk in GiB, 0 if there is none
          capacity,     \* CapacityBytes known to Kubernetes, the largest, in GiB
          nodeCapacity, \* the largest capacity NodeExpandVolume answered OK to
          device,       \* size in GiB of the disk as the node's kernel knows it
          crypt, fs,    \* size of the open mapping and of the file system
          block,        \* is it a raw block volume?
          onlineResize, \* --enable-disk-online-resize
          v2            \* is the driver DriverV2?

callVars == <<req, nameLock, nodeLock>>
nodeVars == <<device, crypt, fs>>
knownVars == <<capacity, nodeCapacity>>
options == <<block, onlineResize, v2>>
vars == <<pc, callVars, disk, knownVars, nodeVars, options>>

CreatePoints == {"create", "poll"}
ExpandPoints == {"getDisk", "patch"}
StagePoints == {"stageOpen", "stageFs"}
NodeExpandPoints == {"rescan", "cryptResize", "fsResize", "check"}
Answers == {"created", "expanded", "resized", "ended"}
PCs == CreatePoints \cup ExpandPoints \cup StagePoints \cup NodeExpandPoints
           \cup Answers \cup {"idle"}

\* The state has these types.
TypeOK ==
    /\ pc \in [Reqs -> PCs]
    /\ req \in [Reqs -> Nat]
    /\ nameLock \in BOOLEAN /\ nodeLock \in BOOLEAN
    /\ disk \in Nat /\ device \in Nat /\ capacity \in Nat /\ nodeCapacity \in Nat
    /\ crypt \in Nat /\ fs \in Nat
    /\ {block, onlineResize, v2} \subseteq BOOLEAN

\* newDriverV2 does not set enableDiskOnlineResize.
Init ==
    /\ pc = [r \in Reqs |-> "idle"]
    /\ req = [r \in Reqs |-> 0]
    /\ nameLock = FALSE /\ nodeLock = FALSE
    /\ disk = 0
    /\ capacity = 0 /\ nodeCapacity = 0
    /\ device = 0 /\ crypt = 0 /\ fs = 0
    /\ block \in BOOLEAN /\ onlineResize \in BOOLEAN
    /\ v2 \in IF onlineResize THEN {FALSE} ELSE BOOLEAN

RoundUpGiB(bytes) == bytes \div GiB + (IF bytes % GiB > 0 THEN 1 ELSE 0)
MaxOf(a, b) == IF a > b THEN a ELSE b

\* requestGiB of CreateVolume, and the CapacityBytes of a successful answer.
requestGiB(bytes) == MaxOf(RoundUpGiB(bytes), MinimumDiskSizeGiB)
TellsGiB(r) == IF pc[r] = "created" THEN requestGiB(req[r]) ELSE RoundUpGiB(req[r])

Goto(r, to) == pc' = [pc EXCEPT ![r] = to] /\ UNCHANGED options
Call(r, to, bytes) ==
    /\ pc[r] = "idle"
    /\ Goto(r, to)
    /\ req' = [req EXCEPT ![r] = bytes]

\* The caller gets the answer, or has given up on it.  "ended" is a failure, or
\* an answer that nobody learns a size from.
Reply(r) ==
    /\ pc[r] \in Answers
    /\ Goto(r, "idle")
    /\ req' = [req EXCEPT ![r] = 0]
    /\ \/ UNCHANGED knownVars
       \/ /\ pc[r] \in {"created", "expanded"}
          /\ capacity' = MaxOf(capacity, TellsGiB(r))
          /\ UNCHANGED nodeCapacity
       \/ /\ pc[r] = "resized"
          /\ nodeCapacity' = MaxOf(nodeCapacity, req[r])
          /\ UNCHANGED capacity
    /\ UNCHANGED <<nameLock, nodeLock, disk, nodeVars>>

-----------------------------------------------------------------------------
(* CreateVolume.                                                             *)

\* A call that is refused before it takes the lock leaves no trace; nor does a
\* second call for the name, which is aborted.
CreateVolume(r) ==
    \E bytes \in Requests :
        /\ ~nameLock
        /\ Call(r, "create", bytes)
        /\ nameLock' = TRUE
        /\ UNCHANGED <<nodeLock, disk, knownVars, nodeVars>>

\* The deferred volumeLocks.Release.
CreateReturns(r, to) == Goto(r, to) /\ nameLock' = FALSE

\* The limit, the SKU, the tags, the zone, the source or another parameter does
\* not do: the lock has been taken, and nothing else has happened.
CreateRefused(r) ==
    /\ pc[r] = "create"
    /\ CreateReturns(r, "ended")
    /\ UNCHANGED <<req, nodeLock, disk, knownVars, nodeVars>>

\* CreateOrUpdate of the disk.  ARM grows a disk but never shrinks it, and may
\* have accepted a call that is reported to have failed.
CreateManagedDisk(r) ==
    LET g == requestGiB(req[r]) IN
    /\ pc[r] = "create"
    /\ \/ /\ g >= disk
          /\ disk' = g
          /\ Goto(r, "poll")
          /\ UNCHANGED nameLock
       \/ /\ disk' \in {disk, MaxOf(disk, g)}
          /\ CreateReturns(r, "ended")
    /\ UNCHANGED <<req, nodeLock, knownVars, nodeVars>>

\* The wait for "succeeded", which is left out when GetDisk is throttled; its
\* error is only logged, so the answer is the same.
PollProvisioningState(r) ==
    /\ pc[r] = "poll"
    /\ CreateReturns(r, "created")
    /\ UNCHANGED <<req, nodeLock, disk, knownVars, nodeVars>>

-----------------------------------------------------------------------------
(* ControllerExpandVolume; it takes no lock.                                 *)

ControllerExpandVolume(r) ==
    \E bytes \in Requests \ {0} :
        /\ capacity > 0
        /\ Call(r, "getDisk", bytes)
        /\ UNCHANGED <<nameLock, nodeLock, disk, knownVars, nodeVars>>

\* ResizeDisk up to the Patch.  A disk that is large enough is left alone, one
\* that is attached is refused unless it can be resized online.
ResizeDisk(r) ==
    LET g == RoundUpGiB(req[r]) IN
    /\ pc[r] = "getDisk"
    /\ \/ disk >= g /\ Goto(r, "expanded")
       \/ disk < g /\ (onlineResize \/ device = 0) /\ Goto(r, "patch")
       \/ Goto(r, "ended")  \* Get failed, or the disk is attached
    /\ UNCHANGED <<callVars, disk, knownVars, nodeVars>>

\* Mutant: the error of Patch is dropped.
PatchUnchecked(r) ==
    /\ pc[r] = "patch"
    /\ disk' \in {disk, MaxOf(disk, RoundUpGiB(req[r]))}
    /\ Goto(r, "expanded")
    /\ UNCHANGED <<callVars, knownVars, nodeVars>>
\* By now another call may have made the disk larger still.
PatchDisk(r) ==
    LET g == RoundUpGiB(req[r]) IN
    /\ pc[r] = "patch"
    /\ \/ g >= disk /\ disk' = g /\ Goto(r, "expanded")
       \/ disk' \in {disk, MaxOf(disk, g)} /\ Goto(r, "ended")
    /\ UNCHANGED <<callVars, knownVars, nodeVars>>

-----------------------------------------------------------------------------
(* NodeStageVolume and NodeUnstageVolume, as far as they set sizes.          *)

\* What LUKS takes of a disk, and what is left for the volume.
HeaderSize == IF v2 THEN 0 ELSE Header
Usable(gib) == gib * GiB - HeaderSize

NodeReturns(r, to) == Goto(r, to) /\ nodeLock' = FALSE

NodeStageVolume(r) ==
    /\ capacity > 0 /\ ~nodeLock
    /\ Call(r, "stageOpen", 0)
    /\ nodeLock' = TRUE
    /\ UNCHANGED <<nameLock, disk, knownVars, nodeVars>>

\* The disk is attached and its mapping opened at the size it has now.  Nothing
\* changes if it is mounted already or a step fails.
StageOpen(r) ==
    /\ pc[r] = "stageOpen"
    /\ \/ /\ device' = IF device = 0 THEN disk ELSE device
          /\ crypt' = IF crypt = 0 THEN Usable(device') ELSE crypt
          /\ \/ ~block /\ Goto(r, "stageFs") /\ UNCHANGED nodeLock
             \/ block /\ NodeReturns(r, "ended")
          /\ UNCHANGED fs
       \/ NodeReturns(r, "ended") /\ UNCHANGED nodeVars
    /\ UNCHANGED <<req, nameLock, disk, knownVars>>

\* A new volume gets a file system, one that is too small (needResizeVolume) a
\* larger one, unless one of the steps fails.
StageFs(r) ==
    /\ pc[r] = "stageFs"
    /\ fs' \in {fs, crypt}
    /\ NodeReturns(r, "ended")
    /\ UNCHANGED <<req, nameLock, disk, knownVars, device, crypt>>

\* NodeUnstageVolume and the detach that follows.
NodeUnstageVolume ==
    /\ ~nodeLock /\ device # 0
    /\ device' = 0 /\ crypt' = 0
    /\ UNCHANGED <<pc, callVars, disk, knownVars, fs, options>>

-----------------------------------------------------------------------------
(* NodeExpandVolume: the kubelet asks for the capacity that Kubernetes knows. *)

NodeExpandVolume(r) ==
    /\ ~v2 /\ crypt # 0 /\ (block \/ fs # 0)
    /\ ~nodeLock
    /\ Call(r, IF onlineResize THEN "rescan" ELSE "cryptResize", capacity * GiB)
    /\ nodeLock' = TRUE
    /\ UNCHANGED <<nameLock, disk, knownVars, nodeVars>>

\* DriverV2 answers for a block volume at once, and takes the lock for the others.
NodeExpandVolumeV2(r) ==
    /\ v2 /\ crypt # 0 /\ (block \/ fs # 0)
    /\ \/ block /\ Call(r, "ended", capacity * GiB) /\ UNCHANGED nodeLock
       \/ ~block /\ ~nodeLock /\ Call(r, "fsResize", capacity * GiB) /\ nodeLock' = TRUE
    /\ UNCHANGED <<nameLock, disk, knownVars, nodeVars>>

\* rescanVolume, or rescanAllVolumes: the error is only logged.
RescanVolume(r) ==
    /\ pc[r] = "rescan"
    /\ device' \in {device, disk}
    /\ Goto(r, "cryptResize")
    /\ UNCHANGED <<callVars, disk, knownVars, crypt, fs>>

\* A block volume's size is not looked at afterwards.
ResizeCryptDevice(r) ==
    /\ pc[r] = "cryptResize"
    /\ \/ /\ crypt' = Usable(device)
          /\ \/ ~block /\ Goto(r, "fsResize") /\ UNCHANGED nodeLock
             \/ block /\ NodeReturns(r, "ended")
       \/ NodeReturns(r, "ended") /\ UNCHANGED crypt
    /\ UNCHANGED <<req, nameLock, disk, knownVars, device, fs>>

\* Mutant: what is grown is the disk, not the mapping on it.
ResizeDeviceVolume(r) ==
    /\ pc[r] = "fsResize"
    /\ fs' \in {fs, device * GiB}
    /\ Goto(r, "check")
    /\ UNCHANGED <<callVars, disk, knownVars, device, crypt>>
\* resizeVolume: its error is kept, and the sizes are compared all the same.
ResizeVolume(r) ==
    /\ pc[r] = "fsResize"
    /\ fs' \in {fs, crypt}
    /\ Goto(r, "check")
    /\ UNCHANGED <<callVars, disk, knownVars, device, crypt>>

\* Mutant: the sizes are not compared.
BlockBigAnyway(r) == TRUE
\* gotBlockGiB >= requestGiB.
BlockBigEnough(r) == RoundUpGiB(crypt) >= RoundUpGiB(req[r] - HeaderSize)

CheckBlockSize(r) ==
    /\ pc[r] = "check"
    /\ \/ BlockBigEnough(r) /\ NodeReturns(r, "resized")
       \/ NodeReturns(r, "ended")  \* too small, or the size could not be read
    /\ UNCHANGED <<req, nameLock, disk, knownVars, nodeVars>>

-----------------------------------------------------------------------------
Next ==
    \/ \E r \in Reqs :
          \/ CreateVolume(r) \/ CreateRefused(r)
          \/ CreateManagedDisk(r) \/ PollProvisioningState(r)
          \/ ControllerExpandVolume(r) \/ ResizeDisk(r) \/ PatchDisk(r)
          \/ NodeStageVolume(r) \/ StageOpen(r) \/ StageFs(r)
          \/ NodeExpandVolume(r) \/ NodeExpandVolumeV2(r) \/ RescanVolume(r) \/ ResizeCryptDevice(r)
          \/ ResizeVolume(r) \/ CheckBlockSize(r)
          \/ Reply(r)
    \/ NodeUnstageVolume

Spec == Init /\ [][Next]_vars

-----------------------------------------------------------------------------
(* Properties.                                                               *)

\* What Kubernetes was told the volume's capacity is, by creations and expansions
\* in whatever order they ran and failed, the managed disk has.
CapacityIsBacked == capacity <= disk

\* Once NodeExpandVolume has answered OK for a size, the mapping has that size
\* less the LUKS header whenever it is open, although both sizes were rounded to
\* GiB before they were compared.
NodeCapacityIsBacked == crypt # 0 => nodeCapacity <= crypt + HeaderSize

\* The file system fits the mapping it is on, although it outlives the mapping:
\* it may have been made, or grown, before the volume was unstaged, expanded and
\* staged again, and a rescan may have failed in between.
FileSystemFits == crypt # 0 => fs <= crypt

=============================================================================
