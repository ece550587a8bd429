----------------------------- MODULE DiskAttach -----------------------------
(* Attaching, detaching and deleting managed disks in the controller plugin: *)
(* ControllerPublishVolume, ControllerUnpublishVolume and DeleteVolume       *)
(* (controllerserver.go), the batching disk controller under them            *)
(* (controllerCommon in azure_controller_common.go) and DeleteManagedDisk    *)
(* (azure_managedDiskController.go).                                         *)
(*                                                                           *)
(* A request handler is a goroutine; pc says where it stands.  A step runs   *)
(* from one point where another goroutine can get in (a blocking lock, an    *)
(* ARM call, an unlocked read of shared state) to the next, deferred calls   *)
(* included.                                                                 *)
EXTENDS AzureVM

CONSTANTS Reqs,                   \* handlers that may run at the same time
          NoReq, NoDisk,
          Ops,                    \* the calls the sidecars make
          CheckDiskLUNCollision,  \* --check-disk-lun-collision
          ForceDetachBackoff,     \* --force-detach-backoff
          VAListFails,            \* may reading the occupied LUNs fail?
          Restarts                \* may the controller plugin restart?

ASSUME RequestAssumption ==
    /\ NoReq \notin Reqs
    /\ NoDisk \notin Disks
    /\ Reqs \cap Disks = {}
    /\ Ops \subseteq {"publish", "unpublish", "delete"}
    /\ CheckDiskLUNCollision \in BOOLEAN
    /\ VAListFails \in BOOLEAN
    /\ ForceDetachBackoff \in BOOLEAN
    /\ Restarts \in BOOLEAN

VARIABLES pc, op, disk, node,  \* the handler: position, call and arguments
          seen,      \* seen[r]: ManagedBy of the disk as checkDiskExists got it
          occupied,  \* occupied[r]: occupiedLuns of this publish
          batch,     \* batch[r]: the disks of diskMap, once taken off the queue
          plan,      \* plan[r]: the LUNs SetDiskLun gave to the disks of batch[r]
          lun,       \* lun[r]: the LUN to be returned
          attachDiskMap, detachDiskMap,  \* disks queued for each node
          lock,      \* lockMap: holder of the entry of each node
          diskStateMap,  \* keys of diskStateMap: a disk URI, or the handler
                         \* whose fetched *armcompute.Disk is the key
          volumeLocks,   \* entries of VolumeLocks
          va         \* va[n][d]: LUN in the VolumeAttachment of d on n

reqVars == <<op, disk, node>>
callVars == <<seen, occupied, batch, plan, lun>>
queueVars == <<attachDiskMap, detachDiskMap>>
vars == <<azureVars, pc, reqVars, callVars, queueVars, lock, diskStateMap,
          volumeLocks, va>>

\* The points of AttachDisk and DetachDisk that are reached under the node lock.
AttachLocked == {"attachClean", "setLun", "vmAttach", "vmRetry", "attachCheck"}
DetachLocked == {"detachClean", "vmDetach", "vmForce", "detachCheck"}
UpdateLocked == {"failedUpdate", "staleUpdate"}
Locked == AttachLocked \cup DetachLocked \cup UpdateLocked
DetachPoints == {"detach", "detachLock"} \cup DetachLocked
PCs == Locked \cup DetachPoints \cup
    {"idle", "checkDisk", "getLun", "occupied", "attach", "reattach", "attachLock",
     "failedLock", "staleLock", "staleLun", "delGuard", "delGet", "delCall",
     "ok", "err"}

RequestTypeOK ==
    /\ pc \in [Reqs -> PCs]
    /\ op \in [Reqs -> {"publish", "unpublish", "delete"}]
    /\ disk \in [Reqs -> Disks \cup {NoDisk}]
    /\ node \in [Reqs -> Nodes \cup {NoNode}]
    /\ seen \in [Reqs -> Nodes \cup {NoNode}]
    /\ occupied \in [Reqs -> SUBSET Luns]
    /\ batch \in [Reqs -> SUBSET Disks]
    /\ plan \in [Reqs -> LunMap]
    /\ lun \in [Reqs -> Luns \cup {NoLun}]
    /\ attachDiskMap \in [Nodes -> SUBSET Disks]
    /\ detachDiskMap \in [Nodes -> SUBSET Disks]
    /\ lock \in [Nodes -> Reqs \cup {NoReq}]
    /\ diskStateMap \subseteq Disks \cup Reqs
    /\ volumeLocks \subseteq Disks
    /\ va \in [Nodes -> LunMap]

\* The state has the types declared above, through every error path.
TypeOK == AzureTypeOK /\ RequestTypeOK

Init ==
    /\ AzureInit
    /\ pc = [r \in Reqs |-> "idle"]
    /\ op = [r \in Reqs |-> "publish"]
    /\ disk = [r \in Reqs |-> NoDisk]
    /\ node = [r \in Reqs |-> NoNode]
    /\ seen = [r \in Reqs |-> NoNode]
    /\ occupied = [r \in Reqs |-> {}]
    /\ batch = [r \in Reqs |-> {}]
    /\ plan = [r \in Reqs |-> NoLuns]
    /\ lun = [r \in Reqs |-> NoLun]
    /\ attachDiskMap = [n \in Nodes |-> {}]
    /\ detachDiskMap = [n \in Nodes |-> {}]
    /\ lock = [n \in Nodes |-> NoReq]
    /\ diskStateMap = {}
    /\ volumeLocks = {}
    /\ va = [n \in Nodes |-> NoLuns]

-----------------------------------------------------------------------------
(* Helpers.                                                                  *)

Goto(r, to) == pc' = [pc EXCEPT ![r] = to]

\* The node that the running AttachDisk, DetachDisk or UpdateVM call is about:
\* a publish that met a dangling attachment detaches from the node it saw.
At(r) == IF op[r] = "publish" /\ pc[r] \in DetachPoints THEN seen[r] ELSE node[r]

\* Mutant: ToBeDetached is not looked at.
GetDiskLunAnyState(n, d) == ReadDisks(n)[d]
\* GetDiskLun: the disk's LUN in the (cached) data disks, ToBeDetached skipped.
GetDiskLun(n, d) == IF d \in ReadTbd(n) THEN NoLun ELSE ReadDisks(n)[d]

\* getOccupiedLunsFromNode: GetElementsInArray1NotInArray2 of the LUNs in the
\* VolumeAttachments of the node and those of its data disks.
Holders(luns, l) == {d \in Disks : luns[d] = l}
getOccupiedLunsFromNode(n) ==
    {l \in Luns : Cardinality(Holders(va[n], l)) > Cardinality(Holders(ReadDisks(n), l))}

\* SetDiskLun: the free LUNs, lowest first, go to the disks of the batch in the
\* (random) order in which the map is iterated; {} when there are too few.
\* Mutant: the LUN of a disk that is ToBeDetached counts as free.
FreeLunsSkipTbd(n, occ) == (Luns \ occ) \ {GetDiskLun(n, d) : d \in Disks}
FreeLuns(n, occ) == (Luns \ occ) \ {ReadDisks(n)[d] : d \in Disks}
SetDiskLun(n, disks, occ) ==
    LET free == FreeLuns(n, occ)
        low == {l \in free : Cardinality({m \in free : m < l}) < Cardinality(disks)}
    IN {p \in LunMap :
          /\ On(p) = disks
          /\ \A d \in disks : p[d] \in low
          /\ \A d, e \in disks : d # e => p[d] # p[e]}

\* Where the caller of DetachDisk goes on after a success.
AfterDetach(r) == IF op[r] = "publish" THEN "reattach" ELSE "ok"
\* And after an error: ControllerUnpublishVolume takes one that says "not found"
\* for a success, which errors about a VM that is gone do.
DetachError(r) ==
    {"err"} \cup (IF op[r] = "unpublish" /\ At(r) \notin alive THEN {"ok"} ELSE {})

-----------------------------------------------------------------------------
(* The calls, and their answers.                                             *)

Call(r, o, d, n) ==
    /\ pc[r] = "idle"
    /\ op' = [op EXCEPT ![r] = o]
    /\ disk' = [disk EXCEPT ![r] = d]
    /\ node' = [node EXCEPT ![r] = n]
    /\ UNCHANGED <<azureVars, callVars, queueVars, lock, diskStateMap, va>>
    /\ \/ /\ o = "publish"
          /\ Goto(r, "checkDisk")
          /\ UNCHANGED volumeLocks
       \/ /\ o = "unpublish"
          /\ Goto(r, "detach")
          /\ UNCHANGED volumeLocks
       \/ /\ o = "delete"
          /\ IF d \in volumeLocks
             THEN Goto(r, "err") /\ UNCHANGED volumeLocks
             ELSE Goto(r, "delGuard") /\ volumeLocks' = volumeLocks \cup {d}

\* The sidecar gets the answer: the external-attacher records a published LUN
\* in the VolumeAttachment and drops the VolumeAttachment once unpublished (kept
\* track of if the driver looks at it).
Reply(r) ==
    /\ pc[r] \in {"ok", "err"}
    /\ Goto(r, "idle")
    /\ va' = IF CheckDiskLUNCollision /\ pc[r] = "ok" /\ op[r] # "delete"
             THEN [va EXCEPT ![node[r]][disk[r]] =
                      IF op[r] = "publish" THEN lun[r] ELSE NoLun]
             ELSE va
    /\ op' = [op EXCEPT ![r] = "publish"]
    /\ disk' = [disk EXCEPT ![r] = NoDisk]
    /\ node' = [node EXCEPT ![r] = NoNode]
    /\ seen' = [seen EXCEPT ![r] = NoNode]
    /\ occupied' = [occupied EXCEPT ![r] = {}]
    /\ lun' = [lun EXCEPT ![r] = NoLun]
    /\ UNCHANGED <<azureVars, batch, plan, queueVars, lock, diskStateMap, volumeLocks>>

-----------------------------------------------------------------------------
(* ControllerPublishVolume.                                                  *)

CheckDiskExists(r) ==
    /\ pc[r] = "checkDisk"
    /\ \/ /\ disk[r] \in exists
          /\ \E n \in (IF ManagedBy(disk[r]) = {} THEN {NoNode} ELSE ManagedBy(disk[r])) :
                seen' = [seen EXCEPT ![r] = n]
          /\ Goto(r, "getLun")
       \/ Goto(r, "err") /\ UNCHANGED seen
    /\ UNCHANGED <<azureVars, reqVars, occupied, batch, plan, lun, queueVars, lock,
                   diskStateMap, volumeLocks, va>>

\* Already attached (a VM in failed state is updated first), not attached, or
\* the VM could not be read.
PublishGetDiskLun(r) ==
    LET l == GetDiskLun(node[r], disk[r]) IN
    /\ pc[r] = "getLun"
    /\ \/ /\ Readable(node[r])
          /\ FillCache(node[r])
          /\ lun' = [lun EXCEPT ![r] = l]
          /\ \/ l # NoLun /\ Goto(r, "ok")
             \/ l # NoLun /\ Goto(r, "failedLock")
             \/ l = NoLun /\ Goto(r, "occupied")
       \/ Goto(r, "err") /\ UNCHANGED <<cacheVars, lun>>
    /\ UNCHANGED <<exists, alive, vmVars, reqVars, seen, occupied, batch, plan,
                   queueVars, lock, diskStateMap, volumeLocks, va>>

\* The VM is read only if it has VolumeAttachments; a failed read leaves
\* occupiedLuns empty.
GetOccupiedLuns(r) ==
    LET n == node[r] IN
    /\ pc[r] = "occupied"
    /\ Goto(r, "attach")
    /\ \/ /\ CheckDiskLUNCollision /\ va[n] # NoLuns
          /\ Readable(n) /\ FillCache(n)
          /\ occupied' = [occupied EXCEPT ![r] = getOccupiedLunsFromNode(n)]
       \/ /\ ~CheckDiskLUNCollision \/ va[n] = NoLuns \/ VAListFails \/ ~Readable(n)
          /\ UNCHANGED <<cacheVars, occupied>>
    /\ UNCHANGED <<exists, alive, vmVars, reqVars, seen, batch, plan, lun,
                   queueVars, lock, diskStateMap, volumeLocks, va>>

-----------------------------------------------------------------------------
(* AttachDisk.                                                               *)

\* A disk that is queued already stays queued once.
insertAttachDiskRequest(n, d) == attachDiskMap' = [attachDiskMap EXCEPT ![n] = @ \cup {d}]
insertDetachDiskRequest(n, d) == detachDiskMap' = [detachDiskMap EXCEPT ![n] = @ \cup {d}]

\* The checks on the disk fetched by CheckDiskExists, then the request is
\* queued.  After DetachDisk the same disk is passed again.
AttachDisk(r) ==
    LET exclusive == disk[r] \notin Shared IN
    /\ pc[r] \in {"attach", "reattach"}
    /\ \/ /\ exclusive /\ seen[r] = node[r]
          /\ Goto(r, "staleLock")
          /\ UNCHANGED <<attachDiskMap, seen>>
       \/ /\ exclusive /\ seen[r] \notin {NoNode, node[r]}
          /\ Goto(r, IF pc[r] = "attach" THEN "detach" ELSE "err")
          /\ UNCHANGED <<attachDiskMap, seen>>
       \/ /\ exclusive /\ seen[r] = NoNode  \* DiskState is not Unattached
          /\ Goto(r, "err")
          /\ UNCHANGED <<attachDiskMap, seen>>
       \/ /\ exclusive => seen[r] = NoNode
          /\ Goto(r, "attachLock")
          /\ insertAttachDiskRequest(node[r], disk[r])
          /\ seen' = [seen EXCEPT ![r] = NoNode]  \* no longer needed
    /\ UNCHANGED <<azureVars, reqVars, occupied, batch, plan, lun, detachDiskMap, lock, diskStateMap,
                   volumeLocks, va>>

\* lockMap.LockEntry(node), wherever it is called.
\* Mutant: a mutex of its own for every caller.
LockFreeForAll(n) == TRUE
LockFree(n) == lock[n] = NoReq
Granted == [attachLock |-> "attachClean", detachLock |-> "detachClean",
            failedLock |-> "failedUpdate", staleLock |-> "staleUpdate"]
LockEntry(r) ==
    /\ pc[r] \in {"attachLock", "detachLock", "failedLock", "staleLock"}
    /\ LockFree(At(r))
    /\ lock' = [lock EXCEPT ![At(r)] = r]
    /\ Goto(r, Granted[pc[r]])
    /\ UNCHANGED <<azureVars, reqVars, callVars, queueVars, diskStateMap, volumeLocks, va>>

\* cleanAttachDiskRequests and cleanDetachDiskRequests leave an empty map.
\* Mutant: the old map stays.
OldMap(queue, n) == queue
EmptyMap(queue, n) == [queue EXCEPT ![n] = {}]

CleanAttachDiskRequests(r) ==
    /\ pc[r] = "attachClean"
    /\ batch' = [batch EXCEPT ![r] = attachDiskMap[node[r]]]
    /\ attachDiskMap' = EmptyMap(attachDiskMap, node[r])
    /\ Goto(r, "setLun")
    /\ UNCHANGED <<azureVars, reqVars, seen, occupied, plan, lun, detachDiskMap, lock,
                   diskStateMap, volumeLocks, va>>

\* Mutant: a return before the deferred UnlockEntry is set up.
AttachReturnsLocked(r, to) ==
    /\ diskStateMap' = diskStateMap \ {r}
    /\ batch' = [batch EXCEPT ![r] = {}]
    /\ plan' = [plan EXCEPT ![r] = NoLuns]
    /\ Goto(r, to)
    /\ UNCHANGED lock
\* AttachDisk returns: the deferred diskStateMap.Delete and UnlockEntry.
AttachReturns(r, to) ==
    /\ diskStateMap' = diskStateMap \ {r}
    /\ lock' = [lock EXCEPT ![node[r]] = NoReq]
    /\ batch' = [batch EXCEPT ![r] = {}]
    /\ plan' = [plan EXCEPT ![r] = NoLuns]
    /\ Goto(r, to)

\* SetDiskLun, then either the shortcut for a request whose disk was in the
\* batch of an earlier one, or the start of the VM update.
Allocate(r) ==
    LET n == node[r]
        own == IF disk[r] \in batch[r] THEN NoLun ELSE ReadDisks(n)[disk[r]]
        l == GetDiskLun(n, disk[r])
    IN
    /\ pc[r] = "setLun"
    /\ \/ /\ Readable(n) /\ FillCache(n)
          /\ \/ /\ batch[r] # {}
                /\ disk[r] \in batch[r] \/ own # NoLun
                /\ \E p \in SetDiskLun(n, batch[r], occupied[r]) :
                      /\ plan' = [plan EXCEPT ![r] = p]
                      /\ lun' = [lun EXCEPT ![r] =
                                    IF disk[r] \in batch[r] THEN p[disk[r]] ELSE own]
                /\ diskStateMap' = diskStateMap \cup {r}
                /\ Goto(r, "vmAttach")
                /\ UNCHANGED <<batch, lock>>
             \/ /\ batch[r] = {}
                /\ own # NoLun /\ l # NoLun
                /\ lun' = [lun EXCEPT ![r] = l]
                /\ AttachReturns(r, "ok")
             \/ /\ \/ disk[r] \notin batch[r] /\ own = NoLun
                   \/ batch[r] = {} /\ l = NoLun
                   \/ batch[r] # {} /\ SetDiskLun(n, batch[r], occupied[r]) = {}
                /\ AttachReturns(r, "err")
                /\ UNCHANGED lun
       \/ /\ AttachReturns(r, "err")
          /\ UNCHANGED <<cacheVars, lun>>
    /\ UNCHANGED <<exists, alive, vmVars, reqVars, seen, occupied, queueVars,
                   volumeLocks, va>>

\* vmset.AttachDisk of the batch.
VMAttach(r) ==
    LET n == node[r] IN
    /\ pc[r] = "vmAttach"
    /\ \/ /\ VMAttachOk(n, plan[r])
          /\ DeleteCacheForNode(n)
          /\ Goto(r, "attachCheck")
          /\ UNCHANGED <<lock, diskStateMap, batch, plan>>
       \/ /\ VMAttachFails(n, plan[r])
          /\ DeleteCacheForNode(n)
          /\ AttachReturns(r, "err")
       \/ /\ VMAttachFails(n, plan[r])  \* OperationPreempted
          /\ DeleteCacheForNode(n) \/ UNCHANGED cacheVars
          /\ Goto(r, "vmRetry")
          /\ UNCHANGED <<lock, diskStateMap, batch, plan>>
    /\ UNCHANGED <<exists, alive, reqVars, seen, occupied, lun, queueVars, volumeLocks, va>>

\* vmset.UpdateVM after a preempted vmset.AttachDisk.
VMRetry(r) ==
    LET n == node[r] IN
    /\ pc[r] = "vmRetry"
    /\ \/ /\ VMUpdateOk(n)
          /\ DeleteCacheForNode(n) \/ UNCHANGED cacheVars
          /\ Goto(r, "attachCheck")
          /\ UNCHANGED <<lock, diskStateMap, batch, plan>>
       \/ /\ DeleteCacheForNode(n)
          /\ AttachReturns(r, "err")
          /\ UNCHANGED vmVars
    /\ UNCHANGED <<exists, alive, reqVars, seen, occupied, lun, queueVars, volumeLocks, va>>

\* "always check disk lun after disk attach complete"
AttachCheckLun(r) ==
    LET n == node[r]
        l == GetDiskLun(n, disk[r])
    IN
    /\ pc[r] = "attachCheck"
    /\ \/ /\ Readable(n) /\ FillCache(n)
          /\ lun' = [lun EXCEPT ![r] = l]
          /\ AttachReturns(r, IF l # NoLun THEN "ok" ELSE "err")
       \/ /\ AttachReturns(r, "err")
          /\ UNCHANGED <<cacheVars, lun>>
    /\ UNCHANGED <<exists, alive, vmVars, reqVars, seen, occupied,
                   queueVars, volumeLocks, va>>

-----------------------------------------------------------------------------
(* UpdateVM, called for a VM in failed state and for a stale VM cache.       *)

UpdateVM(r) ==
    LET n == node[r] IN
    /\ pc[r] \in UpdateLocked
    /\ \/ /\ VMUpdateOk(n)
          /\ Goto(r, IF pc[r] = "failedUpdate" THEN "ok" ELSE "staleLun")
       \/ Goto(r, "err") /\ UNCHANGED vmVars
    /\ DeleteCacheForNode(n)
    /\ lock' = [lock EXCEPT ![n] = NoReq]
    /\ UNCHANGED <<exists, alive, reqVars, callVars, queueVars, diskStateMap,
                   volumeLocks, va>>

\* AttachDisk found the disk on this very node: its LUN after the update.
StaleGetDiskLun(r) ==
    LET l == GetDiskLun(node[r], disk[r]) IN
    /\ pc[r] = "staleLun"
    /\ \/ /\ Readable(node[r]) /\ FillCache(node[r])
          /\ lun' = [lun EXCEPT ![r] = l]
          /\ Goto(r, IF l # NoLun THEN "ok" ELSE "err")
       \/ Goto(r, "err") /\ UNCHANGED <<cacheVars, lun>>
    /\ UNCHANGED <<exists, alive, vmVars, reqVars, seen, occupied, batch, plan,
                   queueVars, lock, diskStateMap, volumeLocks, va>>

-----------------------------------------------------------------------------
(* DetachDisk, called by ControllerUnpublishVolume and, for a dangling       *)
(* attachment, by ControllerPublishVolume.                                   *)

DetachDisk(r) ==
    /\ pc[r] = "detach"
    /\ \/ /\ At(r) \notin alive  \* cloudprovider.InstanceNotFound
          /\ Goto(r, AfterDetach(r))
          /\ UNCHANGED detachDiskMap
       \/ /\ \E to \in DetachError(r) : Goto(r, to)
          /\ UNCHANGED detachDiskMap
       \/ /\ insertDetachDiskRequest(At(r), disk[r])
          /\ Goto(r, "detachLock")
    /\ UNCHANGED <<azureVars, reqVars, callVars, attachDiskMap, lock, diskStateMap,
                   volumeLocks, va>>

CleanDetachDiskRequests(r) ==
    LET disks == detachDiskMap[At(r)] IN
    /\ pc[r] = "detachClean"
    /\ batch' = [batch EXCEPT ![r] = disks]
    /\ detachDiskMap' = EmptyMap(detachDiskMap, At(r))
    /\ diskStateMap' = diskStateMap \cup (IF disks = {} THEN {} ELSE {disk[r]})
    /\ Goto(r, IF disks = {} THEN "detachCheck" ELSE "vmDetach")
    /\ UNCHANGED <<azureVars, reqVars, seen, occupied, plan, lun, attachDiskMap, lock,
                   volumeLocks, va>>

\* Mutant: no deferred diskStateMap.Delete.
DetachReturnsState(r, to) ==
    /\ lock' = [lock EXCEPT ![At(r)] = NoReq]
    /\ batch' = [batch EXCEPT ![r] = {}]
    /\ Goto(r, to)
    /\ UNCHANGED diskStateMap
\* DetachDisk returns: the deferred diskStateMap.Delete, made if there was a
\* batch, and UnlockEntry.
DetachReturns(r, to) ==
    /\ diskStateMap' = diskStateMap \ (IF batch[r] = {} THEN {} ELSE {disk[r]})
    /\ lock' = [lock EXCEPT ![At(r)] = NoReq]
    /\ batch' = [batch EXCEPT ![r] = {}]
    /\ Goto(r, to)

\* vmset.DetachDisk of the batch; an error that is not throttling is retried
\* with force.
VMDetach(r) ==
    LET n == At(r) IN
    /\ pc[r] = "vmDetach"
    /\ \/ /\ VMDetachOk(n, batch[r])
          /\ Goto(r, "detachCheck")
          /\ UNCHANGED <<lock, diskStateMap, batch>>
       \/ /\ n \notin alive  \* isInstanceNotFoundError
          /\ DetachReturns(r, AfterDetach(r))
          /\ UNCHANGED vmVars
       \/ /\ VMDetachFails(n, batch[r])
          /\ \E to \in DetachError(r) : DetachReturns(r, to)
       \/ /\ ForceDetachBackoff
          /\ VMDetachFails(n, batch[r])
          /\ Goto(r, "vmForce")
          /\ UNCHANGED <<lock, diskStateMap, batch>>
    /\ DeleteCacheForNode(n)
    /\ UNCHANGED <<exists, alive, reqVars, seen, occupied, plan, lun, queueVars, volumeLocks, va>>

VMForceDetach(r) ==
    LET n == At(r) IN
    /\ pc[r] = "vmForce"
    /\ \/ /\ VMDetachOk(n, batch[r])
          /\ Goto(r, "detachCheck")
          /\ UNCHANGED <<lock, diskStateMap, batch>>
       \/ /\ VMDetachFails(n, batch[r])
          /\ \E to \in DetachError(r) : DetachReturns(r, to)
    /\ DeleteCacheForNode(n)
    /\ UNCHANGED <<exists, alive, reqVars, seen, occupied, plan, lun, queueVars, volumeLocks, va>>

\* Mutant: a request whose disk was in an earlier batch trusts that batch.
DetachUnchecked(r) ==
    /\ pc[r] = "detachCheck"
    /\ DetachReturns(r, AfterDetach(r))
    /\ UNCHANGED <<azureVars, reqVars, seen, occupied, plan, lun, queueVars,
                   volumeLocks, va>>
\* "always check disk lun after disk detach complete"
DetachCheckLun(r) ==
    LET n == At(r) IN
    /\ pc[r] = "detachCheck"
    /\ \/ /\ Readable(n) /\ FillCache(n)
          /\ DetachReturns(r, IF GetDiskLun(n, disk[r]) = NoLun THEN AfterDetach(r) ELSE "err")
       \/ /\ \E to \in DetachError(r) : DetachReturns(r, to)
          /\ UNCHANGED cacheVars
    /\ UNCHANGED <<exists, alive, vmVars, reqVars, seen, occupied, plan, lun, queueVars,
                   volumeLocks, va>>

-----------------------------------------------------------------------------
(* DeleteVolume and DeleteManagedDisk.                                       *)

\* DeleteVolume returns: the deferred volumeLocks.Release.
DeleteReturns(r, to) ==
    /\ Goto(r, to)
    /\ volumeLocks' = volumeLocks \ {disk[r]}

DeleteGuard(r) ==
    /\ pc[r] = "delGuard"
    /\ IF disk[r] \in diskStateMap
       THEN DeleteReturns(r, "err")
       ELSE Goto(r, "delGet") /\ UNCHANGED volumeLocks
    /\ UNCHANGED <<azureVars, reqVars, callVars, queueVars, lock, diskStateMap, va>>

DeleteGetDisk(r) ==
    /\ pc[r] = "delGet"
    /\ \/ disk[r] \notin exists /\ DeleteReturns(r, "ok")
       \/ DeleteReturns(r, "err")  \* Get failed, or disk.ManagedBy is set
       \/ /\ disk[r] \in exists /\ ManagedBy(disk[r]) = {}
          /\ Goto(r, "delCall")
          /\ UNCHANGED volumeLocks
    /\ UNCHANGED <<azureVars, reqVars, callVars, queueVars, lock, diskStateMap, va>>

\* Azure refuses to delete a disk that is attached.
DeleteDisk(r) ==
    /\ pc[r] = "delCall"
    /\ \/ /\ ManagedBy(disk[r]) = {}
          /\ exists' = exists \ {disk[r]}
          /\ DeleteReturns(r, "ok")
       \/ DeleteReturns(r, "err") /\ UNCHANGED exists
    /\ UNCHANGED <<alive, vmVars, cacheVars, reqVars, callVars, queueVars, lock,
                   diskStateMap, va>>

-----------------------------------------------------------------------------
\* The plugin restarts: what it kept in memory is gone, and the calls that
\* were running are never answered.
Restart ==
    /\ Restarts
    /\ pc' = [r \in Reqs |-> "idle"]
    /\ op' = [r \in Reqs |-> "publish"]
    /\ disk' = [r \in Reqs |-> NoDisk]
    /\ node' = [r \in Reqs |-> NoNode]
    /\ seen' = [r \in Reqs |-> NoNode]
    /\ occupied' = [r \in Reqs |-> {}]
    /\ batch' = [r \in Reqs |-> {}]
    /\ plan' = [r \in Reqs |-> NoLuns]
    /\ lun' = [r \in Reqs |-> NoLun]
    /\ attachDiskMap' = [n \in Nodes |-> {}]
    /\ detachDiskMap' = [n \in Nodes |-> {}]
    /\ lock' = [n \in Nodes |-> NoReq]
    /\ diskStateMap' = {}
    /\ volumeLocks' = {}
    /\ cached' = {}
    /\ cacheDisks' = [n \in Nodes |-> NoLuns]
    /\ cacheTbd' = [n \in Nodes |-> {}]
    /\ UNCHANGED <<exists, alive, vmVars, va>>

AzureActs == AzureStep /\ UNCHANGED <<pc, reqVars, callVars, queueVars, lock,
                                      diskStateMap, volumeLocks, va>>

Handler(r) ==
    \/ CheckDiskExists(r) \/ PublishGetDiskLun(r) \/ GetOccupiedLuns(r)
    \/ AttachDisk(r) \/ CleanAttachDiskRequests(r) \/ Allocate(r)
    \/ VMAttach(r) \/ VMRetry(r) \/ AttachCheckLun(r)
    \/ UpdateVM(r) \/ StaleGetDiskLun(r)
    \/ DetachDisk(r) \/ CleanDetachDiskRequests(r)
    \/ VMDetach(r) \/ VMForceDetach(r) \/ DetachCheckLun(r)
    \/ DeleteGuard(r) \/ DeleteGetDisk(r) \/ DeleteDisk(r)
    \/ Reply(r)

Next ==
    \/ \E r \in Reqs :
          \/ \E o \in Ops, d \in Disks, n \in Nodes : Call(r, o, d, n)
          \/ Handler(r)
          \/ LockEntry(r)
    \/ Restart
    \/ AzureActs

Spec == Init /\ [][Next]_vars

\* A goroutine that can run runs; sync.Mutex hands a contended lock to each
\* waiter in turn (its starvation mode), so a waiter is not passed over for ever.
Fairness == \A r \in Reqs : WF_vars(Handler(r)) /\ SF_vars(LockEntry(r))
FairSpec == Spec /\ Fairness

-----------------------------------------------------------------------------
(* Properties.                                                               *)

\* LockEntry(node): no two handlers are inside the locked parts of AttachDisk,
\* DetachDisk and UpdateVM for one VM, so VM updates never overlap.
OneUpdatePerVM ==
    \A r, q \in Reqs :
        r # q /\ pc[r] \in Locked /\ pc[q] \in Locked => At(r) # At(q)

\* No queue entry is stranded: whatever is in attachDiskMap or detachDiskMap was
\* put there by a handler that has yet to take the queue of that node.
QueueServed ==
    \A n \in Nodes :
        /\ \A d \in attachDiskMap[n] : \E r \in Reqs :
              pc[r] \in {"attachLock", "attachClean"} /\ disk[r] = d /\ node[r] = n
        /\ \A d \in detachDiskMap[n] : \E r \in Reqs :
              pc[r] \in {"detachLock", "detachClean"} /\ disk[r] = d /\ At(r) = n

\* A batch attaches or detaches a disk only for a call that is still running:
\* the batch's own, or one that waits for the lock to find out.
BatchOnBehalf ==
    \A r \in Reqs :
        /\ pc[r] \in {"setLun", "vmAttach", "vmRetry"} =>
              \A d \in batch[r] : \E q \in Reqs :
                  /\ disk[q] = d /\ node[q] = node[r]
                  /\ q = r \/ pc[q] = "attachLock"
        /\ pc[r] \in {"vmDetach", "vmForce"} =>
              \A d \in batch[r] : \E q \in Reqs :
                  /\ disk[q] = d /\ At(q) = At(r)
                  /\ q = r \/ pc[q] = "detachLock"

\* ControllerPublishVolume answers with a LUN only if the disk is attached to
\* the VM at that LUN (a follower whose batch failed does not, for one).  Left out
\* is the path through UpdateVM for a failed VM, which answers with the LUN it
\* read before the update although that may carry out a pending detach.
PublishAnswers(r) ==
    pc[r] # "ok" /\ pc'[r] = "ok" /\ op[r] = "publish" /\ node[r] \in alive
AttachedAt(r) ==
    dataDisks[node[r]][disk[r]] = lun'[r] /\ disk[r] \notin tbd[node[r]]
PublishedIsAttached ==
    [][\A r \in Reqs : PublishAnswers(r) /\ pc[r] # "failedUpdate" => AttachedAt(r)]_vars

\* ControllerUnpublishVolume answers OK only if the disk has left the VM or is
\* on its way out.  (An attach that lands after it was reported failed can get
\* past the check, which reads the VM cache: LateAttach = FALSE.)
UnpublishedIsDetached ==
    [][\A r \in Reqs :
          pc[r] # "ok" /\ pc'[r] = "ok" /\ op[r] = "unpublish" /\ node[r] \in alive =>
             dataDisks[node[r]][disk[r]] = NoLun \/ disk[r] \in tbd[node[r]]]_vars

\* The LUNs given to a batch are distinct, and free on the VM when Azure is asked
\* to attach, although they were picked from the VM cache.  (LateAttach = FALSE)
NoLunCollision ==
    \A r \in Reqs :
        pc[r] = "vmAttach" /\ node[r] \in alive =>
            \A d \in batch[r] :
                /\ LunFree(node[r], d, plan[r][d])
                /\ \A e \in batch[r] \ {d} : plan[r][e] # plan[r][d]

\* diskStateMap has no entry without a call that will delete it; a leaked one
\* would make DeleteManagedDisk refuse the disk for ever.
DiskStateNotLeaked ==
    \A k \in diskStateMap :
        \/ k \in Reqs /\ pc[k] \in {"vmAttach", "vmRetry", "attachCheck"}
        \/ \E r \in Reqs :
              disk[r] = k /\ pc[r] \in {"vmDetach", "vmForce", "detachCheck"} /\ batch[r] # {}

\* Every call is answered, however the locks and batches fall.
CallReturns == \A r \in Reqs : pc[r] # "idle" ~> pc[r] = "idle"

\* azure_controller_common.go:90, "diskStateMap <diskURI, attaching/detaching
\* state>": DeleteManagedDisk does not get past its check for a disk that a VM
\* update is attaching.
NoDeleteWhileAttaching ==
    [][\A r, q \in Reqs :
          pc[q] = "vmAttach" /\ disk[r] = disk[q] =>
             ~(pc[r] = "delGuard" /\ pc'[r] = "delGet")]_vars

-----------------------------------------------------------------------------
(* What makes the invariants above inductive.                                *)

\* A running handler has its arguments, a dangling detach has its node.
ArgumentsKnown ==
    \A r \in Reqs :
        pc[r] # "idle" => disk[r] \in Disks /\ node[r] \in Nodes /\ At(r) \in Nodes

\* The entry of the node is held wherever it has to be.
LockHeld == \A r \in Reqs : pc[r] \in Locked => lock[At(r)] = r

ControlInv ==
    ArgumentsKnown /\ LockHeld /\ QueueServed /\ BatchOnBehalf /\ DiskStateNotLeaked

\* A handler stands at a point of the call it serves.
Answered == {"idle", "ok", "err"}
DeletePoints == {"delGuard", "delGet", "delCall"}
PointsOf(o) ==
    CASE o = "publish"   -> PCs \ DeletePoints
      [] o = "unpublish" -> DetachPoints \cup Answered
      [] o = "delete"    -> DeletePoints \cup Answered
RightPoint == \A r \in Reqs : pc[r] \in PointsOf(op[r])

\* A cached entry shows no disk as attached that is not, and, if no attach lands
\* late, misses none.
CacheSound ==
    \A n \in cached \cap alive, d \in Disks :
        cacheDisks[n][d] # NoLun /\ d \notin cacheTbd[n] =>
            dataDisks[n][d] = cacheDisks[n][d] /\ d \notin tbd[n]
CacheComplete ==
    \A n \in Nodes :
        /\ pend[n] = NoLuns
        /\ n \in cached \cap alive =>
              \A d \in Disks :
                  /\ dataDisks[n][d] # NoLun => cacheDisks[n][d] = dataDisks[n][d]
                  /\ d \in cacheTbd[n] => dataDisks[n][d] = NoLun \/ d \in tbd[n]

\* Every disk of a batch that is being attached was given a LUN.
PlanMade ==
    \A r \in Reqs : pc[r] = "vmAttach" => \A d \in batch[r] : plan[r][d] # NoLun

IInv == TypeOK /\ ControlInv /\ RightPoint /\ CacheSound
IInvPrompt == IInv /\ CacheComplete /\ PlanMade /\ NoLunCollision
=============================================================================
