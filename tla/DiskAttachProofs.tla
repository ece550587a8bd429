-------------------------- MODULE DiskAttachProofs --------------------------
(* Proofs about DiskAttach for any disks, nodes, handlers, number of LUNs    *)
(* and driver options, late VM updates and restarts included: the types, and *)
(* the invariants of the batching disk controller (one VM update at a time,  *)
(* no stranded queue entry, no VM update without a caller, no leaked         *)
(* attaching/detaching state), and what the VM cache can be trusted with.    *)
EXTENDS DiskAttach, TLAPS

USE AzureAssumption, RequestAssumption DEF insertAttachDiskRequest, insertDetachDiskRequest

-----------------------------------------------------------------------------
(* Types.                                                                    *)

CacheTypeOK == cached \subseteq Nodes /\ cacheDisks \in [Nodes -> LunMap] /\ cacheTbd \in [Nodes -> SUBSET Disks]
VMTypeOK == dataDisks \in [Nodes -> LunMap] /\ tbd \in [Nodes -> SUBSET Disks] /\ pend \in [Nodes -> LunMap]

\* Reading the VM through the cache, and invalidating it, keep the types.
LEMMA CacheTypes ==
    ASSUME AzureTypeOK, NEW n \in Nodes
    PROVE  /\ FillCache(n) => CacheTypeOK'
           /\ DeleteCacheForNode(n) => CacheTypeOK'
           /\ UNCHANGED cacheVars => CacheTypeOK'
           /\ ReadDisks(n) \in LunMap
           /\ ReadTbd(n) \subseteq Disks
<1>1. ReadDisks(n) \in LunMap /\ ReadTbd(n) \subseteq Disks
  BY DEF AzureTypeOK, ReadDisks, ReadTbd
<1>2. NoLuns \in LunMap
  BY DEF LunMap, NoLuns
<1> QED BY <1>1, <1>2 DEF AzureTypeOK, CacheTypeOK, FillCache, DeleteCacheForNode, cacheVars

\* The data disks of a VM after an attach.
LEMMA PlanTypes ==
    ASSUME AzureTypeOK, NEW n \in Nodes, NEW p \in LunMap
    PROVE  Attached(n, p) \in LunMap
BY DEF AzureTypeOK, Attached, LunMap

\* The VM updates keep the types, whether they succeed or fail.
LEMMA VMTypes ==
    ASSUME AzureTypeOK, NEW n \in Nodes, NEW p \in LunMap, NEW gone \in SUBSET Disks
    PROVE  /\ VMAttachOk(n, p) => VMTypeOK'
           /\ VMAttachFails(n, p) => VMTypeOK'
           /\ VMDetachOk(n, gone) => VMTypeOK'
           /\ VMDetachFails(n, gone) => VMTypeOK'
           /\ VMUpdateOk(n) => VMTypeOK'
           /\ UNCHANGED vmVars => VMTypeOK'
<1>1. NoLuns \in LunMap /\ Attached(n, p) \in LunMap /\ Without(n, gone) \in LunMap
  BY DEF AzureTypeOK, LunMap, NoLuns, Attached, Without
<1>2. VMAttachOk(n, p) => VMTypeOK'
  BY <1>1 DEF AzureTypeOK, VMTypeOK, VMAttachOk, LandPlan
<1>3. VMAttachFails(n, p) => VMTypeOK'
  BY <1>1 DEF AzureTypeOK, VMTypeOK, VMAttachFails
<1>4. VMDetachOk(n, gone) => VMTypeOK'
  BY <1>1 DEF AzureTypeOK, VMTypeOK, VMDetachOk
<1>5. VMDetachFails(n, gone) => VMTypeOK'
  BY <1>1 DEF AzureTypeOK, VMTypeOK, VMDetachFails
<1>6. VMUpdateOk(n) => VMTypeOK'
  <2> DEFINE q == IF Attachable(n, pend[n]) THEN pend[n] ELSE NoLuns
             after == [d \in Disks |-> IF d \in tbd[n] THEN NoLun ELSE Attached(n, q)[d]]
  <2>1. q \in LunMap
    BY <1>1 DEF AzureTypeOK
  <2>2. Attached(n, q) \in LunMap
    BY <2>1, PlanTypes
  <2>3. after \in LunMap
    BY <2>2 DEF LunMap
  <2> QED BY <1>1, <2>3 DEF AzureTypeOK, VMTypeOK, VMUpdateOk
<1>7. UNCHANGED vmVars => VMTypeOK'
  BY DEF AzureTypeOK, VMTypeOK, vmVars
<1> QED BY <1>2, <1>3, <1>4, <1>5, <1>6, <1>7

\* What Azure does on its own keeps the types.
LEMMA AzureTypes ==
    ASSUME AzureTypeOK, AzureStep
    PROVE  AzureTypeOK'
<1>1. PICK n \in Nodes : CacheExpires(n) \/ LateAttachLands(n) \/ LateDetachLands(n) \/ NodeDeleted(n)
  BY DEF AzureStep
<1>2. NoLuns \in LunMap /\ Attached(n, pend[n]) \in LunMap /\ Without(n, tbd[n]) \in LunMap
  BY DEF AzureTypeOK, LunMap, NoLuns, Attached, Without
<1>3. CASE CacheExpires(n)
  BY <1>2, <1>3 DEF AzureTypeOK, CacheExpires, DeleteCacheForNode
<1>4. CASE LateAttachLands(n)
  BY <1>2, <1>4 DEF AzureTypeOK, LateAttachLands, LandPlan
<1>5. CASE LateDetachLands(n)
  BY <1>2, <1>5 DEF AzureTypeOK, LateDetachLands
<1>6. CASE NodeDeleted(n)
  BY <1>2, <1>6 DEF AzureTypeOK, NodeDeleted
<1> QED BY <1>1, <1>3, <1>4, <1>5, <1>6

\* The deferred calls of AttachDisk and DetachDisk keep the types.
LEMMA ReturnTypes ==
    ASSUME RequestTypeOK, NEW r \in Reqs, NEW to \in PCs, disk[r] \in Disks
    PROVE  AttachReturns(r, to) \/ DetachReturns(r, to) =>
              /\ pc' \in [Reqs -> PCs]
              /\ batch' \in [Reqs -> SUBSET Disks]
              /\ lock' \in [Nodes -> Reqs \cup {NoReq}]
              /\ diskStateMap' \subseteq Disks \cup Reqs
              /\ AttachReturns(r, to) => plan' \in [Reqs -> LunMap]
<1>1. NoLuns \in LunMap
  BY DEF LunMap, NoLuns
<1> QED BY <1>1 DEF RequestTypeOK, AttachReturns, DetachReturns, Goto

\* Every step of a handler keeps the types.
LEMMA HandlerTypes ==
    ASSUME TypeOK, ArgumentsKnown, NEW r \in Reqs, Handler(r) \/ LockEntry(r)
    PROVE  TypeOK'
<1> USE DEF PCs, Locked, AttachLocked, DetachLocked, UpdateLocked, DetachPoints
<1>1. AzureTypeOK /\ RequestTypeOK
  BY DEF TypeOK
<1>2. NoLuns \in LunMap
  BY DEF LunMap, NoLuns
<1>3. pc[r] # "idle"
  BY DEF Handler, LockEntry, CheckDiskExists, PublishGetDiskLun, GetOccupiedLuns, AttachDisk,
     CleanAttachDiskRequests, Allocate, VMAttach, VMRetry, AttachCheckLun, UpdateVM,
     StaleGetDiskLun, DetachDisk, CleanDetachDiskRequests, VMDetach, VMForceDetach,
     DetachCheckLun, DeleteGuard, DeleteGetDisk, DeleteDisk, Reply
<1>4. disk[r] \in Disks /\ node[r] \in Nodes /\ At(r) \in Nodes
  BY <1>3 DEF ArgumentsKnown
<1>5. SUFFICES (AzureTypeOK /\ RequestTypeOK)'
  BY DEF TypeOK
<1>6. \A m \in Nodes : ReadDisks(m) \in LunMap /\ ReadTbd(m) \subseteq Disks
  BY <1>1, CacheTypes
<1>7. \A m \in Nodes, e \in Disks : GetDiskLun(m, e) \in Luns \cup {NoLun}
  BY <1>6 DEF GetDiskLun, LunMap
<1>8. CASE CheckDiskExists(r)
  <2>3. AzureTypeOK'
    BY <1>1, <1>8 DEF AzureTypeOK, azureVars, vmVars, cacheVars, CheckDiskExists
  <2>4. RequestTypeOK'
    <3>1. ManagedBy(disk[r]) \subseteq Nodes
      BY DEF ManagedBy
    <3>2. seen' \in [Reqs -> Nodes \cup {NoNode}]
      BY <1>1, <1>8, <3>1 DEF RequestTypeOK, CheckDiskExists
    <3> QED BY <1>1, <1>8, <3>2 DEF RequestTypeOK, CheckDiskExists, Goto, reqVars, queueVars
  <2> QED BY <2>3, <2>4
<1>9. CASE PublishGetDiskLun(r)
  <2>1. CacheTypeOK'
    BY <1>1, <1>4, <1>9, CacheTypes DEF PublishGetDiskLun
  <2>2. VMTypeOK'
    BY <1>1, <1>4, <1>9, VMTypes DEF RequestTypeOK, PublishGetDiskLun
  <2>3. AzureTypeOK'
    BY <1>1, <1>9, <2>1, <2>2 DEF AzureTypeOK, CacheTypeOK, VMTypeOK, PublishGetDiskLun
  <2>4. RequestTypeOK'
    BY <1>1, <1>2, <1>4, <1>6, <1>7, <1>9 DEF RequestTypeOK, Goto, reqVars, callVars, queueVars,
       PublishGetDiskLun
  <2> QED BY <2>3, <2>4
<1>10. CASE GetOccupiedLuns(r)
  <2>1. CacheTypeOK'
    BY <1>1, <1>4, <1>10, CacheTypes DEF GetOccupiedLuns
  <2>2. VMTypeOK'
    BY <1>1, <1>4, <1>10, VMTypes DEF RequestTypeOK, GetOccupiedLuns
  <2>3. AzureTypeOK'
    BY <1>1, <1>10, <2>1, <2>2 DEF AzureTypeOK, CacheTypeOK, VMTypeOK, GetOccupiedLuns
  <2>4. RequestTypeOK'
    <3>1. getOccupiedLunsFromNode(node[r]) \subseteq Luns
      BY DEF getOccupiedLunsFromNode
    <3> QED BY <1>1, <1>10, <3>1 DEF RequestTypeOK, GetOccupiedLuns, Goto, reqVars, queueVars
  <2> QED BY <2>3, <2>4
<1>11. CASE AttachDisk(r)
  <2>3. AzureTypeOK'
    BY <1>1, <1>11 DEF AzureTypeOK, azureVars, vmVars, cacheVars, AttachDisk
  <2>4. RequestTypeOK'
    <3>1. "staleLock" \in PCs /\ "detach" \in PCs /\ "err" \in PCs /\ "attachLock" \in PCs
      OBVIOUS
    <3> HIDE DEF PCs
    <3>2. pc' \in [Reqs -> PCs]
      BY <1>1, <1>11, <3>1 DEF RequestTypeOK, Goto, AttachDisk
    <3>3. /\ attachDiskMap' \in {attachDiskMap, [attachDiskMap EXCEPT ![node[r]] = @ \cup {disk[r]}]}
          /\ seen' \in {seen, [seen EXCEPT ![r] = NoNode]}
      BY <1>11 DEF AttachDisk
    <3>4. attachDiskMap' \in [Nodes -> SUBSET Disks]
      BY <1>1, <1>4, <3>3 DEF RequestTypeOK
    <3>5. seen' \in [Reqs -> Nodes \cup {NoNode}]
      BY <1>1, <3>3 DEF RequestTypeOK
    <3> QED BY <1>1, <1>11, <3>2, <3>4, <3>5 DEF RequestTypeOK, reqVars, AttachDisk
  <2> QED BY <2>3, <2>4
<1>12. CASE CleanAttachDiskRequests(r)
  <2>3. AzureTypeOK'
    BY <1>1, <1>12 DEF AzureTypeOK, azureVars, vmVars, cacheVars, CleanAttachDiskRequests,
       EmptyMap
  <2>4. RequestTypeOK'
    BY <1>1, <1>2, <1>4, <1>6, <1>7, <1>12 DEF RequestTypeOK, Goto, reqVars, callVars, queueVars,
       CleanAttachDiskRequests, EmptyMap
  <2> QED BY <2>3, <2>4
<1>13. CASE Allocate(r)
  <2>1. CacheTypeOK'
    BY <1>1, <1>4, <1>13, CacheTypes DEF Allocate
  <2>2. VMTypeOK'
    BY <1>1, <1>4, <1>13, VMTypes DEF RequestTypeOK, Allocate
  <2>3. AzureTypeOK'
    BY <1>1, <1>13, <2>1, <2>2 DEF AzureTypeOK, CacheTypeOK, VMTypeOK, Allocate
  <2>4. RequestTypeOK'
    <3>1. \A p \in SetDiskLun(node[r], batch[r], occupied[r]) :
              p \in LunMap /\ p[disk[r]] \in Luns \cup {NoLun}
      BY <1>4 DEF SetDiskLun, LunMap
    <3>2. ReadDisks(node[r])[disk[r]] \in Luns \cup {NoLun}
      BY <1>4, <1>6 DEF LunMap
    <3>3. "ok" \in PCs /\ "err" \in PCs /\ "vmAttach" \in PCs
      OBVIOUS
    <3>4. /\ lun' \in [Reqs -> Luns \cup {NoLun}]
          /\ plan' \in [Reqs -> LunMap]
          /\ pc' \in [Reqs -> PCs]
          /\ batch' \in [Reqs -> SUBSET Disks]
          /\ lock' \in [Nodes -> Reqs \cup {NoReq}]
          /\ diskStateMap' \subseteq Disks \cup Reqs
      <4>1. CASE \E to \in {"ok", "err"} : AttachReturns(r, to)
        <5>1. lun' \in [Reqs -> Luns \cup {NoLun}]
          BY <1>1, <1>4, <1>7, <1>13, <3>1, <3>2 DEF RequestTypeOK, Allocate
        <5> QED BY <1>1, <1>4, <3>3, <4>1, <5>1, ReturnTypes
      <4>2. CASE ~ \E to \in {"ok", "err"} : AttachReturns(r, to)
        <5>1. PICK p \in SetDiskLun(node[r], batch[r], occupied[r]) :
                 /\ plan' = [plan EXCEPT ![r] = p]
                 /\ lun' = [lun EXCEPT ![r] =
                       IF disk[r] \in batch[r] THEN p[disk[r]]
                       ELSE IF disk[r] \in batch[r] THEN NoLun ELSE ReadDisks(node[r])[disk[r]]]
          BY <1>13, <4>2 DEF Allocate
        <5>2. /\ diskStateMap' = diskStateMap \cup {r}
              /\ pc' = [pc EXCEPT ![r] = "vmAttach"]
              /\ UNCHANGED <<batch, lock>>
          BY <1>13, <4>2 DEF Allocate, Goto
        <5> QED BY <1>1, <3>1, <3>2, <3>3, <5>1, <5>2 DEF RequestTypeOK
      <4> QED BY <4>1, <4>2
    <3> QED BY <1>1, <1>13, <3>4 DEF RequestTypeOK, Allocate, reqVars, queueVars
  <2> QED BY <2>3, <2>4
<1>14. CASE VMAttach(r)
  <2>1. CacheTypeOK'
    BY <1>1, <1>4, <1>14, CacheTypes DEF VMAttach
  <2>2. VMTypeOK'
    BY <1>1, <1>4, <1>14, VMTypes DEF RequestTypeOK, VMAttach
  <2>3. AzureTypeOK'
    BY <1>1, <1>14, <2>1, <2>2 DEF AzureTypeOK, CacheTypeOK, VMTypeOK, VMAttach
  <2>4. RequestTypeOK'
    <3>1. "ok" \in PCs /\ "err" \in PCs /\ "reattach" \in PCs /\ "attachCheck" \in PCs /\ "vmRetry" \in PCs
      OBVIOUS
    <3>2. /\ pc' \in [Reqs -> PCs]
          /\ batch' \in [Reqs -> SUBSET Disks]
          /\ lock' \in [Nodes -> Reqs \cup {NoReq}]
          /\ diskStateMap' \subseteq Disks \cup Reqs
          /\ plan' \in [Reqs -> LunMap]
      BY <1>1, <1>4, <1>14, <3>1, ReturnTypes DEF RequestTypeOK, Goto, VMAttach
    <3> QED BY <1>1, <1>7, <1>4, <1>14, <3>2 DEF RequestTypeOK, reqVars, queueVars, VMAttach
  <2> QED BY <2>3, <2>4
<1>15. CASE VMRetry(r)
  <2>1. CacheTypeOK'
    BY <1>1, <1>4, <1>15, CacheTypes DEF VMRetry
  <2>2. VMTypeOK'
    BY <1>1, <1>4, <1>15, VMTypes DEF RequestTypeOK, VMRetry
  <2>3. AzureTypeOK'
    BY <1>1, <1>15, <2>1, <2>2 DEF AzureTypeOK, CacheTypeOK, VMTypeOK, VMRetry
  <2>4. RequestTypeOK'
    <3>1. "err" \in PCs /\ "attachCheck" \in PCs
      OBVIOUS
    <3>2. /\ pc' \in [Reqs -> PCs]
          /\ batch' \in [Reqs -> SUBSET Disks]
          /\ lock' \in [Nodes -> Reqs \cup {NoReq}]
          /\ diskStateMap' \subseteq Disks \cup Reqs
          /\ plan' \in [Reqs -> LunMap]
      BY <1>1, <1>4, <1>15, <3>1, ReturnTypes DEF RequestTypeOK, Goto, VMRetry
    <3> QED BY <1>1, <1>15, <3>2 DEF RequestTypeOK, reqVars, queueVars, VMRetry
  <2> QED BY <2>3, <2>4
<1>16. CASE AttachCheckLun(r)
  <2>1. CacheTypeOK'
    BY <1>1, <1>4, <1>16, CacheTypes DEF AttachCheckLun
  <2>2. VMTypeOK'
    BY <1>1, <1>4, <1>16, VMTypes DEF RequestTypeOK, AttachCheckLun
  <2>3. AzureTypeOK'
    BY <1>1, <1>16, <2>1, <2>2 DEF AzureTypeOK, CacheTypeOK, VMTypeOK, AttachCheckLun
  <2>4. RequestTypeOK'
    <3>1. "ok" \in PCs /\ "err" \in PCs /\ "reattach" \in PCs /\ "attachCheck" \in PCs /\ "vmRetry" \in PCs
      OBVIOUS
    <3>2. /\ pc' \in [Reqs -> PCs]
          /\ batch' \in [Reqs -> SUBSET Disks]
          /\ lock' \in [Nodes -> Reqs \cup {NoReq}]
          /\ diskStateMap' \subseteq Disks \cup Reqs
          /\ plan' \in [Reqs -> LunMap]
      BY <1>1, <1>4, <1>16, <3>1, ReturnTypes DEF RequestTypeOK, Goto, AttachCheckLun
    <3> QED BY <1>1, <1>7, <1>4, <1>16, <3>2 DEF RequestTypeOK, reqVars, queueVars, AttachCheckLun
  <2> QED BY <2>3, <2>4
<1>17. CASE UpdateVM(r)
  <2>1. CacheTypeOK'
    BY <1>1, <1>4, <1>17, CacheTypes DEF UpdateVM
  <2>2. VMTypeOK'
    BY <1>1, <1>4, <1>17, VMTypes DEF RequestTypeOK, UpdateVM
  <2>3. AzureTypeOK'
    BY <1>1, <1>17, <2>1, <2>2 DEF AzureTypeOK, CacheTypeOK, VMTypeOK, UpdateVM
  <2>4. RequestTypeOK'
    BY <1>1, <1>2, <1>4, <1>6, <1>7, <1>17 DEF RequestTypeOK, Goto, reqVars, callVars, queueVars,
       UpdateVM
  <2> QED BY <2>3, <2>4
<1>18. CASE StaleGetDiskLun(r)
  <2>1. CacheTypeOK'
    BY <1>1, <1>4, <1>18, CacheTypes DEF StaleGetDiskLun
  <2>2. VMTypeOK'
    BY <1>1, <1>4, <1>18, VMTypes DEF RequestTypeOK, StaleGetDiskLun
  <2>3. AzureTypeOK'
    BY <1>1, <1>18, <2>1, <2>2 DEF AzureTypeOK, CacheTypeOK, VMTypeOK, StaleGetDiskLun
  <2>4. RequestTypeOK'
    BY <1>1, <1>2, <1>4, <1>6, <1>7, <1>18 DEF RequestTypeOK, Goto, reqVars, callVars, queueVars,
       StaleGetDiskLun
  <2> QED BY <2>3, <2>4
<1>19. CASE DetachDisk(r)
  <2>3. AzureTypeOK'
    BY <1>1, <1>19 DEF AzureTypeOK, azureVars, vmVars, cacheVars, DetachDisk, AfterDetach, DetachError
  <2>4. RequestTypeOK'
    BY <1>1, <1>2, <1>4, <1>6, <1>7, <1>19 DEF RequestTypeOK, Goto, reqVars, callVars, queueVars,
       DetachDisk, AfterDetach, DetachError
  <2> QED BY <2>3, <2>4
<1>20. CASE CleanDetachDiskRequests(r)
  <2>3. AzureTypeOK'
    BY <1>1, <1>20 DEF AzureTypeOK, azureVars, vmVars, cacheVars, CleanDetachDiskRequests,
       EmptyMap
  <2>4. RequestTypeOK'
    BY <1>1, <1>2, <1>4, <1>6, <1>7, <1>20 DEF RequestTypeOK, Goto, reqVars, callVars, queueVars,
       CleanDetachDiskRequests, EmptyMap
  <2> QED BY <2>3, <2>4
<1>21. CASE VMDetach(r)
  <2>1. CacheTypeOK'
    BY <1>1, <1>4, <1>21, CacheTypes DEF VMDetach
  <2>2. VMTypeOK'
    BY <1>1, <1>4, <1>21, VMTypes DEF RequestTypeOK, VMDetach
  <2>3. AzureTypeOK'
    BY <1>1, <1>21, <2>1, <2>2 DEF AzureTypeOK, CacheTypeOK, VMTypeOK, VMDetach
  <2>4. RequestTypeOK'
    <3>1. "ok" \in PCs /\ "err" \in PCs /\ "reattach" \in PCs /\ "detachCheck" \in PCs /\ "vmForce" \in PCs
      OBVIOUS
    <3>2. /\ pc' \in [Reqs -> PCs]
          /\ batch' \in [Reqs -> SUBSET Disks]
          /\ lock' \in [Nodes -> Reqs \cup {NoReq}]
          /\ diskStateMap' \subseteq Disks \cup Reqs
      BY <1>1, <1>4, <1>21, <3>1, ReturnTypes DEF RequestTypeOK, Goto, AfterDetach, DetachError, VMDetach
    <3> QED BY <1>1, <1>21, <3>2 DEF RequestTypeOK, reqVars, queueVars, VMDetach
  <2> QED BY <2>3, <2>4
<1>22. CASE VMForceDetach(r)
  <2>1. CacheTypeOK'
    BY <1>1, <1>4, <1>22, CacheTypes DEF VMForceDetach
  <2>2. VMTypeOK'
    BY <1>1, <1>4, <1>22, VMTypes DEF RequestTypeOK, VMForceDetach
  <2>3. AzureTypeOK'
    BY <1>1, <1>22, <2>1, <2>2 DEF AzureTypeOK, CacheTypeOK, VMTypeOK, VMForceDetach
  <2>4. RequestTypeOK'
    <3>1. "ok" \in PCs /\ "err" \in PCs /\ "detachCheck" \in PCs
      OBVIOUS
    <3>2. /\ pc' \in [Reqs -> PCs]
          /\ batch' \in [Reqs -> SUBSET Disks]
          /\ lock' \in [Nodes -> Reqs \cup {NoReq}]
          /\ diskStateMap' \subseteq Disks \cup Reqs
      BY <1>1, <1>4, <1>22, <3>1, ReturnTypes DEF RequestTypeOK, Goto, DetachError, VMForceDetach
    <3> QED BY <1>1, <1>22, <3>2 DEF RequestTypeOK, reqVars, queueVars, VMForceDetach
  <2> QED BY <2>3, <2>4
<1>23. CASE DetachCheckLun(r)
  <2>1. CacheTypeOK'
    BY <1>1, <1>4, <1>23, CacheTypes DEF DetachCheckLun
  <2>2. VMTypeOK'
    BY <1>1, <1>4, <1>23, VMTypes DEF RequestTypeOK, DetachCheckLun
  <2>3. AzureTypeOK'
    BY <1>1, <1>23, <2>1, <2>2 DEF AzureTypeOK, CacheTypeOK, VMTypeOK, DetachCheckLun
  <2>4. RequestTypeOK'
    <3>1. "ok" \in PCs /\ "err" \in PCs /\ "reattach" \in PCs /\ "attachCheck" \in PCs /\ "vmRetry" \in PCs
      OBVIOUS
    <3>2. /\ pc' \in [Reqs -> PCs]
          /\ batch' \in [Reqs -> SUBSET Disks]
          /\ lock' \in [Nodes -> Reqs \cup {NoReq}]
          /\ diskStateMap' \subseteq Disks \cup Reqs
      BY <1>1, <1>4, <1>23, <3>1, ReturnTypes DEF RequestTypeOK, Goto, AfterDetach, DetachError, DetachCheckLun
    <3> QED BY <1>1, <1>7, <1>4, <1>23, <3>2 DEF RequestTypeOK, reqVars, queueVars, DetachCheckLun
  <2> QED BY <2>3, <2>4
<1>24. CASE DeleteGuard(r)
  <2>3. AzureTypeOK'
    BY <1>1, <1>24 DEF AzureTypeOK, azureVars, vmVars, cacheVars, DeleteGuard, DeleteReturns
  <2>4. RequestTypeOK'
    <3>1. "err" \in PCs /\ "delGet" \in PCs
      OBVIOUS
    <3> HIDE DEF PCs
    <3>2. pc' \in [Reqs -> PCs]
      BY <1>1, <1>24, <3>1 DEF RequestTypeOK, Goto, DeleteReturns, DeleteGuard
    <3> QED BY <1>1, <1>4, <1>24, <3>2 DEF RequestTypeOK, reqVars, callVars, queueVars, DeleteReturns, DeleteGuard
  <2> QED BY <2>3, <2>4
<1>25. CASE DeleteGetDisk(r)
  <2>3. AzureTypeOK'
    BY <1>1, <1>25 DEF AzureTypeOK, azureVars, vmVars, cacheVars, DeleteGetDisk, DeleteReturns
  <2>4. RequestTypeOK'
    <3>1. "ok" \in PCs /\ "err" \in PCs /\ "delCall" \in PCs
      OBVIOUS
    <3> HIDE DEF PCs
    <3>2. pc' \in [Reqs -> PCs]
      BY <1>1, <1>25, <3>1 DEF RequestTypeOK, Goto, DeleteReturns, DeleteGetDisk
    <3> QED BY <1>1, <1>4, <1>25, <3>2 DEF RequestTypeOK, reqVars, callVars, queueVars, DeleteReturns, DeleteGetDisk
  <2> QED BY <2>3, <2>4
<1>26. CASE DeleteDisk(r)
  <2>3. AzureTypeOK'
    BY <1>1, <1>26 DEF AzureTypeOK, azureVars, vmVars, cacheVars, DeleteDisk, DeleteReturns
  <2>4. RequestTypeOK'
    <3>1. "ok" \in PCs /\ "err" \in PCs
      OBVIOUS
    <3> HIDE DEF PCs
    <3>2. pc' \in [Reqs -> PCs]
      BY <1>1, <1>26, <3>1 DEF RequestTypeOK, Goto, DeleteReturns, DeleteDisk
    <3> QED BY <1>1, <1>4, <1>26, <3>2 DEF RequestTypeOK, reqVars, callVars, queueVars, DeleteReturns, DeleteDisk
  <2> QED BY <2>3, <2>4
<1>27. CASE Reply(r)
  <2>3. AzureTypeOK'
    BY <1>1, <1>27 DEF AzureTypeOK, azureVars, vmVars, cacheVars, Reply
  <2>4. RequestTypeOK'
    <3>1. va' \in [Nodes -> LunMap]
      <4>1. va[node[r]] \in LunMap
        BY <1>1, <1>4 DEF RequestTypeOK
      <4>2. \A l \in Luns \cup {NoLun} : [va[node[r]] EXCEPT ![disk[r]] = l] \in LunMap
        BY <4>1 DEF LunMap
      <4>3. lun[r] \in Luns \cup {NoLun}
        BY <1>1 DEF RequestTypeOK
      <4> QED BY <1>1, <1>27, <4>2, <4>3 DEF RequestTypeOK, Reply
    <3> QED BY <1>1, <1>27, <3>1 DEF RequestTypeOK, Reply, Goto, queueVars
  <2> QED BY <2>3, <2>4
<1>28. CASE LockEntry(r)
  <2>3. AzureTypeOK'
    BY <1>1, <1>28 DEF AzureTypeOK, azureVars, vmVars, cacheVars, LockEntry, LockFree, Granted
  <2>4. RequestTypeOK'
    BY <1>1, <1>2, <1>4, <1>6, <1>7, <1>28 DEF RequestTypeOK, Goto, reqVars, callVars, queueVars,
       LockEntry, LockFree, Granted
  <2> QED BY <2>3, <2>4
<1> QED BY <1>8, <1>9, <1>10, <1>11, <1>12, <1>13, <1>14, <1>15, <1>16, <1>17, <1>18, <1>19,
        <1>20, <1>21, <1>22, <1>23, <1>24, <1>25, <1>26, <1>27, <1>28 DEF Handler

-----------------------------------------------------------------------------
(* Locks, queues and batches.                                                *)

\* The other handlers keep their place, their arguments and their batch.
OthersSame(r) ==
    \A q \in Reqs \ {r} :
        /\ pc'[q] = pc[q] /\ batch'[q] = batch[q]
        /\ disk'[q] = disk[q] /\ node'[q] = node[q] /\ At(q)' = At(q)

\* A handler that neither queues a disk nor takes a queue serves no queue entry.
LEMMA QueueFrame ==
    ASSUME QueueServed, NEW r \in Reqs, OthersSame(r), UNCHANGED queueVars,
           pc[r] \notin {"attachLock", "attachClean", "detachLock", "detachClean"}
    PROVE  QueueServed'
<1> SUFFICES ASSUME NEW n \in Nodes
             PROVE  /\ \A d \in attachDiskMap'[n] : \E q \in Reqs :
                          pc'[q] \in {"attachLock", "attachClean"} /\ disk'[q] = d /\ node'[q] = n
                    /\ \A d \in detachDiskMap'[n] : \E q \in Reqs :
                          pc'[q] \in {"detachLock", "detachClean"} /\ disk'[q] = d /\ At(q)' = n
  BY DEF QueueServed
<1>1. ASSUME NEW d \in attachDiskMap'[n]
      PROVE  \E q \in Reqs :
                pc'[q] \in {"attachLock", "attachClean"} /\ disk'[q] = d /\ node'[q] = n
  <2>1. PICK q \in Reqs : pc[q] \in {"attachLock", "attachClean"} /\ disk[q] = d /\ node[q] = n
    BY <1>1 DEF QueueServed, queueVars
  <2> QED BY <2>1 DEF OthersSame
<1>2. ASSUME NEW d \in detachDiskMap'[n]
      PROVE  \E q \in Reqs :
                pc'[q] \in {"detachLock", "detachClean"} /\ disk'[q] = d /\ At(q)' = n
  <2>1. PICK q \in Reqs : pc[q] \in {"detachLock", "detachClean"} /\ disk[q] = d /\ At(q) = n
    BY <1>2 DEF QueueServed, queueVars
  <2> QED BY <2>1 DEF OthersSame
<1> QED BY <1>1, <1>2

\* A handler that waits for no lock disturbs no batch if it runs no VM update
\* afterwards, or goes on with its own batch.
LEMMA BatchFrame ==
    ASSUME BatchOnBehalf, NEW r \in Reqs, OthersSame(r),
           pc[r] \notin {"attachLock", "detachLock"},
           \/ pc'[r] \notin {"setLun", "vmAttach", "vmRetry", "vmDetach", "vmForce"}
           \/ /\ disk'[r] = disk[r] /\ node'[r] = node[r] /\ At(r)' = At(r) /\ batch'[r] = batch[r]
              /\ \/ pc[r] \in {"setLun", "vmAttach"} /\ pc'[r] \in {"vmAttach", "vmRetry"}
                 \/ pc[r] = "vmDetach" /\ pc'[r] = "vmForce"
    PROVE  BatchOnBehalf'
<1>1. ASSUME NEW p \in Reqs, pc'[p] \in {"setLun", "vmAttach", "vmRetry"}, NEW d \in batch'[p]
      PROVE  \E q \in Reqs : /\ disk'[q] = d /\ node'[q] = node'[p]
                             /\ q = p \/ pc'[q] = "attachLock"
  <2>1. /\ pc[p] \in {"setLun", "vmAttach", "vmRetry"} /\ d \in batch[p]
        /\ disk'[p] = disk[p] /\ node'[p] = node[p]
    BY <1>1 DEF OthersSame
  <2>2. PICK q \in Reqs : /\ disk[q] = d /\ node[q] = node[p]
                          /\ q = p \/ pc[q] = "attachLock"
    BY <2>1 DEF BatchOnBehalf
  <2> QED BY <2>1, <2>2 DEF OthersSame
<1>2. ASSUME NEW p \in Reqs, pc'[p] \in {"vmDetach", "vmForce"}, NEW d \in batch'[p]
      PROVE  \E q \in Reqs : /\ disk'[q] = d /\ At(q)' = At(p)'
                             /\ q = p \/ pc'[q] = "detachLock"
  <2>1. /\ pc[p] \in {"vmDetach", "vmForce"} /\ d \in batch[p]
        /\ disk'[p] = disk[p] /\ At(p)' = At(p)
    BY <1>2 DEF OthersSame
  <2>2. PICK q \in Reqs : /\ disk[q] = d /\ At(q) = At(p)
                          /\ q = p \/ pc[q] = "detachLock"
    BY <2>1 DEF BatchOnBehalf
  <2> QED BY <2>1, <2>2 DEF OthersSame
<1> QED BY <1>1, <1>2 DEF BatchOnBehalf

\* A handler outside the VM updates is what no disk state stands for.
LEMMA StateFrame ==
    ASSUME DiskStateNotLeaked, NEW r \in Reqs, OthersSame(r), diskStateMap' \subseteq diskStateMap,
           pc[r] \notin {"vmAttach", "vmRetry", "attachCheck", "vmDetach", "vmForce", "detachCheck"}
    PROVE  DiskStateNotLeaked'
<1> SUFFICES ASSUME NEW k \in diskStateMap
             PROVE  \/ k \in Reqs /\ pc'[k] \in {"vmAttach", "vmRetry", "attachCheck"}
                    \/ \E q \in Reqs : /\ disk'[q] = k /\ batch'[q] # {}
                                       /\ pc'[q] \in {"vmDetach", "vmForce", "detachCheck"}
  BY DEF DiskStateNotLeaked
<1>1. CASE k \in Reqs /\ pc[k] \in {"vmAttach", "vmRetry", "attachCheck"}
  BY <1>1 DEF OthersSame
<1>2. CASE ~(k \in Reqs /\ pc[k] \in {"vmAttach", "vmRetry", "attachCheck"})
  <2>1. PICK q \in Reqs : /\ disk[q] = k /\ batch[q] # {}
                          /\ pc[q] \in {"vmDetach", "vmForce", "detachCheck"}
    BY <1>2 DEF DiskStateNotLeaked
  <2> QED BY <2>1 DEF OthersSame
<1> QED BY <1>1, <1>2

\* Every step of a handler keeps ControlInv.
LEMMA HandlerControl ==
    ASSUME TypeOK, ControlInv, NEW r \in Reqs, Handler(r) \/ LockEntry(r)
    PROVE  ControlInv'
<1> USE DEF TypeOK, RequestTypeOK, ControlInv, At, Goto, reqVars, callVars, queueVars, azureVars, vmVars, cacheVars,
        Locked, AttachLocked, DetachLocked, UpdateLocked, DetachPoints, PCs
<1>1. CASE CheckDiskExists(r)
  <2>0. /\ OthersSame(r) /\ pc[r] = "checkDisk"
        /\ pc'[r] \in {"getLun", "err"}
        /\ UNCHANGED <<queueVars, diskStateMap>>
    BY <1>1 DEF OthersSame, CheckDiskExists
  <2>1. ArgumentsKnown'
    BY <1>1 DEF ArgumentsKnown, CheckDiskExists
  <2>2. LockHeld'
    BY <1>1 DEF ArgumentsKnown, LockHeld, CheckDiskExists
  <2>3. QueueServed'
    BY <2>0, QueueFrame
  <2>4. BatchOnBehalf'
    BY <2>0, BatchFrame
  <2>5. DiskStateNotLeaked'
    BY <2>0, StateFrame
  <2> QED BY <2>1, <2>2, <2>3, <2>4, <2>5
<1>2. CASE PublishGetDiskLun(r)
  <2>0. /\ OthersSame(r) /\ pc[r] = "getLun"
        /\ pc'[r] \in {"ok", "failedLock", "occupied", "err"}
        /\ UNCHANGED <<queueVars, diskStateMap>>
    BY <1>2 DEF OthersSame, PublishGetDiskLun
  <2>1. ArgumentsKnown'
    BY <1>2 DEF ArgumentsKnown, PublishGetDiskLun
  <2>2. LockHeld'
    BY <1>2 DEF ArgumentsKnown, LockHeld, PublishGetDiskLun
  <2>3. QueueServed'
    BY <2>0, QueueFrame
  <2>4. BatchOnBehalf'
    BY <2>0, BatchFrame
  <2>5. DiskStateNotLeaked'
    BY <2>0, StateFrame
  <2> QED BY <2>1, <2>2, <2>3, <2>4, <2>5
<1>3. CASE GetOccupiedLuns(r)
  <2>0. /\ OthersSame(r) /\ pc[r] = "occupied"
        /\ pc'[r] = "attach"
        /\ UNCHANGED <<queueVars, diskStateMap>>
    BY <1>3 DEF OthersSame, GetOccupiedLuns
  <2>1. ArgumentsKnown'
    BY <1>3 DEF ArgumentsKnown, GetOccupiedLuns
  <2>2. LockHeld'
    BY <1>3 DEF ArgumentsKnown, LockHeld, GetOccupiedLuns
  <2>3. QueueServed'
    BY <2>0, QueueFrame
  <2>4. BatchOnBehalf'
    BY <2>0, BatchFrame
  <2>5. DiskStateNotLeaked'
    BY <2>0, StateFrame
  <2> QED BY <2>1, <2>2, <2>3, <2>4, <2>5
<1>4. CASE AttachDisk(r)
  <2>0. /\ OthersSame(r) /\ pc[r] \in {"attach", "reattach"}
        /\ pc'[r] \in {"staleLock", "detach", "err", "attachLock"}
        /\ UNCHANGED diskStateMap
    BY <1>4 DEF OthersSame, AttachDisk
  <2>1. ArgumentsKnown'
    BY <1>4 DEF ArgumentsKnown, AttachDisk
  <2>2. LockHeld'
    BY <1>4 DEF ArgumentsKnown, LockHeld, AttachDisk
  <2>3. QueueServed'
    BY <1>4 DEF QueueServed, AttachDisk
  <2>4. BatchOnBehalf'
    BY <2>0, BatchFrame
  <2>5. DiskStateNotLeaked'
    BY <2>0, StateFrame
  <2> QED BY <2>1, <2>2, <2>3, <2>4, <2>5
<1>5. CASE CleanAttachDiskRequests(r)
  <2>1. ArgumentsKnown'
    BY <1>5 DEF ArgumentsKnown, CleanAttachDiskRequests, EmptyMap
  <2>2. LockHeld'
    BY <1>5 DEF ArgumentsKnown, LockHeld, CleanAttachDiskRequests, EmptyMap
  <2>3. QueueServed'
    BY <1>5 DEF QueueServed, CleanAttachDiskRequests, EmptyMap
  <2>4. BatchOnBehalf'
    <3>1. ASSUME NEW d \in batch'[r]
          PROVE  \E q \in Reqs :
                    /\ disk'[q] = d /\ node'[q] = node'[r]
                    /\ q = r \/ pc'[q] = "attachLock"
      <4>1. d \in attachDiskMap[node[r]] /\ node[r] \in Nodes
        BY <1>5, <3>1 DEF CleanAttachDiskRequests, ArgumentsKnown
      <4>2. PICK q \in Reqs :
               pc[q] \in {"attachLock", "attachClean"} /\ disk[q] = d /\ node[q] = node[r]
        BY <4>1 DEF QueueServed
      <4>3. pc[q] = "attachClean" => q = r
        BY <1>5, <4>2 DEF LockHeld, CleanAttachDiskRequests
      <4> QED BY <1>5, <4>2, <4>3 DEF CleanAttachDiskRequests
    <3>2. pc'[r] = "setLun" /\ \A q \in Reqs \ {r} : pc'[q] = pc[q] /\ batch'[q] = batch[q]
      BY <1>5 DEF CleanAttachDiskRequests
    <3> QED BY <1>5, <3>1, <3>2 DEF BatchOnBehalf, CleanAttachDiskRequests
  <2>5. DiskStateNotLeaked'
    BY <1>5 DEF DiskStateNotLeaked, ArgumentsKnown, CleanAttachDiskRequests, EmptyMap
  <2> QED BY <2>1, <2>2, <2>3, <2>4, <2>5
<1>6. CASE Allocate(r)
  <2>0. /\ OthersSame(r) /\ pc[r] = "setLun"
        /\ UNCHANGED queueVars
    BY <1>6 DEF OthersSame, Allocate, AttachReturns
  <2>1. ArgumentsKnown'
    BY <1>6 DEF ArgumentsKnown, Allocate, AttachReturns
  <2>2. LockHeld'
    BY <1>6 DEF ArgumentsKnown, LockHeld, Allocate, AttachReturns
  <2>3. QueueServed'
    BY <2>0, QueueFrame
  <2>4. BatchOnBehalf'
    <3>1. UNCHANGED <<op, disk, node, seen>>
      BY <1>6 DEF Allocate
    <3>2. \/ pc'[r] \in {"ok", "err"}
          \/ pc'[r] = "vmAttach" /\ batch'[r] = batch[r] /\ At(r)' = At(r)
      BY <1>6, <3>1 DEF Allocate, AttachReturns
    <3> QED BY <2>0, <3>1, <3>2, BatchFrame
  <2>5. DiskStateNotLeaked'
    <3>1. diskStateMap' \subseteq diskStateMap \cup {r} /\ (r \in diskStateMap' => pc'[r] = "vmAttach")
      BY <1>6 DEF Allocate, AttachReturns
    <3> QED BY <2>0, <3>1 DEF DiskStateNotLeaked, OthersSame
  <2> QED BY <2>1, <2>2, <2>3, <2>4, <2>5
<1>7. CASE VMAttach(r)
  <2>0. /\ OthersSame(r) /\ pc[r] = "vmAttach"
        /\ UNCHANGED queueVars
    BY <1>7 DEF OthersSame, VMAttach, AttachReturns
  <2>1. ArgumentsKnown'
    BY <1>7 DEF ArgumentsKnown, VMAttach, AttachReturns
  <2>2. LockHeld'
    BY <1>7 DEF ArgumentsKnown, LockHeld, VMAttach, AttachReturns
  <2>3. QueueServed'
    BY <2>0, QueueFrame
  <2>4. BatchOnBehalf'
    <3>1. UNCHANGED <<op, disk, node, seen>>
      BY <1>7 DEF VMAttach
    <3>2. \/ pc'[r] \in {"attachCheck", "err"}
          \/ pc'[r] = "vmRetry" /\ batch'[r] = batch[r] /\ At(r)' = At(r)
      BY <1>7, <3>1 DEF VMAttach, AttachReturns
    <3> QED BY <2>0, <3>1, <3>2, BatchFrame
  <2>5. DiskStateNotLeaked'
    <3>1. /\ diskStateMap' \subseteq diskStateMap
          /\ r \in diskStateMap' => pc'[r] \in {"vmRetry", "attachCheck"}
      BY <1>7 DEF VMAttach, AttachReturns
    <3> QED BY <2>0, <3>1 DEF DiskStateNotLeaked, OthersSame
  <2> QED BY <2>1, <2>2, <2>3, <2>4, <2>5
<1>8. CASE VMRetry(r)
  <2>0. /\ OthersSame(r) /\ pc[r] = "vmRetry"
        /\ pc'[r] \in {"attachCheck", "err"}
        /\ UNCHANGED queueVars
    BY <1>8 DEF OthersSame, VMRetry, AttachReturns
  <2>1. ArgumentsKnown'
    BY <1>8 DEF ArgumentsKnown, VMRetry, AttachReturns
  <2>2. LockHeld'
    BY <1>8 DEF ArgumentsKnown, LockHeld, VMRetry, AttachReturns
  <2>3. QueueServed'
    BY <2>0, QueueFrame
  <2>4. BatchOnBehalf'
    BY <2>0, BatchFrame
  <2>5. DiskStateNotLeaked'
    <3>1. /\ diskStateMap' \subseteq diskStateMap
          /\ r \in diskStateMap' => pc'[r] \in {"vmRetry", "attachCheck"}
      BY <1>8 DEF VMRetry, AttachReturns
    <3> QED BY <2>0, <3>1 DEF DiskStateNotLeaked, OthersSame
  <2> QED BY <2>1, <2>2, <2>3, <2>4, <2>5
<1>9. CASE AttachCheckLun(r)
  <2>0. /\ OthersSame(r) /\ pc[r] = "attachCheck"
        /\ pc'[r] \in {"ok", "err"}
        /\ UNCHANGED queueVars
    BY <1>9 DEF OthersSame, AttachCheckLun, AttachReturns
  <2>1. ArgumentsKnown'
    BY <1>9 DEF ArgumentsKnown, AttachCheckLun, AttachReturns
  <2>2. LockHeld'
    <3>1. lock' = [lock EXCEPT ![At(r)] = NoReq] /\ lock[At(r)] = r
      BY <1>9 DEF LockHeld, AttachCheckLun, AttachReturns
    <3>2. \A q \in Reqs \ {r} : pc[q] \in Locked => At(q) \in Nodes /\ lock[At(q)] = q
      BY DEF ArgumentsKnown, LockHeld
    <3>3. pc'[r] \notin Locked
      BY <2>0
    <3> SUFFICES ASSUME NEW q \in Reqs, pc'[q] \in Locked
                 PROVE  lock'[At(q)'] = q
      BY DEF LockHeld
    <3> HIDE DEF At, Locked
    <3>4. q # r /\ pc[q] \in Locked /\ At(q)' = At(q)
      BY <2>0, <3>3 DEF OthersSame
    <3> QED BY <3>1, <3>2, <3>4
  <2>3. QueueServed'
    BY <2>0, QueueFrame
  <2>4. BatchOnBehalf'
    BY <2>0, BatchFrame
  <2>5. DiskStateNotLeaked'
    <3>1. diskStateMap' \subseteq diskStateMap \ {r}
      BY <1>9 DEF AttachCheckLun, AttachReturns
    <3> SUFFICES ASSUME NEW k \in diskStateMap, k # r
                 PROVE  \/ k \in Reqs /\ pc'[k] \in {"vmAttach", "vmRetry", "attachCheck"}
                        \/ \E q \in Reqs : /\ disk'[q] = k /\ batch'[q] # {}
                                           /\ pc'[q] \in {"vmDetach", "vmForce", "detachCheck"}
      BY <3>1 DEF DiskStateNotLeaked
    <3> HIDE DEF PCs, At
    <3> QED BY <2>0 DEF DiskStateNotLeaked, OthersSame
  <2> QED BY <2>1, <2>2, <2>3, <2>4, <2>5
<1>10. CASE UpdateVM(r)
  <2>0. /\ OthersSame(r) /\ pc[r] \in UpdateLocked
        /\ pc'[r] \in {"ok", "staleLun", "err"}
        /\ UNCHANGED <<queueVars, diskStateMap>>
    BY <1>10 DEF OthersSame, UpdateVM
  <2>1. ArgumentsKnown'
    BY <1>10 DEF ArgumentsKnown, UpdateVM
  <2>2. LockHeld'
    BY <1>10 DEF ArgumentsKnown, LockHeld, UpdateVM
  <2>3. QueueServed'
    BY <2>0, QueueFrame
  <2>4. BatchOnBehalf'
    BY <2>0, BatchFrame
  <2>5. DiskStateNotLeaked'
    BY <2>0, StateFrame
  <2> QED BY <2>1, <2>2, <2>3, <2>4, <2>5
<1>11. CASE StaleGetDiskLun(r)
  <2>0. /\ OthersSame(r) /\ pc[r] = "staleLun"
        /\ pc'[r] \in {"ok", "err"}
        /\ UNCHANGED <<queueVars, diskStateMap>>
    BY <1>11 DEF OthersSame, StaleGetDiskLun
  <2>1. ArgumentsKnown'
    BY <1>11 DEF ArgumentsKnown, StaleGetDiskLun
  <2>2. LockHeld'
    BY <1>11 DEF ArgumentsKnown, LockHeld, StaleGetDiskLun
  <2>3. QueueServed'
    BY <2>0, QueueFrame
  <2>4. BatchOnBehalf'
    BY <2>0, BatchFrame
  <2>5. DiskStateNotLeaked'
    BY <2>0, StateFrame
  <2> QED BY <2>1, <2>2, <2>3, <2>4, <2>5
<1>12. CASE DetachDisk(r)
  <2>0. /\ OthersSame(r) /\ pc[r] = "detach"
        /\ pc'[r] \in {"ok", "reattach", "err", "detachLock"}
        /\ UNCHANGED diskStateMap
    BY <1>12 DEF OthersSame, DetachDisk, AfterDetach, DetachError
  <2>1. ArgumentsKnown'
    BY <1>12 DEF ArgumentsKnown, DetachDisk, AfterDetach, DetachError
  <2>2. LockHeld'
    BY <1>12 DEF ArgumentsKnown, LockHeld, DetachDisk, AfterDetach, DetachError
  <2>3. QueueServed'
    BY <1>12 DEF QueueServed, DetachDisk, AfterDetach, DetachError
  <2>4. BatchOnBehalf'
    BY <2>0, BatchFrame
  <2>5. DiskStateNotLeaked'
    BY <2>0, StateFrame
  <2> QED BY <2>1, <2>2, <2>3, <2>4, <2>5
<1>13. CASE CleanDetachDiskRequests(r)
  <2>1. ArgumentsKnown'
    BY <1>13 DEF ArgumentsKnown, CleanDetachDiskRequests, EmptyMap
  <2>2. LockHeld'
    BY <1>13 DEF ArgumentsKnown, LockHeld, CleanDetachDiskRequests, EmptyMap
  <2>3. QueueServed'
    BY <1>13 DEF QueueServed, CleanDetachDiskRequests, EmptyMap
  <2>4. BatchOnBehalf'
    <3>1. ASSUME NEW d \in batch'[r]
          PROVE  \E q \in Reqs :
                    /\ disk'[q] = d /\ At(q)' = At(r)'
                    /\ q = r \/ pc'[q] = "detachLock"
      <4>1. d \in detachDiskMap[At(r)] /\ At(r) \in Nodes
        BY <1>13, <3>1 DEF CleanDetachDiskRequests, ArgumentsKnown
      <4>2. PICK q \in Reqs :
               pc[q] \in {"detachLock", "detachClean"} /\ disk[q] = d /\ At(q) = At(r)
        BY <4>1 DEF QueueServed
      <4>3. pc[q] = "detachClean" => q = r
        BY <1>13, <4>2 DEF LockHeld, CleanDetachDiskRequests
      <4> QED BY <1>13, <4>2, <4>3 DEF CleanDetachDiskRequests
    <3>2. /\ pc'[r] \in {"vmDetach", "detachCheck"}
          /\ \A q \in Reqs \ {r} : pc'[q] = pc[q] /\ batch'[q] = batch[q] /\ At(q)' = At(q)
      BY <1>13 DEF CleanDetachDiskRequests
    <3> QED BY <1>13, <3>1, <3>2 DEF BatchOnBehalf, CleanDetachDiskRequests
  <2>5. DiskStateNotLeaked'
    BY <1>13 DEF DiskStateNotLeaked, ArgumentsKnown, CleanDetachDiskRequests, EmptyMap
  <2> QED BY <2>1, <2>2, <2>3, <2>4, <2>5
<1>14. CASE VMDetach(r)
  <2>0. /\ OthersSame(r) /\ pc[r] = "vmDetach"
        /\ UNCHANGED queueVars
    BY <1>14 DEF OthersSame, VMDetach, DetachReturns, AfterDetach, DetachError
  <2>1. ArgumentsKnown'
    BY <1>14 DEF ArgumentsKnown, VMDetach, DetachReturns, AfterDetach, DetachError
  <2>2. LockHeld'
    BY <1>14 DEF ArgumentsKnown, LockHeld, VMDetach, DetachReturns, AfterDetach, DetachError
  <2>3. QueueServed'
    BY <2>0, QueueFrame
  <2>4. BatchOnBehalf'
    <3>1. UNCHANGED <<op, disk, node, seen>>
      BY <1>14 DEF VMDetach
    <3>2. \/ pc'[r] \in {"detachCheck", "ok", "err", "reattach"}
          \/ pc'[r] = "vmForce" /\ batch'[r] = batch[r] /\ At(r)' = At(r)
      BY <1>14, <3>1 DEF VMDetach, DetachReturns, AfterDetach, DetachError
    <3> QED BY <2>0, <3>1, <3>2, BatchFrame
  <2>5. DiskStateNotLeaked'
    <3>1. pc[r] = "vmDetach" /\ disk[r] \in Disks /\ UNCHANGED disk
      BY <1>14 DEF VMDetach, ArgumentsKnown
    <3>2. \/ /\ pc'[r] \in {"detachCheck", "vmForce"}
             /\ UNCHANGED <<diskStateMap, batch>>
          \/ diskStateMap' = diskStateMap \ (IF batch[r] = {} THEN {} ELSE {disk[r]})
      BY <1>14 DEF VMDetach, DetachReturns
    <3>3. \A q \in Reqs \ {r} : pc'[q] = pc[q] /\ batch'[q] = batch[q]
      BY <1>14 DEF VMDetach, DetachReturns
    <3> QED BY <3>1, <3>2, <3>3 DEF DiskStateNotLeaked
  <2> QED BY <2>1, <2>2, <2>3, <2>4, <2>5
<1>15. CASE VMForceDetach(r)
  <2>0. /\ OthersSame(r) /\ pc[r] = "vmForce"
        /\ pc'[r] \in {"detachCheck", "ok", "err"}
        /\ UNCHANGED queueVars
    BY <1>15 DEF OthersSame, VMForceDetach, DetachReturns, DetachError
  <2>1. ArgumentsKnown'
    BY <1>15 DEF ArgumentsKnown, VMForceDetach, DetachReturns, DetachError
  <2>2. LockHeld'
    BY <1>15 DEF ArgumentsKnown, LockHeld, VMForceDetach, DetachReturns, DetachError
  <2>3. QueueServed'
    BY <2>0, QueueFrame
  <2>4. BatchOnBehalf'
    BY <2>0, BatchFrame
  <2>5. DiskStateNotLeaked'
    <3>1. pc[r] = "vmForce" /\ disk[r] \in Disks /\ UNCHANGED disk
      BY <1>15 DEF VMForceDetach, ArgumentsKnown
    <3>2. \/ pc'[r] = "detachCheck" /\ UNCHANGED <<diskStateMap, batch>>
          \/ diskStateMap' = diskStateMap \ (IF batch[r] = {} THEN {} ELSE {disk[r]})
      BY <1>15 DEF VMForceDetach, DetachReturns
    <3>3. \A q \in Reqs \ {r} : pc'[q] = pc[q] /\ batch'[q] = batch[q]
      BY <1>15 DEF VMForceDetach, DetachReturns
    <3> QED BY <3>1, <3>2, <3>3 DEF DiskStateNotLeaked
  <2> QED BY <2>1, <2>2, <2>3, <2>4, <2>5
<1>16. CASE DetachCheckLun(r)
  <2>0. /\ OthersSame(r) /\ pc[r] = "detachCheck"
        /\ pc'[r] \in {"ok", "err", "reattach"}
        /\ UNCHANGED queueVars
    BY <1>16 DEF OthersSame, DetachCheckLun, DetachReturns, AfterDetach, DetachError
  <2>1. ArgumentsKnown'
    BY <1>16 DEF ArgumentsKnown, DetachCheckLun, DetachReturns, AfterDetach, DetachError
  <2>2. LockHeld'
    BY <1>16 DEF ArgumentsKnown, LockHeld, DetachCheckLun, DetachReturns, AfterDetach, DetachError
  <2>3. QueueServed'
    BY <2>0, QueueFrame
  <2>4. BatchOnBehalf'
    BY <2>0, BatchFrame
  <2>5. DiskStateNotLeaked'
    <3>1. pc[r] = "detachCheck" /\ disk[r] \in Disks /\ UNCHANGED disk
      BY <1>16 DEF DetachCheckLun, ArgumentsKnown
    <3>2. diskStateMap' = diskStateMap \ (IF batch[r] = {} THEN {} ELSE {disk[r]})
      BY <1>16 DEF DetachCheckLun, DetachReturns
    <3>3. \A q \in Reqs \ {r} : pc'[q] = pc[q] /\ batch'[q] = batch[q]
      BY <1>16 DEF DetachCheckLun, DetachReturns
    <3> QED BY <3>1, <3>2, <3>3 DEF DiskStateNotLeaked
  <2> QED BY <2>1, <2>2, <2>3, <2>4, <2>5
<1>17. CASE DeleteGuard(r)
  <2>0. /\ OthersSame(r) /\ pc[r] = "delGuard"
        /\ pc'[r] \in {"err", "delGet"}
        /\ UNCHANGED <<queueVars, diskStateMap>>
    BY <1>17 DEF OthersSame, DeleteGuard, DeleteReturns
  <2>1. ArgumentsKnown'
    BY <1>17 DEF ArgumentsKnown, DeleteGuard, DeleteReturns
  <2>2. LockHeld'
    BY <1>17 DEF ArgumentsKnown, LockHeld, DeleteGuard, DeleteReturns
  <2>3. QueueServed'
    BY <2>0, QueueFrame
  <2>4. BatchOnBehalf'
    BY <2>0, BatchFrame
  <2>5. DiskStateNotLeaked'
    BY <2>0, StateFrame
  <2> QED BY <2>1, <2>2, <2>3, <2>4, <2>5
<1>18. CASE DeleteGetDisk(r)
  <2>0. /\ OthersSame(r) /\ pc[r] = "delGet"
        /\ pc'[r] \in {"ok", "err", "delCall"}
        /\ UNCHANGED <<queueVars, diskStateMap>>
    BY <1>18 DEF OthersSame, DeleteGetDisk, DeleteReturns
  <2>1. ArgumentsKnown'
    BY <1>18 DEF ArgumentsKnown, DeleteGetDisk, DeleteReturns
  <2>2. LockHeld'
    BY <1>18 DEF ArgumentsKnown, LockHeld, DeleteGetDisk, DeleteReturns
  <2>3. QueueServed'
    BY <2>0, QueueFrame
  <2>4. BatchOnBehalf'
    BY <2>0, BatchFrame
  <2>5. DiskStateNotLeaked'
    BY <2>0, StateFrame
  <2> QED BY <2>1, <2>2, <2>3, <2>4, <2>5
<1>19. CASE DeleteDisk(r)
  <2>0. /\ OthersSame(r) /\ pc[r] = "delCall"
        /\ pc'[r] \in {"ok", "err"}
        /\ UNCHANGED <<queueVars, diskStateMap>>
    BY <1>19 DEF OthersSame, DeleteDisk, DeleteReturns
  <2>1. ArgumentsKnown'
    BY <1>19 DEF ArgumentsKnown, DeleteDisk, DeleteReturns
  <2>2. LockHeld'
    BY <1>19 DEF ArgumentsKnown, LockHeld, DeleteDisk, DeleteReturns
  <2>3. QueueServed'
    BY <2>0, QueueFrame
  <2>4. BatchOnBehalf'
    BY <2>0, BatchFrame
  <2>5. DiskStateNotLeaked'
    BY <2>0, StateFrame
  <2> QED BY <2>1, <2>2, <2>3, <2>4, <2>5
<1>20. CASE Reply(r)
  <2>0. /\ OthersSame(r) /\ pc[r] \in {"ok", "err"}
        /\ pc'[r] = "idle"
        /\ UNCHANGED <<queueVars, diskStateMap>>
    BY <1>20 DEF OthersSame, Reply
  <2>1. ArgumentsKnown'
    BY <1>20 DEF ArgumentsKnown, Reply
  <2>2. LockHeld'
    BY <1>20 DEF ArgumentsKnown, LockHeld, Reply
  <2>3. QueueServed'
    BY <2>0, QueueFrame
  <2>4. BatchOnBehalf'
    BY <2>0, BatchFrame
  <2>5. DiskStateNotLeaked'
    BY <2>0, StateFrame
  <2> QED BY <2>1, <2>2, <2>3, <2>4, <2>5
<1>21. CASE LockEntry(r)
  <2>1. ArgumentsKnown'
    BY <1>21 DEF ArgumentsKnown, LockEntry, LockFree, Granted
  <2>2. LockHeld'
    BY <1>21 DEF ArgumentsKnown, LockHeld, LockEntry, LockFree, Granted
  <2>3. QueueServed'
    BY <1>21 DEF QueueServed, LockEntry, LockFree, Granted
  <2>4. BatchOnBehalf'
    BY <1>21 DEF LockHeld, QueueServed, BatchOnBehalf, LockEntry, LockFree, Granted
  <2>5. DiskStateNotLeaked'
    BY <1>21 DEF DiskStateNotLeaked, ArgumentsKnown, LockEntry, LockFree, Granted
  <2> QED BY <2>1, <2>2, <2>3, <2>4, <2>5
<1> QED BY <1>1, <1>2, <1>3, <1>4, <1>5, <1>6, <1>7, <1>8, <1>9, <1>10, <1>11, <1>12, <1>13,
        <1>14, <1>15, <1>16, <1>17, <1>18, <1>19, <1>20, <1>21 DEF Handler

\* A new call keeps the types and ControlInv.
LEMMA CallKeeps ==
    ASSUME TypeOK, ControlInv, NEW r \in Reqs,
           NEW o \in Ops, NEW d \in Disks, NEW n \in Nodes, Call(r, o, d, n)
    PROVE  TypeOK' /\ ControlInv'
<1> USE DEF Call, Goto, callVars, queueVars, azureVars
<1>1. TypeOK'
  <2>1. pc' \in [Reqs -> PCs] /\ volumeLocks' \subseteq Disks
    BY DEF TypeOK, RequestTypeOK, PCs, DetachPoints
  <2>2. /\ op' \in [Reqs -> {"publish", "unpublish", "delete"}]
        /\ disk' \in [Reqs -> Disks \cup {NoDisk}]
        /\ node' \in [Reqs -> Nodes \cup {NoNode}]
    BY DEF TypeOK, RequestTypeOK
  <2> QED BY <2>1, <2>2 DEF TypeOK, AzureTypeOK, RequestTypeOK
<1> USE DEF TypeOK, RequestTypeOK, ControlInv, At, Locked, AttachLocked, DetachLocked, UpdateLocked, DetachPoints
<1>2. ArgumentsKnown'
  BY DEF ArgumentsKnown
<1>3. LockHeld'
  BY DEF LockHeld
<1>4. QueueServed'
  <2>1. pc[r] = "idle" /\ UNCHANGED <<attachDiskMap, detachDiskMap>>
    OBVIOUS
  <2>2. \A q \in Reqs \ {r} :
           pc'[q] = pc[q] /\ disk'[q] = disk[q] /\ node'[q] = node[q] /\ At(q)' = At(q)
    OBVIOUS
  <2> QED BY <2>1, <2>2 DEF QueueServed
<1>5. BatchOnBehalf'
  BY DEF BatchOnBehalf
<1>6. DiskStateNotLeaked'
  BY DEF DiskStateNotLeaked
<1> QED BY <1>1, <1>2, <1>3, <1>4, <1>5, <1>6

\* A restart starts over, as Init does.
LEMMA RestartKeeps ==
    ASSUME TypeOK, Restart
    PROVE  TypeOK' /\ ControlInv'
<1>1. NoLuns \in LunMap
  BY DEF LunMap, NoLuns
<1>2. TypeOK'
  BY <1>1 DEF TypeOK, AzureTypeOK, RequestTypeOK, Restart, vmVars, PCs, NoLun
<1>3. ControlInv'
  BY DEF Restart, ControlInv, ArgumentsKnown, LockHeld, QueueServed, BatchOnBehalf,
         DiskStateNotLeaked, Locked, AttachLocked, DetachLocked, UpdateLocked
<1> QED BY <1>2, <1>3

\* What ControlInv is about changes only in a step of a handler.
LEMMA ControlFrame ==
    ASSUME ControlInv,
           UNCHANGED <<pc, reqVars, callVars, queueVars, lock, diskStateMap>>
    PROVE  ControlInv'
BY DEF ControlInv, ArgumentsKnown, LockHeld, QueueServed, BatchOnBehalf, DiskStateNotLeaked,
       At, reqVars, callVars, queueVars

LEMMA ControlInductive ==
    ASSUME TypeOK, ControlInv, [Next]_vars
    PROVE  TypeOK' /\ ControlInv'
<1>1. ASSUME NEW r \in Reqs, Handler(r) \/ LockEntry(r)
      PROVE  TypeOK' /\ ControlInv'
  BY <1>1, HandlerTypes, HandlerControl DEF ControlInv
<1>2. CASE AzureActs
  <2>1. TypeOK'
    BY <1>2, AzureTypes DEF TypeOK, RequestTypeOK, AzureActs, reqVars, callVars, queueVars
  <2> QED BY <1>2, <2>1, ControlFrame DEF AzureActs
<1>3. CASE UNCHANGED vars
  <2>1. TypeOK'
    BY <1>3 DEF TypeOK, AzureTypeOK, RequestTypeOK, vars, azureVars, reqVars, callVars, queueVars
  <2> QED BY <1>3, <2>1, ControlFrame DEF vars
<1> QED BY <1>1, <1>2, <1>3, CallKeeps, RestartKeeps DEF Next

LEMMA ControlInitially == Init => TypeOK /\ ControlInv
<1> SUFFICES ASSUME Init PROVE TypeOK /\ ControlInv
  OBVIOUS
<1>1. NoLuns \in LunMap
  BY DEF LunMap, NoLuns
<1>2. TypeOK
  BY <1>1 DEF Init, AzureInit, TypeOK, AzureTypeOK, RequestTypeOK, PCs
<1> QED BY <1>2 DEF Init, ControlInv, ArgumentsKnown, LockHeld, QueueServed, BatchOnBehalf,
         DiskStateNotLeaked, Locked, AttachLocked, DetachLocked, UpdateLocked

\* The types, the locks, the queues and the batches stay in order in every
\* reachable state of the attach/detach controller.
THEOREM ControlInvariant == Spec => [](TypeOK /\ ControlInv)
BY ControlInitially, ControlInductive, PTL DEF Spec

\* Every reachable state is well typed, whatever fails (all handlers of
\* controllerserver.go and azure_controller_common.go that are modelled).
THEOREM TypeCorrect == Spec => []TypeOK
BY ControlInvariant, PTL

\* lockMap.LockEntry(node) keeps the VM updates of one node apart.
THEOREM VMUpdatesExclusive == Spec => []OneUpdatePerVM
<1>1. ControlInv => OneUpdatePerVM
  BY DEF ControlInv, LockHeld, OneUpdatePerVM
<1> QED BY <1>1, ControlInvariant, PTL

\* insertAttachDiskRequest and insertDetachDiskRequest never leave an entry that
\* no handler is going to take.
THEOREM QueuesAreServed == Spec => []QueueServed
<1>1. ControlInv => QueueServed
  BY DEF ControlInv
<1> QED BY <1>1, ControlInvariant, PTL

\* A VM update attaches or detaches a disk only on behalf of a running call.
THEOREM BatchesHaveCallers == Spec => []BatchOnBehalf
<1>1. ControlInv => BatchOnBehalf
  BY DEF ControlInv
<1> QED BY <1>1, ControlInvariant, PTL

\* The deferred deletes of diskStateMap cover every return.
THEOREM NoStateLeaks == Spec => []DiskStateNotLeaked
<1>1. ControlInv => DiskStateNotLeaked
  BY DEF ControlInv
<1> QED BY <1>1, ControlInvariant, PTL

-----------------------------------------------------------------------------
(* What the VM cache can be trusted with.  An entry of the cache never shows *)
(* a disk that is not attached, so a publish that answers with a LUN tells    *)
(* the truth.  If no attach lands after it was reported failed, the cache     *)
(* misses no disk either: an unpublish that answers OK tells the truth, and   *)
(* no VM update asks for a LUN that is taken.                                 *)

-----------------------------------------------------------------------------
(* Where the handlers stand.                                                 *)

\* No step leaves a handler at a point of another call.
LEMMA RightPointInductive ==
    ASSUME TypeOK, RightPoint, [Next]_vars
    PROVE  RightPoint'
<1> HIDE AzureAssumption, RequestAssumption
<1> USE DEF TypeOK, RequestTypeOK, RightPoint, PointsOf, Answered, DeletePoints, Goto,
        reqVars, PCs, Locked, AttachLocked, DetachLocked, UpdateLocked, DetachPoints
<1>1. ASSUME NEW r \in Reqs, Handler(r) \/ LockEntry(r)
      PROVE  RightPoint'
  <2>1. CASE CheckDiskExists(r)
    BY <2>1 DEF CheckDiskExists
  <2>2. CASE PublishGetDiskLun(r)
    BY <2>2 DEF PublishGetDiskLun
  <2>3. CASE GetOccupiedLuns(r)
    BY <2>3 DEF GetOccupiedLuns
  <2>4. CASE AttachDisk(r)
    BY <2>4 DEF AttachDisk
  <2>5. CASE CleanAttachDiskRequests(r)
    BY <2>5 DEF CleanAttachDiskRequests
  <2>6. CASE Allocate(r)
    BY <2>6 DEF Allocate, AttachReturns
  <2>7. CASE VMAttach(r)
    BY <2>7 DEF VMAttach, AttachReturns
  <2>8. CASE VMRetry(r)
    BY <2>8 DEF VMRetry, AttachReturns
  <2>9. CASE AttachCheckLun(r)
    BY <2>9 DEF AttachCheckLun, AttachReturns
  <2>10. CASE UpdateVM(r)
    BY <2>10 DEF UpdateVM
  <2>11. CASE StaleGetDiskLun(r)
    BY <2>11 DEF StaleGetDiskLun
  <2>12. CASE DetachDisk(r)
    BY <2>12 DEF DetachDisk, AfterDetach, DetachError
  <2>13. CASE CleanDetachDiskRequests(r)
    BY <2>13 DEF CleanDetachDiskRequests
  <2>14. CASE VMDetach(r)
    BY <2>14 DEF VMDetach, DetachReturns, AfterDetach, DetachError
  <2>15. CASE VMForceDetach(r)
    BY <2>15 DEF VMForceDetach, DetachReturns, DetachError
  <2>16. CASE DetachCheckLun(r)
    BY <2>16 DEF DetachCheckLun, DetachReturns, AfterDetach, DetachError
  <2>17. CASE DeleteGuard(r)
    BY <2>17 DEF DeleteGuard, DeleteReturns
  <2>18. CASE DeleteGetDisk(r)
    BY <2>18 DEF DeleteGetDisk, DeleteReturns
  <2>19. CASE DeleteDisk(r)
    BY <2>19 DEF DeleteDisk, DeleteReturns
  <2>20. CASE Reply(r)
    BY <2>20 DEF Reply
  <2>21. CASE LockEntry(r)
    BY <2>21 DEF LockEntry, Granted
  <2> QED BY <1>1, <2>1, <2>2, <2>3, <2>4, <2>5, <2>6, <2>7, <2>8, <2>9, <2>10, <2>11,
          <2>12, <2>13, <2>14, <2>15, <2>16, <2>17, <2>18, <2>19, <2>20, <2>21 DEF Handler
<1>2. ASSUME NEW r \in Reqs, NEW c \in Ops, NEW d \in Disks, NEW n \in Nodes, Call(r, c, d, n)
      PROVE  RightPoint'
  BY <1>2 DEF Call
<1>3. CASE Restart
  BY <1>3 DEF Restart
<1>4. CASE AzureActs \/ UNCHANGED vars
  BY <1>4 DEF AzureActs, vars
<1> QED BY <1>1, <1>2, <1>3, <1>4 DEF Next

-----------------------------------------------------------------------------
(* What a step may do to the cached view of a VM.                            *)

\* The entry of m is absent afterwards, or is what a read gave, or was kept while
\* the VM lost no disk that was there to stay and, unless an attach was pending,
\* got none.
Dropped(m) == m \notin cached' \cap alive'
Filled(m) ==
    /\ m \in cached \cup alive
    /\ cacheDisks'[m] = ReadDisks(m) /\ cacheTbd'[m] = ReadTbd(m)
    /\ dataDisks'[m] = dataDisks[m] /\ tbd'[m] = tbd[m]
Kept(m) ==
    /\ m \in cached
    /\ cacheDisks'[m] = cacheDisks[m] /\ cacheTbd'[m] = cacheTbd[m]
    /\ \A d \in Disks :
          dataDisks[m][d] # NoLun /\ d \notin tbd[m] =>
             dataDisks'[m][d] = dataDisks[m][d] /\ d \notin tbd'[m]
    /\ pend[m] = NoLuns =>
          \A d \in Disks :
             /\ dataDisks'[m][d] \in {dataDisks[m][d], NoLun}
             /\ d \in tbd[m] => dataDisks'[m][d] = NoLun \/ d \in tbd'[m]
ViewStep(m) == Dropped(m) \/ (m \in alive /\ (Filled(m) \/ Kept(m)))

\* Such a step keeps what the cache shows true.
LEMMA ViewKeepsSound ==
    ASSUME TypeOK, TypeOK', CacheSound, \A m \in Nodes : ViewStep(m)
    PROVE  CacheSound'
<1> SUFFICES ASSUME NEW m \in Nodes, m \in cached' \cap alive', NEW d \in Disks,
                    cacheDisks'[m][d] # NoLun, d \notin cacheTbd'[m]
             PROVE  dataDisks'[m][d] = cacheDisks'[m][d] /\ d \notin tbd'[m]
  BY DEF CacheSound, TypeOK, AzureTypeOK
<1> QED BY DEF ViewStep, Dropped, Filled, Kept, CacheSound, ReadDisks, ReadTbd

\* The reads and the VM updates of the cloud provider, seen from any VM.
LEMMA ReadsAreViewSteps ==
    ASSUME TypeOK, NEW n \in Nodes, NEW m \in Nodes, UNCHANGED <<alive, vmVars>>,
           (Readable(n) /\ FillCache(n)) \/ UNCHANGED cacheVars
    PROVE  ViewStep(m)
BY DEF TypeOK, AzureTypeOK, ViewStep, Dropped, Filled, Kept, FillCache, Readable, ReadDisks, ReadTbd,
       cacheVars, vmVars

LEMMA InvalidationsAreViewSteps ==
    ASSUME TypeOK, NEW n \in Nodes, NEW m \in Nodes, UNCHANGED alive, DeleteCacheForNode(n),
           m # n => dataDisks'[m] = dataDisks[m] /\ tbd'[m] = tbd[m]
    PROVE  ViewStep(m)
BY DEF TypeOK, AzureTypeOK, ViewStep, Dropped, Kept, DeleteCacheForNode

\* A VM update touches no other VM.
LEMMA UpdatesAreLocal ==
    ASSUME TypeOK, NEW n \in Nodes, NEW m \in Nodes \ {n}, NEW p \in LunMap, NEW gone \in SUBSET Disks,
           \/ VMAttachOk(n, p) \/ VMAttachFails(n, p) \/ VMDetachOk(n, gone)
           \/ VMDetachFails(n, gone) \/ VMUpdateOk(n) \/ UNCHANGED vmVars
    PROVE  dataDisks'[m] = dataDisks[m] /\ tbd'[m] = tbd[m] /\ pend'[m] \in {pend[m], NoLuns}
BY DEF TypeOK, AzureTypeOK, VMAttachOk, VMAttachFails, VMDetachOk, VMDetachFails, VMUpdateOk, LandPlan, vmVars

\* An accepted attach leaves the disks of the VM where they are.
LEMMA AttachedKeeps ==
    ASSUME TypeOK, NEW n \in Nodes, NEW d \in Disks, NEW p \in LunMap,
           Attachable(n, p), dataDisks[n][d] # NoLun
    PROVE  Attached(n, p)[d] = dataDisks[n][d]
BY DEF Attachable, Attached, On

\* The bare update of a VM, its cache entry kept: what it detaches was
\* ToBeDetached already.
LEMMA UpdateIsViewStep ==
    ASSUME TypeOK, NEW n \in Nodes, NEW m \in Nodes, UNCHANGED <<alive, cacheVars>>, VMUpdateOk(n)
    PROVE  ViewStep(m)
<1> USE DEF TypeOK, AzureTypeOK, ViewStep, Dropped, Kept, cacheVars
<1> DEFINE q == IF Attachable(n, pend[n]) THEN pend[n] ELSE NoLuns
<1>1. CASE m # n
  BY <1>1 DEF VMUpdateOk
<1>2. CASE m = n
  <2>1. ASSUME NEW d \in Disks, dataDisks[n][d] # NoLun
        PROVE  Attached(n, q)[d] = dataDisks[n][d]
    <3>1. CASE Attachable(n, pend[n])
      BY <2>1, <3>1, AttachedKeeps
    <3>2. CASE ~Attachable(n, pend[n])
      BY <3>2 DEF Attached, NoLuns
    <3> QED BY <3>1, <3>2
  <2>2. /\ dataDisks' = [dataDisks EXCEPT ![n] =
              [d \in Disks |-> IF d \in tbd[n] THEN NoLun ELSE Attached(n, q)[d]]]
        /\ tbd' = [tbd EXCEPT ![n] = {}]
    BY DEF VMUpdateOk
  <2>3. pend[n] = NoLuns => \A d \in Disks : Attached(n, q)[d] = dataDisks[n][d]
    BY DEF Attached, NoLuns
  <2> HIDE DEF q
  <2> QED BY <1>2, <2>1, <2>2, <2>3
<1> QED BY <1>1, <1>2

\* Every step of a handler is a view step.
LEMMA HandlerViews ==
    ASSUME TypeOK, ArgumentsKnown, NEW r \in Reqs, Handler(r) \/ LockEntry(r), NEW m \in Nodes
    PROVE  ViewStep(m)
<1>1. pc[r] # "idle" => node[r] \in Nodes /\ At(r) \in Nodes /\ disk[r] \in Disks
  BY DEF ArgumentsKnown
<1>2. plan[r] \in LunMap /\ batch[r] \in SUBSET Disks
  BY DEF TypeOK, RequestTypeOK
<1>3. CASE CheckDiskExists(r)
  <2>1. UNCHANGED <<alive, vmVars, cacheVars>>
    BY <1>3 DEF CheckDiskExists, azureVars, vmVars, cacheVars
  <2> QED BY <2>1, ReadsAreViewSteps
<1>4. CASE PublishGetDiskLun(r)
  <2>1. node[r] \in Nodes /\ UNCHANGED <<alive, vmVars>>
    BY <1>1, <1>4 DEF PublishGetDiskLun
  <2>2. (Readable(node[r]) /\ FillCache(node[r])) \/ UNCHANGED cacheVars
    BY <1>4 DEF PublishGetDiskLun
  <2> QED BY <2>1, <2>2, ReadsAreViewSteps
<1>5. CASE GetOccupiedLuns(r)
  <2>1. node[r] \in Nodes /\ UNCHANGED <<alive, vmVars>>
    BY <1>1, <1>5 DEF GetOccupiedLuns
  <2>2. (Readable(node[r]) /\ FillCache(node[r])) \/ UNCHANGED cacheVars
    BY <1>5 DEF GetOccupiedLuns
  <2> QED BY <2>1, <2>2, ReadsAreViewSteps
<1>6. CASE AttachDisk(r)
  <2>1. UNCHANGED <<alive, vmVars, cacheVars>>
    BY <1>6 DEF AttachDisk, azureVars, vmVars, cacheVars
  <2> QED BY <2>1, ReadsAreViewSteps
<1>7. CASE CleanAttachDiskRequests(r)
  <2>1. UNCHANGED <<alive, vmVars, cacheVars>>
    BY <1>7 DEF CleanAttachDiskRequests, azureVars, vmVars, cacheVars
  <2> QED BY <2>1, ReadsAreViewSteps
<1>8. CASE Allocate(r)
  <2>1. node[r] \in Nodes /\ UNCHANGED <<alive, vmVars>>
    BY <1>1, <1>8 DEF Allocate
  <2>2. (Readable(node[r]) /\ FillCache(node[r])) \/ UNCHANGED cacheVars
    BY <1>8 DEF Allocate
  <2> QED BY <2>1, <2>2, ReadsAreViewSteps
<1>9. CASE VMAttach(r)
  <2>1. node[r] \in Nodes /\ UNCHANGED alive
    BY <1>1, <1>9 DEF VMAttach
  <2>2. VMAttachOk(node[r], plan[r]) \/ VMAttachFails(node[r], plan[r])
    BY <1>9 DEF VMAttach
  <2>3. m # node[r] => dataDisks'[m] = dataDisks[m] /\ tbd'[m] = tbd[m]
    BY <1>2, <2>1, <2>2, UpdatesAreLocal
  <2>4. CASE DeleteCacheForNode(node[r])
    BY <2>1, <2>3, <2>4, InvalidationsAreViewSteps
  <2>5. CASE UNCHANGED <<dataDisks, tbd, cacheVars>>
    BY <2>1, <2>5 DEF TypeOK, AzureTypeOK, ViewStep, Dropped, Kept, cacheVars
  <2> QED BY <1>9, <2>4, <2>5 DEF VMAttach, VMAttachFails
<1>10. CASE VMRetry(r)
  <2>1. node[r] \in Nodes /\ UNCHANGED alive
    BY <1>1, <1>10 DEF VMRetry
  <2>2. VMUpdateOk(node[r]) \/ UNCHANGED vmVars
    BY <1>10 DEF VMRetry
  <2>3. m # node[r] => dataDisks'[m] = dataDisks[m] /\ tbd'[m] = tbd[m]
    BY <1>2, <2>1, <2>2, UpdatesAreLocal
  <2>4. CASE DeleteCacheForNode(node[r])
    BY <2>1, <2>3, <2>4, InvalidationsAreViewSteps
  <2>5. CASE VMUpdateOk(node[r]) /\ UNCHANGED cacheVars
    BY <2>1, <2>5, UpdateIsViewStep
  <2> QED BY <1>10, <2>4, <2>5 DEF VMRetry
<1>11. CASE AttachCheckLun(r)
  <2>1. node[r] \in Nodes /\ UNCHANGED <<alive, vmVars>>
    BY <1>1, <1>11 DEF AttachCheckLun
  <2>2. (Readable(node[r]) /\ FillCache(node[r])) \/ UNCHANGED cacheVars
    BY <1>11 DEF AttachCheckLun
  <2> QED BY <2>1, <2>2, ReadsAreViewSteps
<1>12. CASE UpdateVM(r)
  <2>1. node[r] \in Nodes /\ UNCHANGED alive
    BY <1>1, <1>12 DEF UpdateVM, UpdateLocked
  <2>2. VMUpdateOk(node[r]) \/ UNCHANGED vmVars
    BY <1>12 DEF UpdateVM
  <2>3. m # node[r] => dataDisks'[m] = dataDisks[m] /\ tbd'[m] = tbd[m]
    BY <1>2, <2>1, <2>2, UpdatesAreLocal
  <2>4. DeleteCacheForNode(node[r])
    BY <1>12 DEF UpdateVM
  <2> QED BY <2>1, <2>3, <2>4, InvalidationsAreViewSteps
<1>13. CASE StaleGetDiskLun(r)
  <2>1. node[r] \in Nodes /\ UNCHANGED <<alive, vmVars>>
    BY <1>1, <1>13 DEF StaleGetDiskLun
  <2>2. (Readable(node[r]) /\ FillCache(node[r])) \/ UNCHANGED cacheVars
    BY <1>13 DEF StaleGetDiskLun
  <2> QED BY <2>1, <2>2, ReadsAreViewSteps
<1>14. CASE DetachDisk(r)
  <2>1. UNCHANGED <<alive, vmVars, cacheVars>>
    BY <1>14 DEF DetachDisk, azureVars, vmVars, cacheVars
  <2> QED BY <2>1, ReadsAreViewSteps
<1>15. CASE CleanDetachDiskRequests(r)
  <2>1. UNCHANGED <<alive, vmVars, cacheVars>>
    BY <1>15 DEF CleanDetachDiskRequests, azureVars, vmVars, cacheVars
  <2> QED BY <2>1, ReadsAreViewSteps
<1>16. CASE VMDetach(r)
  <2>1. At(r) \in Nodes /\ UNCHANGED alive
    BY <1>1, <1>16 DEF VMDetach
  <2>2. VMDetachOk(At(r), batch[r]) \/ VMDetachFails(At(r), batch[r]) \/ UNCHANGED vmVars
    BY <1>16 DEF VMDetach
  <2>3. m # At(r) => dataDisks'[m] = dataDisks[m] /\ tbd'[m] = tbd[m]
    BY <1>2, <2>1, <2>2, UpdatesAreLocal
  <2>4. DeleteCacheForNode(At(r))
    BY <1>16 DEF VMDetach
  <2> QED BY <2>1, <2>3, <2>4, InvalidationsAreViewSteps
<1>17. CASE VMForceDetach(r)
  <2>1. At(r) \in Nodes /\ UNCHANGED alive
    BY <1>1, <1>17 DEF VMForceDetach
  <2>2. VMDetachOk(At(r), batch[r]) \/ VMDetachFails(At(r), batch[r])
    BY <1>17 DEF VMForceDetach
  <2>3. m # At(r) => dataDisks'[m] = dataDisks[m] /\ tbd'[m] = tbd[m]
    BY <1>2, <2>1, <2>2, UpdatesAreLocal
  <2>4. DeleteCacheForNode(At(r))
    BY <1>17 DEF VMForceDetach
  <2> QED BY <2>1, <2>3, <2>4, InvalidationsAreViewSteps
<1>18. CASE DetachCheckLun(r)
  <2>1. At(r) \in Nodes /\ UNCHANGED <<alive, vmVars>>
    BY <1>1, <1>18 DEF DetachCheckLun
  <2>2. (Readable(At(r)) /\ FillCache(At(r))) \/ UNCHANGED cacheVars
    BY <1>18 DEF DetachCheckLun
  <2> QED BY <2>1, <2>2, ReadsAreViewSteps
<1>19. CASE DeleteGuard(r)
  <2>1. UNCHANGED <<alive, vmVars, cacheVars>>
    BY <1>19 DEF DeleteGuard, azureVars, vmVars, cacheVars
  <2> QED BY <2>1, ReadsAreViewSteps
<1>20. CASE DeleteGetDisk(r)
  <2>1. UNCHANGED <<alive, vmVars, cacheVars>>
    BY <1>20 DEF DeleteGetDisk, azureVars, vmVars, cacheVars
  <2> QED BY <2>1, ReadsAreViewSteps
<1>21. CASE DeleteDisk(r)
  <2>1. UNCHANGED <<alive, vmVars, cacheVars>>
    BY <1>21 DEF DeleteDisk
  <2> QED BY <2>1, ReadsAreViewSteps
<1>22. CASE Reply(r)
  <2>1. UNCHANGED <<alive, vmVars, cacheVars>>
    BY <1>22 DEF Reply, azureVars, vmVars, cacheVars
  <2> QED BY <2>1, ReadsAreViewSteps
<1>23. CASE LockEntry(r)
  <2>1. UNCHANGED <<alive, vmVars, cacheVars>>
    BY <1>23 DEF LockEntry, azureVars, vmVars, cacheVars
  <2> QED BY <2>1, ReadsAreViewSteps
<1> QED BY <1>3, <1>4, <1>5, <1>6, <1>7, <1>8, <1>9, <1>10, <1>11, <1>12, <1>13, <1>14,
        <1>15, <1>16, <1>17, <1>18, <1>19, <1>20, <1>21, <1>22, <1>23 DEF Handler

\* So is every step of Azure.
LEMMA AzureViews ==
    ASSUME TypeOK, AzureStep, NEW m \in Nodes
    PROVE  ViewStep(m)
<1> USE DEF TypeOK, AzureTypeOK, ViewStep, Dropped, Kept
<1>1. PICK n \in Nodes : CacheExpires(n) \/ LateAttachLands(n) \/ LateDetachLands(n) \/ NodeDeleted(n)
  BY DEF AzureStep
<1>2. CASE CacheExpires(n)
  BY <1>2, InvalidationsAreViewSteps DEF CacheExpires
<1>3. CASE LateAttachLands(n)
  <2>1. pend[n] \in LunMap
    OBVIOUS
  <2>2. \A d \in Disks : dataDisks[n][d] # NoLun => Attached(n, pend[n])[d] = dataDisks[n][d]
    BY <1>3, <2>1, AttachedKeeps DEF LateAttachLands
  <2> QED BY <1>3, <2>2 DEF LateAttachLands, LandPlan
<1>4. CASE LateDetachLands(n)
  BY <1>4 DEF LateDetachLands, Without
<1>5. CASE NodeDeleted(n)
  BY <1>5 DEF NodeDeleted
<1> QED BY <1>1, <1>2, <1>3, <1>4, <1>5

\* Every step, of whoever, keeps what the cache shows true.
LEMMA CacheSoundInductive ==
    ASSUME TypeOK, ControlInv, TypeOK', CacheSound, [Next]_vars
    PROVE  CacheSound'
<1>1. ASSUME NEW r \in Reqs, Handler(r) \/ LockEntry(r)
      PROVE  CacheSound'
  BY <1>1, HandlerViews, ViewKeepsSound DEF ControlInv
<1>2. CASE AzureActs
  BY <1>2, AzureViews, ViewKeepsSound DEF AzureActs
<1>3. CASE Restart
  BY <1>3 DEF Restart, CacheSound
<1>4. CASE UNCHANGED azureVars
  BY <1>4 DEF azureVars, CacheSound
<1>5. ASSUME NEW r \in Reqs, NEW c \in Ops, NEW d \in Disks, NEW n \in Nodes, Call(r, c, d, n)
      PROVE  CacheSound'
  BY <1>4, <1>5 DEF Call
<1> QED BY <1>1, <1>2, <1>3, <1>4, <1>5 DEF Next, vars

\* The inductive invariant of the whole controller.
THEOREM Invariant == Spec => []IInv
<1>1. Init => RightPoint /\ CacheSound
  BY DEF Init, AzureInit, RightPoint, PointsOf, CacheSound, PCs, DeletePoints
<1>2. TypeOK /\ ControlInv /\ RightPoint /\ CacheSound /\ [Next]_vars => RightPoint' /\ CacheSound'
  BY RightPointInductive, CacheSoundInductive, ControlInductive
<1> QED BY <1>1, <1>2, ControlInitially, ControlInductive, PTL DEF Spec, IInv

-----------------------------------------------------------------------------
(* Published means attached.                                                 *)

\* A LUN that GetDiskLun finds is the disk's LUN on the VM.
LEMMA FoundIsAttached ==
    ASSUME TypeOK, CacheSound, NEW n \in alive, NEW d \in Disks, GetDiskLun(n, d) # NoLun
    PROVE  dataDisks[n][d] = GetDiskLun(n, d) /\ d \notin tbd[n]
BY DEF TypeOK, AzureTypeOK, CacheSound, GetDiskLun, ReadDisks, ReadTbd

\* The handler steps that answer a publish with a LUN.
LEMMA PublishAnswersTruly ==
    ASSUME IInv, NEW r \in Reqs, Handler(r) \/ LockEntry(r), PublishAnswers(r), pc[r] # "failedUpdate"
    PROVE  AttachedAt(r)
<1>1. TypeOK /\ ArgumentsKnown /\ CacheSound /\ pc \in [Reqs -> PCs] /\ lun \in [Reqs -> Luns \cup {NoLun}]
  BY DEF IInv, ControlInv, TypeOK, RequestTypeOK
<1>2. op[r] = "publish" /\ pc[r] # "ok" /\ pc'[r] = "ok" /\ node[r] \in alive
  BY DEF PublishAnswers
<1>3. pc[r] \notin DeletePoints
  BY <1>2 DEF IInv, RightPoint, PointsOf
<1>4. pc[r] # "idle" => disk[r] \in Disks
  BY <1>1 DEF ArgumentsKnown
<1> DEFINE l == GetDiskLun(node[r], disk[r])
<1>5. SUFFICES pc[r] # "idle" /\ l # NoLun /\ lun'[r] = l
  BY <1>1, <1>2, <1>4, FoundIsAttached DEF AttachedAt
<1> HIDE DEF l
<1>6. CASE CheckDiskExists(r)
  BY <1>1, <1>2, <1>6 DEF Goto, CheckDiskExists
<1>7. CASE PublishGetDiskLun(r)
  BY <1>1, <1>2, <1>7 DEF l, Goto, PublishGetDiskLun
<1>8. CASE GetOccupiedLuns(r)
  BY <1>1, <1>2, <1>8 DEF Goto, GetOccupiedLuns
<1>9. CASE AttachDisk(r)
  BY <1>1, <1>2, <1>9 DEF Goto, AttachDisk
<1>10. CASE CleanAttachDiskRequests(r)
  BY <1>1, <1>2, <1>10 DEF Goto, CleanAttachDiskRequests
<1>11. CASE Allocate(r)
  BY <1>1, <1>2, <1>11 DEF l, Goto, Allocate, AttachReturns
<1>12. CASE VMAttach(r)
  BY <1>1, <1>2, <1>12 DEF Goto, VMAttach, AttachReturns
<1>13. CASE VMRetry(r)
  BY <1>1, <1>2, <1>13 DEF Goto, VMRetry, AttachReturns
<1>14. CASE AttachCheckLun(r)
  BY <1>1, <1>2, <1>14 DEF l, Goto, AttachCheckLun, AttachReturns
<1>15. CASE UpdateVM(r)
  BY <1>1, <1>2, <1>15 DEF Goto, UpdateVM, UpdateLocked
<1>16. CASE StaleGetDiskLun(r)
  BY <1>1, <1>2, <1>16 DEF l, Goto, StaleGetDiskLun
<1>17. CASE DetachDisk(r)
  BY <1>1, <1>2, <1>17 DEF Goto, DetachDisk, AfterDetach, DetachError
<1>18. CASE CleanDetachDiskRequests(r)
  BY <1>1, <1>2, <1>18 DEF Goto, CleanDetachDiskRequests
<1>19. CASE VMDetach(r)
  BY <1>1, <1>2, <1>19 DEF Goto, VMDetach, DetachReturns, AfterDetach, DetachError
<1>20. CASE VMForceDetach(r)
  BY <1>1, <1>2, <1>20 DEF Goto, VMForceDetach, DetachReturns, DetachError
<1>21. CASE DetachCheckLun(r)
  BY <1>1, <1>2, <1>21 DEF Goto, DetachCheckLun, DetachReturns, AfterDetach, DetachError
<1>22. CASE DeleteGuard(r)
  BY <1>3, <1>22 DEF DeleteGuard, DeletePoints
<1>23. CASE DeleteGetDisk(r)
  BY <1>3, <1>23 DEF DeleteGetDisk, DeletePoints
<1>24. CASE DeleteDisk(r)
  BY <1>3, <1>24 DEF DeleteDisk, DeletePoints
<1>25. CASE Reply(r)
  BY <1>1, <1>2, <1>25 DEF Goto, Reply
<1>26. CASE LockEntry(r)
  BY <1>1, <1>2, <1>26 DEF Goto, LockEntry, Granted
<1> QED BY <1>6, <1>7, <1>8, <1>9, <1>10, <1>11, <1>12, <1>13, <1>14, <1>15, <1>16, <1>17,
        <1>18, <1>19, <1>20, <1>21, <1>22, <1>23, <1>24, <1>25, <1>26 DEF Handler

\* A step of one handler leaves the others where they are.
LEMMA OthersStay ==
    ASSUME TypeOK, NEW r \in Reqs, NEW q \in Reqs \ {r}, Handler(r) \/ LockEntry(r)
    PROVE  pc'[q] = pc[q]
BY DEF TypeOK, RequestTypeOK, Handler, LockEntry, Goto, AttachReturns, DetachReturns, DeleteReturns,
       CheckDiskExists, PublishGetDiskLun, GetOccupiedLuns, AttachDisk, CleanAttachDiskRequests,
       Allocate, VMAttach, VMRetry, AttachCheckLun, UpdateVM, StaleGetDiskLun, DetachDisk,
       CleanDetachDiskRequests, VMDetach, VMForceDetach, DetachCheckLun, DeleteGuard,
       DeleteGetDisk, DeleteDisk, Reply

\* Only a handler of its own makes a call reach "ok".
LEMMA OnlyHandlersAnswer ==
    ASSUME TypeOK, [Next]_vars, NEW r \in Reqs, pc[r] # "ok", pc'[r] = "ok"
    PROVE  Handler(r) \/ LockEntry(r)
<1>1. ASSUME NEW q \in Reqs, Handler(q) \/ LockEntry(q), q # r
      PROVE  FALSE
  BY <1>1, OthersStay
<1>2. ASSUME NEW q \in Reqs, NEW c \in Ops, NEW d \in Disks, NEW n \in Nodes, Call(q, c, d, n)
      PROVE  FALSE
  BY <1>2 DEF TypeOK, RequestTypeOK, Call, Goto
<1>3. ~Restart /\ ~AzureActs /\ ~UNCHANGED vars
  BY DEF Restart, AzureActs, vars
<1> QED BY <1>1, <1>2, <1>3 DEF Next

\* ControllerPublishVolume answers with a LUN only if the disk is attached to the
\* VM at that LUN, whatever is late, stale, restarted or batched together.
THEOREM PublishIsTrue == Spec => PublishedIsAttached
<1>1. IInv /\ [Next]_vars =>
         [\A r \in Reqs : PublishAnswers(r) /\ pc[r] # "failedUpdate" => AttachedAt(r)]_vars
  <2> SUFFICES ASSUME IInv, [Next]_vars, NEW r \in Reqs, PublishAnswers(r), pc[r] # "failedUpdate"
               PROVE  AttachedAt(r)
    OBVIOUS
  <2> QED BY OnlyHandlersAnswer, PublishAnswersTruly DEF IInv, PublishAnswers
<1> QED BY <1>1, Invariant, PTL DEF Spec, PublishedIsAttached

-----------------------------------------------------------------------------
(* When no attach lands late.                                                *)

\* A view step keeps the cache complete.
LEMMA ViewKeepsComplete ==
    ASSUME TypeOK, TypeOK', CacheComplete, \A m \in Nodes : ViewStep(m), \A m \in Nodes : pend'[m] = NoLuns
    PROVE  CacheComplete'
<1> SUFFICES ASSUME NEW m \in Nodes, m \in cached' \cap alive', NEW d \in Disks
             PROVE  /\ dataDisks'[m][d] # NoLun => cacheDisks'[m][d] = dataDisks'[m][d]
                    /\ d \in cacheTbd'[m] => dataDisks'[m][d] = NoLun \/ d \in tbd'[m]
  BY DEF CacheComplete
<1>1. m \in alive /\ (Filled(m) \/ Kept(m))
  BY DEF ViewStep, Dropped
<1>2. CASE Filled(m)
  BY <1>1, <1>2 DEF Filled, CacheComplete, ReadDisks, ReadTbd
<1>3. CASE Kept(m)
  <2>1. pend[m] = NoLuns
    BY DEF CacheComplete
  <2> QED BY <1>1, <1>3, <2>1 DEF Kept, CacheComplete
<1> QED BY <1>1, <1>2, <1>3

\* Nothing is ever left pending.
LEMMA NothingPending ==
    ASSUME ~LateAttach, TypeOK, ArgumentsKnown, CacheComplete, [Next]_vars
    PROVE  \A m \in Nodes : pend'[m] = NoLuns
<1> SUFFICES ASSUME NEW m \in Nodes PROVE pend'[m] = NoLuns
  OBVIOUS
<1>1. pend \in [Nodes -> LunMap] /\ \A k \in Nodes : pend[k] = NoLuns
  BY DEF CacheComplete, TypeOK, AzureTypeOK
<1>2. \A n : /\ \A p : VMAttachOk(n, p) \/ VMAttachFails(n, p) => pend'[m] = NoLuns
             /\ \A g : VMDetachOk(n, g) \/ VMDetachFails(n, g) => pend'[m] = NoLuns
             /\ VMUpdateOk(n) => pend'[m] = NoLuns
  BY <1>1 DEF VMAttachOk, VMAttachFails, VMDetachOk, VMDetachFails, VMUpdateOk, LandPlan
<1>3. CASE UNCHANGED pend
  BY <1>1, <1>3
<1>4. ASSUME NEW r \in Reqs, Handler(r) \/ LockEntry(r)
      PROVE  pend'[m] = NoLuns
  BY <1>2, <1>3, <1>4 DEF Handler, LockEntry, azureVars, vmVars,
     CheckDiskExists, PublishGetDiskLun, GetOccupiedLuns, AttachDisk, CleanAttachDiskRequests,
     Allocate, VMAttach, VMRetry, AttachCheckLun, UpdateVM, StaleGetDiskLun, DetachDisk,
     CleanDetachDiskRequests, VMDetach, VMForceDetach, DetachCheckLun, DeleteGuard,
     DeleteGetDisk, DeleteDisk, Reply
<1>5. CASE AzureActs
  BY <1>1, <1>5 DEF AzureActs, AzureStep, CacheExpires, LateAttachLands, LateDetachLands, NodeDeleted
<1>6. ASSUME NEW r \in Reqs, NEW c \in Ops, NEW d \in Disks, NEW n \in Nodes, Call(r, c, d, n)
      PROVE  pend'[m] = NoLuns
  BY <1>3, <1>6 DEF Call, azureVars
<1> QED BY <1>3, <1>4, <1>5, <1>6 DEF Next, Restart, vars, azureVars, vmVars

LEMMA CacheCompleteInductive ==
    ASSUME ~LateAttach, TypeOK, ControlInv, TypeOK', CacheComplete, [Next]_vars
    PROVE  CacheComplete'
<1>1. \A m \in Nodes : pend'[m] = NoLuns
  BY NothingPending DEF ControlInv
<1>2. ASSUME NEW r \in Reqs, Handler(r) \/ LockEntry(r)
      PROVE  CacheComplete'
  BY <1>1, <1>2, HandlerViews, ViewKeepsComplete DEF ControlInv
<1>3. CASE AzureActs
  BY <1>1, <1>3, AzureViews, ViewKeepsComplete DEF AzureActs
<1>4. CASE Restart
  BY <1>1, <1>4 DEF Restart, CacheComplete
<1>5. CASE UNCHANGED azureVars
  BY <1>5 DEF azureVars, CacheComplete
<1>6. ASSUME NEW r \in Reqs, NEW c \in Ops, NEW d \in Disks, NEW n \in Nodes, Call(r, c, d, n)
      PROVE  CacheComplete'
  BY <1>5, <1>6 DEF Call
<1> QED BY <1>2, <1>3, <1>4, <1>5, <1>6 DEF Next, vars

\* SetDiskLun hands out distinct LUNs that are free on the VM.
LEMMA AllocatedLunsAreFree ==
    ASSUME TypeOK, CacheComplete, NEW n \in alive, NEW disks \in SUBSET Disks, NEW occ,
           NEW p \in SetDiskLun(n, disks, occ), NEW d \in disks
    PROVE  /\ p[d] # NoLun
           /\ LunFree(n, d, p[d])
           /\ \A e \in disks \ {d} : p[e] # p[d]
<1>1. p[d] \in FreeLuns(n, occ) /\ p[d] # NoLun
  BY DEF SetDiskLun, On
<1>2. \A e \in Disks : ReadDisks(n)[e] # p[d]
  BY <1>1 DEF FreeLuns
<1>3. \A e \in Disks : dataDisks[n][e] # NoLun => ReadDisks(n)[e] = dataDisks[n][e]
  BY DEF CacheComplete, ReadDisks, TypeOK, AzureTypeOK
<1> QED BY <1>1, <1>2, <1>3 DEF LunFree, SetDiskLun

\* A step of one handler leaves the batches, plans and arguments of the others
\* alone, and the VM too, if the other is about to update it.
LEMMA OthersKeepVM ==
    ASSUME TypeOK, ControlInv, NEW r \in Reqs, NEW q \in Reqs \ {r}, Handler(r) \/ LockEntry(r),
           pc[q] = "vmAttach"
    PROVE  /\ UNCHANGED alive
           /\ batch'[q] = batch[q] /\ plan'[q] = plan[q] /\ node'[q] = node[q]
           /\ dataDisks'[node[q]] = dataDisks[node[q]]
<1>1. /\ UNCHANGED alive
      /\ batch'[q] = batch[q] /\ plan'[q] = plan[q] /\ node'[q] = node[q]
  BY DEF TypeOK, RequestTypeOK, Handler, LockEntry, AttachReturns, DetachReturns,
       azureVars, reqVars, callVars,
       CheckDiskExists, PublishGetDiskLun, GetOccupiedLuns, AttachDisk, CleanAttachDiskRequests,
       Allocate, VMAttach, VMRetry, AttachCheckLun, UpdateVM, StaleGetDiskLun, DetachDisk,
       CleanDetachDiskRequests, VMDetach, VMForceDetach, DetachCheckLun, DeleteGuard,
       DeleteGetDisk, DeleteDisk, Reply
<1>2. node[q] \in Nodes /\ lock[node[q]] = q
  BY DEF ControlInv, ArgumentsKnown, LockHeld, At, Locked, AttachLocked, DetachPoints, DetachLocked
<1>3. pc[r] \in Locked => At(r) # node[q] /\ At(r) \in Nodes
  BY <1>2 DEF ControlInv, LockHeld, ArgumentsKnown, Locked, AttachLocked, DetachLocked, UpdateLocked
<1>4. plan[r] \in LunMap /\ batch[r] \in SUBSET Disks
  BY DEF TypeOK, RequestTypeOK
<1>5. pc[r] \in {"vmAttach", "vmRetry"} \cup UpdateLocked => At(r) = node[r]
  BY DEF At, DetachPoints, DetachLocked, UpdateLocked
<1>6. ASSUME VMAttach(r) \/ VMRetry(r) \/ UpdateVM(r) \/ VMDetach(r) \/ VMForceDetach(r)
      PROVE  dataDisks'[node[q]] = dataDisks[node[q]]
  <2>1. pc[r] \in Locked
    BY <1>6 DEF VMAttach, VMRetry, UpdateVM, VMDetach, VMForceDetach, Locked, AttachLocked, DetachLocked
  <2>2. \/ VMAttachOk(At(r), plan[r]) \/ VMAttachFails(At(r), plan[r]) \/ VMDetachOk(At(r), batch[r])
        \/ VMDetachFails(At(r), batch[r]) \/ VMUpdateOk(At(r)) \/ UNCHANGED vmVars
    BY <1>5, <1>6 DEF VMAttach, VMRetry, UpdateVM, VMDetach, VMForceDetach
  <2> QED BY <1>2, <1>3, <1>4, <2>1, <2>2, UpdatesAreLocal
<1>7. ASSUME ~(VMAttach(r) \/ VMRetry(r) \/ UpdateVM(r) \/ VMDetach(r) \/ VMForceDetach(r))
      PROVE  dataDisks'[node[q]] = dataDisks[node[q]]
  BY <1>7 DEF Handler, LockEntry, azureVars, vmVars,
       CheckDiskExists, PublishGetDiskLun, GetOccupiedLuns, AttachDisk, CleanAttachDiskRequests,
       Allocate, AttachCheckLun, StaleGetDiskLun, DetachDisk,
       CleanDetachDiskRequests, DetachCheckLun, DeleteGuard, DeleteGetDisk, DeleteDisk, Reply
<1> QED BY <1>1, <1>6, <1>7

\* The LUNs of a batch stay free until Azure is asked.
LEMMA NoLunCollisionInductive ==
    ASSUME ~LateAttach, TypeOK, TypeOK', ControlInv, CacheComplete, PlanMade, NoLunCollision, [Next]_vars
    PROVE  PlanMade' /\ NoLunCollision'
<1> SUFFICES ASSUME NEW q \in Reqs, pc'[q] = "vmAttach", NEW d \in batch'[q]
             PROVE  /\ plan'[q][d] # NoLun
                    /\ node'[q] \in alive' =>
                          /\ LunFree(node[q], d, plan[q][d])'
                          /\ \A e \in batch'[q] \ {d} : plan'[q][e] # plan'[q][d]
  BY DEF PlanMade, NoLunCollision
<1> DEFINE Was == /\ pc[q] = "vmAttach" /\ alive' \subseteq alive
                  /\ batch'[q] = batch[q] /\ plan'[q] = plan[q] /\ node'[q] = node[q]
                  /\ node[q] \in alive' => \A e \in Disks :
                        dataDisks'[node[q]][e] \in {dataDisks[node[q]][e], NoLun}
<1>1. SUFFICES ASSUME ~Was
               PROVE  /\ plan'[q][d] # NoLun
                      /\ node'[q] \in alive' =>
                            /\ LunFree(node[q], d, plan[q][d])'
                            /\ \A e \in batch'[q] \ {d} : plan'[q][e] # plan'[q][d]
  BY DEF PlanMade, NoLunCollision, LunFree
<1>2. CASE Handler(q) \/ LockEntry(q)
  <2>1. Allocate(q) /\ ~\E to \in {"ok", "err"} : AttachReturns(q, to)
    <3>1. pc \in [Reqs -> PCs]
      BY DEF TypeOK, RequestTypeOK
    <3>2. ~(\/ CheckDiskExists(q) \/ PublishGetDiskLun(q) \/ GetOccupiedLuns(q) \/ AttachDisk(q)
            \/ CleanAttachDiskRequests(q) \/ UpdateVM(q) \/ StaleGetDiskLun(q))
      BY <3>1 DEF Goto, CheckDiskExists, PublishGetDiskLun, GetOccupiedLuns, AttachDisk,
         CleanAttachDiskRequests, UpdateVM, StaleGetDiskLun
    <3>3. ~(VMAttach(q) \/ VMRetry(q) \/ AttachCheckLun(q))
      BY <3>1 DEF Goto, AttachReturns, VMAttach, VMRetry, AttachCheckLun
    <3>4. ~(\/ DetachDisk(q) \/ CleanDetachDiskRequests(q) \/ VMDetach(q) \/ VMForceDetach(q)
            \/ DetachCheckLun(q))
      BY <3>1 DEF Goto, DetachReturns, AfterDetach, DetachError, DetachDisk, CleanDetachDiskRequests,
         VMDetach, VMForceDetach, DetachCheckLun
    <3>5. ~(DeleteGuard(q) \/ DeleteGetDisk(q) \/ DeleteDisk(q) \/ Reply(q) \/ LockEntry(q))
      BY <3>1 DEF Goto, DeleteReturns, Granted, DeleteGuard, DeleteGetDisk, DeleteDisk, Reply, LockEntry
    <3>6. ~\E to \in {"ok", "err"} : AttachReturns(q, to)
      BY <3>1 DEF Goto, AttachReturns
    <3> QED BY <1>2, <3>2, <3>3, <3>4, <3>5, <3>6 DEF Handler
  <2>2. PICK p \in SetDiskLun(node[q], batch[q], occupied[q]) : plan' = [plan EXCEPT ![q] = p]
    BY <2>1 DEF Allocate
  <2>3. UNCHANGED <<alive, dataDisks, batch, node>> /\ plan'[q] = p /\ batch[q] \in SUBSET Disks
    BY <2>1, <2>2 DEF Allocate, vmVars, reqVars, TypeOK, RequestTypeOK
  <2>4. p[d] # NoLun
    BY <2>2, <2>3 DEF SetDiskLun, On
  <2>5. CASE node[q] \in alive
    <3>1. LunFree(node[q], d, p[d]) /\ \A e \in batch[q] \ {d} : p[e] # p[d]
      BY <2>2, <2>3, <2>5, AllocatedLunsAreFree
    <3>2. LunFree(node[q], d, plan[q][d])'
      BY <2>3, <3>1 DEF LunFree
    <3> QED BY <2>3, <2>4, <3>1, <3>2
  <2> QED BY <2>3, <2>4, <2>5
<1>3. ASSUME NEW r \in Reqs, r # q, Handler(r) \/ LockEntry(r)
      PROVE  Was
  <2>1. pc[q] = "vmAttach"
    BY <1>3, OthersStay
  <2> QED BY <1>3, <2>1, OthersKeepVM
<1>4. CASE AzureActs
  <2>1. pc[q] = "vmAttach" /\ batch'[q] = batch[q] /\ plan'[q] = plan[q] /\ node'[q] = node[q]
    BY <1>4 DEF AzureActs, callVars, reqVars
  <2>2. node[q] \in Nodes /\ pend[node[q]] = NoLuns
    BY <2>1 DEF ControlInv, ArgumentsKnown, CacheComplete
  <2>3. PICK n \in Nodes : CacheExpires(n) \/ LateAttachLands(n) \/ LateDetachLands(n) \/ NodeDeleted(n)
    BY <1>4 DEF AzureActs, AzureStep
  <2>4. alive' \subseteq alive /\ (node[q] \in alive' => \A e \in Disks :
                        dataDisks'[node[q]][e] \in {dataDisks[node[q]][e], NoLun})
    BY <2>2, <2>3 DEF TypeOK, AzureTypeOK, CacheExpires, LateAttachLands, LateDetachLands, NodeDeleted, LandPlan, Without
  <2> QED BY <1>1, <2>1, <2>4
<1>5. ASSUME NEW r \in Reqs, NEW c \in Ops, NEW e \in Disks, NEW n \in Nodes, Call(r, c, e, n)
      PROVE  Was
  BY <1>5 DEF Call, Goto, azureVars, callVars, TypeOK, RequestTypeOK
<1>6. ~Restart
  BY DEF Restart
<1>7. ~UNCHANGED vars
  BY <1>1 DEF vars, azureVars, reqVars, callVars
<1> QED BY <1>1, <1>2, <1>3, <1>4, <1>5, <1>6, <1>7 DEF Next

\* The inductive invariant when no attach lands late.
THEOREM InvariantPrompt == ASSUME ~LateAttach PROVE Spec => []IInvPrompt
<1>1. Init => CacheComplete /\ PlanMade /\ NoLunCollision
  BY DEF Init, AzureInit, CacheComplete, PlanMade, NoLunCollision
<1>2. IInvPrompt /\ IInv' /\ [Next]_vars => CacheComplete' /\ PlanMade' /\ NoLunCollision'
  BY CacheCompleteInductive, NoLunCollisionInductive DEF IInv, IInvPrompt
<1> QED BY <1>1, <1>2, Invariant, PTL DEF Spec, IInvPrompt

\* No batch asks for a LUN that another disk of the VM, or of the batch, has.
THEOREM LunsDoNotCollide == ASSUME ~LateAttach PROVE Spec => []NoLunCollision
<1>1. IInvPrompt => NoLunCollision
  BY DEF IInvPrompt
<1> QED BY <1>1, InvariantPrompt, PTL

\* The handler steps that answer an unpublish.
LEMMA UnpublishAnswersTruly ==
    ASSUME IInv, CacheComplete, NEW r \in Reqs, Handler(r) \/ LockEntry(r),
           pc[r] # "ok", pc'[r] = "ok", op[r] = "unpublish", node[r] \in alive
    PROVE  dataDisks[node[r]][disk[r]] = NoLun \/ disk[r] \in tbd[node[r]]
<1>1. TypeOK /\ ArgumentsKnown /\ pc \in [Reqs -> PCs]
  BY DEF IInv, ControlInv, TypeOK, RequestTypeOK
<1>2. pc[r] \in DetachPoints \cup Answered /\ At(r) = node[r]
  BY DEF IInv, RightPoint, PointsOf, At
<1>3. DetachCheckLun(r) /\ GetDiskLun(node[r], disk[r]) = NoLun
  <2> USE <1>1, <1>2 DEF DetachPoints, Answered, DetachLocked
  <2>1. ~(\/ CheckDiskExists(r) \/ PublishGetDiskLun(r) \/ GetOccupiedLuns(r) \/ AttachDisk(r)
          \/ CleanAttachDiskRequests(r) \/ Allocate(r) \/ VMAttach(r) \/ VMRetry(r)
          \/ AttachCheckLun(r) \/ UpdateVM(r) \/ StaleGetDiskLun(r)
          \/ DeleteGuard(r) \/ DeleteGetDisk(r) \/ DeleteDisk(r))
    BY DEF CheckDiskExists, PublishGetDiskLun, GetOccupiedLuns, AttachDisk, CleanAttachDiskRequests,
       Allocate, VMAttach, VMRetry, AttachCheckLun, UpdateVM, UpdateLocked, StaleGetDiskLun,
       DeleteGuard, DeleteGetDisk, DeleteDisk
  <2>2. ~(DetachDisk(r) \/ CleanDetachDiskRequests(r) \/ Reply(r) \/ LockEntry(r))
    BY DEF DetachDisk, CleanDetachDiskRequests, Reply, LockEntry, Granted, AfterDetach, DetachError, Goto
  <2>3. ~(VMDetach(r) \/ VMForceDetach(r))
    BY DEF VMDetach, VMForceDetach, DetachReturns, DetachError, Goto
  <2>4. DetachCheckLun(r)
    BY <2>1, <2>2, <2>3 DEF Handler
  <2> QED BY <2>4 DEF DetachCheckLun, DetachReturns, DetachError, Goto
<1>4. disk[r] \in Disks /\ node[r] \in Nodes
  BY <1>1, <1>3 DEF ArgumentsKnown, DetachCheckLun
<1> QED BY <1>1, <1>3, <1>4 DEF GetDiskLun, ReadDisks, ReadTbd, CacheComplete

\* ControllerUnpublishVolume answers OK only if the disk has left the VM or is on
\* its way out.
THEOREM UnpublishIsTrue == ASSUME ~LateAttach PROVE Spec => UnpublishedIsDetached
<1>1. IInvPrompt /\ [Next]_vars =>
         [\A r \in Reqs :
             pc[r] # "ok" /\ pc'[r] = "ok" /\ op[r] = "unpublish" /\ node[r] \in alive =>
                dataDisks[node[r]][disk[r]] = NoLun \/ disk[r] \in tbd[node[r]]]_vars
  <2> SUFFICES ASSUME IInvPrompt, [Next]_vars, NEW r \in Reqs,
                      pc[r] # "ok", pc'[r] = "ok", op[r] = "unpublish", node[r] \in alive
               PROVE  dataDisks[node[r]][disk[r]] = NoLun \/ disk[r] \in tbd[node[r]]
    OBVIOUS
  <2> QED BY OnlyHandlersAnswer, UnpublishAnswersTruly DEF IInv, IInvPrompt
<1> QED BY <1>1, InvariantPrompt, PTL DEF Spec, UnpublishedIsDetached
=============================================================================
