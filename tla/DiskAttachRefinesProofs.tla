----------------------- MODULE DiskAttachRefinesProofs -----------------------
(* The invariants of DiskAttach hold for driver v2 as well, and with either  *)
(* driver DiskAttach implements VolumeAttach if no attach lands after it was *)
(* reported failed.                                                          *)
EXTENDS DiskAttachRefines, DiskAttachProofs

-----------------------------------------------------------------------------
(* Driver v2: going on to attach without having read the VM.                 *)

\* Only the handler's position changes.
LEMMA UnreadFacts ==
    ASSUME TypeOK, NEW r \in Reqs, PublishUnreadVM(r)
    PROVE  /\ pc[r] = "getLun" /\ pc' = [pc EXCEPT ![r] = "attach"] /\ pc'[r] = "attach"
           /\ \A q \in Reqs : q # r => pc'[q] = pc[q]
           /\ UNCHANGED <<exists, alive, dataDisks, tbd, pend, cached, cacheDisks, cacheTbd,
                          op, disk, node, seen, occupied, batch, plan, lun, attachDiskMap,
                          detachDiskMap, lock, diskStateMap, volumeLocks, va>>
BY DEF PublishUnreadVM, Goto, TypeOK, RequestTypeOK, azureVars, reqVars, callVars, queueVars

\* It keeps the invariant of DiskAttach.
LEMMA UnreadKeeps ==
    ASSUME IInv, NEW r \in Reqs, PublishUnreadVM(r)
    PROVE  IInv'
<1>1. TypeOK /\ ControlInv /\ RightPoint /\ CacheSound
  BY DEF IInv
<1>2. /\ pc[r] = "getLun" /\ pc' = [pc EXCEPT ![r] = "attach"] /\ pc'[r] = "attach"
      /\ \A q \in Reqs : q # r => pc'[q] = pc[q]
      /\ UNCHANGED <<exists, alive, dataDisks, tbd, pend, cached, cacheDisks, cacheTbd,
                     op, disk, node, seen, occupied, batch, plan, lun, attachDiskMap,
                     detachDiskMap, lock, diskStateMap, volumeLocks, va>>
  BY <1>1, UnreadFacts
<1>3. TypeOK'
  BY <1>1, <1>2 DEF TypeOK, AzureTypeOK, RequestTypeOK, PCs
<1>4. CacheSound'
  BY <1>1, <1>2 DEF CacheSound
<1>5. RightPoint'
  BY <1>1, <1>2 DEF TypeOK, RequestTypeOK, RightPoint, PointsOf, PCs, Locked, AttachLocked,
       UpdateLocked, DeletePoints, DetachPoints, DetachLocked, Answered
<1>6. \A q \in Reqs : At(q)' = At(q)
  BY <1>2 DEF At, DetachPoints, DetachLocked
<1>7. ArgumentsKnown' /\ LockHeld'
  BY <1>1, <1>2, <1>6 DEF ControlInv, ArgumentsKnown, LockHeld, Locked, AttachLocked,
       DetachLocked, UpdateLocked
<1>8. QueueServed'
  BY <1>1, <1>2, <1>6 DEF ControlInv, QueueServed
<1>9. BatchOnBehalf'
  BY <1>1, <1>2, <1>6 DEF ControlInv, BatchOnBehalf
<1>10. DiskStateNotLeaked'
  BY <1>1, <1>2 DEF ControlInv, DiskStateNotLeaked
<1> QED BY <1>3, <1>4, <1>5, <1>7, <1>8, <1>9, <1>10 DEF IInv, ControlInv

\* And what holds when no attach lands late.
LEMMA UnreadKeepsPrompt ==
    ASSUME IInvPrompt, NEW r \in Reqs, PublishUnreadVM(r)
    PROVE  CacheComplete' /\ PlanMade' /\ NoLunCollision'
<1>1. /\ pc[r] = "getLun" /\ pc'[r] = "attach"
      /\ \A q \in Reqs : q # r => pc'[q] = pc[q]
      /\ UNCHANGED <<alive, dataDisks, tbd, pend, cached, cacheDisks, cacheTbd,
                     node, batch, plan>>
  BY UnreadFacts DEF IInvPrompt, IInv
<1> QED BY <1>1 DEF IInvPrompt, CacheComplete, PlanMade, NoLunCollision, LunFree

\* The inductive invariant of the controller, with either driver.
LEMMA InvEitherInductive == IInv /\ [NextEither]_vars => IInv'
<1> SUFFICES ASSUME IInv, [NextEither]_vars PROVE IInv'
  OBVIOUS
<1>1. CASE [Next]_vars
  BY <1>1, RightPointInductive, CacheSoundInductive, ControlInductive DEF IInv
<1>2. CASE \E r \in Reqs : PublishUnreadVM(r)
  BY <1>2, UnreadKeeps
<1> QED BY <1>1, <1>2 DEF NextEither

\* The invariant of the controller holds for driver v2 as for the first driver.
THEOREM InvariantEither == SpecEither => []IInv
<1>1. Init => IInv
  <2>1. Init => RightPoint /\ CacheSound
    BY DEF Init, AzureInit, RightPoint, PointsOf, CacheSound, PCs, DeletePoints
  <2> QED BY <2>1, ControlInitially DEF IInv
<1> QED BY <1>1, InvEitherInductive, PTL DEF SpecEither

\* Locks, queues, batches and diskStateMap are sound with either driver: VM updates
\* of a node never overlap, every queue entry is served, every batch has its
\* callers, and no entry of diskStateMap is left behind.
THEOREM ControlEither ==
    SpecEither => [](OneUpdatePerVM /\ QueueServed /\ BatchOnBehalf /\ DiskStateNotLeaked)
<1>1. IInv => OneUpdatePerVM /\ QueueServed /\ BatchOnBehalf /\ DiskStateNotLeaked
  BY DEF IInv, ControlInv, LockHeld, OneUpdatePerVM
<1> QED BY <1>1, InvariantEither, PTL

\* Going on to attach answers nothing.
LEMMA UnreadAnswersNothing ==
    ASSUME TypeOK, NEW r \in Reqs, PublishUnreadVM(r), NEW q \in Reqs, pc[q] # "ok"
    PROVE  pc'[q] # "ok"
BY UnreadFacts

\* With either driver ControllerPublishVolume answers with a LUN only if the disk is
\* attached to the VM at that LUN.
THEOREM PublishIsTrueEither == SpecEither => PublishedIsAttached
<1>1. IInv /\ [NextEither]_vars =>
         [\A r \in Reqs : PublishAnswers(r) /\ pc[r] # "failedUpdate" => AttachedAt(r)]_vars
  <2> SUFFICES ASSUME IInv, [NextEither]_vars, NEW r \in Reqs, PublishAnswers(r),
                      pc[r] # "failedUpdate"
               PROVE  AttachedAt(r)
    OBVIOUS
  <2>1. [Next]_vars
    BY UnreadAnswersNothing DEF NextEither, PublishAnswers, IInv
  <2> QED BY <2>1, OnlyHandlersAnswer, PublishAnswersTruly DEF IInv, PublishAnswers
<1> QED BY <1>1, InvariantEither, PTL DEF SpecEither, PublishedIsAttached

\* The inductive invariant with either driver when no attach lands late.
THEOREM InvariantPromptEither == ASSUME ~LateAttach PROVE SpecEither => []IInvPrompt
<1>1. Init => CacheComplete /\ PlanMade /\ NoLunCollision
  BY DEF Init, AzureInit, CacheComplete, PlanMade, NoLunCollision
<1>2. IInvPrompt /\ IInv' /\ [Next]_vars => CacheComplete' /\ PlanMade' /\ NoLunCollision'
  BY CacheCompleteInductive, NoLunCollisionInductive DEF IInv, IInvPrompt
<1>3. IInvPrompt /\ IInv' /\ [NextEither]_vars => CacheComplete' /\ PlanMade' /\ NoLunCollision'
  BY <1>2, UnreadKeepsPrompt DEF NextEither
<1> QED BY <1>1, <1>3, InvariantEither, PTL DEF SpecEither, IInvPrompt

\* No batch of either driver asks for a LUN that another disk has.
THEOREM LunsDoNotCollideEither == ASSUME ~LateAttach PROVE SpecEither => []NoLunCollision
<1>1. IInvPrompt => NoLunCollision
  BY DEF IInvPrompt
<1> QED BY <1>1, InvariantPromptEither, PTL

\* With either driver ControllerUnpublishVolume answers OK only if the disk has left
\* the VM or is on its way out.
THEOREM UnpublishIsTrueEither == ASSUME ~LateAttach PROVE SpecEither => UnpublishedIsDetached
<1>1. IInvPrompt /\ [NextEither]_vars =>
         [\A r \in Reqs :
             pc[r] # "ok" /\ pc'[r] = "ok" /\ op[r] = "unpublish" /\ node[r] \in alive =>
                dataDisks[node[r]][disk[r]] = NoLun \/ disk[r] \in tbd[node[r]]]_vars
  <2> SUFFICES ASSUME IInvPrompt, [NextEither]_vars, NEW r \in Reqs,
                      pc[r] # "ok", pc'[r] = "ok", op[r] = "unpublish", node[r] \in alive
               PROVE  dataDisks[node[r]][disk[r]] = NoLun \/ disk[r] \in tbd[node[r]]
    OBVIOUS
  <2>1. [Next]_vars
    BY UnreadAnswersNothing DEF NextEither, IInv, IInvPrompt
  <2> QED BY <2>1, OnlyHandlersAnswer, UnpublishAnswersTruly DEF IInv, IInvPrompt
<1> QED BY <1>1, InvariantPromptEither, PTL DEF SpecEither, UnpublishedIsDetached

-----------------------------------------------------------------------------
(* What the refinement needs besides.                                        *)

\* A VM update attaches the disks of its batch and no others; a publish detaches a
\* disk from another node than its own; a disk that is attached exists.
PlanFits == \A r \in Reqs : pc[r] = "vmAttach" => On(plan[r]) \subseteq batch[r]
DanglingElsewhere ==
    \A r \in Reqs : op[r] = "publish" /\ pc[r] \in DetachPoints => seen[r] # node[r]
AttachedExist == \A n \in Nodes : On(dataDisks[n]) \subseteq exists
RefInv == IInvPrompt /\ PlanFits /\ DanglingElsewhere /\ AttachedExist

\* A step of one handler leaves the calls of the others alone.
LEMMA OthersKeepCall ==
    ASSUME TypeOK, NEW r \in Reqs, NEW q \in Reqs \ {r},
           Handler(r) \/ LockEntry(r) \/ PublishUnreadVM(r)
    PROVE  /\ pc'[q] = pc[q] /\ op'[q] = op[q] /\ disk'[q] = disk[q] /\ node'[q] = node[q]
           /\ seen'[q] = seen[q] /\ batch'[q] = batch[q] /\ plan'[q] = plan[q] /\ lun'[q] = lun[q]
<1>1. CASE PublishUnreadVM(r)
  BY <1>1, UnreadFacts
<1>2. CASE Handler(r) \/ LockEntry(r)
  <2>1. pc'[q] = pc[q]
    BY <1>2, OthersStay
  <2>2. op'[q] = op[q] /\ disk'[q] = disk[q] /\ node'[q] = node[q] /\ seen'[q] = seen[q]
    BY <1>2 DEF TypeOK, RequestTypeOK, Handler, LockEntry, reqVars, callVars,
       CheckDiskExists, PublishGetDiskLun, GetOccupiedLuns, AttachDisk, CleanAttachDiskRequests,
       Allocate, VMAttach, VMRetry, AttachCheckLun, UpdateVM, StaleGetDiskLun, DetachDisk,
       CleanDetachDiskRequests, VMDetach, VMForceDetach, DetachCheckLun, DeleteGuard,
       DeleteGetDisk, DeleteDisk, Reply
  <2>3. batch'[q] = batch[q] /\ plan'[q] = plan[q] /\ lun'[q] = lun[q]
    BY <1>2 DEF TypeOK, RequestTypeOK, Handler, LockEntry, AttachReturns, DetachReturns, callVars,
       CheckDiskExists, PublishGetDiskLun, GetOccupiedLuns, AttachDisk, CleanAttachDiskRequests,
       Allocate, VMAttach, VMRetry, AttachCheckLun, UpdateVM, StaleGetDiskLun, DetachDisk,
       CleanDetachDiskRequests, VMDetach, VMForceDetach, DetachCheckLun, DeleteGuard,
       DeleteGetDisk, DeleteDisk, Reply
  <2> QED BY <2>1, <2>2, <2>3
<1> QED BY <1>1, <1>2

\* A handler comes to "vmAttach" with the plan of its batch.
LEMMA OwnPlanFits ==
    ASSUME TypeOK, NEW r \in Reqs, Handler(r) \/ LockEntry(r), pc'[r] = "vmAttach"
    PROVE  On(plan[r])' \subseteq batch'[r]
<1>1. pc \in [Reqs -> PCs] /\ plan \in [Reqs -> LunMap]
  BY DEF TypeOK, RequestTypeOK
<1>2. ~(\/ CheckDiskExists(r) \/ PublishGetDiskLun(r) \/ GetOccupiedLuns(r) \/ AttachDisk(r)
        \/ CleanAttachDiskRequests(r) \/ UpdateVM(r) \/ StaleGetDiskLun(r))
  BY <1>1 DEF Goto, CheckDiskExists, PublishGetDiskLun, GetOccupiedLuns, AttachDisk,
     CleanAttachDiskRequests, UpdateVM, StaleGetDiskLun
<1>3. ~(VMAttach(r) \/ VMRetry(r) \/ AttachCheckLun(r))
  BY <1>1 DEF Goto, AttachReturns, VMAttach, VMRetry, AttachCheckLun
<1>4. ~(\/ DetachDisk(r) \/ CleanDetachDiskRequests(r) \/ VMDetach(r) \/ VMForceDetach(r)
        \/ DetachCheckLun(r))
  BY <1>1 DEF Goto, DetachReturns, AfterDetach, DetachError, DetachDisk, CleanDetachDiskRequests,
     VMDetach, VMForceDetach, DetachCheckLun
<1>5. ~(DeleteGuard(r) \/ DeleteGetDisk(r) \/ DeleteDisk(r) \/ Reply(r) \/ LockEntry(r))
  BY <1>1 DEF Goto, DeleteReturns, Granted, DeleteGuard, DeleteGetDisk, DeleteDisk, Reply, LockEntry
<1>6. ~\E to \in {"ok", "err"} : AttachReturns(r, to)
  BY <1>1 DEF Goto, AttachReturns
<1>7. Allocate(r)
  BY <1>2, <1>3, <1>4, <1>5 DEF Handler
<1>8. PICK p \in SetDiskLun(node[r], batch[r], occupied[r]) : plan' = [plan EXCEPT ![r] = p]
  BY <1>6, <1>7 DEF Allocate
<1>9. batch' = batch /\ plan'[r] = p /\ On(p) = batch[r]
  BY <1>1, <1>6, <1>7, <1>8 DEF Allocate, SetDiskLun
<1> QED BY <1>9 DEF On

\* A publish that comes to detach a disk does so from another node.
LEMMA OwnDangling ==
    ASSUME TypeOK, DanglingElsewhere, NEW r \in Reqs, Handler(r) \/ LockEntry(r),
           op'[r] = "publish", pc'[r] \in DetachPoints
    PROVE  seen'[r] # node'[r]
<1>1. /\ pc \in [Reqs -> PCs] /\ seen \in [Reqs -> Nodes \cup {NoNode}]
      /\ op \in [Reqs -> {"publish", "unpublish", "delete"}]
  BY DEF TypeOK, RequestTypeOK
<1>2. ~(\/ CheckDiskExists(r) \/ PublishGetDiskLun(r) \/ GetOccupiedLuns(r)
        \/ CleanAttachDiskRequests(r) \/ UpdateVM(r) \/ StaleGetDiskLun(r))
  BY <1>1 DEF Goto, CheckDiskExists, PublishGetDiskLun, GetOccupiedLuns,
     CleanAttachDiskRequests, UpdateVM, StaleGetDiskLun, DetachPoints, DetachLocked
<1>3. ~(Allocate(r) \/ VMAttach(r) \/ VMRetry(r) \/ AttachCheckLun(r))
  BY <1>1 DEF Goto, AttachReturns, Allocate, VMAttach, VMRetry, AttachCheckLun,
     DetachPoints, DetachLocked
<1>4. ~(DeleteGuard(r) \/ DeleteGetDisk(r) \/ DeleteDisk(r) \/ Reply(r))
  BY <1>1 DEF Goto, DeleteReturns, DeleteGuard, DeleteGetDisk, DeleteDisk, Reply,
     DetachPoints, DetachLocked
<1>5. CASE AttachDisk(r)
  <2>1. pc[r] = "attach" /\ seen[r] # node[r] /\ UNCHANGED <<seen, node>>
    BY <1>1, <1>5 DEF Goto, AttachDisk, reqVars, DetachPoints, DetachLocked
  <2> QED BY <2>1
<1>6. CASE DetachDisk(r) \/ CleanDetachDiskRequests(r) \/ VMDetach(r) \/ VMForceDetach(r)
           \/ DetachCheckLun(r)
  <2>1. pc[r] \in DetachPoints /\ UNCHANGED <<op, seen, node>>
    BY <1>6 DEF DetachDisk, CleanDetachDiskRequests, VMDetach, VMForceDetach, DetachCheckLun,
       DetachPoints, DetachLocked, reqVars, callVars
  <2> QED BY <2>1 DEF DanglingElsewhere
<1>7. CASE LockEntry(r)
  <2>1. pc[r] = "detachLock" /\ UNCHANGED <<op, seen, node>>
    BY <1>1, <1>7 DEF LockEntry, Granted, Goto, reqVars, callVars, DetachPoints, DetachLocked
  <2> QED BY <2>1 DEF DanglingElsewhere, DetachPoints
<1> QED BY <1>2, <1>3, <1>4, <1>5, <1>6, <1>7 DEF Handler

\* No VM update attaches a disk that does not exist, and what is attached is not
\* deleted.
LEMMA AttachedExistStep ==
    ASSUME ~LateAttach, TypeOK, CacheComplete, AttachedExist, [NextEither]_vars
    PROVE  AttachedExist'
<1> SUFFICES ASSUME NEW m \in Nodes, NEW d \in Disks, dataDisks'[m][d] # NoLun
             PROVE  d \in exists'
  BY DEF AttachedExist, On
<1>1. /\ dataDisks \in [Nodes -> LunMap] /\ tbd \in [Nodes -> SUBSET Disks]
      /\ \A n \in Nodes : pend[n] = NoLuns
      /\ dataDisks[m][d] # NoLun => d \in exists
  BY DEF TypeOK, AzureTypeOK, CacheComplete, AttachedExist, On
<1>2. ASSUME exists' = exists, dataDisks'[m] = dataDisks[m] \/ dataDisks'[m][d] = NoLun
      PROVE  d \in exists'
  BY <1>1, <1>2
<1>3. \A n : /\ \A p : VMAttachFails(n, p) => dataDisks' = dataDisks
             /\ \A g : VMDetachOk(n, g) \/ VMDetachFails(n, g) =>
                          dataDisks'[m][d] \in {dataDisks[m][d], NoLun}
             /\ VMUpdateOk(n) => dataDisks'[m][d] \in {dataDisks[m][d], NoLun}
             /\ \A p : VMAttachOk(n, p) => dataDisks'[m][d] = dataDisks[m][d] \/ d \in exists
  <2> SUFFICES ASSUME NEW n
               PROVE  /\ \A p : VMAttachFails(n, p) => dataDisks' = dataDisks
                      /\ \A g : VMDetachOk(n, g) \/ VMDetachFails(n, g) =>
                                  dataDisks'[m][d] \in {dataDisks[m][d], NoLun}
                      /\ VMUpdateOk(n) => dataDisks'[m][d] \in {dataDisks[m][d], NoLun}
                      /\ \A p : VMAttachOk(n, p) =>
                                  dataDisks'[m][d] = dataDisks[m][d] \/ d \in exists
    OBVIOUS
  <2>1. \A p : VMAttachFails(n, p) => dataDisks' = dataDisks
    BY DEF VMAttachFails
  <2>2. \A g : VMDetachOk(n, g) \/ VMDetachFails(n, g) =>
                  dataDisks'[m][d] \in {dataDisks[m][d], NoLun}
    BY <1>1 DEF VMDetachOk, VMDetachFails, Without
  <2>3. VMUpdateOk(n) => dataDisks'[m][d] \in {dataDisks[m][d], NoLun}
    BY <1>1 DEF VMUpdateOk, Attached, NoLuns
  <2>4. \A p : VMAttachOk(n, p) => dataDisks'[m][d] = dataDisks[m][d] \/ d \in exists
    BY <1>1 DEF VMAttachOk, LandPlan, Attached, Attachable, On
  <2> QED BY <2>1, <2>2, <2>3, <2>4
<1>4. ASSUME NEW r \in Reqs, Handler(r) \/ LockEntry(r), ~DeleteDisk(r)
      PROVE  d \in exists'
  <2>1. exists' = exists
    BY <1>4 DEF Handler, LockEntry, azureVars,
       CheckDiskExists, PublishGetDiskLun, GetOccupiedLuns, AttachDisk, CleanAttachDiskRequests,
       Allocate, VMAttach, VMRetry, AttachCheckLun, UpdateVM, StaleGetDiskLun, DetachDisk,
       CleanDetachDiskRequests, VMDetach, VMForceDetach, DetachCheckLun, DeleteGuard,
       DeleteGetDisk, Reply
  <2>2. \/ dataDisks' = dataDisks \/ d \in exists
        \/ dataDisks'[m][d] \in {dataDisks[m][d], NoLun}
    BY <1>3, <1>4 DEF Handler, LockEntry, azureVars, vmVars,
       CheckDiskExists, PublishGetDiskLun, GetOccupiedLuns, AttachDisk, CleanAttachDiskRequests,
       Allocate, VMAttach, VMRetry, AttachCheckLun, UpdateVM, StaleGetDiskLun, DetachDisk,
       CleanDetachDiskRequests, VMDetach, VMForceDetach, DetachCheckLun, DeleteGuard,
       DeleteGetDisk, Reply
  <2> QED BY <1>1, <2>1, <2>2
<1>5. ASSUME NEW r \in Reqs, DeleteDisk(r)
      PROVE  d \in exists'
  BY <1>1, <1>5 DEF DeleteDisk, vmVars, ManagedBy
<1>6. CASE AzureActs
  BY <1>1, <1>6 DEF AzureActs, AzureStep, CacheExpires, LateAttachLands, LateDetachLands,
     NodeDeleted, Without, NoLuns
<1>7. ASSUME NEW r \in Reqs, NEW c \in Ops, NEW e \in Disks, NEW n \in Nodes, Call(r, c, e, n)
      PROVE  d \in exists'
  BY <1>1, <1>7 DEF Call, azureVars
<1>8. ASSUME NEW r \in Reqs, PublishUnreadVM(r)
      PROVE  d \in exists'
  BY <1>1, <1>8 DEF PublishUnreadVM, azureVars
<1>9. CASE Restart \/ UNCHANGED vars
  BY <1>1, <1>9 DEF Restart, vars, azureVars, vmVars
<1> QED BY <1>4, <1>5, <1>6, <1>7, <1>8, <1>9 DEF NextEither, Next

\* The inductive invariant of the refinement: plans fit their batches, a dangling
\* attachment is on another node, attached disks exist.
THEOREM RefinementInvariant == ASSUME ~LateAttach PROVE SpecEither => []RefInv
<1>1. Init => PlanFits /\ DanglingElsewhere /\ AttachedExist
  BY DEF Init, AzureInit, PlanFits, DanglingElsewhere, AttachedExist, On, NoLuns, DetachPoints,
     DetachLocked
<1>2. ASSUME IInvPrompt, PlanFits, DanglingElsewhere, AttachedExist, [NextEither]_vars
      PROVE  PlanFits' /\ DanglingElsewhere' /\ AttachedExist'
  <2>1. TypeOK /\ CacheComplete
    BY <1>2 DEF IInvPrompt, IInv
  <2>2. AttachedExist'
    BY <1>2, <2>1, AttachedExistStep
  <2>3. ASSUME NEW r \in Reqs, Handler(r) \/ LockEntry(r)
        PROVE  PlanFits' /\ DanglingElsewhere'
    <3>1. PlanFits'
      BY <1>2, <2>1, <2>3, OwnPlanFits, OthersKeepCall DEF PlanFits, On
    <3>2. DanglingElsewhere'
      BY <1>2, <2>1, <2>3, OwnDangling, OthersKeepCall DEF DanglingElsewhere
    <3> QED BY <3>1, <3>2
  <2>4. ASSUME NEW r \in Reqs, PublishUnreadVM(r)
        PROVE  PlanFits' /\ DanglingElsewhere'
    BY <1>2, <2>1, <2>4, UnreadFacts DEF PlanFits, DanglingElsewhere, On, DetachPoints, DetachLocked
  <2>5. ASSUME NEW r \in Reqs, NEW c \in Ops, NEW e \in Disks, NEW n \in Nodes, Call(r, c, e, n)
        PROVE  PlanFits' /\ DanglingElsewhere'
    BY <1>2, <2>1, <2>5 DEF Call, Goto, TypeOK, RequestTypeOK, PlanFits, DanglingElsewhere, On,
       DetachPoints, DetachLocked, callVars
  <2>6. CASE AzureActs \/ UNCHANGED vars
    BY <1>2, <2>2, <2>6 DEF AzureActs, vars, reqVars, callVars, PlanFits, DanglingElsewhere, On
  <2>7. CASE Restart
    BY <2>2, <2>7 DEF Restart, PlanFits, DanglingElsewhere, DetachPoints, DetachLocked
  <2> QED BY <1>2, <2>2, <2>3, <2>4, <2>5, <2>6, <2>7 DEF NextEither, Next
<1> QED BY <1>1, <1>2, InvariantPromptEither, PTL DEF SpecEither, RefInv

-----------------------------------------------------------------------------
(* The steps of VolumeAttach.                                                *)

\* What a running call looks like in VolumeAttach.
Running(r, s, l) == [op |-> op[r], disk |-> disk[r], node |-> node[r], st |-> s, lun |-> l]
Shown(r) == IF op[r] = "publish" /\ Point(r) = "done" THEN lun[r] ELSE NoLun

\* That is its record, and not Idle.
LEMMA CallShown ==
    ASSUME TypeOK, ArgumentsKnown, NEW r \in Reqs, pc[r] # "idle"
    PROVE  /\ AbstractCall(r) = Running(r, Point(r), Shown(r))
           /\ AbstractCall(r) # NoReq
           /\ AbstractCall(r) \in RunningCalls
           /\ AbstractCall(r).op = op[r] /\ AbstractCall(r).disk = disk[r]
           /\ AbstractCall(r).node = node[r] /\ AbstractCall(r).st = Point(r)
<1>1. AbstractCall(r) = Running(r, Point(r), Shown(r))
  BY DEF AbstractCall, Running, Shown
<1>2. Point(r) \in {"working", "done", "failed"}
  BY DEF Point
<1>3. Shown(r) \in Luns \cup {NoLun}
  BY DEF Shown, TypeOK, RequestTypeOK
<1>4. /\ op[r] \in {"publish", "unpublish", "delete"} /\ disk[r] \in Disks /\ node[r] \in Nodes
  BY DEF TypeOK, RequestTypeOK, ArgumentsKnown
<1>5. Running(r, Point(r), Shown(r)) \in RunningCalls
  BY <1>2, <1>3, <1>4 DEF Running, RunningCalls
<1>6. Running(r, Point(r), Shown(r)) # NoReq
  BY <1>5, CallAssumption
<1>7. LET x == Running(r, Point(r), Shown(r))
      IN  x.op = op[r] /\ x.disk = disk[r] /\ x.node = node[r] /\ x.st = Point(r)
  BY DEF Running
<1> QED BY <1>1, <1>5, <1>6, <1>7

\* Nothing is asked for or changed.
LEMMA StutterStep ==
    ASSUME \A r \in Reqs : AbstractCall(r)' = AbstractCall(r),
           \A n \in Nodes, d \in Disks : AbstractLun(n, d)' = AbstractLun(n, d),
           UNCHANGED <<exists, alive>>
    PROVE  UNCHANGED Abstract!vars
BY DEF Abstract!vars

\* One handler moves.
Moves(r, to) ==
    /\ pc[r] # "idle" /\ to # "idle"
    /\ pc'[r] = to /\ UNCHANGED reqVars
    /\ \A q \in Reqs \ {r} : pc'[q] = pc[q] /\ lun'[q] = lun[q]

\* The calls of the others look the same.
LEMMA OthersShown ==
    ASSUME NEW r \in Reqs, NEW to, Moves(r, to), NEW q \in Reqs, q # r
    PROVE  AbstractCall(q)' = AbstractCall(q)
BY DEF Moves, AbstractCall, Point, reqVars

\* A handler that goes on, with what it has to show unchanged.
LEMMA WorkingStep ==
    ASSUME NEW r \in Reqs, NEW to, Moves(r, to), Point(r)' = Point(r),
           Point(r) = "done" => lun'[r] = lun[r],
           \A n \in Nodes, d \in Disks : AbstractLun(n, d)' = AbstractLun(n, d),
           UNCHANGED <<exists, alive>>
    PROVE  UNCHANGED Abstract!vars
<1>1. AbstractCall(r)' = AbstractCall(r)
  BY DEF AbstractCall, Moves, reqVars
<1> QED BY <1>1, OthersShown, StutterStep

\* Two fields of a call are set.
LEMMA TwoFields ==
    \A t \in RunningCalls, s \in {"working", "done", "failed"}, l \in Luns \cup {NoLun} :
       [t EXCEPT !.st = s, !.lun = l] =
          [op |-> t.op, disk |-> t.disk, node |-> t.node, st |-> s, lun |-> l]
<1> SUFFICES ASSUME NEW t \in RunningCalls, NEW s \in {"working", "done", "failed"},
                    NEW l \in Luns \cup {NoLun}
             PROVE  [t EXCEPT !.st = s, !.lun = l] =
                       [op |-> t.op, disk |-> t.disk, node |-> t.node, st |-> s, lun |-> l]
  OBVIOUS
<1>1. \A u \in RunningCalls : [u EXCEPT !.st = s] =
         [op |-> u.op, disk |-> u.disk, node |-> u.node, st |-> s, lun |-> u.lun]
  BY DEF RunningCalls
<1>2. \A u \in RunningCalls : [u EXCEPT !.lun = l] =
         [op |-> u.op, disk |-> u.disk, node |-> u.node, st |-> u.st, lun |-> l]
  BY DEF RunningCalls
<1>3. PICK v \in RunningCalls :
         /\ v = [t EXCEPT !.st = s]
         /\ v = [op |-> t.op, disk |-> t.disk, node |-> t.node, st |-> s, lun |-> t.lun]
  BY <1>1 DEF RunningCalls
<1>4. [v EXCEPT !.lun = l] =
         [op |-> t.op, disk |-> t.disk, node |-> t.node, st |-> s, lun |-> l]
  BY <1>2, <1>3
<1>5. [t EXCEPT !.st = s, !.lun = l] = [v EXCEPT !.lun = l]
  BY <1>3, Zenon
<1> QED BY <1>4, <1>5

\* How a call ends, as VolumeAttach sees it.
LEMMA EndShown ==
    ASSUME TypeOK, ArgumentsKnown, NEW r \in Reqs, NEW to \in {"ok", "failedLock", "err"},
           Moves(r, to), lun'[r] \in Luns \cup {NoLun}
    PROVE  LET call == [q \in Reqs |-> AbstractCall(q)]
               s == IF to = "err" THEN "failed" ELSE "done"
               l == IF op[r] = "publish" /\ to # "err" THEN lun'[r] ELSE NoLun
           IN  call' = [call EXCEPT ![r].st = s, ![r].lun = l]
<1> DEFINE s == IF to = "err" THEN "failed" ELSE "done"
           l == IF op[r] = "publish" /\ to # "err" THEN lun'[r] ELSE NoLun
           call == [q \in Reqs |-> AbstractCall(q)]
<1>1. pc[r] # "idle" /\ pc'[r] = to /\ UNCHANGED reqVars
  BY DEF Moves
<1>2. AbstractCall(r)' = Running(r, s, l)
  BY <1>1 DEF AbstractCall, Running, Point, reqVars
<1> HIDE DEF s, l
<1>3. Running(r, s, l) = [AbstractCall(r) EXCEPT !.st = s, !.lun = l]
  <2> DEFINE x == AbstractCall(r)
  <2>1. /\ x \in RunningCalls
        /\ x.op = op[r] /\ x.disk = disk[r] /\ x.node = node[r]
    BY <1>1, CallShown
  <2>2. s \in {"working", "done", "failed"} /\ l \in Luns \cup {NoLun}
    BY DEF s, l
  <2> HIDE DEF x
  <2>3. [x EXCEPT !.st = s, !.lun = l] =
           [op |-> x.op, disk |-> x.disk, node |-> x.node, st |-> s, lun |-> l]
    BY <2>1, <2>2, TwoFields
  <2> QED BY <2>1, <2>3 DEF Running, x
<1>4. \A q \in Reqs : q # r => AbstractCall(q)' = AbstractCall(q)
  BY OthersShown
<1>5. call' = [call EXCEPT ![r].st = s, ![r].lun = l]
  BY <1>2, <1>3, <1>4
<1> QED BY <1>5 DEF s, l

\* A call fails.
LEMMA FailsStep ==
    ASSUME TypeOK, ArgumentsKnown, TypeOK', NEW r \in Reqs, Moves(r, "err"),
           \A n \in Nodes, d \in Disks : AbstractLun(n, d)' = AbstractLun(n, d),
           UNCHANGED <<exists, alive>>
    PROVE  Abstract!Fails(r)
<1>1. [q \in Reqs |-> AbstractCall(q)]' =
        [[q \in Reqs |-> AbstractCall(q)] EXCEPT ![r].st = "failed", ![r].lun = NoLun]
  BY EndShown DEF TypeOK, RequestTypeOK
<1>2. AbstractCall(r) # NoReq
  BY CallShown DEF Moves
<1> QED BY <1>1, <1>2 DEF Abstract!Fails, Abstract!Failed

\* A publish has its LUN.
LEMMA PublishedStep ==
    ASSUME TypeOK, ArgumentsKnown, TypeOK', NEW r \in Reqs, NEW to \in {"ok", "failedLock"},
           Moves(r, to), op[r] = "publish", Point(r) = "working", lun'[r] # NoLun,
           node[r] \in alive => AbstractLun(node[r], disk[r]) = lun'[r],
           \A n \in Nodes, d \in Disks : AbstractLun(n, d)' = AbstractLun(n, d),
           UNCHANGED <<exists, alive>>
    PROVE  Abstract!Published(r)
<1>0. lun'[r] \in Luns /\ node[r] \in Nodes /\ disk[r] \in Disks
  BY DEF TypeOK, RequestTypeOK, ArgumentsKnown, Moves
<1>1. [q \in Reqs |-> AbstractCall(q)]' =
        [[q \in Reqs |-> AbstractCall(q)] EXCEPT ![r].st = "done", ![r].lun = lun'[r]]
  BY <1>0, EndShown
<1>2. /\ AbstractCall(r) # NoReq /\ AbstractCall(r).st = "working"
      /\ AbstractCall(r).op = "publish" /\ AbstractCall(r).disk = disk[r]
      /\ AbstractCall(r).node = node[r]
  BY CallShown DEF Moves
<1>3. Abstract!Works(r, "publish")
  BY <1>2 DEF Abstract!Works
<1>4. Abstract!Done(r, lun'[r])
  BY <1>1 DEF Abstract!Done
<1> QED BY <1>0, <1>2, <1>3, <1>4 DEF Abstract!Published

\* An unpublish is through.
LEMMA UnpublishedStep ==
    ASSUME TypeOK, ArgumentsKnown, TypeOK', NEW r \in Reqs,
           Moves(r, "ok"), op[r] = "unpublish", Point(r) = "working",
           node[r] \in alive => AbstractLun(node[r], disk[r]) = NoLun,
           \A n \in Nodes, d \in Disks : AbstractLun(n, d)' = AbstractLun(n, d),
           UNCHANGED <<exists, alive>>
    PROVE  Abstract!Unpublished(r)
<1>0. lun'[r] \in Luns \cup {NoLun} /\ node[r] \in Nodes /\ disk[r] \in Disks
  BY DEF TypeOK, RequestTypeOK, ArgumentsKnown, Moves
<1>1. [q \in Reqs |-> AbstractCall(q)]' =
        [[q \in Reqs |-> AbstractCall(q)] EXCEPT ![r].st = "done", ![r].lun = NoLun]
  BY <1>0, EndShown
<1>2. /\ AbstractCall(r) # NoReq /\ AbstractCall(r).st = "working"
      /\ AbstractCall(r).op = "unpublish" /\ AbstractCall(r).disk = disk[r]
      /\ AbstractCall(r).node = node[r]
  BY CallShown DEF Moves
<1>3. Abstract!Works(r, "unpublish")
  BY <1>2 DEF Abstract!Works
<1>4. Abstract!Done(r, NoLun)
  BY <1>1 DEF Abstract!Done
<1> QED BY <1>0, <1>2, <1>3, <1>4 DEF Abstract!Unpublished

\* A disk is deleted, or was before.
LEMMA DeletedStep ==
    ASSUME TypeOK, ArgumentsKnown, TypeOK', NEW r \in Reqs,
           Moves(r, "ok"), op[r] = "delete", Point(r) = "working",
           \A n \in Nodes : AbstractLun(n, disk[r]) = NoLun,
           \A n \in Nodes, d \in Disks : AbstractLun(n, d)' = AbstractLun(n, d),
           exists' = exists \ {disk[r]}, UNCHANGED alive
    PROVE  Abstract!Deleted(r)
<1>0. lun'[r] \in Luns \cup {NoLun} /\ node[r] \in Nodes /\ disk[r] \in Disks
  BY DEF TypeOK, RequestTypeOK, ArgumentsKnown, Moves
<1>1. [q \in Reqs |-> AbstractCall(q)]' =
        [[q \in Reqs |-> AbstractCall(q)] EXCEPT ![r].st = "done", ![r].lun = NoLun]
  BY <1>0, EndShown
<1>2. /\ AbstractCall(r) # NoReq /\ AbstractCall(r).st = "working"
      /\ AbstractCall(r).op = "delete" /\ AbstractCall(r).disk = disk[r]
  BY CallShown DEF Moves
<1>3. Abstract!Works(r, "delete")
  BY <1>2 DEF Abstract!Works
<1>4. Abstract!Done(r, NoLun)
  BY <1>1 DEF Abstract!Done
<1> QED BY <1>0, <1>2, <1>3, <1>4 DEF Abstract!Deleted

\* A handler that works on a disk asks for it.
LEMMA AskedFor ==
    ASSUME TypeOK, ArgumentsKnown, NEW q \in Reqs, pc[q] # "idle", Point(q) = "working",
           NEW o, NEW d, NEW n, op[q] = o, disk[q] = d, node[q] = n
    PROVE  Abstract!Asked(o, d, n)
<1>1. /\ AbstractCall(q) # NoReq /\ AbstractCall(q).st = "working" /\ AbstractCall(q).op = o
      /\ AbstractCall(q).disk = d /\ AbstractCall(q).node = n
  BY CallShown
<1> QED BY <1>1 DEF Abstract!Asked, Abstract!Works

-----------------------------------------------------------------------------
(* The data disks, with those that are ToBeDetached taken as gone.           *)

SameLuns == \A n \in Nodes, d \in Disks : AbstractLun(n, d)' = AbstractLun(n, d)

\* Nothing happens to the VMs.
LEMMA SameVMs ==
    ASSUME UNCHANGED <<dataDisks, tbd>>
    PROVE  SameLuns
BY DEF SameLuns, AbstractLun

\* The bare update of a VM with nothing pending, and a detach that lands late,
\* detach what is ToBeDetached already.
LEMMA UpdateSame ==
    ASSUME TypeOK, CacheComplete, NEW n \in Nodes, VMUpdateOk(n) \/ LateDetachLands(n)
    PROVE  SameLuns
<1>1. /\ dataDisks \in [Nodes -> LunMap] /\ tbd \in [Nodes -> SUBSET Disks]
      /\ pend[n] = NoLuns
  BY DEF TypeOK, AzureTypeOK, CacheComplete
<1>2. \A d \in Disks : Attached(n, NoLuns)[d] = dataDisks[n][d]
  BY DEF Attached, NoLuns
<1>3. /\ dataDisks' = [dataDisks EXCEPT ![n] =
            [d \in Disks |-> IF d \in tbd[n] THEN NoLun ELSE dataDisks[n][d]]]
      /\ tbd' = [tbd EXCEPT ![n] = {}]
  BY <1>1, <1>2 DEF VMUpdateOk, LateDetachLands, Without
<1> QED BY <1>1, <1>3 DEF SameLuns, AbstractLun

\* A VM update that detaches, carried out or only accepted.
Leaves(n, gone) ==
    \A m \in Nodes, d \in Disks :
        AbstractLun(m, d)' = IF m = n /\ d \in gone THEN NoLun ELSE AbstractLun(m, d)
LEMMA DetachLeaves ==
    ASSUME TypeOK, NEW n \in Nodes, NEW gone \in SUBSET Disks,
           VMDetachOk(n, gone) \/ (VMDetachFails(n, gone) /\ ~UNCHANGED <<tbd, pend>>)
    PROVE  Leaves(n, gone)
<1>1. dataDisks \in [Nodes -> LunMap] /\ tbd \in [Nodes -> SUBSET Disks]
  BY DEF TypeOK, AzureTypeOK
<1>2. CASE VMDetachOk(n, gone)
  BY <1>1, <1>2 DEF VMDetachOk, Without, Leaves, AbstractLun
<1>3. CASE VMDetachFails(n, gone) /\ ~UNCHANGED <<tbd, pend>>
  BY <1>1, <1>3 DEF VMDetachFails, On, Leaves, AbstractLun
<1> QED BY <1>2, <1>3

\* Disks leave a VM, each of them asked away; the handler goes on or fails.
LEMMA DetachStep ==
    ASSUME TypeOK, ArgumentsKnown, TypeOK', NEW r \in Reqs, NEW to, Moves(r, to),
           Point(r) = "working", to = "err" \/ Point(r)' = "working",
           NEW n \in Nodes, NEW gone \in SUBSET Disks, Leaves(n, gone),
           \A d \in gone : Abstract!AskedAway(d, n), UNCHANGED <<exists, alive>>
    PROVE  Abstract!Detach(n)
<1> DEFINE call == [q \in Reqs |-> AbstractCall(q)]
           at == [m \in Nodes |-> [d \in Disks |-> AbstractLun(m, d)]]
<1>1. at' = [at EXCEPT ![n] = [d \in Disks |-> IF d \in gone THEN NoLun ELSE @[d]]]
  BY DEF Leaves
<1>2. \/ call' = call
      \/ call[r] # NoReq /\ call' = [call EXCEPT ![r].st = "failed", ![r].lun = NoLun]
  <2>1. CASE to = "err"
    <3>1. call' = [call EXCEPT ![r].st = "failed", ![r].lun = NoLun]
      BY <2>1, EndShown DEF TypeOK, RequestTypeOK
    <3>2. call[r] # NoReq
      BY CallShown DEF Moves
    <3> QED BY <3>1, <3>2
  <2>2. CASE Point(r)' = "working"
    <3>1. AbstractCall(r)' = AbstractCall(r)
      BY <2>2 DEF AbstractCall, Moves, reqVars
    <3> QED BY <3>1, OthersShown
  <2> QED BY <2>1, <2>2
<1> QED BY <1>1, <1>2 DEF Abstract!Detach, Abstract!Failed

\* Disks come to a VM, each of them asked for.
LEMMA AttachStep ==
    ASSUME TypeOK, ArgumentsKnown, NEW r \in Reqs, NEW to, Moves(r, to), Point(r) = "working",
           Point(r)' = "working", NEW n \in Nodes, NEW p \in LunMap, VMAttachOk(n, p),
           \A d \in On(p) : Abstract!Asked("publish", d, n), UNCHANGED <<exists, alive>>
    PROVE  Abstract!Attach(n)
<1> DEFINE call == [q \in Reqs |-> AbstractCall(q)]
           at == [m \in Nodes |-> [d \in Disks |-> AbstractLun(m, d)]]
           luns == [d \in Disks |-> AbstractLun(n, d)']
<1>1. /\ dataDisks \in [Nodes -> LunMap] /\ tbd \in [Nodes -> SUBSET Disks]
      /\ n \in alive /\ Attachable(n, p) /\ tbd' = tbd
      /\ dataDisks' = [dataDisks EXCEPT ![n] = Attached(n, p)]
  BY DEF TypeOK, AzureTypeOK, VMAttachOk, LandPlan, Attachable
<1>2. \A d \in Disks : AbstractLun(n, d)' =
         IF d \in tbd[n] THEN NoLun ELSE IF p[d] # NoLun THEN p[d] ELSE dataDisks[n][d]
  BY <1>1 DEF AbstractLun, Attached
<1>3. \A m \in Nodes \ {n}, d \in Disks : AbstractLun(m, d)' = AbstractLun(m, d)
  BY <1>1 DEF AbstractLun
<1>4. luns \in [Disks -> Luns \cup {NoLun}]
  <2>1. \A d \in Disks : p[d] \in Luns \cup {NoLun} /\ dataDisks[n][d] \in Luns \cup {NoLun}
    BY <1>1 DEF LunMap
  <2> QED BY <1>2, <2>1
<1>5. at' = [at EXCEPT ![n] = luns]
  BY <1>3
<1>6. call' = call
  <2>1. AbstractCall(r)' = AbstractCall(r)
    BY DEF AbstractCall, Moves, reqVars
  <2> QED BY <2>1, OthersShown
<1>7. ASSUME NEW d \in Disks, luns[d] # at[n][d]
      PROVE  /\ at[n][d] = NoLun
             /\ d \in exists
             /\ Abstract!Asked("publish", d, n)
             /\ \A e \in Disks \ {d} : luns[e] # luns[d]
             /\ d \in Shared \/ \A m \in Nodes \ {n} : at[m][d] = NoLun
  <2>1. d \notin tbd[n] /\ p[d] # NoLun /\ d \in On(p)
    BY <1>2, <1>7 DEF AbstractLun, On
  <2>2. /\ d \in exists /\ dataDisks[n][d] \in {NoLun, p[d]} /\ LunFree(n, d, p[d])
        /\ d \in Shared \/ ManagedBy(d) \subseteq {n}
        /\ \A e \in On(p) : e # d => p[e] # p[d]
    BY <1>1, <2>1 DEF Attachable
  <2>3. luns[d] = p[d] /\ dataDisks[n][d] = NoLun
    BY <1>2, <1>7, <2>1, <2>2 DEF AbstractLun
  <2>4. ASSUME NEW e \in Disks \ {d}
        PROVE  luns[e] # luns[d]
    <3>1. dataDisks[n][e] # p[d]
      BY <2>2 DEF LunFree
    <3> QED BY <1>2, <2>1, <2>2, <2>3, <3>1 DEF On
  <2>5. d \in Shared \/ \A m \in Nodes \ {n} : AbstractLun(m, d) = NoLun
    BY <2>2 DEF ManagedBy, AbstractLun
  <2> QED BY <2>1, <2>2, <2>3, <2>4, <2>5 DEF AbstractLun
<1> HIDE DEF luns
<1> QED BY <1>1, <1>4, <1>5, <1>6, <1>7 DEF Abstract!Attach

-----------------------------------------------------------------------------
(* Every step of DiskAttach is a step of VolumeAttach, or none.              *)

\* What the steps below start from.
Ready(r) ==
    /\ TypeOK /\ TypeOK' /\ ArgumentsKnown /\ CacheComplete /\ CacheSound /\ BatchOnBehalf
    /\ RightPoint /\ PlanFits /\ DanglingElsewhere /\ AttachedExist /\ ~LateAttach
    /\ r \in Reqs
AbstractStep == Abstract!Next \/ UNCHANGED Abstract!vars

\* A handler that goes to a point.
LEMMA GotoMoves ==
    ASSUME NEW r, Ready(r), NEW to \in PCs, Goto(r, to), pc[r] # "idle", to # "idle",
           Handler(r) \/ LockEntry(r) \/ PublishUnreadVM(r), UNCHANGED reqVars
    PROVE  Moves(r, to)
<1>1. pc'[r] = to
  BY DEF Ready, TypeOK, RequestTypeOK, Goto
<1> QED BY <1>1, OthersKeepCall DEF Moves, Ready

\* A handler fails.
LEMMA FailsIsStep ==
    ASSUME NEW r, Ready(r), Moves(r, "err"), SameLuns, UNCHANGED <<exists, alive>>
    PROVE  AbstractStep
BY FailsStep DEF Ready, SameLuns, AbstractStep, Abstract!Next

\* A handler goes on.
LEMMA WorkingIsStep ==
    ASSUME NEW r, Ready(r), NEW to, Moves(r, to), SameLuns, UNCHANGED <<exists, alive>>,
           pc[r] \notin {"ok", "err", "failedLock", "failedUpdate"},
           to \notin {"ok", "err", "failedLock", "failedUpdate"}
    PROVE  AbstractStep
<1>1. Point(r) = "working" /\ Point(r)' = "working"
  BY DEF Point, Moves
<1> QED BY <1>1, WorkingStep DEF Ready, SameLuns, AbstractStep

\* A publish reads its LUN.
LEMMA PublishedIsStep ==
    ASSUME NEW r, Ready(r), NEW to \in {"ok", "failedLock"}, Moves(r, to), SameLuns,
           UNCHANGED <<exists, alive>>, op[r] = "publish",
           pc[r] \notin {"ok", "err", "failedLock", "failedUpdate"},
           GetDiskLun(node[r], disk[r]) # NoLun, lun'[r] = GetDiskLun(node[r], disk[r])
    PROVE  AbstractStep
<1>1. Point(r) = "working"
  BY DEF Point
<1>2. disk[r] \in Disks /\ node[r] \in Nodes
  BY DEF Ready, ArgumentsKnown, Moves
<1>3. node[r] \in alive => AbstractLun(node[r], disk[r]) = lun'[r]
  BY <1>2, FoundIsAttached DEF Ready, AbstractLun
<1>4. Abstract!Published(r)
  BY <1>1, <1>3, PublishedStep DEF Ready, SameLuns
<1> QED BY <1>4 DEF Ready, AbstractStep, Abstract!Next

\* The points of a call other than publish.
LEMMA CallPoints ==
    ASSUME NEW r, Ready(r)
    PROVE  /\ op[r] \in {"publish", "unpublish", "delete"}
           /\ op[r] = "unpublish" => pc[r] \in DetachPoints \cup {"idle", "ok", "err"}
           /\ op[r] = "delete" => pc[r] \in {"delGuard", "delGet", "delCall", "idle", "ok", "err"}
           /\ op[r] = "publish" => pc[r] \notin {"delGuard", "delGet", "delCall"}
BY DEF Ready, RightPoint, PointsOf, DeletePoints, Answered, TypeOK, RequestTypeOK

\* ControllerPublishVolume up to AttachDisk.
LEMMA PublishSteps ==
    ASSUME NEW r, Ready(r), CheckDiskExists(r) \/ PublishGetDiskLun(r) \/ PublishUnreadVM(r)
                              \/ GetOccupiedLuns(r) \/ AttachDisk(r)
    PROVE  AbstractStep
<1>0. (Handler(r) \/ LockEntry(r) \/ PublishUnreadVM(r)) /\ UNCHANGED reqVars
  BY DEF Handler, CheckDiskExists, PublishGetDiskLun, PublishUnreadVM, GetOccupiedLuns, AttachDisk
<1>1. UNCHANGED <<exists, alive, dataDisks, tbd>>
  BY DEF CheckDiskExists, PublishGetDiskLun, PublishUnreadVM, GetOccupiedLuns, AttachDisk,
     azureVars, vmVars
<1>2. SameLuns
  BY <1>1, SameVMs
<1>3. pc[r] \in {"checkDisk", "getLun", "occupied", "attach", "reattach"}
  BY DEF CheckDiskExists, PublishGetDiskLun, PublishUnreadVM, GetOccupiedLuns, AttachDisk
<1>4. op[r] = "publish"
  BY <1>3, CallPoints DEF DetachPoints, DetachLocked
<1>5. ASSUME NEW to \in {"getLun", "occupied", "attach", "staleLock", "detach", "attachLock"},
             Goto(r, to)
      PROVE  AbstractStep
  <2>1. Moves(r, to)
    BY <1>0, <1>3, <1>5, GotoMoves DEF PCs, DetachPoints
  <2> QED BY <1>1, <1>2, <1>3, <1>5, <2>1, WorkingIsStep
<1>6. ASSUME Goto(r, "err")
      PROVE  AbstractStep
  <2>1. Moves(r, "err")
    BY <1>0, <1>3, <1>6, GotoMoves DEF PCs
  <2> QED BY <1>1, <1>2, <2>1, FailsIsStep
<1>7. ASSUME NEW to \in {"ok", "failedLock"}, Goto(r, to),
             GetDiskLun(node[r], disk[r]) # NoLun, lun'[r] = GetDiskLun(node[r], disk[r])
      PROVE  AbstractStep
  <2>1. Moves(r, to)
    BY <1>0, <1>3, <1>7, GotoMoves DEF PCs
  <2> QED BY <1>1, <1>2, <1>3, <1>4, <1>7, <2>1, PublishedIsStep
<1>8. CASE CheckDiskExists(r) \/ PublishUnreadVM(r) \/ GetOccupiedLuns(r) \/ AttachDisk(r)
  BY <1>5, <1>6, <1>8 DEF CheckDiskExists, PublishUnreadVM, GetOccupiedLuns, AttachDisk
<1>9. CASE PublishGetDiskLun(r)
  <2>1. lun' = [lun EXCEPT ![r] = GetDiskLun(node[r], disk[r])] =>
           lun'[r] = GetDiskLun(node[r], disk[r])
    BY DEF Ready, TypeOK, RequestTypeOK
  <2> QED BY <1>5, <1>6, <1>7, <1>9, <2>1 DEF PublishGetDiskLun
<1> QED BY <1>8, <1>9

\* Taking the lock of a node.
LEMMA LockSteps ==
    ASSUME NEW r, Ready(r), LockEntry(r)
    PROVE  AbstractStep
<1>1. UNCHANGED <<exists, alive, dataDisks, tbd, lun>> /\ UNCHANGED reqVars
  BY DEF LockEntry, azureVars, callVars
<1>2. SameLuns
  BY <1>1, SameVMs
<1>3. PICK to \in {"attachClean", "detachClean", "failedUpdate", "staleUpdate"} :
         /\ Goto(r, to) /\ pc[r] \in {"attachLock", "detachLock", "failedLock", "staleLock"}
         /\ to = "failedUpdate" <=> pc[r] = "failedLock"
  BY DEF LockEntry, Granted
<1>4. Moves(r, to)
  BY <1>1, <1>3, GotoMoves DEF PCs, Locked, AttachLocked, DetachLocked, UpdateLocked
<1>5. Point(r)' = Point(r)
  BY <1>3, <1>4 DEF Point, Moves
<1> QED BY <1>1, <1>2, <1>4, <1>5, WorkingStep DEF Ready, SameLuns, AbstractStep

\* The returns of AttachDisk and DetachDisk go to a point.
LEMMA ReturnsGoto ==
    /\ \A r, to : AttachReturns(r, to) => Goto(r, to)
    /\ \A r, to : DetachReturns(r, to) => Goto(r, to)
    /\ \A r, to : DeleteReturns(r, to) => Goto(r, to)
BY DEF AttachReturns, DetachReturns, DeleteReturns

\* AttachDisk under the lock, but for the VM update itself.
LEMMA AttachSteps ==
    ASSUME NEW r, Ready(r), CleanAttachDiskRequests(r) \/ Allocate(r) \/ VMRetry(r)
                              \/ AttachCheckLun(r) \/ StaleGetDiskLun(r)
    PROVE  AbstractStep
<1>0. Handler(r) /\ UNCHANGED reqVars /\ UNCHANGED <<exists, alive>>
  BY DEF Handler, CleanAttachDiskRequests, Allocate, VMRetry, AttachCheckLun, StaleGetDiskLun,
     azureVars
<1>1. pc[r] \in {"attachClean", "setLun", "vmRetry", "attachCheck", "staleLun"}
  BY DEF CleanAttachDiskRequests, Allocate, VMRetry, AttachCheckLun, StaleGetDiskLun
<1>2. op[r] = "publish" /\ node[r] \in Nodes
  BY <1>1, CallPoints DEF DetachPoints, DetachLocked, Ready, ArgumentsKnown
<1>3. SameLuns
  <2>1. UNCHANGED <<dataDisks, tbd>> \/ VMUpdateOk(node[r])
    BY DEF CleanAttachDiskRequests, Allocate, VMRetry, AttachCheckLun, StaleGetDiskLun,
       azureVars, vmVars
  <2> QED BY <1>2, <2>1, SameVMs, UpdateSame DEF Ready
<1>4. ASSUME NEW to \in {"setLun", "vmAttach", "attachCheck"}, Goto(r, to)
      PROVE  AbstractStep
  <2>1. Moves(r, to)
    BY <1>0, <1>1, <1>4, GotoMoves DEF PCs, Locked, AttachLocked
  <2> QED BY <1>0, <1>1, <1>3, <1>4, <2>1, WorkingIsStep
<1>5. ASSUME Goto(r, "err")
      PROVE  AbstractStep
  <2>1. Moves(r, "err")
    BY <1>0, <1>1, <1>5, GotoMoves DEF PCs
  <2> QED BY <1>0, <1>3, <2>1, FailsIsStep
<1>6. ASSUME Goto(r, "ok"), GetDiskLun(node[r], disk[r]) # NoLun,
             lun' = [lun EXCEPT ![r] = GetDiskLun(node[r], disk[r])]
      PROVE  AbstractStep
  <2>1. Moves(r, "ok")
    BY <1>0, <1>1, <1>6, GotoMoves DEF PCs
  <2>2. lun'[r] = GetDiskLun(node[r], disk[r])
    BY <1>6 DEF Ready, TypeOK, RequestTypeOK
  <2> QED BY <1>0, <1>1, <1>2, <1>3, <1>6, <2>1, <2>2, PublishedIsStep
<1>7. CASE CleanAttachDiskRequests(r)
  BY <1>4, <1>7 DEF CleanAttachDiskRequests
<1>8. CASE Allocate(r)
  BY <1>4, <1>5, <1>6, <1>8, ReturnsGoto DEF Allocate
<1>9. CASE VMRetry(r)
  BY <1>4, <1>5, <1>9, ReturnsGoto DEF VMRetry
<1>10. CASE AttachCheckLun(r)
  BY <1>5, <1>6, <1>10, ReturnsGoto DEF AttachCheckLun
<1>11. CASE StaleGetDiskLun(r)
  BY <1>5, <1>6, <1>11 DEF StaleGetDiskLun
<1> QED BY <1>7, <1>8, <1>9, <1>10, <1>11

\* vmset.AttachDisk of a batch: every disk of it is asked for.
LEMMA VMAttachSteps ==
    ASSUME NEW r, Ready(r), VMAttach(r)
    PROVE  AbstractStep
<1>0. Handler(r) /\ UNCHANGED reqVars /\ UNCHANGED <<exists, alive>> /\ pc[r] = "vmAttach"
  BY DEF Handler, VMAttach
<1>1. /\ r \in Reqs /\ op[r] = "publish" /\ node[r] \in Nodes /\ plan[r] \in LunMap
      /\ TypeOK /\ ArgumentsKnown
  BY <1>0, CallPoints DEF DetachPoints, DetachLocked, Ready, ArgumentsKnown, TypeOK, RequestTypeOK
<1>2. CASE VMAttachOk(node[r], plan[r]) /\ Goto(r, "attachCheck")
  <2>1. Moves(r, "attachCheck")
    BY <1>0, <1>2, GotoMoves DEF PCs, Locked, AttachLocked
  <2>2. Point(r) = "working" /\ Point(r)' = "working"
    BY <1>0, <2>1 DEF Point, Moves
  <2>3. ASSUME NEW d \in On(plan[r])
        PROVE  Abstract!Asked("publish", d, node[r])
    <3>1. PICK q \in Reqs : disk[q] = d /\ node[q] = node[r] /\ (q = r \/ pc[q] = "attachLock")
      BY <1>0, <1>1 DEF Ready, PlanFits, BatchOnBehalf
    <3>2. pc[q] # "idle" /\ Point(q) = "working"
      BY <1>0, <3>1 DEF Point
    <3>3. op[q] = "publish"
      <4>1. Ready(q)
        BY DEF Ready
      <4> QED BY <1>1, <3>1, <4>1, CallPoints DEF DetachPoints, DetachLocked
    <3> QED BY <1>1, <3>1, <3>2, <3>3, AskedFor
  <2>4. Abstract!Attach(node[r])
    BY <1>0, <1>1, <1>2, <2>1, <2>2, <2>3, AttachStep
  <2> QED BY <1>1, <2>4 DEF AbstractStep, Abstract!Next
<1>3. ASSUME VMAttachFails(node[r], plan[r]), NEW to \in {"err", "vmRetry"}, Goto(r, to)
      PROVE  AbstractStep
  <2>1. SameLuns
    BY <1>3, SameVMs DEF VMAttachFails
  <2>2. Moves(r, to)
    BY <1>0, <1>3, GotoMoves DEF PCs, Locked, AttachLocked
  <2>3. CASE to = "err"
    BY <1>0, <2>1, <2>2, <2>3, FailsIsStep
  <2>4. CASE to = "vmRetry"
    BY <1>0, <2>1, <2>2, <2>4, WorkingIsStep
  <2> QED BY <2>3, <2>4
<1> QED BY <1>2, <1>3, ReturnsGoto DEF VMAttach

\* UpdateVM changes nothing that is not on its way out.
LEMMA UpdateSteps ==
    ASSUME NEW r, Ready(r), UpdateVM(r)
    PROVE  AbstractStep
<1>0. /\ Handler(r) /\ UNCHANGED reqVars /\ UNCHANGED <<exists, alive, lun>>
      /\ pc[r] \in {"failedUpdate", "staleUpdate"}
  BY DEF Handler, UpdateVM, UpdateLocked, callVars
<1>1. node[r] \in Nodes
  BY <1>0 DEF Ready, ArgumentsKnown
<1>2. SameLuns
  <2>1. UNCHANGED <<dataDisks, tbd>> \/ VMUpdateOk(node[r])
    BY DEF UpdateVM, vmVars
  <2> QED BY <1>1, <2>1, SameVMs, UpdateSame DEF Ready
<1>3. CASE Goto(r, "err")
  <2>1. Moves(r, "err")
    BY <1>0, <1>3, GotoMoves DEF PCs
  <2> QED BY <1>0, <1>2, <2>1, FailsIsStep
<1>4. CASE pc[r] = "failedUpdate" /\ Goto(r, "ok")
  <2>1. Moves(r, "ok")
    BY <1>0, <1>4, GotoMoves DEF PCs
  <2>2. Point(r)' = Point(r)
    BY <1>4, <2>1 DEF Point, Moves
  <2> QED BY <1>0, <1>2, <2>1, <2>2, WorkingStep DEF Ready, SameLuns, AbstractStep
<1>5. CASE pc[r] = "staleUpdate" /\ Goto(r, "staleLun")
  <2>1. Moves(r, "staleLun")
    BY <1>0, <1>5, GotoMoves DEF PCs
  <2> QED BY <1>0, <1>2, <1>5, <2>1, WorkingIsStep
<1> QED BY <1>0, <1>3, <1>4, <1>5 DEF UpdateVM

\* DeleteVolume: no VM has the disk when it is deleted or gone.
LEMMA DeleteSteps ==
    ASSUME NEW r, Ready(r), DeleteGuard(r) \/ DeleteGetDisk(r) \/ DeleteDisk(r)
    PROVE  AbstractStep
<1>0. /\ Handler(r) /\ UNCHANGED reqVars /\ UNCHANGED <<alive, dataDisks, tbd>>
      /\ pc[r] \in {"delGuard", "delGet", "delCall"}
  BY DEF Handler, DeleteGuard, DeleteGetDisk, DeleteDisk, azureVars, vmVars
<1>1. r \in Reqs /\ disk[r] \in Disks /\ op[r] = "delete"
  BY <1>0, CallPoints DEF Ready, ArgumentsKnown, DetachPoints, DetachLocked
<1>2. SameLuns
  BY <1>0, SameVMs
<1>3. ASSUME Goto(r, "err"), exists' = exists
      PROVE  AbstractStep
  <2>1. Moves(r, "err")
    BY <1>0, <1>3, GotoMoves DEF PCs
  <2> QED BY <1>0, <1>2, <1>3, <2>1, FailsIsStep
<1>4. ASSUME NEW to \in {"delGet", "delCall"}, Goto(r, to), exists' = exists
      PROVE  AbstractStep
  <2>1. Moves(r, to)
    BY <1>0, <1>4, GotoMoves DEF PCs
  <2> QED BY <1>0, <1>2, <1>4, <2>1, WorkingIsStep
<1>5. ASSUME Goto(r, "ok"), exists' = exists \ {disk[r]},
             disk[r] \notin exists \/ ManagedBy(disk[r]) = {}
      PROVE  AbstractStep
  <2>1. Moves(r, "ok")
    BY <1>0, <1>5, GotoMoves DEF PCs
  <2>2. Point(r) = "working"
    BY <1>0 DEF Point
  <2>3. \A n \in Nodes : AbstractLun(n, disk[r]) = NoLun
    BY <1>1, <1>5 DEF Ready, AttachedExist, On, ManagedBy, AbstractLun
  <2>4. Abstract!Deleted(r)
    BY <1>0, <1>1, <1>2, <1>5, <2>1, <2>2, <2>3, DeletedStep DEF Ready, SameLuns
  <2> QED BY <1>1, <2>4 DEF AbstractStep, Abstract!Next
<1>6. CASE DeleteGuard(r)
  BY <1>3, <1>4, <1>6, ReturnsGoto DEF DeleteGuard, azureVars
<1>7. CASE DeleteGetDisk(r)
  BY <1>3, <1>4, <1>5, <1>7, ReturnsGoto DEF DeleteGetDisk, azureVars
<1>8. CASE DeleteDisk(r)
  BY <1>3, <1>5, <1>8, ReturnsGoto DEF DeleteDisk
<1> QED BY <1>6, <1>7, <1>8

\* Where a handler in DetachDisk stands.
Detaching(r) ==
    /\ Handler(r) /\ UNCHANGED reqVars /\ UNCHANGED <<exists, alive>>
    /\ pc[r] \in DetachPoints

\* It fails, goes on, or finds its VM or its disk gone.
LEMMA DetachEnds ==
    ASSUME NEW r, Ready(r), Detaching(r), SameLuns
    PROVE  /\ Goto(r, "err") => AbstractStep
           /\ \A to \in {"detachLock", "detachClean", "vmDetach", "vmForce", "detachCheck",
                         "reattach"} : Goto(r, to) => AbstractStep
           /\ At(r) \notin alive \/ GetDiskLun(At(r), disk[r]) = NoLun =>
                 (Goto(r, AfterDetach(r)) => AbstractStep)
           /\ \A to \in DetachError(r) : Goto(r, to) => AbstractStep
<1>0. /\ Handler(r) /\ UNCHANGED reqVars /\ UNCHANGED <<exists, alive>>
      /\ pc[r] \in {"detach", "detachLock", "detachClean", "vmDetach", "vmForce", "detachCheck"}
  BY DEF Detaching, DetachPoints, DetachLocked
<1>1. r \in Reqs /\ disk[r] \in Disks /\ node[r] \in Nodes /\ op[r] \in {"publish", "unpublish"}
  BY <1>0, CallPoints DEF Ready, ArgumentsKnown, DetachPoints, DetachLocked
<1>2. Goto(r, "err") => AbstractStep
  <2> SUFFICES ASSUME Goto(r, "err") PROVE AbstractStep
    OBVIOUS
  <2>1. Moves(r, "err")
    BY <1>0, GotoMoves DEF PCs
  <2> QED BY <1>0, <2>1, FailsIsStep
<1>3. ASSUME NEW to \in {"detachLock", "detachClean", "vmDetach", "vmForce", "detachCheck",
                         "reattach"}, Goto(r, to)
      PROVE  AbstractStep
  <2>1. Moves(r, to)
    BY <1>0, <1>3, GotoMoves DEF PCs, DetachPoints, DetachLocked
  <2> QED BY <1>0, <1>3, <2>1, WorkingIsStep
<1>4. ASSUME op[r] = "unpublish", At(r) \notin alive \/ GetDiskLun(At(r), disk[r]) = NoLun,
             Goto(r, "ok")
      PROVE  AbstractStep
  <2>1. Moves(r, "ok")
    BY <1>0, <1>4, GotoMoves DEF PCs
  <2>2. Point(r) = "working" /\ At(r) = node[r]
    BY <1>0, <1>4 DEF Point, At
  <2>3. node[r] \in alive => AbstractLun(node[r], disk[r]) = NoLun
    BY <1>1, <1>4, <2>2 DEF Ready, CacheComplete, GetDiskLun, ReadDisks, ReadTbd, AbstractLun
  <2>4. Abstract!Unpublished(r)
    BY <1>0, <1>1, <1>4, <2>1, <2>2, <2>3, UnpublishedStep DEF Ready, SameLuns
  <2> QED BY <1>1, <2>4 DEF AbstractStep, Abstract!Next
<1>5. At(r) \notin alive \/ GetDiskLun(At(r), disk[r]) = NoLun =>
         (Goto(r, AfterDetach(r)) => AbstractStep)
  BY <1>1, <1>3, <1>4 DEF AfterDetach
<1>6. \A to \in DetachError(r) : Goto(r, to) => AbstractStep
  BY <1>2, <1>4 DEF DetachError
<1> QED BY <1>2, <1>3, <1>5, <1>6

\* DetachDisk but for the VM updates.
LEMMA DetachSteps ==
    ASSUME NEW r, Ready(r), DetachDisk(r) \/ CleanDetachDiskRequests(r) \/ DetachCheckLun(r)
    PROVE  AbstractStep
<1>1. Detaching(r)
  BY DEF Detaching, Handler, DetachDisk, CleanDetachDiskRequests, DetachCheckLun, azureVars,
     DetachPoints, DetachLocked
<1>2. SameLuns
  BY SameVMs DEF DetachDisk, CleanDetachDiskRequests, DetachCheckLun, azureVars, vmVars
<1>3. CASE DetachDisk(r)
  BY <1>1, <1>2, <1>3, DetachEnds DEF DetachDisk
<1>4. CASE CleanDetachDiskRequests(r)
  BY <1>1, <1>2, <1>4, DetachEnds DEF CleanDetachDiskRequests
<1>5. CASE DetachCheckLun(r)
  BY <1>1, <1>2, <1>5, DetachEnds, ReturnsGoto DEF DetachCheckLun
<1> QED BY <1>3, <1>4, <1>5

\* A VM update that detaches a batch, carried out or accepted: every disk of it is
\* asked away.
LEMMA BatchLeaves ==
    ASSUME NEW r, Ready(r), Detaching(r), pc[r] \in {"vmDetach", "vmForce"},
           \/ VMDetachOk(At(r), batch[r])
           \/ VMDetachFails(At(r), batch[r]) /\ ~UNCHANGED <<tbd, pend>>,
           NEW to \in {"err", "vmForce", "detachCheck"}, Goto(r, to)
    PROVE  AbstractStep
<1>1. /\ r \in Reqs /\ At(r) \in Nodes /\ batch[r] \in SUBSET Disks /\ TypeOK /\ TypeOK'
      /\ ArgumentsKnown
  BY DEF Ready, ArgumentsKnown, TypeOK, RequestTypeOK
<1>2. Moves(r, to)
  BY GotoMoves DEF PCs, Locked, DetachLocked, Detaching
<1>3. Point(r) = "working" /\ (to = "err" \/ Point(r)' = "working")
  BY <1>2 DEF Point, Moves
<1>4. Leaves(At(r), batch[r])
  BY <1>1, DetachLeaves
<1>5. ASSUME NEW d \in batch[r]
      PROVE  Abstract!AskedAway(d, At(r))
  <2>1. PICK q \in Reqs : disk[q] = d /\ At(q) = At(r) /\ (q = r \/ pc[q] = "detachLock")
    BY <1>1 DEF Ready, BatchOnBehalf
  <2>2. pc[q] \in DetachPoints /\ pc[q] # "idle" /\ Point(q) = "working"
    BY <2>1 DEF Point, DetachPoints, DetachLocked
  <2>3. Ready(q)
    BY DEF Ready
  <2>4. op[q] \in {"publish", "unpublish"} /\ node[q] \in Nodes
    BY <2>2, <2>3, CallPoints DEF Ready, ArgumentsKnown, DetachPoints, DetachLocked
  <2>5. CASE op[q] = "unpublish"
    <3>1. node[q] = At(r)
      BY <2>1, <2>5 DEF At
    <3>2. Abstract!Asked("unpublish", d, At(r))
      BY <1>1, <2>1, <2>2, <2>5, <3>1, AskedFor
    <3> QED BY <3>2 DEF Abstract!AskedAway
  <2>6. CASE op[q] = "publish"
    <3>1. node[q] \in Nodes \ {At(r)}
      BY <2>1, <2>2, <2>4, <2>6 DEF At, Ready, DanglingElsewhere
    <3>2. Abstract!Asked("publish", d, node[q])
      BY <1>1, <2>1, <2>2, <2>6, AskedFor
    <3> QED BY <3>1, <3>2 DEF Abstract!AskedAway
  <2> QED BY <2>4, <2>5, <2>6
<1>6. Abstract!Detach(At(r))
  BY <1>1, <1>2, <1>3, <1>4, <1>5, DetachStep DEF Detaching
<1> QED BY <1>1, <1>6 DEF AbstractStep, Abstract!Next

\* vmset.DetachDisk of a batch, without and with force.
LEMMA VMDetachSteps ==
    ASSUME NEW r, Ready(r), VMDetach(r) \/ VMForceDetach(r)
    PROVE  AbstractStep
<1>1. Detaching(r) /\ pc[r] \in {"vmDetach", "vmForce"}
  BY DEF Detaching, Handler, VMDetach, VMForceDetach, DetachPoints, DetachLocked
<1>2. CASE VMDetachOk(At(r), batch[r]) /\ Goto(r, "detachCheck")
  BY <1>1, <1>2, BatchLeaves
<1>3. CASE At(r) \notin alive /\ Goto(r, AfterDetach(r)) /\ UNCHANGED vmVars
  <2>1. SameLuns
    BY <1>3, SameVMs DEF vmVars
  <2> QED BY <1>1, <1>3, <2>1, DetachEnds
<1>4. ASSUME VMDetachFails(At(r), batch[r]), NEW to \in DetachError(r) \cup {"vmForce"}, Goto(r, to)
      PROVE  AbstractStep
  <2>1. CASE UNCHANGED <<tbd, pend>>
    <3>1. SameLuns
      BY <1>4, <2>1, SameVMs DEF VMDetachFails
    <3> QED BY <1>1, <1>4, <3>1, DetachEnds
  <2>2. CASE ~UNCHANGED <<tbd, pend>>
    <3>1. At(r) \in alive /\ to \in {"err", "vmForce"}
      BY <1>4, <2>2 DEF VMDetachFails, DetachError
    <3> QED BY <1>1, <1>4, <2>2, <3>1, BatchLeaves
  <2> QED BY <2>1, <2>2
<1> QED BY <1>2, <1>3, <1>4, ReturnsGoto DEF VMDetach, VMForceDetach

\* The sidecar gets an answer.
LEMMA ReplySteps ==
    ASSUME NEW r, Ready(r), Reply(r)
    PROVE  AbstractStep
<1> DEFINE call == [q \in Reqs |-> AbstractCall(q)]
<1>1. /\ r \in Reqs /\ TypeOK /\ ArgumentsKnown /\ pc[r] \in {"ok", "err"} /\ pc'[r] = "idle"
      /\ UNCHANGED <<exists, alive, dataDisks, tbd>> /\ Handler(r)
  BY DEF Ready, Reply, Goto, azureVars, vmVars, TypeOK, RequestTypeOK, Handler
<1>2. SameLuns
  BY <1>1, SameVMs
<1>3. AbstractCall(r) # NoReq /\ AbstractCall(r).st # "working"
  <2>1. Point(r) # "working"
    BY <1>1 DEF Point
  <2> QED BY <1>1, <2>1, CallShown
<1>4. AbstractCall(r)' = NoReq
  BY <1>1 DEF AbstractCall
<1>5. \A q \in Reqs : q # r => AbstractCall(q)' = AbstractCall(q)
  BY <1>1, OthersKeepCall DEF AbstractCall, Point
<1>6. call' = [call EXCEPT ![r] = NoReq]
  BY <1>4, <1>5
<1>7. Abstract!Answers(r)
  BY <1>1, <1>2, <1>3, <1>6 DEF Abstract!Answers, SameLuns
<1> QED BY <1>1, <1>7 DEF AbstractStep, Abstract!Next

\* A sidecar calls; DeleteVolume fails at once if the volume is locked.
LEMMA CallSteps ==
    ASSUME NEW r, Ready(r), NEW o \in Ops, NEW d \in Disks, NEW n \in Nodes, Call(r, o, d, n)
    PROVE  AbstractStep
<1> DEFINE call == [q \in Reqs |-> AbstractCall(q)]
<1>1. /\ r \in Reqs /\ pc[r] = "idle"
      /\ pc'[r] \in {"checkDisk", "detach", "err", "delGuard"}
      /\ op'[r] = o /\ disk'[r] = d /\ node'[r] = n
      /\ UNCHANGED <<exists, alive, dataDisks, tbd, lun>>
  BY DEF Ready, Call, Goto, azureVars, vmVars, callVars, TypeOK, RequestTypeOK
<1>2. SameLuns
  BY <1>1, SameVMs
<1>3. \A q \in Reqs : q # r =>
         pc'[q] = pc[q] /\ op'[q] = op[q] /\ disk'[q] = disk[q] /\ node'[q] = node[q]
  BY DEF Ready, Call, Goto, TypeOK, RequestTypeOK
<1>4. \A q \in Reqs : q # r => AbstractCall(q)' = AbstractCall(q)
  BY <1>1, <1>3 DEF AbstractCall, Point
<1>5. AbstractCall(r) = NoReq
  BY <1>1 DEF AbstractCall
<1>6. PICK s \in {"working", "failed"} : Point(r)' = s
  BY <1>1 DEF Point
<1>7. AbstractCall(r)' = [op |-> o, disk |-> d, node |-> n, st |-> s, lun |-> NoLun]
  BY <1>1, <1>6 DEF AbstractCall
<1>8. call' = [call EXCEPT ![r] = [op |-> o, disk |-> d, node |-> n, st |-> s, lun |-> NoLun]]
  BY <1>4, <1>7
<1>9. Abstract!Begin(r, o, d, n)
  <2>1. call[r] = NoReq
    BY <1>1, <1>5
  <2>2. UNCHANGED <<[m \in Nodes |-> [e \in Disks |-> AbstractLun(m, e)]], exists, alive>>
    BY <1>1, <1>2 DEF SameLuns
  <2>3. \E st \in {"working", "failed"} :
           call' = [call EXCEPT ![r] = [op |-> o, disk |-> d, node |-> n, st |-> st, lun |-> NoLun]]
    BY <1>6, <1>8, Zenon
  <2> HIDE DEF call
  <2> QED BY <2>1, <2>2, <2>3, Zenon DEF Abstract!Begin, call
<1>10. o \in {"publish", "unpublish", "delete"}
  BY RequestAssumption
<1> QED BY <1>1, <1>9, <1>10 DEF AbstractStep, Abstract!Next

\* The plugin restarts.
LEMMA RestartSteps ==
    ASSUME Restart
    PROVE  AbstractStep
<1>1. UNCHANGED <<exists, alive, dataDisks, tbd>> /\ \A r \in Reqs : pc'[r] = "idle"
  BY DEF Restart, vmVars
<1>2. SameLuns
  BY <1>1, SameVMs
<1>3. \A r \in Reqs : AbstractCall(r)' = NoReq
  BY <1>1 DEF AbstractCall
<1>4. Abstract!PluginRestarts
  BY <1>1, <1>2, <1>3 DEF Abstract!PluginRestarts, SameLuns
<1> QED BY <1>4 DEF AbstractStep, Abstract!Next

\* Azure acts: a VM goes, or nothing that VolumeAttach sees happens.
LEMMA AzureSteps ==
    ASSUME TypeOK, CacheComplete, AzureActs
    PROVE  AbstractStep
<1>1. UNCHANGED <<pc, op, disk, node, lun>>
  BY DEF AzureActs, reqVars, callVars
<1>2. \A r \in Reqs : AbstractCall(r)' = AbstractCall(r)
  BY <1>1 DEF AbstractCall, Point
<1>3. PICK n \in Nodes :
         CacheExpires(n) \/ LateAttachLands(n) \/ LateDetachLands(n) \/ NodeDeleted(n)
  BY DEF AzureActs, AzureStep
<1>4. ~LateAttachLands(n)
  BY DEF LateAttachLands, CacheComplete
<1>5. CASE CacheExpires(n) \/ LateDetachLands(n)
  <2>1. SameLuns
    BY <1>5, SameVMs, UpdateSame DEF CacheExpires
  <2>2. UNCHANGED <<exists, alive>>
    BY <1>5 DEF CacheExpires, LateDetachLands
  <2> QED BY <1>2, <2>1, <2>2, StutterStep DEF AbstractStep, SameLuns
<1>6. CASE NodeDeleted(n)
  <2>1. /\ dataDisks \in [Nodes -> LunMap] /\ tbd \in [Nodes -> SUBSET Disks]
        /\ exists' = exists /\ alive' = alive \ {n}
        /\ dataDisks' = [dataDisks EXCEPT ![n] = NoLuns] /\ tbd' = [tbd EXCEPT ![n] = {}]
    BY <1>6 DEF NodeDeleted, TypeOK, AzureTypeOK
  <2>2. \A m \in Nodes, d \in Disks :
           AbstractLun(m, d)' = IF m = n THEN NoLun ELSE AbstractLun(m, d)
    BY <2>1 DEF AbstractLun, NoLuns
  <2>3. Abstract!VMGone(n)
    BY <1>2, <2>1, <2>2 DEF Abstract!VMGone
  <2> QED BY <2>3 DEF AbstractStep, Abstract!Next
<1> QED BY <1>3, <1>4, <1>5, <1>6

\* Nothing is attached and no call runs at first.
LEMMA RefinementInitially == Init => Abstract!Init
<1> SUFFICES ASSUME Init PROVE Abstract!Init
  OBVIOUS
<1>1. \A r \in Reqs : AbstractCall(r) = NoReq
  BY DEF Init, AbstractCall
<1>2. \A n \in Nodes, d \in Disks : AbstractLun(n, d) = NoLun
  BY DEF Init, AzureInit, AbstractLun, NoLuns
<1>3. exists = Disks /\ alive = Nodes
  BY DEF Init, AzureInit
<1> QED BY <1>1, <1>2, <1>3 DEF Abstract!Init

\* Every step of either driver is a step of VolumeAttach or none.
LEMMA RefinementStep ==
    ASSUME ~LateAttach, RefInv, RefInv', [NextEither]_vars
    PROVE  AbstractStep
<1>1. /\ TypeOK /\ TypeOK' /\ ArgumentsKnown /\ CacheComplete
      /\ \A r \in Reqs : Ready(r)
  BY DEF RefInv, IInvPrompt, IInv, ControlInv, Ready
<1>2. ASSUME NEW r \in Reqs, Handler(r)
      PROVE  AbstractStep
  BY <1>1, <1>2, PublishSteps, AttachSteps, VMAttachSteps, UpdateSteps, DetachSteps,
     VMDetachSteps, DeleteSteps, ReplySteps DEF Handler
<1>3. ASSUME NEW r \in Reqs, LockEntry(r) \/ PublishUnreadVM(r)
      PROVE  AbstractStep
  BY <1>1, <1>3, LockSteps, PublishSteps
<1>4. ASSUME NEW r \in Reqs, NEW o \in Ops, NEW d \in Disks, NEW n \in Nodes, Call(r, o, d, n)
      PROVE  AbstractStep
  BY <1>1, <1>4, CallSteps
<1>5. CASE Restart \/ AzureActs
  BY <1>1, <1>5, RestartSteps, AzureSteps
<1>6. CASE UNCHANGED vars
  <2>1. UNCHANGED <<pc, op, disk, node, lun, exists, alive, dataDisks, tbd>>
    BY <1>6 DEF vars, reqVars, callVars, azureVars, vmVars
  <2>2. SameLuns
    BY <2>1, SameVMs
  <2>3. \A r \in Reqs : AbstractCall(r)' = AbstractCall(r)
    BY <2>1 DEF AbstractCall, Point
  <2> QED BY <2>1, <2>2, <2>3, StutterStep DEF AbstractStep, SameLuns
<1> QED BY <1>2, <1>3, <1>4, <1>5, <1>6 DEF NextEither, Next

\* DiskAttach implements VolumeAttach with either driver, for any numbers of disks,
\* nodes, LUNs and handlers, if no attach lands after it was reported failed:
\* queues, batches, node locks, the VM cache, retries, restarts and VMs that go
\* never make an answer of the plugin untrue at every moment of its call, and no
\* disk is attached, detached or deleted that no running call asks for.
THEOREM Refinement == ASSUME ~LateAttach PROVE SpecEither => ImplementsVolumeAttach
<1>1. RefInv /\ RefInv' /\ [NextEither]_vars => [Abstract!Next]_(Abstract!vars)
  BY RefinementStep DEF AbstractStep
<1> QED BY <1>1, RefinementInitially, RefinementInvariant, PTL
        DEF SpecEither, ImplementsVolumeAttach, Abstract!Spec
=============================================================================
