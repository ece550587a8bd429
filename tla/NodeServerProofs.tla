-------------------------- MODULE NodeServerProofs --------------------------
(* The node plugin keeps its promises for any number of volumes and of       *)
(* handlers, of either driver, with restarts of the plugin, calls the        *)
(* kubelet gives up on, and staged file systems that go bad.                 *)
EXTENDS NodeServer, SequenceTheorems, FiniteSetTheorems, TLAPS

\* Where a handler holds the volume's entry of volumeLocks.
Held == LockedPoints \cup (IF v2 THEN PublishPoints ELSE {})

\* A handler that runs has a volume, and is at a point of its own call.
Calls == \A r \in Reqs :
    /\ pc[r] # "idle" => vol[r] \in Vols
    /\ pc[r] = "start" => op[r] \in {"stage", "unstage"} \cup (IF v2 THEN {"publish"} ELSE {})
    /\ pc[r] \in StagePoints => op[r] = "stage"
    /\ pc[r] \in UnstagePoints => op[r] = "unstage"
    /\ pc[r] \in PublishPoints => op[r] = "publish"
    /\ pc[r] \in UnpublishPoints => op[r] = "unpublish"
    /\ pc[r] = "open" => ~v2
    /\ pc[r] = "close" => ~v2
    /\ pc[r] \in {"pubLock", "pubLocked"} => v2

\* The entries of volumeLocks are those of the handlers that run under them, and
\* there is one such handler for an entry.
LockInv ==
    /\ \A r, q \in Reqs :
          pc[r] \in Held /\ pc[q] \in Held /\ vol[r] = vol[q] => r = q
    /\ \A v \in Vols : v \in volumeLocks <=> \E r \in Reqs : pc[r] \in Held /\ vol[r] = v

Mounted(v) == staging[v] \in {"mounted", "corrupt"}

\* What a handler between two steps relies on, and what the kernel's state obeys.
KernelInv ==
    /\ \A v \in Vols : v \notin targetDir => target[v] = <<>>
    /\ v2 => mapped = {}
    /\ MountedIsOpen
    /\ \A r \in Reqs :
          /\ pc[r] \in {"format", "resize"} => v2 \/ vol[r] \in mapped
          /\ pc[r] = "resize" => Mounted(vol[r])
          /\ pc[r] = "close" => staging[vol[r]] = "absent"

\* While the kubelet has waited for every answer: one handler runs for a volume,
\* what the kubelet knows fits it, a volume known to be staged is, and no target
\* path shows an empty directory.
Readable(v) == v \in block \/ Mounted(v)
PatientInv == ~gaveUp =>
    /\ \A r, q \in Reqs : pc[r] # "idle" /\ pc[q] # "idle" /\ vol[r] = vol[q] => r = q
    /\ \A r \in Reqs : pc[r] # "idle" =>
          /\ r \in awaited
          /\ op[r] \in {"stage", "unstage"} => staged[vol[r]] = "maybe"
          /\ op[r] = "publish" => staged[vol[r]] = "yes"
          /\ op[r] = "stage" /\ pc[r] = "ok" => Readable(vol[r])
          /\ pc[r] \in {"pubLock", "pubLocked"} => target[vol[r]] = <<>>
    /\ \A v \in Vols :
          /\ staged[v] = "yes" => Readable(v)
          /\ \A i \in 1..Len(target[v]) : target[v][i] # "empty"

\* The inductive invariant.
IInv == TypeOK /\ Calls /\ LockInv /\ KernelInv /\ PatientInv

-----------------------------------------------------------------------------
(* How a handler moves.                                                      *)

\* The handler goes to a point and leaves the calls and the kubelet alone.
Step(r, to) ==
    /\ pc' = [pc EXCEPT ![r] = to]
    /\ UNCHANGED <<v2, op, vol, awaited, staged, published, block, gaveUp>>

\* It keeps its entry of volumeLocks, or the lack of one, takes it or lets it go.
KeepsLock(r, to) == volumeLocks' = volumeLocks /\ (pc[r] \in Held <=> to \in Held)
TakesLock(r, to) ==
    /\ vol[r] \notin volumeLocks /\ volumeLocks' = volumeLocks \cup {vol[r]}
    /\ pc[r] \notin Held /\ to \in Held
DropsLock(r, to) ==
    volumeLocks' = volumeLocks \ {vol[r]} /\ pc[r] \in Held /\ to \notin Held
Locks(r, to) == KeepsLock(r, to) \/ TakesLock(r, to) \/ DropsLock(r, to)

\* A point of the handler's own call.
OwnPoint(r, to) ==
    /\ to # "idle" /\ to # "start"
    /\ to \in StagePoints => op[r] = "stage"
    /\ to \in UnstagePoints => op[r] = "unstage"
    /\ to \in PublishPoints => op[r] = "publish"
    /\ to \in UnpublishPoints => op[r] = "unpublish"
    /\ to \in {"open", "close"} => ~v2
    /\ to \in {"pubLock", "pubLocked"} => v2

Moves(r, to) == /\ to \in PCs /\ pc[r] # "idle"
                /\ Step(r, to) /\ Locks(r, to) /\ OwnPoint(r, to)

\* The steps of a handler, its answer left out.
Acts(r) ==
    \/ TryAcquire(r)
    \/ GetDevicePathWithLUN(r) \/ GetDevicePathWithLUNV2(r)
    \/ StageEnsureMountPoint(r) \/ OpenCryptDevice(r)
    \/ FormatAndMount(r) \/ StageResize(r)
    \/ UnstageUnmount(r) \/ UnstageRemove(r) \/ CloseCryptDevice(r)
    \/ PublishEnsureMountPoint(r) \/ PublishMount(r)
    \/ UnpublishUnmount(r) \/ UnpublishRemove(r) \/ UnpublishLock(r)

\* The points, spelled out.
LEMMA Points ==
    /\ StagePoints \subseteq Held /\ UnstagePoints \subseteq Held /\ "pubLocked" \in Held
    /\ v2 => PublishPoints \subseteq Held
    /\ ~v2 => PublishPoints \cap Held = {}
    /\ {"idle", "start", "ok", "err", "pubUnmount", "pubRemove", "pubLock"} \cap Held = {}
    /\ Held \subseteq PCs
    /\ {"idle", "start", "ok", "err"} \cap
          (StagePoints \cup UnstagePoints \cup PublishPoints \cup UnpublishPoints) = {}
  BY DEF Held, LockedPoints, PCs, StagePoints, UnstagePoints, PublishPoints, UnpublishPoints

\* A handler that returns from under the lock lets it go.
LEMMA ReturnsMoves ==
    ASSUME NEW r \in Reqs, NEW to \in {"ok", "err"}, pc[r] \in Held, Returns(r, to),
           UNCHANGED <<op, vol, kubeletVars>>
    PROVE  Moves(r, to)
<1>1. Step(r, to)
  BY DEF Returns, Goto, Step, kubeletVars
<1>2. DropsLock(r, to)
  BY Points DEF Returns, DropsLock
<1>3. OwnPoint(r, to) /\ to \in PCs /\ pc[r] # "idle"
  BY Points DEF OwnPoint, PCs, StagePoints, UnstagePoints, PublishPoints, UnpublishPoints
<1>4. QED
  BY <1>1, <1>2, <1>3 DEF Moves, Locks

\* A handler that goes on to a point of its call keeps the lock it has.
LEMMA ContinuesMoves ==
    ASSUME NEW r \in Reqs, NEW to \in PCs, pc[r] # "idle", pc[r] \in Held <=> to \in Held,
           OwnPoint(r, to), Continues(r, to), UNCHANGED <<op, vol, kubeletVars>>
    PROVE  Moves(r, to)
  BY DEF Continues, Goto, Step, kubeletVars, Moves, Locks, KeepsLock

\* NodePublishVolume answers, with the lock or without.
LEMMA PublishReturnsMoves ==
    ASSUME NEW r \in Reqs, NEW to \in {"ok", "err"}, pc[r] \in PublishPoints,
           PublishReturns(r, to), UNCHANGED <<op, vol, kubeletVars>>
    PROVE  Moves(r, to)
<1>1. CASE v2
  <2>1. pc[r] \in Held
    BY <1>1, Points
  <2>2. QED
    BY <1>1, <2>1, ReturnsMoves DEF PublishReturns
<1>2. CASE ~v2
  <2>1. pc[r] \notin Held /\ to \notin Held /\ to \in PCs /\ pc[r] # "idle"
    BY <1>2, Points DEF PCs, PublishPoints
  <2>2. OwnPoint(r, to)
    BY Points DEF OwnPoint, StagePoints, UnstagePoints, PublishPoints, UnpublishPoints
  <2>3. QED
    BY <1>2, <2>1, <2>2, ContinuesMoves DEF PublishReturns
<1>3. QED
  BY <1>1, <1>2

\* Every step of a handler moves it so.
LEMMA ActsMoves ==
    ASSUME TypeOK, Calls, NEW r \in Reqs, Acts(r)
    PROVE  \E to \in PCs : Moves(r, to)
<1>c. /\ pc[r] = "start" =>
            op[r] \in {"stage", "unstage"} \cup (IF v2 THEN {"publish"} ELSE {})
      /\ pc[r] \in StagePoints => op[r] = "stage"
      /\ pc[r] \in UnstagePoints => op[r] = "unstage"
      /\ pc[r] \in PublishPoints => op[r] = "publish"
      /\ pc[r] \in UnpublishPoints => op[r] = "unpublish"
      /\ pc[r] \in {"open", "close"} => ~v2
      /\ pc[r] \in {"pubLock", "pubLocked"} => v2
  BY DEF Calls
<1>e. "ok" \in PCs /\ "err" \in PCs
  BY DEF PCs
<1>1. CASE TryAcquire(r)
  <2>1. pc[r] = "start" /\ pc[r] \notin Held /\ UNCHANGED <<op, vol, kubeletVars>>
    BY <1>1, Points DEF TryAcquire
  <2>2. CASE Acquired(vol[r])
    <3>1. Continues(r, "err")
      BY <1>1, <2>2 DEF TryAcquire, Continues
    <3>2. OwnPoint(r, "err") /\ "err" \notin Held
      BY Points DEF OwnPoint, StagePoints, UnstagePoints, PublishPoints, UnpublishPoints
    <3>3. QED
      BY <1>e, <2>1, <3>1, <3>2, ContinuesMoves
  <2>3. CASE ~Acquired(vol[r])
    <3> DEFINE to == FirstStep(op[r])
    <3>1. Goto(r, to) /\ volumeLocks' = volumeLocks \cup {vol[r]} /\ vol[r] \notin volumeLocks
      BY <1>1, <2>3 DEF TryAcquire, Acquired
    <3>2. \/ op[r] = "stage" /\ to = "device"
          \/ op[r] = "unstage" /\ to = "unmount"
          \/ v2 /\ op[r] = "publish" /\ to = "pubMountPoint"
      BY <1>c, <2>1 DEF FirstStep
    <3> HIDE DEF to
    <3>3. to \in Held /\ to \in PCs
      BY <3>2, Points DEF StagePoints, UnstagePoints, PublishPoints
    <3>4. OwnPoint(r, to)
      BY <3>2 DEF OwnPoint, StagePoints, UnstagePoints, PublishPoints, UnpublishPoints
    <3>5. TakesLock(r, to) /\ Step(r, to)
      BY <2>1, <3>1, <3>3 DEF TakesLock, Step, Goto, kubeletVars
    <3>6. QED
      BY <2>1, <3>3, <3>4, <3>5 DEF Moves, Locks
  <2>4. QED
    BY <2>2, <2>3
<1>2. ASSUME NEW to \in StagePoints, pc[r] \in StagePoints, Continues(r, to),
             to = "open" => ~v2, UNCHANGED <<op, vol, kubeletVars>>
      PROVE  \E s \in PCs : Moves(r, s)
  <2>1. to \in Held /\ pc[r] \in Held /\ to \in PCs /\ pc[r] # "idle"
    BY <1>2, Points DEF StagePoints
  <2>2. OwnPoint(r, to)
    BY <1>2, <1>c DEF OwnPoint, StagePoints, UnstagePoints, PublishPoints, UnpublishPoints
  <2>3. QED
    BY <1>2, <2>1, <2>2, ContinuesMoves
<1>3. ASSUME NEW to \in UnstagePoints, pc[r] \in UnstagePoints, Continues(r, to),
             to = "close" => ~v2, UNCHANGED <<op, vol, kubeletVars>>
      PROVE  \E s \in PCs : Moves(r, s)
  <2>1. to \in Held /\ pc[r] \in Held /\ to \in PCs /\ pc[r] # "idle"
    BY <1>3, Points DEF UnstagePoints
  <2>2. OwnPoint(r, to)
    BY <1>3, <1>c DEF OwnPoint, StagePoints, UnstagePoints, PublishPoints, UnpublishPoints
  <2>3. QED
    BY <1>3, <2>1, <2>2, ContinuesMoves
<1>4. ASSUME NEW to \in {"ok", "err"}, pc[r] \in StagePoints \cup UnstagePoints,
             Returns(r, to), UNCHANGED <<op, vol, kubeletVars>>
      PROVE  \E s \in PCs : Moves(r, s)
  BY <1>4, <1>e, Points, ReturnsMoves
<1>5. CASE \/ GetDevicePathWithLUN(r) \/ GetDevicePathWithLUNV2(r)
           \/ StageEnsureMountPoint(r) \/ OpenCryptDevice(r)
           \/ FormatAndMount(r) \/ StageResize(r)
  <2>1. pc[r] \in StagePoints /\ UNCHANGED <<op, vol, kubeletVars>>
    BY <1>5 DEF GetDevicePathWithLUN, GetDevicePathWithLUNV2, StageEnsureMountPoint,
         OpenCryptDevice, FormatAndMount, StageResize, StagePoints
  <2>2. \/ Returns(r, "ok") \/ Returns(r, "err")
        \/ Continues(r, "mountPoint") \/ Continues(r, AfterMountPoint)
        \/ Continues(r, "format") \/ Continues(r, "resize")
    BY <1>5 DEF GetDevicePathWithLUN, GetDevicePathWithLUNV2, StageEnsureMountPoint,
         OpenCryptDevice, FormatAndMount, StageResize
  <2>3. AfterMountPoint \in StagePoints /\ (AfterMountPoint = "open" => ~v2)
    BY DEF AfterMountPoint, StagePoints
  <2>4. {"mountPoint", "format", "resize"} \subseteq StagePoints
    BY DEF StagePoints
  <2>5. QED
    BY <1>2, <1>4, <2>1, <2>2, <2>3, <2>4
<1>6. CASE UnstageUnmount(r) \/ UnstageRemove(r) \/ CloseCryptDevice(r)
  <2>1. pc[r] \in UnstagePoints /\ UNCHANGED <<op, vol, kubeletVars>>
    BY <1>6 DEF UnstageUnmount, UnstageRemove, CloseCryptDevice, UnstagePoints
  <2>2. \/ Returns(r, "ok") \/ Returns(r, "err") \/ Continues(r, "remove")
        \/ ~v2 /\ Continues(r, "close")
    BY <1>6 DEF UnstageUnmount, UnstageRemove, CloseCryptDevice, Cleaned
  <2>3. {"remove", "close"} \subseteq UnstagePoints
    BY DEF UnstagePoints
  <2>4. QED
    BY <1>3, <1>4, <2>1, <2>2, <2>3
<1>7. CASE PublishEnsureMountPoint(r) \/ PublishMount(r)
  <2>1. pc[r] \in PublishPoints /\ UNCHANGED <<op, vol, kubeletVars>>
    BY <1>7 DEF PublishEnsureMountPoint, PublishMount, PublishPoints
  <2>2. \/ PublishReturns(r, "ok") \/ PublishReturns(r, "err")
        \/ pc[r] = "pubMountPoint" /\ Continues(r, "pubMount")
    BY <1>7 DEF PublishEnsureMountPoint, PublishMount
  <2>3. /\ OwnPoint(r, "pubMount") /\ "pubMount" \in PCs /\ pc[r] # "idle"
        /\ pc[r] \in Held <=> "pubMount" \in Held
    BY <1>c, <2>1, Points DEF OwnPoint, PCs, StagePoints, UnstagePoints, PublishPoints,
         UnpublishPoints
  <2>4. QED
    BY <1>e, <2>1, <2>2, <2>3, PublishReturnsMoves, ContinuesMoves
<1>8. CASE UnpublishUnmount(r) \/ UnpublishRemove(r) \/ UnpublishLock(r)
  <2>1. /\ pc[r] \in UnpublishPoints /\ pc[r] # "idle" /\ op[r] = "unpublish"
        /\ UNCHANGED <<op, vol, kubeletVars>>
    BY <1>8, <1>c DEF UnpublishUnmount, UnpublishRemove, UnpublishLock, UnpublishPoints
  <2>2. ASSUME NEW to \in {"pubRemove", "pubLock", "ok", "err"},
               Continues(r, to), pc[r] # "pubLocked", to = "pubLock" => v2
        PROVE  \E s \in PCs : Moves(r, s)
    <3>1. pc[r] \notin Held /\ to \notin Held /\ to \in PCs
      BY <2>1, <2>2, Points DEF PCs, UnpublishPoints
    <3>2. OwnPoint(r, to)
      BY <2>1, <2>2 DEF OwnPoint, StagePoints, UnstagePoints, PublishPoints, UnpublishPoints
    <3>3. QED
      BY <2>1, <2>2, <3>1, <3>2, ContinuesMoves
  <2>3. CASE UnpublishUnmount(r)
    <3>1. PICK to \in {"pubRemove", "pubLock", "ok", "err"} :
              Continues(r, to) /\ (to = "pubLock" => v2)
      BY <2>3 DEF UnpublishUnmount, Unpublished
    <3>2. QED
      BY <2>2, <2>3, <3>1 DEF UnpublishUnmount
  <2>4. CASE UnpublishRemove(r)
    <3>1. PICK to \in {"pubLock", "ok", "err"} :
              Continues(r, to) /\ (to = "pubLock" => v2)
      BY <2>4 DEF UnpublishRemove, Unpublished
    <3>2. QED
      BY <2>2, <2>4, <3>1 DEF UnpublishRemove
  <2>5. CASE UnpublishLock(r)
    <3>1. CASE pc[r] = "pubLock" /\ Acquired(vol[r])
      BY <2>2, <2>5, <3>1 DEF UnpublishLock
    <3>2. CASE pc[r] = "pubLock" /\ ~Acquired(vol[r])
      <4>1. Goto(r, "pubLocked") /\ volumeLocks' = volumeLocks \cup {vol[r]}
        BY <2>5, <3>2 DEF UnpublishLock
      <4>2. TakesLock(r, "pubLocked") /\ "pubLocked" \in PCs
        BY <3>2, <4>1, Points DEF TakesLock, Acquired
      <4>3. OwnPoint(r, "pubLocked")
        BY <1>c, <2>1, <3>2 DEF OwnPoint, StagePoints, UnstagePoints, PublishPoints
      <4>4. Step(r, "pubLocked")
        BY <2>1, <4>1 DEF Goto, Step, kubeletVars
      <4>5. QED
        BY <2>1, <4>2, <4>3, <4>4 DEF Moves, Locks
    <3>3. CASE pc[r] = "pubLocked"
      BY <1>e, <2>1, <2>5, <3>3, Points, ReturnsMoves DEF UnpublishLock
    <3>4. QED
      BY <2>5, <3>1, <3>2, <3>3 DEF UnpublishLock
  <2>6. QED
    BY <1>8, <2>3, <2>4, <2>5
<1>9. QED
  BY <1>1, <1>5, <1>6, <1>7, <1>8 DEF Acts

-----------------------------------------------------------------------------
(* Calls and locks.                                                          *)

\* A handler that moves stays at a point of its call.
LEMMA CallsStep ==
    ASSUME TypeOK, Calls, NEW r \in Reqs, NEW to \in PCs, Moves(r, to)
    PROVE  Calls'
<1>1. /\ pc' = [pc EXCEPT ![r] = to] /\ pc[r] # "idle"
      /\ UNCHANGED <<v2, op, vol>> /\ OwnPoint(r, to)
  BY DEF Moves, Step
<1>2. pc \in [Reqs -> PCs]
  BY DEF TypeOK
<1>3. ASSUME NEW q \in Reqs, q # r
      PROVE  pc'[q] = pc[q]
  BY <1>1, <1>2, <1>3
<1>4. pc'[r] = to /\ vol[r] \in Vols
  BY <1>1, <1>2 DEF Calls
<1>5. QED
  BY <1>1, <1>3, <1>4 DEF Calls, OwnPoint

\* A handler that moves hands its lock over properly.
LEMMA LockStep ==
    ASSUME TypeOK, Calls, LockInv, NEW r \in Reqs, NEW to \in PCs, Moves(r, to)
    PROVE  LockInv'
<1>1. /\ pc' = [pc EXCEPT ![r] = to] /\ UNCHANGED <<v2, vol>>
      /\ pc[r] # "idle" /\ vol[r] \in Vols
  BY DEF Moves, Step, Calls
<1>2. pc \in [Reqs -> PCs]
  BY DEF TypeOK
<1>3. \A q \in Reqs : q # r => pc'[q] = pc[q]
  BY <1>1, <1>2
<1>4. pc'[r] = to
  BY <1>1, <1>2
<1>5. Held' = Held
  BY <1>1 DEF Held
<1>6. /\ \A p, q \in Reqs : pc[p] \in Held /\ pc[q] \in Held /\ vol[p] = vol[q] => p = q
      /\ \A v \in Vols : v \in volumeLocks <=> \E p \in Reqs : pc[p] \in Held /\ vol[p] = v
  BY DEF LockInv
<1>7. CASE KeepsLock(r, to)
  BY <1>1, <1>3, <1>4, <1>5, <1>6, <1>7 DEF KeepsLock, LockInv
<1>8. CASE TakesLock(r, to)
  <2>1. \A q \in Reqs : pc[q] \in Held => vol[q] # vol[r]
    BY <1>1, <1>6, <1>8 DEF TakesLock
  <2>2. QED
    BY <1>1, <1>3, <1>4, <1>5, <1>6, <1>8, <2>1 DEF TakesLock, LockInv
<1>9. CASE DropsLock(r, to)
  BY <1>1, <1>3, <1>4, <1>5, <1>6, <1>9 DEF DropsLock, LockInv
<1>10. QED
  BY <1>7, <1>8, <1>9 DEF Moves, Locks

-----------------------------------------------------------------------------
(* The kernel's state.                                                       *)

\* Unmounting takes the latest mount off the target path.
LEMMA UnmountedType ==
    ASSUME NEW s \in Seq(Mounts), s # <<>>
    PROVE  /\ SubSeq(s, 1, Len(s) - 1) \in Seq(Mounts)
           /\ Len(SubSeq(s, 1, Len(s) - 1)) = Len(s) - 1
           /\ Len(s) \in Nat /\ Len(s) # 0
           /\ \A i \in 1..(Len(s) - 1) : SubSeq(s, 1, Len(s) - 1)[i] = s[i]
<1>1. Len(s) \in Nat /\ Len(s) # 0
  BY EmptySeq, LenProperties
<1> DEFINE n == Len(s) - 1
<1>2. n \in Nat /\ \A i \in 1..n : s[i] \in Mounts
  BY <1>1, LenProperties
<1> HIDE DEF n
<1>3. /\ SubSeq(s, 1, n) \in Seq(Mounts)
      /\ Len(SubSeq(s, 1, n)) = IF 1 <= n THEN n - 1 + 1 ELSE 0
      /\ \A i \in 1..(n - 1 + 1) : SubSeq(s, 1, n)[i] = s[1 + i - 1]
  <2>1. 1 \in Int /\ n \in Int
    BY <1>2
  <2>2. QED
    BY <1>2, <2>1, SubSeqProperties
<1>4. Len(SubSeq(s, 1, n)) = n /\ \A i \in 1..n : SubSeq(s, 1, n)[i] = s[i]
  <2>1. n - 1 + 1 = n /\ \A i \in 1..n : 1 + i - 1 = i
    BY <1>2
  <2>2. (IF 1 <= n THEN n - 1 + 1 ELSE 0) = n
    BY <1>2
  <2>3. QED
    BY <1>3, <2>1, <2>2
<1>5. QED
  BY <1>1, <1>3, <1>4 DEF n

\* A mount goes on top of those that are there.
LEMMA AppendType ==
    ASSUME NEW s \in Seq(Mounts), NEW m \in Mounts
    PROVE  /\ Append(s, m) \in Seq(Mounts) /\ Append(s, m) # <<>>
           /\ Len(Append(s, m)) = Len(s) + 1 /\ Len(s) \in Nat
           /\ Append(s, m)[Len(s) + 1] = m
           /\ \A i \in 1..Len(s) : Append(s, m)[i] = s[i]
  OBVIOUS

\* What a step of a handler may do to the mounts on its target path: nothing, take
\* the latest off, or put the source on it.
TargetStep(r) ==
    \/ target' = target
    \/ target' = Unmounted(vol[r])
    \/ /\ pc[r] = "pubMount" /\ Len(target[vol[r]]) < MaxMounts /\ vol[r] \in targetDir
       /\ \E m \in Source(vol[r]) : target' = [target EXCEPT ![vol[r]] = Append(@, m)]

\* Such a step keeps the type of the mounts.
LEMMA TargetType ==
    ASSUME TypeOK, NEW r \in Reqs, vol[r] \in Vols, TargetStep(r)
    PROVE  /\ target' \in [Vols -> Seq(Mounts)]
           /\ \A v \in Vols : Len(target'[v]) <= MaxMounts
           /\ \A v \in Vols : v # vol[r] => target'[v] = target[v]
<1>0. target \in [Vols -> Seq(Mounts)] /\ \A v \in Vols : Len(target[v]) <= MaxMounts
  BY DEF TypeOK
<1>1. CASE target' = target
  BY <1>0, <1>1
<1> DEFINE s == target[vol[r]]
<1>2. s \in Seq(Mounts) /\ Len(s) <= MaxMounts
  BY <1>0
<1>3. CASE target' = Unmounted(vol[r])
  <2> DEFINE t == IF s = <<>> THEN s ELSE SubSeq(s, 1, Len(s) - 1)
  <2>1. target' = [target EXCEPT ![vol[r]] = t]
    BY <1>3 DEF Unmounted
  <2>2. t \in Seq(Mounts) /\ Len(t) <= MaxMounts
    <3>1. CASE s = <<>>
      BY <1>2, <3>1
    <3>2. CASE s # <<>>
      <4>1. t = SubSeq(s, 1, Len(s) - 1)
        BY <3>2
      <4> HIDE DEF s, t
      <4>2. QED
        BY <1>2, <3>2, <4>1, UnmountedType, NodeAssumption
    <3>3. QED
      BY <3>1, <3>2
  <2> HIDE DEF t
  <2>3. QED
    BY <1>0, <2>1, <2>2
<1>4. CASE /\ Len(s) < MaxMounts
           /\ \E m \in Source(vol[r]) : target' = [target EXCEPT ![vol[r]] = Append(@, m)]
  <2>1. PICK m \in Source(vol[r]) : target' = [target EXCEPT ![vol[r]] = Append(s, m)]
    BY <1>4
  <2>2. m \in Mounts
    BY DEF Source, Mounts
  <2> DEFINE t == Append(s, m)
  <2>3. t \in Seq(Mounts) /\ Len(t) <= MaxMounts
    <3> HIDE DEF s
    <3>1. QED
      BY <1>2, <1>4, <2>2, AppendType, NodeAssumption
  <2> HIDE DEF t
  <2>4. target' = [target EXCEPT ![vol[r]] = t]
    BY <2>1 DEF t
  <2>5. QED
    BY <1>0, <2>3, <2>4
<1>5. QED
  BY <1>1, <1>3, <1>4 DEF TargetStep

\* A file system seen at a target path was seen there before or at the staging
\* path.
LEMMA TargetShows ==
    ASSUME TypeOK, NEW r \in Reqs, vol[r] \in Vols, TargetStep(r),
           NEW v \in Vols, "fs" \in Range(target'[v])
    PROVE  InUse(v)
<1>0. target \in [Vols -> Seq(Mounts)]
  BY DEF TypeOK
<1> DEFINE s == target[vol[r]]
<1>1. s \in Seq(Mounts)
  BY <1>0
<1>2. CASE target'[v] = target[v]
  BY <1>2 DEF InUse
<1>3. CASE v # vol[r]
  BY <1>2, <1>3, TargetType
<1>4. CASE v = vol[r] /\ target' = Unmounted(vol[r]) /\ s # <<>>
  <2> DEFINE t == SubSeq(s, 1, Len(s) - 1)
  <2>1. target'[v] = t
    BY <1>0, <1>4 DEF Unmounted
  <2>2. t \in Seq(Mounts) /\ Len(t) = Len(s) - 1 /\ Len(s) \in Nat /\ Len(s) # 0
        /\ \A i \in 1..(Len(s) - 1) : t[i] = s[i]
    BY <1>1, <1>4, UnmountedType
  <2>3. DOMAIN t = 1..Len(t) /\ DOMAIN s = 1..Len(s)
    BY <1>1, <2>2, LenProperties
  <2> HIDE DEF t, s
  <2>4. PICK i \in DOMAIN t : t[i] = "fs"
    BY <2>1 DEF Range
  <2>5. i \in 1..(Len(s) - 1) /\ i \in DOMAIN s
    BY <2>2, <2>3, <2>4
  <2>6. "fs" \in Range(s)
    BY <2>2, <2>4, <2>5 DEF Range
  <2>7. QED
    BY <1>4, <2>6 DEF InUse, s
<1>5. CASE v = vol[r] /\ \E m \in Source(vol[r]) : target' = [target EXCEPT ![vol[r]] = Append(@, m)]
  <2>1. PICK m \in Source(vol[r]) : target' = [target EXCEPT ![vol[r]] = Append(s, m)]
    BY <1>5
  <2>2. m \in Mounts
    BY DEF Source, Mounts
  <2> DEFINE t == Append(s, m)
  <2>3. target'[v] = t
    BY <1>0, <1>5, <2>1
  <2>4. t \in Seq(Mounts) /\ Len(t) = Len(s) + 1 /\ Len(s) \in Nat
        /\ t[Len(s) + 1] = m /\ \A i \in 1..Len(s) : t[i] = s[i]
    <3> HIDE DEF s
    <3>1. QED
      BY <1>1, <2>2, AppendType
  <2>5. DOMAIN t = 1..Len(t) /\ DOMAIN s = 1..Len(s)
    BY <1>1, <2>4, LenProperties
  <2> HIDE DEF t, s
  <2>6. PICK i \in DOMAIN t : t[i] = "fs"
    BY <2>3 DEF Range
  <2>7. CASE i \in 1..Len(s)
    <3>1. i \in DOMAIN s /\ s[i] = "fs"
      BY <2>4, <2>5, <2>6, <2>7
    <3>2. "fs" \in Range(s)
      BY <3>1 DEF Range
    <3>3. QED
      BY <1>5, <3>2 DEF InUse, s
  <2>8. CASE i \notin 1..Len(s)
    <3>1. i = Len(s) + 1
      BY <2>4, <2>5, <2>6, <2>8
    <3>2. m = "fs"
      BY <2>4, <2>6, <3>1
    <3>3. staging[vol[r]] \in {"mounted", "corrupt"}
      BY <2>1, <3>2 DEF Source
    <3>4. QED
      BY <1>5, <3>3 DEF InUse
  <2>9. QED
    BY <2>7, <2>8
<1>6. CASE v = vol[r] /\ target' = Unmounted(vol[r]) /\ s = <<>>
  <2>1. target'[v] = target[v]
    BY <1>0, <1>6 DEF Unmounted
  <2>2. QED
    BY <1>2, <2>1
<1>7. QED
  BY <1>2, <1>3, <1>4, <1>5, <1>6 DEF TargetStep

\* A step of one handler keeps the kernel's part if it touches only its own
\* volume, stages and unstages only under the lock, and leaves its volume as its
\* next point expects it.
LEMMA KernelStep ==
    ASSUME TypeOK, Calls, LockInv, KernelInv,
           NEW r \in Reqs, NEW to \in PCs, Moves(r, to), TargetStep(r),
           staging' \in [Vols -> {"absent", "dir", "mounted", "corrupt"}],
           mapped' \subseteq Vols, targetDir' \subseteq Vols,
           \A v \in Vols : v # vol[r] =>
               /\ staging'[v] = staging[v]
               /\ v \in mapped' <=> v \in mapped
               /\ v \in targetDir' <=> v \in targetDir,
           \/ UNCHANGED <<staging, mapped>>
           \/ pc[r] \in StagePoints \cup UnstagePoints,
           v2 => mapped' = mapped,
           vol[r] \notin targetDir' => target'[vol[r]] = <<>>,
           ~v2 /\ staging'[vol[r]] \in {"mounted", "corrupt"} => vol[r] \in mapped',
           vol[r] \in mapped /\ vol[r] \notin mapped' => ~InUse(vol[r]),
           to \in {"format", "resize"} => v2 \/ vol[r] \in mapped',
           to = "resize" => staging'[vol[r]] \in {"mounted", "corrupt"},
           to = "close" => staging'[vol[r]] = "absent"
    PROVE  TypeOK' /\ Calls' /\ LockInv' /\ KernelInv'
<1>1. Calls' /\ LockInv'
  BY CallsStep, LockStep
<1>2. /\ pc' = [pc EXCEPT ![r] = to] /\ pc[r] # "idle"
      /\ UNCHANGED <<v2, op, vol, awaited, staged, published, block, gaveUp>>
      /\ vol[r] \in Vols
  BY DEF Moves, Step, Calls
<1>3. /\ target' \in [Vols -> Seq(Mounts)] /\ \A v \in Vols : Len(target'[v]) <= MaxMounts
      /\ \A v \in Vols : v # vol[r] => target'[v] = target[v]
  BY <1>2, TargetType
<1>4. TypeOK'
  <2>1. pc' \in [Reqs -> PCs]
    BY <1>2 DEF TypeOK
  <2>2. volumeLocks' \subseteq Vols
    BY <1>2 DEF TypeOK, Moves, Locks, KeepsLock, TakesLock, DropsLock
  <2>3. QED
    BY <1>2, <1>3, <2>1, <2>2 DEF TypeOK
<1>5. \A v \in Vols : v \notin targetDir' => target'[v] = <<>>
  BY <1>2, <1>3 DEF KernelInv
<1>6. v2' => mapped' = {}
  BY <1>2 DEF KernelInv
<1>7. MountedIsOpen'
  <2> SUFFICES ASSUME ~v2, NEW v \in Vols,
                      staging'[v] \in {"mounted", "corrupt"} \/ "fs" \in Range(target'[v])
               PROVE  v \in mapped'
    BY <1>2 DEF MountedIsOpen, InUse
  <2>1. InUse(v) => v \in mapped
    BY DEF KernelInv, MountedIsOpen
  <2>2. "fs" \in Range(target'[v]) => InUse(v)
    BY <1>2, TargetShows
  <2>3. CASE v = vol[r]
    BY <2>1, <2>2, <2>3
  <2>4. CASE v # vol[r]
    <3>1. staging'[v] = staging[v] /\ (v \in mapped' <=> v \in mapped)
      BY <2>4
    <3>2. InUse(v)
      BY <2>2, <3>1 DEF InUse
    <3>3. QED
      BY <2>1, <3>1, <3>2
  <2>5. QED
    BY <2>3, <2>4
<1>8. ASSUME NEW q \in Reqs
      PROVE  /\ pc'[q] \in {"format", "resize"} => v2' \/ vol'[q] \in mapped'
             /\ pc'[q] = "resize" => staging'[vol'[q]] \in {"mounted", "corrupt"}
             /\ pc'[q] = "close" => staging'[vol'[q]] = "absent"
  <2>1. CASE q = r
    <3>1. pc'[q] = to
      BY <1>2, <2>1 DEF TypeOK
    <3>2. QED
      BY <1>2, <2>1, <3>1
  <2>2. CASE q # r
    <3>1. pc'[q] = pc[q]
      BY <1>2, <2>2 DEF TypeOK
    <3> SUFFICES ASSUME pc[q] \in {"format", "resize", "close"}
                 PROVE  /\ pc[q] \in {"format", "resize"} => v2 \/ vol[q] \in mapped'
                        /\ pc[q] = "resize" => staging'[vol[q]] \in {"mounted", "corrupt"}
                        /\ pc[q] = "close" => staging'[vol[q]] = "absent"
      BY <1>2, <3>1
    <3>2. vol[q] \in Vols /\ pc[q] \in Held
      BY Points DEF Calls, StagePoints, UnstagePoints
    <3>3. /\ pc[q] \in {"format", "resize"} => v2 \/ vol[q] \in mapped
          /\ pc[q] = "resize" => staging[vol[q]] \in {"mounted", "corrupt"}
          /\ pc[q] = "close" => staging[vol[q]] = "absent"
      BY DEF KernelInv, Mounted
    <3>4. CASE UNCHANGED <<staging, mapped>>
      BY <3>3, <3>4
    <3>5. CASE pc[r] \in StagePoints \cup UnstagePoints
      <4>1. pc[r] \in Held
        BY <3>5, Points
      <4>2. vol[q] # vol[r]
        BY <2>2, <3>2, <4>1 DEF LockInv
      <4>3. QED
        BY <3>2, <3>3, <4>2
    <3>6. QED
      BY <3>4, <3>5
  <2>3. QED
    BY <2>1, <2>2
<1>9. KernelInv'
  BY <1>5, <1>6, <1>7, <1>8 DEF KernelInv, Mounted
<1>10. QED
  BY <1>1, <1>4, <1>9

\* Every step of a handler keeps types, calls, locks and the kernel's part.
LEMMA KernelActs ==
    ASSUME TypeOK, Calls, LockInv, KernelInv, NEW r \in Reqs, Acts(r)
    PROVE  TypeOK' /\ Calls' /\ LockInv' /\ KernelInv'
<1>1. PICK to \in PCs : Moves(r, to)
  BY ActsMoves
<1>2. /\ pc[r] # "idle" /\ vol[r] \in Vols /\ vol' = vol /\ v2' = v2
      /\ pc'[r] = to
  BY <1>1 DEF Moves, Step, Calls, TypeOK
<1>t. /\ staging \in [Vols -> {"absent", "dir", "mounted", "corrupt"}]
      /\ mapped \subseteq Vols /\ targetDir \subseteq Vols /\ pc \in [Reqs -> PCs]
      /\ target \in [Vols -> Seq(Mounts)]
  BY DEF TypeOK
<1>k. /\ vol[r] \notin targetDir => target[vol[r]] = <<>>
      /\ v2 => mapped = {}
      /\ ~v2 => (InUse(vol[r]) => vol[r] \in mapped)
      /\ pc[r] \in {"format", "resize"} => v2 \/ vol[r] \in mapped
      /\ pc[r] = "resize" => staging[vol[r]] \in {"mounted", "corrupt"}
      /\ pc[r] = "close" => staging[vol[r]] = "absent"
  BY <1>2 DEF KernelInv, MountedIsOpen, Mounted
<1>o. ~v2 /\ staging[vol[r]] \in {"mounted", "corrupt"} => vol[r] \in mapped
  BY <1>k DEF InUse
<1>u. target' = target => TargetStep(r)
  BY DEF TargetStep
<1>0. ASSUME UNCHANGED kernelVars, to \notin {"format", "resize", "close"}
      PROVE  TypeOK' /\ Calls' /\ LockInv' /\ KernelInv'
  BY <1>0, <1>1, <1>t, <1>k, <1>o, <1>u, KernelStep DEF kernelVars
<1>3. CASE \/ TryAcquire(r) \/ GetDevicePathWithLUN(r) \/ GetDevicePathWithLUNV2(r)
           \/ StageResize(r) \/ UnpublishLock(r)
  <2>1. to \in {"device", "unmount", "pubMountPoint", "mountPoint", "pubLocked", "ok", "err"}
    <3>1. pc[r] = "start" => FirstStep(op[r]) \in {"device", "unmount", "pubMountPoint"}
      BY DEF Calls, FirstStep
    <3>2. pc' = [pc EXCEPT ![r] = pc'[r]]
      BY <1>1, <1>2 DEF Moves, Step
    <3>3. QED
      BY <1>2, <1>3, <1>t, <3>1 DEF TryAcquire, GetDevicePathWithLUN, GetDevicePathWithLUNV2,
         StageResize, UnpublishLock, Goto, Continues, Returns
  <2>2. UNCHANGED kernelVars
    BY <1>3 DEF TryAcquire, GetDevicePathWithLUN, GetDevicePathWithLUNV2, StageResize,
         UnpublishLock
  <2>3. QED
    BY <1>0, <2>1, <2>2
<1>4. CASE StageEnsureMountPoint(r)
  <2>1. UNCHANGED <<targetDir, target, mapped>> /\ pc[r] \in StagePoints
    BY <1>4 DEF StageEnsureMountPoint, StagePoints
  <2>2. \/ staging' = staging /\ to \in {"ok", "err"}
        \/ staging' = [staging EXCEPT ![vol[r]] = "dir"] /\ to \in {"err", AfterMountPoint}
    BY <1>2, <1>4, <1>t DEF StageEnsureMountPoint, Returns, Continues, Goto
  <2>3. to \in {"ok", "err", "open"} \/ (v2 /\ to = "format")
    BY <2>2 DEF AfterMountPoint
  <2>4. /\ staging' \in [Vols -> {"absent", "dir", "mounted", "corrupt"}]
        /\ \A v \in Vols : v # vol[r] => staging'[v] = staging[v]
        /\ staging'[vol[r]] \in {staging[vol[r]], "dir"}
    BY <1>2, <1>t, <2>2
  <2>5. QED
    BY <1>1, <1>t, <1>k, <1>o, <1>u, <2>1, <2>3, <2>4, KernelStep
<1>5. CASE OpenCryptDevice(r)
  <2>1. UNCHANGED <<staging, targetDir, target>> /\ pc[r] \in StagePoints /\ ~v2
    BY <1>5 DEF OpenCryptDevice, StagePoints, Calls
  <2>2. \/ mapped' = mapped \cup {vol[r]} /\ to \in {"ok", "format"}
        \/ mapped' = mapped /\ to = "err"
    BY <1>2, <1>5, <1>t DEF OpenCryptDevice, Returns, Continues, Goto
  <2>3. QED
    BY <1>1, <1>2, <1>t, <1>k, <1>o, <1>u, <2>1, <2>2, KernelStep
<1>6. CASE FormatAndMount(r)
  <2>1. UNCHANGED <<targetDir, target, mapped>> /\ pc[r] \in StagePoints /\ pc[r] = "format"
    BY <1>6 DEF FormatAndMount, StagePoints
  <2>2. \/ staging' = staging /\ to = "err"
        \/ staging' = [staging EXCEPT ![vol[r]] = "mounted"] /\ to = "resize"
    BY <1>2, <1>6, <1>t DEF FormatAndMount, Returns, Continues, Goto
  <2>3. /\ staging' \in [Vols -> {"absent", "dir", "mounted", "corrupt"}]
        /\ \A v \in Vols : v # vol[r] => staging'[v] = staging[v]
        /\ to = "resize" => staging'[vol[r]] = "mounted"
        /\ to \in {"err", "resize"}
    BY <1>2, <1>t, <2>2
  <2>4. QED
    BY <1>1, <1>t, <1>k, <1>o, <1>u, <2>1, <2>3, KernelStep
<1>7. CASE UnstageUnmount(r) \/ UnstageRemove(r)
  <2>1. UNCHANGED <<targetDir, target, mapped>> /\ pc[r] \in UnstagePoints
    BY <1>7 DEF UnstageUnmount, UnstageRemove, UnstagePoints
  <2>2. \/ staging' = staging /\ to \in {"ok", "err"}
        \/ staging' = staging /\ staging[vol[r]] = "absent" /\ to = "close"
        \/ staging' = [staging EXCEPT ![vol[r]] = "dir"] /\ to = "remove"
        \/ staging' = [staging EXCEPT ![vol[r]] = "absent"] /\ to \in {"ok", "close"}
    BY <1>2, <1>7, <1>t DEF UnstageUnmount, UnstageRemove, Cleaned, Returns, Continues, Goto
  <2>3. /\ staging' \in [Vols -> {"absent", "dir", "mounted", "corrupt"}]
        /\ \A v \in Vols : v # vol[r] => staging'[v] = staging[v]
        /\ staging'[vol[r]] \in {staging[vol[r]], "dir", "absent"}
        /\ to = "close" => staging'[vol[r]] = "absent"
        /\ to \in {"ok", "err", "remove", "close"}
    BY <1>2, <1>t, <2>2
  <2>4. QED
    BY <1>1, <1>t, <1>k, <1>o, <1>u, <2>1, <2>3, KernelStep
<1>8. CASE CloseCryptDevice(r)
  <2>1. /\ UNCHANGED <<staging, targetDir, target>> /\ pc[r] \in UnstagePoints
        /\ pc[r] = "close" /\ ~v2
    BY <1>8 DEF CloseCryptDevice, UnstagePoints, Calls
  <2>2. /\ to \in {"ok", "err"}
        /\ \/ mapped' = mapped \ {vol[r]} /\ ~InUse(vol[r])
           \/ mapped' = mapped
    BY <1>2, <1>8, <1>t DEF CloseCryptDevice, Returns, Goto
  <2>3. staging[vol[r]] = "absent"
    BY <1>k, <2>1
  <2>4. QED
    BY <1>1, <1>2, <1>t, <1>k, <1>o, <1>u, <2>1, <2>2, <2>3, KernelStep
<1>9. CASE PublishEnsureMountPoint(r) \/ PublishMount(r)
  <2>1. UNCHANGED <<staging, mapped>>
    BY <1>9 DEF PublishEnsureMountPoint, PublishMount
  <2>2. to \in {"ok", "err", "pubMount"}
    BY <1>2, <1>9, <1>t DEF PublishEnsureMountPoint, PublishMount, PublishReturns, Returns,
         Continues, Goto
  <2>3. TargetStep(r)
    BY <1>9 DEF PublishEnsureMountPoint, PublishMount, TargetStep
  <2>4. targetDir' \in {targetDir, targetDir \cup {vol[r]}}
    BY <1>9 DEF PublishEnsureMountPoint, PublishMount
  <2>5. vol[r] \notin targetDir' => target'[vol[r]] = <<>>
    <3>1. CASE target' = target
      BY <1>k, <2>4, <3>1
    <3>2. CASE target' = Unmounted(vol[r])
      BY <1>2, <1>t, <1>k, <2>4, <3>2 DEF Unmounted
    <3>3. CASE vol[r] \in targetDir
      BY <2>4, <3>3
    <3>4. QED
      BY <2>3, <3>1, <3>2, <3>3 DEF TargetStep
  <2>6. QED
    BY <1>1, <1>2, <1>t, <1>k, <1>o, <2>1, <2>2, <2>3, <2>4, <2>5, KernelStep
<1>10. CASE UnpublishUnmount(r) \/ UnpublishRemove(r)
  <2>1. UNCHANGED <<staging, mapped>>
    BY <1>10 DEF UnpublishUnmount, UnpublishRemove
  <2>2. to \in {"ok", "err", "pubRemove", "pubLock"}
    BY <1>2, <1>10, <1>t DEF UnpublishUnmount, UnpublishRemove, Unpublished, Continues, Goto
  <2>3. TargetStep(r)
    BY <1>10 DEF UnpublishUnmount, UnpublishRemove, TargetStep
  <2>4. \/ targetDir' = targetDir
        \/ targetDir' = targetDir \ {vol[r]} /\ target[vol[r]] = <<>> /\ target' = target
    BY <1>10 DEF UnpublishUnmount, UnpublishRemove
  <2>5. vol[r] \notin targetDir' => target'[vol[r]] = <<>>
    <3>1. CASE target' = target
      BY <1>k, <2>4, <3>1
    <3>2. CASE target' = Unmounted(vol[r])
      BY <1>2, <1>t, <1>k, <2>4, <3>2 DEF Unmounted
    <3>3. CASE vol[r] \in targetDir /\ targetDir' = targetDir
      BY <3>3
    <3>4. QED
      BY <2>3, <2>4, <3>1, <3>2, <3>3 DEF TargetStep
  <2>6. QED
    BY <1>1, <1>2, <1>t, <1>k, <1>o, <2>1, <2>2, <2>3, <2>4, <2>5, KernelStep
<1>11. QED
  BY <1>3, <1>4, <1>5, <1>6, <1>7, <1>8, <1>9, <1>10 DEF Acts

\* What the node's own steps and those of the kubelet keep.
BaseInv == TypeOK /\ Calls /\ LockInv /\ KernelInv

\* A call takes a handler that was idle to the first point of the call.
LEMMA CallBase ==
    ASSUME BaseInv, NEW r \in Reqs, NEW o \in Ops, NEW v \in Vols, Call(r, o, v)
    PROVE  BaseInv'
<1> USE DEF BaseInv
<1> DEFINE to == CASE o \in {"stage", "unstage"} -> "start"
                   [] o = "publish" -> IF v2 THEN "start" ELSE "pubMountPoint"
                   [] o = "unpublish" -> "pubUnmount"
<1>1. /\ pc[r] = "idle" /\ pc' = [pc EXCEPT ![r] = to]
      /\ op' = [op EXCEPT ![r] = o] /\ vol' = [vol EXCEPT ![r] = v]
      /\ awaited' = awaited \cup {r}
      /\ UNCHANGED <<v2, volumeLocks, staging, targetDir, target, mapped, block, gaveUp>>
  BY DEF Call, Goto, kernelVars
<1>2. \/ to = "start" /\ (o \in {"stage", "unstage"} \/ (v2 /\ o = "publish"))
      \/ to = "pubMountPoint" /\ ~v2 /\ o = "publish"
      \/ to = "pubUnmount" /\ o = "unpublish"
  BY DEF Ops
<1> HIDE DEF to
<1>3. to \in PCs /\ to \notin Held /\ pc[r] \notin Held /\ Held' = Held
  BY <1>1, <1>2, Points DEF PCs, PublishPoints, UnpublishPoints, Held
<1>4. pc \in [Reqs -> PCs] /\ op \in [Reqs -> Ops] /\ vol \in [Reqs -> Vols \cup {NoVol}]
  BY DEF TypeOK
<1>5. /\ pc'[r] = to /\ op'[r] = o /\ vol'[r] = v
      /\ \A q \in Reqs : q # r => pc'[q] = pc[q] /\ op'[q] = op[q] /\ vol'[q] = vol[q]
  BY <1>1, <1>4
<1>6. TypeOK'
  <2>1. staged' \in [Vols -> {"no", "yes", "maybe"}]
    BY DEF Call, TypeOK
  <2>2. published' \in [Vols -> {"no", "yes", "maybe"}]
    BY DEF Call, TypeOK
  <2>3. /\ pc' \in [Reqs -> PCs] /\ op' \in [Reqs -> Ops]
        /\ vol' \in [Reqs -> Vols \cup {NoVol}] /\ awaited' \subseteq Reqs
    BY <1>1, <1>3 DEF TypeOK
  <2>4. QED
    BY <1>1, <2>1, <2>2, <2>3 DEF TypeOK
<1>7. Calls'
  <2>1. /\ to \notin StagePoints /\ to \notin UnstagePoints
        /\ to \in PublishPoints => o = "publish"
        /\ to \in UnpublishPoints => o = "unpublish"
        /\ to = "start" => o \in {"stage", "unstage"} \cup (IF v2 THEN {"publish"} ELSE {})
        /\ to # "open" /\ to # "close" /\ to # "pubLock" /\ to # "pubLocked"
    BY <1>2 DEF StagePoints, UnstagePoints, PublishPoints, UnpublishPoints
  <2>2. QED
    BY <1>1, <1>5, <2>1 DEF Calls
<1>8. LockInv'
  BY <1>1, <1>3, <1>5 DEF LockInv
<1>9. KernelInv'
  <2>1. to \notin {"format", "resize", "close"}
    BY <1>2
  <2>2. MountedIsOpen'
    BY <1>1 DEF KernelInv, MountedIsOpen, InUse
  <2>3. QED
    BY <1>1, <1>5, <2>1, <2>2 DEF KernelInv, Mounted
<1>10. QED
  BY <1>6, <1>7, <1>8, <1>9

\* An answer makes the handler idle.
LEMMA ReplyBase ==
    ASSUME BaseInv, NEW r \in Reqs, Reply(r)
    PROVE  BaseInv'
<1> USE DEF BaseInv
<1>1. /\ pc[r] \in {"ok", "err"} /\ pc' = [pc EXCEPT ![r] = "idle"]
      /\ op' = [op EXCEPT ![r] = "stage"] /\ vol' = [vol EXCEPT ![r] = NoVol]
      /\ awaited' = awaited \ {r}
      /\ UNCHANGED <<v2, volumeLocks, staging, targetDir, target, mapped, block, gaveUp>>
  BY DEF Reply, Goto, kernelVars
<1>2. "idle" \in PCs /\ "idle" \notin Held /\ pc[r] \notin Held /\ Held' = Held
  BY <1>1, Points DEF PCs, Held
<1>3. pc \in [Reqs -> PCs] /\ op \in [Reqs -> Ops] /\ vol \in [Reqs -> Vols \cup {NoVol}]
  BY DEF TypeOK
<1>4. /\ pc'[r] = "idle"
      /\ \A q \in Reqs : q # r => pc'[q] = pc[q] /\ op'[q] = op[q] /\ vol'[q] = vol[q]
  BY <1>1, <1>3
<1>5. TypeOK'
  <2>1. staged' \in [Vols -> {"no", "yes", "maybe"}]
    BY DEF Reply, TypeOK
  <2>2. published' \in [Vols -> {"no", "yes", "maybe"}]
    BY DEF Reply, TypeOK
  <2>3. /\ pc' \in [Reqs -> PCs] /\ op' \in [Reqs -> Ops]
        /\ vol' \in [Reqs -> Vols \cup {NoVol}] /\ awaited' \subseteq Reqs
    BY <1>1, <1>2 DEF TypeOK, Ops
  <2>4. QED
    BY <1>1, <2>1, <2>2, <2>3 DEF TypeOK
<1>6. Calls'
  <2>1. \A q \in Reqs : pc'[q] = "idle" \/ (q # r /\ pc'[q] = pc[q])
    BY <1>4
  <2>2. "idle" \notin StagePoints \cup UnstagePoints \cup PublishPoints \cup UnpublishPoints
    BY Points
  <2>3. QED
    BY <1>1, <1>4, <2>1, <2>2 DEF Calls
<1>7. LockInv'
  BY <1>1, <1>2, <1>4 DEF LockInv
<1>8. KernelInv'
  <2>1. MountedIsOpen'
    BY <1>1 DEF KernelInv, MountedIsOpen, InUse
  <2>2. QED
    BY <1>1, <1>4, <2>1 DEF KernelInv, Mounted
<1>9. QED
  BY <1>5, <1>6, <1>7, <1>8

\* Every step keeps them.
LEMMA BaseNext == BaseInv /\ [Next]_vars => BaseInv'
<1> SUFFICES ASSUME BaseInv, [Next]_vars
             PROVE  BaseInv'
  OBVIOUS
<1> USE DEF BaseInv
<1>1. ASSUME NEW r \in Reqs, Handler(r)
      PROVE  BaseInv'
  BY <1>1, KernelActs, ReplyBase DEF Handler, Acts
<1>2. ASSUME NEW r \in Reqs, NEW o \in Ops, NEW v \in Vols, Call(r, o, v)
      PROVE  BaseInv'
  BY <1>2, CallBase
<1>3. ASSUME NEW r \in Reqs, Abandon(r)
      PROVE  BaseInv'
  <2>1. /\ UNCHANGED <<v2, pc, op, vol, volumeLocks, staging, targetDir, target, mapped,
                       staged, published, block>>
        /\ gaveUp' = TRUE /\ awaited' = awaited \ {r}
    BY <1>3 DEF Abandon, kernelVars
  <2>2. TypeOK'
    BY <2>1 DEF TypeOK
  <2>3. QED
    BY <2>1, <2>2 DEF Calls, LockInv, Held, KernelInv, MountedIsOpen, InUse, Mounted
<1>4. ASSUME NEW v \in Vols, StagingGoesBad(v)
      PROVE  BaseInv'
  <2>1. /\ UNCHANGED <<v2, pc, op, vol, volumeLocks, targetDir, target, mapped,
                       awaited, staged, published, block, gaveUp>>
        /\ staging[v] = "mounted" /\ staging' = [staging EXCEPT ![v] = "corrupt"]
    BY <1>4 DEF StagingGoesBad, kubeletVars
  <2>2. staging \in [Vols -> {"absent", "dir", "mounted", "corrupt"}]
    BY DEF TypeOK
  <2>3. \A w \in Vols : staging'[w] = staging[w] \/ (staging[w] = "mounted" /\ staging'[w] = "corrupt")
    BY <2>1, <2>2
  <2>4. TypeOK'
    BY <2>1 DEF TypeOK
  <2>5. MountedIsOpen'
    BY <2>1, <2>3 DEF KernelInv, MountedIsOpen, InUse
  <2>6. \A r \in Reqs : pc[r] \in {"resize", "close"} => vol[r] \in Vols
    BY DEF Calls
  <2>7. KernelInv'
    BY <2>1, <2>3, <2>5, <2>6 DEF KernelInv, Mounted
  <2>8. QED
    BY <2>1, <2>4, <2>7 DEF Calls, LockInv, Held
<1>5. ASSUME Restart
      PROVE  BaseInv'
  <2>1. /\ UNCHANGED <<v2, staging, targetDir, target, mapped, staged, published, block, gaveUp>>
        /\ pc' = [r \in Reqs |-> "idle"] /\ op' = [r \in Reqs |-> "stage"]
        /\ vol' = [r \in Reqs |-> NoVol] /\ awaited' = {} /\ volumeLocks' = {}
    BY <1>5 DEF Restart, kernelVars
  <2>2. TypeOK'
    BY <2>1 DEF TypeOK, PCs, Ops
  <2>3. \A r \in Reqs : pc'[r] = "idle"
    BY <2>1
  <2>4. Calls' /\ LockInv'
    BY <2>1, <2>3, Points DEF Calls, LockInv, Held, LockedPoints, StagePoints, UnstagePoints,
         PublishPoints, UnpublishPoints
  <2>5. KernelInv'
    BY <2>1, <2>3 DEF KernelInv, MountedIsOpen, InUse
  <2>6. QED
    BY <2>2, <2>4, <2>5
<1>6. ASSUME UNCHANGED vars
      PROVE  BaseInv'
  BY <1>6 DEF vars, kernelVars, kubeletVars, TypeOK, Calls, LockInv, Held, KernelInv,
       MountedIsOpen, InUse, Mounted
<1>7. QED
  BY <1>1, <1>2, <1>3, <1>4, <1>5, <1>6 DEF Next

\* Nothing is there at the start.
LEMMA BaseInit == Init => BaseInv
<1> SUFFICES ASSUME Init
             PROVE  BaseInv
  OBVIOUS
<1>1. \A r \in Reqs : pc[r] = "idle"
  BY DEF Init
<1>2. \A v \in Vols : target[v] = <<>> /\ staging[v] = "absent" /\ Len(target[v]) = 0
  BY DEF Init
<1>3. target \in [Vols -> Seq(Mounts)]
  BY EmptySeq DEF Init
<1>4. TypeOK
  <2>1. MaxMounts \in Nat /\ \A v \in Vols : Len(target[v]) <= MaxMounts
    BY <1>2, NodeAssumption
  <2>2. /\ pc \in [Reqs -> PCs] /\ op \in [Reqs -> Ops] /\ vol \in [Reqs -> Vols \cup {NoVol}]
        /\ staging \in [Vols -> {"absent", "dir", "mounted", "corrupt"}]
        /\ staged \in [Vols -> {"no", "yes", "maybe"}]
        /\ published \in [Vols -> {"no", "yes", "maybe"}]
    BY DEF Init, PCs, Ops
  <2>3. QED
    BY <1>3, <2>1, <2>2 DEF Init, TypeOK
<1>5. Calls
  BY <1>1, Points DEF Calls, StagePoints, UnstagePoints, PublishPoints, UnpublishPoints
<1>6. LockInv
  BY <1>1, Points DEF LockInv, Init
<1>7. KernelInv
  <2>1. \A v \in Vols : ~InUse(v)
    BY <1>2 DEF InUse, Range
  <2>2. QED
    BY <1>1, <1>2, <2>1 DEF KernelInv, MountedIsOpen, Init
<1>8. QED
  BY <1>4, <1>5, <1>6, <1>7 DEF BaseInv

-----------------------------------------------------------------------------
(* While the kubelet has waited for every answer.                            *)

\* Where a step of a handler changes the kernel's state: at its own volume, and at
\* the staging path only while it stages or unstages.
LEMMA ActsEffects ==
    ASSUME NEW r \in Reqs, Acts(r)
    PROVE  /\ TargetStep(r)
           /\ \/ staging' = staging
              \/ /\ pc[r] \in StagePoints \cup UnstagePoints
                 /\ \E s \in {"absent", "dir", "mounted"} : staging' = [staging EXCEPT ![vol[r]] = s]
<1>1. CASE \/ TryAcquire(r) \/ GetDevicePathWithLUN(r) \/ GetDevicePathWithLUNV2(r)
           \/ StageResize(r) \/ UnpublishLock(r)
  BY <1>1 DEF TryAcquire, GetDevicePathWithLUN, GetDevicePathWithLUNV2, StageResize,
       UnpublishLock, kernelVars, TargetStep
<1>2. CASE StageEnsureMountPoint(r) \/ OpenCryptDevice(r) \/ FormatAndMount(r)
  BY <1>2 DEF StageEnsureMountPoint, OpenCryptDevice, FormatAndMount, StagePoints, TargetStep
<1>3. CASE UnstageUnmount(r) \/ UnstageRemove(r) \/ CloseCryptDevice(r)
  BY <1>3 DEF UnstageUnmount, UnstageRemove, CloseCryptDevice, UnstagePoints, TargetStep
<1>4. CASE PublishEnsureMountPoint(r) \/ PublishMount(r)
  BY <1>4 DEF PublishEnsureMountPoint, PublishMount, TargetStep
<1>5. CASE UnpublishUnmount(r) \/ UnpublishRemove(r)
  BY <1>5 DEF UnpublishUnmount, UnpublishRemove, TargetStep
<1>6. QED
  BY <1>1, <1>2, <1>3, <1>4, <1>5 DEF Acts

\* A stage that answers OK has opened and mounted the volume.
LEMMA StageAnswers ==
    ASSUME BaseInv, NEW r \in Reqs, Acts(r), op[r] = "stage", pc'[r] = "ok", pc[r] # "ok"
    PROVE  /\ v2 \/ vol[r] \in mapped'
           /\ vol[r] \in block \/ staging'[vol[r]] \in {"mounted", "corrupt"}
<1>0. pc \in [Reqs -> PCs] /\ staging \in [Vols -> {"absent", "dir", "mounted", "corrupt"}]
  BY DEF BaseInv, TypeOK
<1>k. /\ ~v2 => (InUse(vol[r]) => vol[r] \in mapped)
      /\ pc[r] = "resize" => staging[vol[r]] \in {"mounted", "corrupt"}
      /\ pc[r] = "resize" => v2 \/ vol[r] \in mapped
      /\ pc[r] # "idle"
  <2>1. pc[r] # "idle" /\ vol[r] \in Vols
    BY ActsMoves DEF BaseInv, Moves, Calls
  <2>2. QED
    BY <2>1 DEF BaseInv, KernelInv, MountedIsOpen, Mounted
<1>c. /\ pc[r] \notin UnstagePoints /\ pc[r] \notin PublishPoints
      /\ pc[r] \notin UnpublishPoints
  BY DEF BaseInv, Calls
<1>1. CASE TryAcquire(r)
  <2>1. pc'[r] \in {"err", FirstStep(op[r])}
    BY <1>0, <1>1 DEF TryAcquire, Goto
  <2>2. QED
    BY <2>1 DEF FirstStep
<1>2. CASE GetDevicePathWithLUN(r) \/ FormatAndMount(r)
  BY <1>0, <1>2 DEF GetDevicePathWithLUN, FormatAndMount, Continues, Returns, Goto
<1>3. CASE GetDevicePathWithLUNV2(r)
  BY <1>0, <1>3 DEF GetDevicePathWithLUNV2, Continues, Returns, Goto
<1>4. CASE StageEnsureMountPoint(r)
  <2>1. staging[vol[r]] = "mounted" /\ UNCHANGED <<staging, mapped>>
    BY <1>0, <1>4 DEF StageEnsureMountPoint, AfterMountPoint, Continues, Returns, Goto
  <2>2. QED
    BY <1>k, <2>1 DEF InUse
<1>5. CASE OpenCryptDevice(r)
  BY <1>0, <1>5 DEF OpenCryptDevice, Continues, Returns, Goto
<1>6. CASE StageResize(r)
  BY <1>k, <1>6 DEF StageResize, kernelVars
<1>7. CASE \/ UnstageUnmount(r) \/ UnstageRemove(r) \/ CloseCryptDevice(r)
           \/ PublishEnsureMountPoint(r) \/ PublishMount(r)
           \/ UnpublishUnmount(r) \/ UnpublishRemove(r) \/ UnpublishLock(r)
  BY <1>c, <1>7 DEF UnstageUnmount, UnstageRemove, CloseCryptDevice, PublishEnsureMountPoint,
       PublishMount, UnpublishUnmount, UnpublishRemove, UnpublishLock, UnstagePoints,
       PublishPoints, UnpublishPoints
<1>8. QED
  BY <1>1, <1>2, <1>3, <1>4, <1>5, <1>6, <1>7 DEF Acts

\* An unstage that answers OK has closed the mapping and removed the staging path.
LEMMA UnstageAnswers ==
    ASSUME BaseInv, NEW r \in Reqs, Acts(r), op[r] = "unstage", pc'[r] = "ok", pc[r] # "ok"
    PROVE  vol[r] \notin mapped' /\ staging'[vol[r]] = "absent"
<1>0. /\ pc \in [Reqs -> PCs] /\ staging \in [Vols -> {"absent", "dir", "mounted", "corrupt"}]
      /\ vol[r] \in Vols
  BY ActsMoves DEF BaseInv, TypeOK, Moves, Calls
<1>k. /\ v2 => mapped = {}
      /\ pc[r] = "close" => staging[vol[r]] = "absent"
  BY DEF BaseInv, KernelInv
<1>c. /\ pc[r] \notin StagePoints /\ pc[r] \notin PublishPoints
      /\ pc[r] \notin UnpublishPoints
  BY DEF BaseInv, Calls
<1>1. CASE TryAcquire(r)
  <2>1. pc'[r] \in {"err", FirstStep(op[r])}
    BY <1>0, <1>1 DEF TryAcquire, Goto
  <2>2. QED
    BY <2>1 DEF FirstStep
<1>2. CASE UnstageUnmount(r)
  <2>1. v2 /\ UNCHANGED <<staging, mapped>> /\ staging[vol[r]] = "absent"
    BY <1>0, <1>2 DEF UnstageUnmount, Cleaned, Continues, Returns, Goto
  <2>2. QED
    BY <1>k, <2>1
<1>3. CASE UnstageRemove(r)
  <2>1. v2 /\ UNCHANGED mapped /\ staging' = [staging EXCEPT ![vol[r]] = "absent"]
    BY <1>0, <1>3 DEF UnstageRemove, Cleaned, Continues, Returns, Goto
  <2>2. QED
    BY <1>0, <1>k, <2>1
<1>4. CASE CloseCryptDevice(r)
  <2>1. pc[r] = "close" /\ mapped' = mapped \ {vol[r]} /\ UNCHANGED staging
    BY <1>0, <1>4 DEF CloseCryptDevice, Returns, Goto
  <2>2. QED
    BY <1>k, <2>1
<1>5. CASE \/ GetDevicePathWithLUN(r) \/ GetDevicePathWithLUNV2(r)
           \/ StageEnsureMountPoint(r) \/ OpenCryptDevice(r)
           \/ FormatAndMount(r) \/ StageResize(r)
           \/ PublishEnsureMountPoint(r) \/ PublishMount(r)
           \/ UnpublishUnmount(r) \/ UnpublishRemove(r) \/ UnpublishLock(r)
  BY <1>c, <1>5 DEF GetDevicePathWithLUN, GetDevicePathWithLUNV2, StageEnsureMountPoint,
       OpenCryptDevice, FormatAndMount, StageResize, PublishEnsureMountPoint,
       PublishMount, UnpublishUnmount, UnpublishRemove, UnpublishLock, StagePoints,
       PublishPoints, UnpublishPoints
<1>6. QED
  BY <1>1, <1>2, <1>3, <1>4, <1>5 DEF Acts

\* An unpublish that answers OK, or looks for the lock, has unmounted the target
\* path; once it looks for the lock it does not touch it.
LEMMA UnpublishAnswers ==
    ASSUME BaseInv, NEW r \in Reqs, Acts(r), op[r] = "unpublish",
           pc'[r] \in {"pubLock", "pubLocked", "ok"},
           pc[r] \in {"pubLock", "pubLocked"} => target[vol[r]] = <<>>
    PROVE  target'[vol[r]] = <<>>
<1>0. pc \in [Reqs -> PCs] /\ target \in [Vols -> Seq(Mounts)] /\ vol[r] \in Vols
  BY ActsMoves DEF BaseInv, TypeOK, Moves, Calls
<1>k. vol[r] \notin targetDir => target[vol[r]] = <<>>
  BY <1>0 DEF BaseInv, KernelInv
<1>c. pc[r] \notin StagePoints /\ pc[r] \notin UnstagePoints /\ pc[r] \notin PublishPoints
  BY DEF BaseInv, Calls
<1>1. CASE TryAcquire(r)
  BY <1>1 DEF TryAcquire, BaseInv, Calls
<1>2. CASE UnpublishUnmount(r)
  <2>1. CASE vol[r] \notin targetDir
    BY <1>0, <1>2, <1>k, <2>1 DEF UnpublishUnmount, Continues, Goto
  <2>2. CASE vol[r] \in targetDir
    BY <1>0, <1>2, <2>2 DEF UnpublishUnmount, Continues, Goto
  <2>3. QED
    BY <2>1, <2>2
<1>3. CASE UnpublishRemove(r)
  BY <1>0, <1>3 DEF UnpublishRemove, Continues, Goto
<1>4. CASE UnpublishLock(r)
  BY <1>4 DEF UnpublishLock, kernelVars
<1>5. CASE \/ GetDevicePathWithLUN(r) \/ GetDevicePathWithLUNV2(r)
           \/ StageEnsureMountPoint(r) \/ OpenCryptDevice(r)
           \/ FormatAndMount(r) \/ StageResize(r)
           \/ UnstageUnmount(r) \/ UnstageRemove(r) \/ CloseCryptDevice(r)
           \/ PublishEnsureMountPoint(r) \/ PublishMount(r)
  BY <1>c, <1>5 DEF GetDevicePathWithLUN, GetDevicePathWithLUNV2, StageEnsureMountPoint,
       OpenCryptDevice, FormatAndMount, StageResize, UnstageUnmount, UnstageRemove,
       CloseCryptDevice, PublishEnsureMountPoint, PublishMount, StagePoints, UnstagePoints,
       PublishPoints
<1>6. QED
  BY <1>1, <1>2, <1>3, <1>4, <1>5 DEF Acts

\* The mounts show no empty directory.
NoneEmpty(s) == \A i \in 1..Len(s) : s[i] # "empty"

\* As long as what is published is readable, no step puts an empty directory at
\* the target path.
LEMMA NoneEmptyKept ==
    ASSUME TypeOK, NEW r \in Reqs, vol[r] \in Vols, TargetStep(r),
           NoneEmpty(target[vol[r]]), pc[r] = "pubMount" => Readable(vol[r])
    PROVE  NoneEmpty(target'[vol[r]])
<1>0. target \in [Vols -> Seq(Mounts)]
  BY DEF TypeOK
<1> DEFINE s == target[vol[r]]
<1>1. s \in Seq(Mounts)
  BY <1>0
<1>2. CASE target' = target \/ (target' = Unmounted(vol[r]) /\ s = <<>>)
  <2>1. target'[vol[r]] = target[vol[r]]
    BY <1>0, <1>2 DEF Unmounted
  <2>2. QED
    BY <2>1
<1>3. CASE target' = Unmounted(vol[r]) /\ s # <<>>
  <2> DEFINE t == SubSeq(s, 1, Len(s) - 1)
  <2>1. target'[vol[r]] = t
    BY <1>0, <1>3 DEF Unmounted
  <2>2. Len(t) = Len(s) - 1 /\ Len(s) \in Nat /\ \A i \in 1..(Len(s) - 1) : t[i] = s[i]
    BY <1>1, <1>3, UnmountedType
  <2> HIDE DEF t
  <2>3. NoneEmpty(s)
    OBVIOUS
  <2> HIDE DEF s
  <2>4. NoneEmpty(t)
    BY <2>2, <2>3 DEF NoneEmpty
  <2>5. QED
    BY <2>1, <2>4
<1>4. CASE /\ pc[r] = "pubMount"
           /\ \E m \in Source(vol[r]) : target' = [target EXCEPT ![vol[r]] = Append(@, m)]
  <2>1. PICK m \in Source(vol[r]) : target' = [target EXCEPT ![vol[r]] = Append(s, m)]
    BY <1>4
  <2>2. m \in Mounts /\ m # "empty"
    BY <1>4 DEF Source, Mounts, Readable, Mounted
  <2> DEFINE t == Append(s, m)
  <2>3. target'[vol[r]] = t
    BY <1>0, <2>1
  <2>4. NoneEmpty(s)
    OBVIOUS
  <2> HIDE DEF s
  <2>5. /\ Len(t) = Len(s) + 1 /\ Len(s) \in Nat
        /\ t[Len(s) + 1] = m /\ \A i \in 1..Len(s) : t[i] = s[i]
    BY <1>1, <2>2, AppendType
  <2> HIDE DEF t
  <2>6. NoneEmpty(t)
    <3> SUFFICES ASSUME NEW i \in 1..Len(t)
                 PROVE  t[i] # "empty"
      BY DEF NoneEmpty
    <3>1. i \in 1..Len(s) \/ i = Len(s) + 1
      BY <2>5
    <3>2. QED
      BY <2>2, <2>4, <2>5, <3>1 DEF NoneEmpty
  <2>7. QED
    BY <2>3, <2>6
<1>5. QED
  BY <1>2, <1>3, <1>4 DEF TargetStep

\* A step of a handler keeps what patience gives.
LEMMA PatientActs ==
    ASSUME BaseInv, PatientInv, NEW r \in Reqs, Acts(r)
    PROVE  PatientInv'
<1>1. PICK to \in PCs : Moves(r, to)
  BY ActsMoves DEF BaseInv
<1>2. /\ pc' = [pc EXCEPT ![r] = to] /\ pc[r] # "idle" /\ to # "idle" /\ vol[r] \in Vols
      /\ UNCHANGED <<v2, op, vol, awaited, staged, block, gaveUp>> /\ OwnPoint(r, to)
  BY <1>1 DEF Moves, Step, BaseInv, Calls, OwnPoint
<1>3. /\ pc \in [Reqs -> PCs] /\ staging \in [Vols -> {"absent", "dir", "mounted", "corrupt"}]
      /\ op[r] \in Ops
  BY DEF BaseInv, TypeOK
<1>4. pc'[r] = to /\ \A q \in Reqs : q # r => pc'[q] = pc[q]
  BY <1>2, <1>3
<1> SUFFICES ASSUME ~gaveUp
             PROVE  PatientInv'
  BY <1>2 DEF PatientInv
<1>5. \A q \in Reqs : pc[q] # "idle" /\ vol[q] = vol[r] => q = r
  BY <1>2 DEF PatientInv
<1>6. /\ TargetStep(r)
      /\ \/ staging' = staging
         \/ /\ pc[r] \in StagePoints \cup UnstagePoints
            /\ \E s \in {"absent", "dir", "mounted"} : staging' = [staging EXCEPT ![vol[r]] = s]
  BY ActsEffects
<1>7. \A v \in Vols : v # vol[r] => target'[v] = target[v] /\ staging'[v] = staging[v]
  BY <1>2, <1>3, <1>6, TargetType DEF BaseInv
<1>8. /\ r \in awaited
      /\ op[r] \in {"stage", "unstage"} => staged[vol[r]] = "maybe"
      /\ op[r] = "publish" => staged[vol[r]] = "yes"
      /\ op[r] = "stage" /\ pc[r] = "ok" => Readable(vol[r])
      /\ pc[r] \in {"pubLock", "pubLocked"} => target[vol[r]] = <<>>
      /\ staged[vol[r]] = "yes" => Readable(vol[r])
      /\ NoneEmpty(target[vol[r]])
  BY <1>2 DEF PatientInv, NoneEmpty
<1>9. staged[vol[r]] = "yes" => Readable(vol[r])'
  <2>1. pc[r] \in StagePoints \cup UnstagePoints => staged[vol[r]] = "maybe"
    BY <1>8 DEF BaseInv, Calls
  <2>2. QED
    BY <1>2, <1>6, <1>8, <2>1 DEF Readable, Mounted
<1>10. op[r] = "stage" /\ to = "ok" => Readable(vol[r])'
  <2>1. CASE pc[r] # "ok"
    BY <1>2, <1>4, <2>1, StageAnswers DEF Readable, Mounted
  <2>2. CASE pc[r] = "ok"
    <3>1. pc[r] \notin StagePoints \cup UnstagePoints
      BY <2>2, Points
    <3>2. QED
      BY <1>2, <1>6, <1>8, <2>2, <3>1 DEF Readable, Mounted
  <2>3. QED
    BY <2>1, <2>2
<1>11. to \in {"pubLock", "pubLocked"} => target'[vol[r]] = <<>>
  <2>1. to \in {"pubLock", "pubLocked"} => op[r] = "unpublish"
    BY <1>2 DEF OwnPoint, UnpublishPoints
  <2>2. QED
    BY <1>4, <1>8, <2>1, UnpublishAnswers
<1>12. NoneEmpty(target'[vol[r]])
  <2>1. pc[r] = "pubMount" => Readable(vol[r])
    BY <1>8 DEF BaseInv, Calls, PublishPoints
  <2>2. QED
    BY <1>2, <1>6, <1>8, <2>1, NoneEmptyKept DEF BaseInv
<1>13. ASSUME NEW q \in Reqs, pc'[q] # "idle"
       PROVE  /\ q \in awaited'
              /\ op'[q] \in {"stage", "unstage"} => staged'[vol'[q]] = "maybe"
              /\ op'[q] = "publish" => staged'[vol'[q]] = "yes"
              /\ op'[q] = "stage" /\ pc'[q] = "ok" => Readable(vol[q])'
              /\ pc'[q] \in {"pubLock", "pubLocked"} => target'[vol'[q]] = <<>>
  <2>1. CASE q = r
    BY <1>2, <1>4, <1>8, <1>10, <1>11, <2>1
  <2>2. CASE q # r
    <3>1. pc[q] # "idle" /\ pc'[q] = pc[q] /\ vol[q] \in Vols /\ vol[q] # vol[r]
      BY <1>4, <1>5, <1>13, <2>2 DEF BaseInv, Calls
    <3>2. staging'[vol[q]] = staging[vol[q]] /\ target'[vol[q]] = target[vol[q]]
      BY <1>7, <3>1
    <3>3. QED
      BY <1>2, <3>1, <3>2 DEF PatientInv, Readable, Mounted
  <2>3. QED
    BY <2>1, <2>2
<1>14. ASSUME NEW v \in Vols
       PROVE  (staged'[v] = "yes" => Readable(v)') /\ NoneEmpty(target'[v])
  <2>1. CASE v = vol[r]
    BY <1>2, <1>9, <1>12, <2>1 DEF Readable, Mounted
  <2>2. CASE v # vol[r]
    BY <1>2, <1>7, <2>2 DEF PatientInv, NoneEmpty, Readable, Mounted
  <2>3. QED
    BY <2>1, <2>2
<1>15. \A p, q \in Reqs : pc'[p] # "idle" /\ pc'[q] # "idle" /\ vol'[p] = vol'[q] => p = q
  <2>1. \A q \in Reqs : pc'[q] # "idle" => pc[q] # "idle"
    BY <1>2, <1>4
  <2>2. QED
    BY <1>2, <2>1 DEF PatientInv
<1>16. QED
  BY <1>13, <1>14, <1>15 DEF PatientInv, NoneEmpty

\* A call waits for no other of its volume, and says what it may change.
LEMMA PatientCall ==
    ASSUME BaseInv, PatientInv, NEW r \in Reqs, NEW o \in Ops, NEW v \in Vols, Call(r, o, v)
    PROVE  PatientInv'
<1>1. /\ pc[r] = "idle" /\ op' = [op EXCEPT ![r] = o] /\ vol' = [vol EXCEPT ![r] = v]
      /\ awaited' = awaited \cup {r} /\ MayCall(o, v)
      /\ staged' = [staged EXCEPT ![v] = IF o \in {"stage", "unstage"} THEN "maybe" ELSE @]
      /\ UNCHANGED <<v2, staging, target, block, gaveUp>>
  BY DEF Call, Goto, kernelVars
<1>2. PICK to \in {"start", "pubMountPoint", "pubUnmount"} : pc' = [pc EXCEPT ![r] = to]
  BY DEF Call, Goto, Ops
<1>3. /\ pc \in [Reqs -> PCs] /\ op \in [Reqs -> Ops] /\ vol \in [Reqs -> Vols \cup {NoVol}]
      /\ staged \in [Vols -> {"no", "yes", "maybe"}]
  BY DEF BaseInv, TypeOK
<1>4. /\ pc'[r] = to /\ op'[r] = o /\ vol'[r] = v
      /\ \A q \in Reqs : q # r => pc'[q] = pc[q] /\ op'[q] = op[q] /\ vol'[q] = vol[q]
  BY <1>1, <1>2, <1>3
<1>5. /\ staged'[v] = IF o \in {"stage", "unstage"} THEN "maybe" ELSE staged[v]
      /\ \A w \in Vols : w # v => staged'[w] = staged[w]
  BY <1>1, <1>3
<1> SUFFICES ASSUME ~gaveUp
             PROVE  PatientInv'
  BY <1>1 DEF PatientInv
<1>6. \A q \in Reqs : pc[q] # "idle" => vol[q] # v /\ vol[q] \in Vols /\ q # r
  BY <1>1 DEF PatientInv, MayCall, BaseInv, Calls
<1>7. o = "publish" => staged'[v] = "yes"
  BY <1>1, <1>5 DEF MayCall
<1>8. ASSUME NEW q \in Reqs, pc'[q] # "idle"
      PROVE  /\ q \in awaited'
             /\ op'[q] \in {"stage", "unstage"} => staged'[vol'[q]] = "maybe"
             /\ op'[q] = "publish" => staged'[vol'[q]] = "yes"
             /\ op'[q] = "stage" /\ pc'[q] = "ok" => Readable(vol[q])'
             /\ pc'[q] \in {"pubLock", "pubLocked"} => target'[vol'[q]] = <<>>
  <2>1. CASE q = r
    BY <1>1, <1>4, <1>5, <1>7, <2>1
  <2>2. CASE q # r
    <3>1. pc[q] # "idle" /\ pc'[q] = pc[q] /\ op'[q] = op[q] /\ vol'[q] = vol[q]
      BY <1>4, <1>8, <2>2
    <3>2. staged'[vol[q]] = staged[vol[q]]
      BY <1>5, <1>6, <3>1
    <3>3. QED
      BY <1>1, <3>1, <3>2 DEF PatientInv, Readable, Mounted
  <2>3. QED
    BY <2>1, <2>2
<1>9. \A w \in Vols : staged'[w] = "yes" => Readable(w)'
  <2>1. \A w \in Vols : staged'[w] = "yes" => staged[w] = "yes"
    BY <1>5
  <2>2. QED
    BY <1>1, <2>1 DEF PatientInv, Readable, Mounted
<1>10. \A p, q \in Reqs : pc'[p] # "idle" /\ pc'[q] # "idle" /\ vol'[p] = vol'[q] => p = q
  BY <1>4, <1>6 DEF PatientInv
<1>11. QED
  BY <1>1, <1>8, <1>9, <1>10 DEF PatientInv

\* What the kubelet learns from an answer is so.
LEMMA PatientReply ==
    ASSUME BaseInv, PatientInv, NEW r \in Reqs, Reply(r)
    PROVE  PatientInv'
<1>1. /\ pc[r] \in {"ok", "err"} /\ pc' = [pc EXCEPT ![r] = "idle"]
      /\ op' = [op EXCEPT ![r] = "stage"] /\ vol' = [vol EXCEPT ![r] = NoVol]
      /\ awaited' = awaited \ {r}
      /\ UNCHANGED <<v2, staging, target, block, gaveUp>>
  BY DEF Reply, Goto, kernelVars
<1>2. \/ staged' = staged
      \/ /\ op[r] = "stage" /\ pc[r] = "ok" /\ staged' = [staged EXCEPT ![vol[r]] = "yes"]
      \/ /\ op[r] = "unstage" /\ staged' = [staged EXCEPT ![vol[r]] = "no"]
  BY DEF Reply
<1>3. /\ pc \in [Reqs -> PCs] /\ op \in [Reqs -> Ops] /\ vol \in [Reqs -> Vols \cup {NoVol}]
      /\ staged \in [Vols -> {"no", "yes", "maybe"}] /\ vol[r] \in Vols
  BY <1>1 DEF BaseInv, TypeOK, Calls
<1>4. /\ pc'[r] = "idle"
      /\ \A q \in Reqs : q # r => pc'[q] = pc[q] /\ op'[q] = op[q] /\ vol'[q] = vol[q]
  BY <1>1, <1>3
<1> SUFFICES ASSUME ~gaveUp
             PROVE  PatientInv'
  BY <1>1 DEF PatientInv
<1>5. \A q \in Reqs : pc[q] # "idle" /\ q # r => vol[q] # vol[r] /\ vol[q] \in Vols
  BY <1>1 DEF PatientInv, BaseInv, Calls
<1>6. \A w \in Vols : w # vol[r] => staged'[w] = staged[w]
  BY <1>2, <1>3
<1>7. staged'[vol[r]] = "yes" => Readable(vol[r])
  <2>1. op[r] = "stage" /\ pc[r] = "ok" => Readable(vol[r])
    BY <1>1 DEF PatientInv
  <2>2. staged[vol[r]] = "yes" => Readable(vol[r])
    BY <1>3 DEF PatientInv
  <2>3. QED
    BY <1>2, <1>3, <2>1, <2>2
<1>8. ASSUME NEW q \in Reqs, pc'[q] # "idle"
      PROVE  /\ q \in awaited'
             /\ op'[q] \in {"stage", "unstage"} => staged'[vol'[q]] = "maybe"
             /\ op'[q] = "publish" => staged'[vol'[q]] = "yes"
             /\ op'[q] = "stage" /\ pc'[q] = "ok" => Readable(vol[q])'
             /\ pc'[q] \in {"pubLock", "pubLocked"} => target'[vol'[q]] = <<>>
  <2>1. q # r /\ pc[q] # "idle" /\ pc'[q] = pc[q] /\ op'[q] = op[q] /\ vol'[q] = vol[q]
    BY <1>4, <1>8
  <2>2. staged'[vol[q]] = staged[vol[q]]
    BY <1>5, <1>6, <2>1
  <2>3. QED
    BY <1>1, <2>1, <2>2 DEF PatientInv, Readable, Mounted
<1>9. \A w \in Vols : staged'[w] = "yes" => Readable(w)'
  <2>1. \A w \in Vols : staged'[w] = "yes" => Readable(w)
    BY <1>6, <1>7 DEF PatientInv
  <2>2. QED
    BY <1>1, <2>1 DEF Readable, Mounted
<1>10. \A p, q \in Reqs : pc'[p] # "idle" /\ pc'[q] # "idle" /\ vol'[p] = vol'[q] => p = q
  BY <1>4 DEF PatientInv
<1>11. QED
  BY <1>1, <1>8, <1>9, <1>10 DEF PatientInv

\* Every step keeps the invariant.
LEMMA InvNext == IInv /\ [Next]_vars => IInv'
<1> SUFFICES ASSUME BaseInv, PatientInv, [Next]_vars
             PROVE  BaseInv' /\ PatientInv'
  BY DEF IInv, BaseInv
<1>1. BaseInv'
  BY BaseNext
<1>2. ASSUME NEW r \in Reqs, Handler(r)
      PROVE  PatientInv'
  BY <1>2, PatientActs, PatientReply DEF Handler, Acts
<1>3. ASSUME NEW r \in Reqs, NEW o \in Ops, NEW v \in Vols, Call(r, o, v)
      PROVE  PatientInv'
  BY <1>3, PatientCall
<1>4. ASSUME NEW r \in Reqs, Abandon(r)
      PROVE  PatientInv'
  BY <1>4 DEF Abandon, PatientInv
<1>5. ASSUME NEW v \in Vols, StagingGoesBad(v)
      PROVE  PatientInv'
  <2>1. /\ UNCHANGED <<pc, op, vol, target, awaited, staged, block, gaveUp>>
        /\ staging[v] = "mounted" /\ staging' = [staging EXCEPT ![v] = "corrupt"]
    BY <1>5 DEF StagingGoesBad, kubeletVars
  <2>2. staging \in [Vols -> {"absent", "dir", "mounted", "corrupt"}]
    BY DEF BaseInv, TypeOK
  <2>3. \A w \in Vols : Readable(w) => Readable(w)'
    BY <2>1, <2>2 DEF Readable, Mounted
  <2>4. \A r \in Reqs : pc[r] # "idle" => vol[r] \in Vols
    BY DEF BaseInv, Calls
  <2>5. \A r \in Reqs : pc[r] # "idle" /\ Readable(vol[r]) => Readable(vol[r])'
    BY <2>1, <2>3, <2>4
  <2>6. QED
    BY <2>1, <2>3, <2>5 DEF PatientInv
<1>6. ASSUME Restart
      PROVE  PatientInv'
  <2>1. UNCHANGED <<staging, target, staged, block, gaveUp>> /\ pc' = [r \in Reqs |-> "idle"]
    BY <1>6 DEF Restart, kernelVars
  <2>2. \A r \in Reqs : pc'[r] = "idle"
    BY <2>1
  <2>3. QED
    BY <2>1, <2>2 DEF PatientInv, Readable, Mounted
<1>7. ASSUME UNCHANGED vars
      PROVE  PatientInv'
  BY <1>7 DEF vars, kernelVars, kubeletVars, PatientInv, Readable, Mounted
<1>8. QED
  BY <1>1, <1>2, <1>3, <1>4, <1>5, <1>6, <1>7 DEF Next

\* The invariant holds of every reachable state.
THEOREM Invariant == Spec => []IInv
<1>1. Init => IInv
  <2>1. Init => PatientInv
    <3> SUFFICES ASSUME Init
                 PROVE  PatientInv
      OBVIOUS
    <3>1. /\ \A r \in Reqs : pc[r] = "idle"
          /\ \A v \in Vols : staged[v] = "no" /\ target[v] = <<>> /\ Len(target[v]) = 0
      BY DEF Init
    <3>2. \A v \in Vols : \A i \in 1..Len(target[v]) : FALSE
      BY <3>1
    <3>3. QED
      BY <3>1, <3>2 DEF PatientInv
  <2>2. QED
    BY <2>1, BaseInit DEF IInv, BaseInv
<1>2. QED
  BY <1>1, InvNext, PTL DEF Spec

-----------------------------------------------------------------------------
(* What the node plugin promises.                                            *)

\* The state keeps its types: no target path collects more mounts than the bound,
\* no lock is entered for a volume that is none.
THEOREM TypeCorrect == Spec => []TypeOK
<1>1. IInv => TypeOK
  BY DEF IInv
<1>2. QED
  BY <1>1, Invariant, PTL

\* No file system is mounted, at the staging or the target path, without its
\* dm-crypt mapping, whatever failed or was interrupted before.
THEOREM MountedStaysOpen == Spec => []MountedIsOpen
<1>1. IInv => MountedIsOpen
  BY DEF IInv, KernelInv
<1>2. QED
  BY <1>1, Invariant, PTL

\* Every entry of volumeLocks has exactly one handler that runs under it, so no
\* error path leaks one and no two handlers stage or unstage a volume at once.
THEOREM LocksAreOwned == Spec => []LocksOwned
<1>1. IInv => LocksOwned
  <2> SUFFICES ASSUME LockInv, NEW v \in Vols
               PROVE  LET inside == {r \in Reqs : pc[r] \in Held /\ vol[r] = v}
                      IN /\ Cardinality(inside) <= 1
                         /\ v \in volumeLocks <=> inside # {}
    BY DEF IInv, LocksOwned, Held
  <2> DEFINE inside == {r \in Reqs : pc[r] \in Held /\ vol[r] = v}
  <2>1. v \in volumeLocks <=> inside # {}
    BY DEF LockInv
  <2>2. inside = {} \/ \E r : inside = {r}
    <3> SUFFICES ASSUME NEW r \in inside
                 PROVE  inside = {r}
      OBVIOUS
    <3>1. \A q \in inside : q = r
      BY DEF LockInv
    <3>2. QED
      BY <3>1
  <2> HIDE DEF inside
  <2>3. Cardinality(inside) \in {0, 1}
    BY <2>2, FS_EmptySet, FS_Singleton
  <2>4. Cardinality(inside) <= 1
    BY <2>3
  <2>5. QED
    BY <2>1, <2>4 DEF inside
<1>2. QED
  BY <1>1, Invariant, PTL

\* Only a step of the handler itself makes it answer.
LEMMA OnlyActsAnswer ==
    ASSUME IInv, [Next]_vars, NEW r \in Reqs, NEW o, Answers(r, o)
    PROVE  Acts(r)
<1>0. pc \in [Reqs -> PCs] /\ pc[r] # "ok" /\ pc'[r] = "ok"
  BY DEF IInv, TypeOK, Answers
<1>1. ASSUME NEW q \in Reqs, NEW c \in Ops, NEW v \in Vols, Call(q, c, v)
      PROVE  FALSE
  <2>1. PICK to \in {"start", "pubMountPoint", "pubUnmount"} : pc' = [pc EXCEPT ![q] = to]
    BY <1>1 DEF Call, Goto, Ops
  <2>2. QED
    BY <1>0, <2>1
<1>2. ASSUME NEW q \in Reqs, Reply(q)
      PROVE  FALSE
  BY <1>0, <1>2 DEF Reply, Goto
<1>3. ASSUME NEW q \in Reqs, Acts(q)
      PROVE  Acts(r)
  <2>1. PICK to \in PCs : Moves(q, to)
    BY <1>3, ActsMoves DEF IInv
  <2>2. q = r
    BY <1>0, <2>1 DEF Moves, Step
  <2>3. QED
    BY <1>3, <2>2
<1>4. ASSUME UNCHANGED pc
      PROVE  FALSE
  BY <1>0, <1>4
<1>5. ASSUME Restart
      PROVE  FALSE
  BY <1>0, <1>5 DEF Restart
<1>6. QED
  BY <1>1, <1>2, <1>3, <1>4, <1>5 DEF Next, Handler, Acts, Abandon, StagingGoesBad, vars

\* NodeStageVolume answers OK only with the volume open and, unless it is a block
\* volume, mounted at the staging path, retries after any failure included.
THEOREM StageIsTrue == Spec => StagedIsMounted
<1>1. IInv /\ [Next]_vars =>
        [\A r \in Reqs :
            Answers(r, "stage") =>
               /\ v2 \/ vol[r] \in mapped'
               /\ vol[r] \notin block => staging'[vol[r]] \in {"mounted", "corrupt"}]_vars
  <2> SUFFICES ASSUME IInv, [Next]_vars, NEW r \in Reqs, Answers(r, "stage")
               PROVE  /\ v2 \/ vol[r] \in mapped'
                      /\ vol[r] \notin block => staging'[vol[r]] \in {"mounted", "corrupt"}
    OBVIOUS
  <2>1. Acts(r)
    BY OnlyActsAnswer
  <2>2. QED
    BY <2>1, StageAnswers DEF IInv, BaseInv, Answers
<1>2. QED
  BY <1>1, Invariant, PTL DEF Spec, StagedIsMounted

\* NodeUnstageVolume answers OK only when the mapping is closed and the staging
\* path gone, so that the disk can be detached.
THEOREM UnstageIsTrue == Spec => UnstagedIsClosed
<1>1. IInv /\ [Next]_vars =>
        [\A r \in Reqs :
            Answers(r, "unstage") => vol[r] \notin mapped' /\ staging'[vol[r]] = "absent"]_vars
  <2> SUFFICES ASSUME IInv, [Next]_vars, NEW r \in Reqs, Answers(r, "unstage")
               PROVE  vol[r] \notin mapped' /\ staging'[vol[r]] = "absent"
    OBVIOUS
  <2>1. Acts(r)
    BY OnlyActsAnswer
  <2>2. QED
    BY <2>1, UnstageAnswers DEF IInv, BaseInv, Answers
<1>2. QED
  BY <1>1, Invariant, PTL DEF Spec, UnstagedIsClosed

\* NodeUnpublishVolume answers OK only when nothing is mounted at the target path;
\* of driver v2 this holds while the kubelet waits for every answer.
THEOREM UnpublishIsTrue == Spec => UnpublishedIsUnmounted
<1>1. IInv /\ [Next]_vars =>
        [\A r \in Reqs :
            Answers(r, "unpublish") /\ (v2 => ~gaveUp) => target'[vol[r]] = <<>>]_vars
  <2> SUFFICES ASSUME IInv, [Next]_vars, NEW r \in Reqs,
                      Answers(r, "unpublish"), v2 => ~gaveUp
               PROVE  target'[vol[r]] = <<>>
    OBVIOUS
  <2>1. Acts(r)
    BY OnlyActsAnswer
  <2>2. pc[r] \in {"pubLock", "pubLocked"} => target[vol[r]] = <<>>
    BY DEF IInv, Calls, PatientInv
  <2>3. QED
    BY <2>1, <2>2, UnpublishAnswers DEF IInv, BaseInv, Answers
<1>2. QED
  BY <1>1, Invariant, PTL DEF Spec, UnpublishedIsUnmounted

\* NodePublishVolume, which takes no lock in the first driver, shows the pod the
\* volume and never an empty directory as long as the kubelet has waited for every
\* answer.
THEOREM PatientPublishIsTrue == Spec => PatientPublishIsVolume
<1>1. IInv /\ [Next]_vars => [~gaveUp => \A r \in Reqs : PublishesVolume(r)]_vars
  <2> SUFFICES ASSUME IInv, [Next]_vars, ~gaveUp, NEW r \in Reqs, Answers(r, "publish")
               PROVE  target'[vol[r]] # <<>> /\ target'[vol[r]][Len(target'[vol[r]])] # "empty"
    BY DEF PublishesVolume
  <2>0. pc \in [Reqs -> PCs] /\ pc[r] # "ok" /\ pc'[r] = "ok" /\ op[r] = "publish"
    BY DEF IInv, TypeOK, Answers
  <2>1. Acts(r) /\ BaseInv
    BY OnlyActsAnswer DEF IInv, BaseInv
  <2>2. TypeOK' /\ PatientInv' /\ gaveUp' = gaveUp /\ vol[r] \in Vols
    <3>1. PICK to \in PCs : Moves(r, to)
      BY <2>1, ActsMoves DEF IInv
    <3>2. QED
      BY <3>1, InvNext DEF IInv, Moves, Step, Calls
  <2>3. target'[vol[r]] \in Seq(Mounts) /\ NoneEmpty(target'[vol[r]])
    BY <2>2 DEF TypeOK, PatientInv, NoneEmpty
  <2>4. target'[vol[r]] # <<>>
    <3>1. target \in [Vols -> Seq(Mounts)]
      BY DEF IInv, TypeOK
    <3>2. CASE PublishEnsureMountPoint(r)
      BY <2>0, <3>2 DEF PublishEnsureMountPoint, PublishReturns, Continues, Returns, Goto
    <3>3. CASE PublishMount(r)
      <4>1. PICK m \in Source(vol[r]) : target' = [target EXCEPT ![vol[r]] = Append(@, m)]
        BY <2>0, <3>3 DEF PublishMount, PublishReturns, Continues, Returns, Goto
      <4>2. m \in Mounts
        BY DEF Source, Mounts
      <4> DEFINE s == target[vol[r]]
      <4>3. target'[vol[r]] = Append(s, m) /\ s \in Seq(Mounts)
        BY <2>2, <3>1, <4>1
      <4> HIDE DEF s
      <4>4. QED
        BY <4>2, <4>3, AppendType
    <3>4. CASE TryAcquire(r)
      <4>1. pc'[r] \in {"err", FirstStep(op[r])}
        BY <2>0, <3>4 DEF TryAcquire, Goto
      <4>2. QED
        BY <2>0, <4>1 DEF FirstStep
    <3>5. pc[r] \notin StagePoints /\ pc[r] \notin UnstagePoints /\ pc[r] \notin UnpublishPoints
      BY <2>0 DEF IInv, Calls
    <3>6. CASE \/ GetDevicePathWithLUN(r) \/ GetDevicePathWithLUNV2(r)
               \/ StageEnsureMountPoint(r) \/ OpenCryptDevice(r)
               \/ FormatAndMount(r) \/ StageResize(r)
               \/ UnstageUnmount(r) \/ UnstageRemove(r) \/ CloseCryptDevice(r)
               \/ UnpublishUnmount(r) \/ UnpublishRemove(r) \/ UnpublishLock(r)
      BY <3>5, <3>6 DEF GetDevicePathWithLUN, GetDevicePathWithLUNV2, StageEnsureMountPoint,
           OpenCryptDevice, FormatAndMount, StageResize, UnstageUnmount, UnstageRemove,
           CloseCryptDevice, UnpublishUnmount, UnpublishRemove, UnpublishLock, StagePoints,
           UnstagePoints, UnpublishPoints
    <3>7. QED
      BY <2>1, <3>2, <3>3, <3>4, <3>6 DEF Acts
  <2> DEFINE t == target'[vol[r]]
  <2>5. t \in Seq(Mounts) /\ t # <<>> /\ NoneEmpty(t)
    BY <2>3, <2>4
  <2> HIDE DEF t
  <2>6. Len(t) \in 1..Len(t)
    BY <2>5, EmptySeq
  <2>7. t # <<>> /\ t[Len(t)] # "empty"
    BY <2>5, <2>6 DEF NoneEmpty
  <2>8. QED
    BY <2>7 DEF t
<1>2. QED
  BY <1>1, Invariant, PTL DEF Spec, PatientPublishIsVolume
=============================================================================
