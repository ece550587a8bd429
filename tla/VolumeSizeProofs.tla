-------------------------- MODULE VolumeSizeProofs --------------------------
(* What Kubernetes is told about the size of a volume is there, for any      *)
(* number of handlers and any sizes.                                         *)
EXTENDS VolumeSize, TLAPS

\* Rounding up to GiB and the minimum size give a natural number of GiB.
LEMMA RoundUpType ==
    ASSUME NEW bytes \in Nat
    PROVE  RoundUpGiB(bytes) \in Nat /\ requestGiB(bytes) \in Nat
<1>1. bytes \div GiB \in Nat
  BY SizeAssumption
<1>2. RoundUpGiB(bytes) \in Nat
  BY <1>1 DEF RoundUpGiB
<1>3. QED
  BY <1>2, SizeAssumption DEF requestGiB, MaxOf

\* The part of the state that capacities depend on, typed.
SizeType ==
    /\ req \in [Reqs -> Nat]
    /\ disk \in Nat /\ capacity \in Nat
    /\ pc \in [Reqs -> PCs]

\* The capacities that handlers are about to answer with.
PendingBacked == \A r \in Reqs :
    /\ pc[r] \in {"poll", "created"} => requestGiB(req[r]) <= disk
    /\ pc[r] = "expanded" => RoundUpGiB(req[r]) <= disk

\* The inductive invariant: no capacity that is known or about to be is larger
\* than the disk.
CapInv == SizeType /\ PendingBacked /\ CapacityIsBacked

\* There is no disk and nothing is known at the start.
LEMMA CapInit == Init => CapInv
  BY DEF Init, CapInv, SizeType, PendingBacked, CapacityIsBacked, PCs

\* A step that moves one handler, never shrinks the disk and teaches nothing
\* keeps the invariant if what the handler promises from now on is there.
LEMMA CapStep ==
    ASSUME CapInv, NEW r \in Reqs,
           pc' \in [Reqs -> PCs], req' \in [Reqs -> Nat],
           \A q \in Reqs : q # r => pc'[q] = pc[q] /\ req'[q] = req[q],
           disk' \in Nat, disk <= disk',
           capacity' \in Nat, capacity' <= disk',
           pc'[r] \in {"poll", "created"} => requestGiB(req'[r]) <= disk',
           pc'[r] = "expanded" => RoundUpGiB(req'[r]) <= disk'
    PROVE  CapInv'
<1>1. SizeType'
  BY DEF CapInv, SizeType
<1>2. CapacityIsBacked'
  BY DEF CapacityIsBacked
<1>3. ASSUME NEW q \in Reqs, q # r
      PROVE  pc'[q] = pc[q] /\ req'[q] = req[q] /\ req[q] \in Nat
  BY <1>3 DEF CapInv, SizeType
<1>5. PendingBacked'
  <2> SUFFICES ASSUME NEW q \in Reqs
               PROVE /\ pc'[q] \in {"poll", "created"} => requestGiB(req'[q]) <= disk'
                     /\ pc'[q] = "expanded" => RoundUpGiB(req'[q]) <= disk'
    BY DEF PendingBacked, requestGiB, RoundUpGiB, MaxOf
  <2>1. CASE q = r
    BY <2>1
  <2>2. CASE q # r
    <3>1. /\ pc[q] \in {"poll", "created"} => requestGiB(req[q]) <= disk
          /\ pc[q] = "expanded" => RoundUpGiB(req[q]) <= disk
      BY DEF CapInv, PendingBacked
    <3>2. requestGiB(req[q]) \in Nat /\ RoundUpGiB(req[q]) \in Nat
      BY <1>3, <2>2, RoundUpType
    <3>3. requestGiB(req'[q]) = requestGiB(req[q]) /\ RoundUpGiB(req'[q]) = RoundUpGiB(req[q])
      BY <1>3, <2>2
    <3>4. disk \in Nat
      BY DEF CapInv, SizeType
    <3>5. QED
      BY <1>3, <2>2, <3>1, <3>2, <3>3, <3>4
  <2>3. QED
    BY <2>1, <2>2
<1>6. QED
  BY <1>1, <1>2, <1>5 DEF CapInv

\* Every step keeps the invariant.
LEMMA CapNext == CapInv /\ [Next]_vars => CapInv'
<1> SUFFICES ASSUME CapInv, [Next]_vars
             PROVE  CapInv'
  OBVIOUS
<1>t. /\ pc \in [Reqs -> PCs] /\ req \in [Reqs -> Nat]
      /\ disk \in Nat /\ capacity \in Nat /\ capacity <= disk
  BY DEF CapInv, SizeType, CapacityIsBacked
<1>p. /\ "create" \in PCs /\ "poll" \in PCs /\ "created" \in PCs /\ "getDisk" \in PCs
      /\ "patch" \in PCs /\ "expanded" \in PCs /\ "ended" \in PCs /\ "idle" \in PCs
  BY DEF PCs, CreatePoints, ExpandPoints, Answers
<1>0. ASSUME UNCHANGED <<pc, req, disk, capacity>>
      PROVE  CapInv'
  BY <1>0 DEF CapInv, SizeType, PendingBacked, CapacityIsBacked, requestGiB, RoundUpGiB, MaxOf
<1>1. ASSUME NEW r \in Reqs, CreateVolume(r)
      PROVE  CapInv'
  <2>1. PICK bytes \in Requests : Call(r, "create", bytes) /\ UNCHANGED <<disk, capacity>>
    BY <1>1 DEF CreateVolume, knownVars
  <2>2. pc' = [pc EXCEPT ![r] = "create"] /\ req' = [req EXCEPT ![r] = bytes] /\ bytes \in Nat
    BY <2>1, SizeAssumption DEF Call, Goto
  <2>3. QED
    BY <1>t, <1>p, <2>1, <2>2, CapStep
<1>2. ASSUME NEW r \in Reqs, CreateRefused(r)
      PROVE  CapInv'
  BY <1>t, <1>p, <1>2, CapStep DEF CreateRefused, CreateReturns, Goto, knownVars
<1>3. ASSUME NEW r \in Reqs, CreateManagedDisk(r)
      PROVE  CapInv'
  <2> DEFINE g == requestGiB(req[r])
  <2>1. g \in Nat
    BY <1>t, RoundUpType
  <2>2. UNCHANGED <<req, capacity>>
    BY <1>3 DEF CreateManagedDisk, knownVars
  <2>3. CASE g >= disk /\ disk' = g /\ Goto(r, "poll")
    <3> HIDE DEF g
    <3>1. req'[r] = req[r] /\ pc' = [pc EXCEPT ![r] = "poll"]
      BY <2>2, <2>3 DEF Goto
    <3>2. requestGiB(req'[r]) <= disk'
      BY <2>1, <2>3, <3>1 DEF g
    <3>3. QED
      BY <1>t, <1>p, <2>1, <2>2, <2>3, <3>1, <3>2, CapStep
  <2>4. CASE disk' \in {disk, MaxOf(disk, g)} /\ CreateReturns(r, "ended")
    <3> HIDE DEF g
    <3>1. disk' \in Nat /\ disk <= disk'
      BY <1>t, <1>p, <2>1, <2>4 DEF MaxOf
    <3>2. QED
      BY <1>t, <1>p, <2>2, <2>4, <3>1, CapStep DEF CreateReturns, Goto
  <2>5. QED
    BY <1>3, <2>3, <2>4 DEF CreateManagedDisk
<1>4. ASSUME NEW r \in Reqs, PollProvisioningState(r)
      PROVE  CapInv'
  <2>1. requestGiB(req[r]) <= disk
    BY <1>4 DEF CapInv, PendingBacked, PollProvisioningState
  <2>2. UNCHANGED <<req, disk, capacity>> /\ pc' = [pc EXCEPT ![r] = "created"]
    BY <1>4 DEF PollProvisioningState, CreateReturns, Goto, knownVars
  <2>3. QED
    BY <1>t, <1>p, <2>1, <2>2, CapStep
<1>5. ASSUME NEW r \in Reqs, ControllerExpandVolume(r)
      PROVE  CapInv'
  <2>1. PICK bytes \in Requests \ {0} :
            Call(r, "getDisk", bytes) /\ UNCHANGED <<disk, capacity>>
    BY <1>5 DEF ControllerExpandVolume, knownVars
  <2>2. pc' = [pc EXCEPT ![r] = "getDisk"] /\ req' = [req EXCEPT ![r] = bytes] /\ bytes \in Nat
    BY <2>1, SizeAssumption DEF Call, Goto
  <2>3. QED
    BY <1>t, <1>p, <2>1, <2>2, CapStep
<1>6. ASSUME NEW r \in Reqs, ResizeDisk(r)
      PROVE  CapInv'
  <2>1. UNCHANGED <<req, disk, capacity>>
    BY <1>6 DEF ResizeDisk, callVars, knownVars
  <2>2. RoundUpGiB(req[r]) \in Nat
    BY <1>t, RoundUpType
  <2>3. CASE disk >= RoundUpGiB(req[r]) /\ Goto(r, "expanded")
    <3>1. RoundUpGiB(req[r]) <= disk
      BY <1>t, <1>p, <2>2, <2>3
    <3>2. QED
      BY <1>t, <1>p, <2>1, <2>3, <3>1, CapStep DEF Goto
  <2>4. CASE Goto(r, "patch") \/ Goto(r, "ended")
    BY <1>t, <1>p, <2>1, <2>4, CapStep DEF Goto
  <2>5. QED
    BY <1>6, <2>3, <2>4 DEF ResizeDisk
<1>7. ASSUME NEW r \in Reqs, PatchDisk(r)
      PROVE  CapInv'
  <2> DEFINE g == RoundUpGiB(req[r])
  <2>1. g \in Nat
    BY <1>t, RoundUpType
  <2>2. UNCHANGED <<req, capacity>>
    BY <1>7 DEF PatchDisk, callVars, knownVars
  <2>3. CASE g >= disk /\ disk' = g /\ Goto(r, "expanded")
    <3> HIDE DEF g
    <3>1. RoundUpGiB(req'[r]) <= disk'
      BY <2>1, <2>2, <2>3 DEF g
    <3>2. QED
      BY <1>t, <1>p, <2>1, <2>2, <2>3, <3>1, CapStep DEF Goto
  <2>4. CASE disk' \in {disk, MaxOf(disk, g)} /\ Goto(r, "ended")
    <3> HIDE DEF g
    <3>1. disk' \in Nat /\ disk <= disk'
      BY <1>t, <1>p, <2>1, <2>4 DEF MaxOf
    <3>2. QED
      BY <1>t, <1>p, <2>2, <2>4, <3>1, CapStep DEF Goto
  <2>5. QED
    BY <1>7, <2>3, <2>4 DEF PatchDisk
<1>8. ASSUME NEW r \in Reqs, NodeStageVolume(r) \/ NodeExpandVolume(r) \/ NodeExpandVolumeV2(r)
      PROVE  CapInv'
  <2>0. 0 \in Nat /\ capacity * GiB \in Nat
    BY <1>t, SizeAssumption
  <2>1. PICK bytes \in Nat : \E to \in StagePoints \cup NodeExpandPoints \cup {"ended"} : Call(r, to, bytes)
    BY <1>8, <2>0 DEF NodeStageVolume, NodeExpandVolume, NodeExpandVolumeV2,
                      StagePoints, NodeExpandPoints
  <2>2. UNCHANGED <<disk, capacity>>
    BY <1>8 DEF NodeStageVolume, NodeExpandVolume, NodeExpandVolumeV2, knownVars
  <2>3. PICK to \in PCs :
            /\ to \notin {"poll", "created", "expanded"}
            /\ pc' = [pc EXCEPT ![r] = to] /\ req' = [req EXCEPT ![r] = bytes]
    BY <2>1 DEF Call, Goto, PCs, StagePoints, NodeExpandPoints, Answers
  <2>4. QED
    BY <1>t, <1>p, <2>2, <2>3, CapStep
<1>9. ASSUME NEW r \in Reqs,
             \/ StageOpen(r) \/ StageFs(r) \/ RescanVolume(r) \/ ResizeCryptDevice(r)
             \/ ResizeVolume(r) \/ CheckBlockSize(r)
      PROVE  CapInv'
  <2>1. UNCHANGED <<req, disk, capacity>>
    BY <1>9 DEF StageOpen, StageFs, RescanVolume, ResizeCryptDevice, ResizeVolume,
                CheckBlockSize, callVars, knownVars
  <2>2. PICK to \in PCs :
            to \notin {"poll", "created", "expanded"} /\ pc' = [pc EXCEPT ![r] = to]
    BY <1>9 DEF StageOpen, StageFs, RescanVolume, ResizeCryptDevice, ResizeVolume,
                CheckBlockSize, NodeReturns, Goto,
                PCs, StagePoints, NodeExpandPoints, Answers
  <2>3. QED
    BY <1>t, <1>p, <2>1, <2>2, CapStep
<1>10. ASSUME NEW r \in Reqs, Reply(r)
       PROVE  CapInv'
  <2>1. disk' = disk /\ req' = [req EXCEPT ![r] = 0] /\ pc' = [pc EXCEPT ![r] = "idle"]
    BY <1>10 DEF Reply, Goto
  <2>2. capacity' = capacity \/ (pc[r] \in {"created", "expanded"}
                                    /\ capacity' = MaxOf(capacity, TellsGiB(r)))
    BY <1>10 DEF Reply, knownVars
  <2>3. requestGiB(req[r]) \in Nat /\ RoundUpGiB(req[r]) \in Nat
    BY <1>t, RoundUpType
  <2>4. pc[r] \in {"created", "expanded"} => TellsGiB(r) \in Nat /\ TellsGiB(r) <= disk
    BY <2>3 DEF TellsGiB, CapInv, PendingBacked
  <2>5. capacity' \in Nat /\ capacity' <= disk'
    BY <1>t, <1>p, <2>1, <2>2, <2>4 DEF MaxOf
  <2>6. QED
    BY <1>t, <1>p, <2>1, <2>5, CapStep
<1>11. ASSUME NodeUnstageVolume \/ UNCHANGED vars
       PROVE  CapInv'
  BY <1>0, <1>11 DEF NodeUnstageVolume, vars, callVars, knownVars
<1>12. QED
  BY <1>1, <1>2, <1>3, <1>4, <1>5, <1>6, <1>7, <1>8, <1>9, <1>10, <1>11 DEF Next

\* The capacity Kubernetes has learnt from CreateVolume and ControllerExpandVolume
\* never exceeds the managed disk, whichever calls overlap, are repeated or fail
\* half way, although ControllerExpandVolume takes no lock.
THEOREM CapacityHolds == Spec => []CapacityIsBacked
<1>1. Init => CapInv
  BY CapInit
<1>2. CapInv /\ [Next]_vars => CapInv'
  BY CapNext
<1>3. CapInv => CapacityIsBacked
  BY DEF CapInv
<1>4. QED
  BY <1>1, <1>2, <1>3, PTL DEF Spec

-----------------------------------------------------------------------------
(* The node.                                                                 *)

\* Where a handler of the node plugin holds the lock of the volume.
NodePoints == StagePoints \cup NodeExpandPoints

\* There is room for so many bytes, the header of LUKS included, on a disk of
\* gib GiB and, while it is open, on a mapping of size mapped.
Room(bytes, gib, mapped) ==
    /\ bytes <= gib * GiB
    /\ mapped # 0 => bytes <= mapped + HeaderSize

\* The node's part of the state, typed.
NodeType ==
    /\ device \in Nat /\ crypt \in Nat /\ fs \in Nat /\ nodeCapacity \in Nat
    /\ nodeLock \in BOOLEAN /\ v2 \in BOOLEAN

\* One handler works on the volume at a time, and it holds the lock.
OneOnNode == \A r \in Reqs : pc[r] \in NodePoints =>
    nodeLock /\ \A q \in Reqs : pc[q] \in NodePoints => q = r

\* A handler stages a disk that exists, expands a volume that stays open to a
\* whole number of GiB, and answers with a size there is room for.
NodeCalls == \A r \in Reqs :
    /\ pc[r] \in StagePoints => disk # 0
    /\ pc[r] \in NodeExpandPoints => crypt # 0 /\ \E g \in Nat : req[r] = g * GiB
    /\ pc[r] = "resized" => Room(req[r], disk, crypt)

\* The kernel's size of the disk is one the disk had; the mapping was made or
\* grown when the kernel's size was g.
MappingOnDevice ==
    /\ device <= disk
    /\ \/ device = 0 /\ crypt = 0
       \/ \E g \in 1..device : crypt = Usable(g)

\* The inductive invariant of the node.  While the volume is not staged the sizes
\* answered and the file system are held against the disk, which the next
\* staging opens the mapping from.
NodeInv ==
    /\ NodeType /\ OneOnNode /\ NodeCalls /\ MappingOnDevice
    /\ Room(nodeCapacity, disk, crypt)
    /\ fs # 0 => Room(fs + HeaderSize, disk, crypt)

\* The header is smaller than a GiB, with DriverV2 it is nothing.
LEMMA HeaderType ==
    HeaderSize \in Nat /\ HeaderSize < GiB /\ GiB \in Nat /\ GiB > 0
  BY SizeAssumption DEF HeaderSize

\* More GiB are more bytes.
LEMMA TimesGiB ==
    ASSUME NEW a \in Nat, NEW b \in Nat, a <= b
    PROVE  a * GiB \in Nat /\ b * GiB \in Nat /\ a * GiB <= b * GiB
<1>1. PICK k \in Nat : b = a + k
  <2>1. b - a \in Nat /\ b = a + (b - a)
    OBVIOUS
  <2>2. QED
    BY <2>1
<1>2. GiB \in Nat
  BY SizeAssumption
<1>3. a * GiB \in Nat /\ k * GiB \in Nat
  BY <1>2
<1>4. b * GiB = a * GiB + k * GiB
  BY <1>1, <1>2
<1>5. QED
  BY <1>3, <1>4

\* What LUKS leaves of a disk that is there is more than nothing, and grows with
\* the disk.
LEMMA UsableGrows ==
    ASSUME NEW a \in Nat, NEW b \in Nat, a # 0, a <= b
    PROVE  /\ Usable(a) \in Nat /\ Usable(a) # 0 /\ Usable(a) <= Usable(b)
           /\ Usable(a) + HeaderSize = a * GiB
<1>1. 1 * GiB <= a * GiB /\ a * GiB <= b * GiB /\ a * GiB \in Nat /\ b * GiB \in Nat
  <2>1. a >= 1 /\ 1 \in Nat
    OBVIOUS
  <2>2. QED
    BY <2>1, TimesGiB
<1>2. 1 * GiB = GiB
  BY SizeAssumption
<1> DEFINE x == a * GiB
           y == b * GiB
<1>3. x \in Nat /\ y \in Nat /\ GiB <= x /\ x <= y
  BY <1>1, <1>2
<1>4. Usable(a) = x - HeaderSize /\ Usable(b) = y - HeaderSize
  BY DEF Usable
<1> HIDE DEF x, y
<1>5. /\ Usable(a) \in Nat /\ Usable(a) # 0 /\ Usable(a) <= Usable(b)
      /\ Usable(a) + HeaderSize = x
  BY <1>3, <1>4, HeaderType
<1>6. QED
  BY <1>5 DEF x

\* A multiple of GiB between 0 and 2 * GiB, exclusive, is GiB; one between 0 and
\* GiB, the latter exclusive, is 0.
LEMMA FewGiB ==
    ASSUME NEW k \in Int, NEW x \in Nat, k * GiB = x
    PROVE  /\ x < GiB => k = 0
           /\ x > 0 /\ x < 2 * GiB => k = 1
<1>0. GiB \in Nat /\ GiB > 0
  BY SizeAssumption
<1>1. CASE k <= -1
  <2>1. (-k) \in Nat /\ 1 \in Nat /\ 1 <= -k
    BY <1>1
  <2>2. 1 * GiB <= (-k) * GiB
    BY <2>1, TimesGiB
  <2>3. (-k) * GiB = -(k * GiB) /\ 1 * GiB = GiB
    BY <1>0
  <2>4. QED
    BY <1>0, <2>2, <2>3
<1>2. CASE k >= 2
  <2>1. k \in Nat /\ 2 \in Nat
    BY <1>2
  <2>2. 2 * GiB <= k * GiB
    BY <2>1, <1>2, TimesGiB
  <2>3. QED
    BY <1>0, <2>2
<1>3. CASE k = 0 \/ k = 1
  BY <1>0, <1>3
<1>4. QED
  BY <1>1, <1>2, <1>3

\* Rounding up takes the missing header off the comparison: what is less than one
\* GiB short of g GiB rounds up to g.
LEMMA RoundUpShort ==
    ASSUME NEW g \in Nat, NEW h \in Nat, h < GiB
    PROVE  RoundUpGiB(g * GiB - h) = g
<1> DEFINE a == g * GiB - h
           q == a \div GiB
           m == a % GiB
           p == q * GiB
           t == g * GiB
           d == (g - q) * GiB
<1>0. GiB \in Nat /\ GiB > 0
  BY SizeAssumption
<1>1. t \in Nat /\ a \in Int
  BY <1>0
<1>2. q \in Int /\ m \in Nat /\ m < GiB /\ a = GiB * q + m
  BY <1>0, <1>1
<1>3. p \in Int /\ d \in Int /\ d = t - p /\ GiB * q = p
  BY <1>0, <1>2
<1>4. RoundUpGiB(g * GiB - h) = q + (IF m > 0 THEN 1 ELSE 0)
  BY DEF RoundUpGiB
<1>5. a = t - h
  OBVIOUS
<1> HIDE DEF a, q, m, p, t
<1>6. (g - q) * GiB = h + m /\ g - q \in Int /\ h + m \in Nat
  BY <1>1, <1>2, <1>3, <1>5
<1>7. m = 0 => g - q = 0
  BY <1>2, <1>6, FewGiB
<1>8. m > 0 => g - q = 1
  <2>1. m > 0 => h + m > 0 /\ h + m < 2 * GiB
    BY <1>0, <1>2
  <2>2. QED
    BY <1>6, <2>1, FewGiB
<1>9. QED
  BY <1>2, <1>4, <1>7, <1>8

\* What there was room for there is room for when the disk does not shrink, and
\* the mapping is closed, grows or is opened on the disk's size.
LEMMA RoomKept ==
    ASSUME NEW bytes \in Nat, NEW g \in Nat, NEW h \in Nat, g <= h,
           NEW m \in Nat, NEW n \in Nat, Room(bytes, g, m),
           \/ n = 0
           \/ m # 0 /\ m <= n
           \/ g # 0 /\ n = Usable(g)
    PROVE  Room(bytes, h, n)
<1> DEFINE x == g * GiB
           y == h * GiB
<1>1. x <= y /\ x \in Nat /\ y \in Nat
  BY TimesGiB
<1>2. g # 0 => Usable(g) \in Nat /\ Usable(g) + HeaderSize = x
  BY UsableGrows
<1>3. bytes <= x /\ (m # 0 => bytes <= m + HeaderSize)
  BY DEF Room
<1>4. HeaderSize \in Nat
  BY HeaderType
<1> HIDE DEF x, y
<1>5. bytes <= y
  BY <1>1, <1>3
<1>6. ASSUME m # 0, m <= n
      PROVE  bytes <= n + HeaderSize
  BY <1>3, <1>4, <1>6
<1>7. ASSUME g # 0, n = Usable(g)
      PROVE  bytes <= n + HeaderSize
  BY <1>2, <1>3, <1>7
<1>8. n # 0 => bytes <= n + HeaderSize
  BY <1>6, <1>7
<1>9. QED
  BY <1>5, <1>8 DEF Room, y

\* A step that moves one handler keeps the invariant: the lock changes hands
\* properly, neither the disk nor an open mapping shrinks, and what the handler
\* makes, answers or teaches there is room for.
LEMMA NodeStep ==
    ASSUME CapInv, NodeInv, NEW r \in Reqs,
           \A q \in Reqs : q # r => pc'[q] = pc[q] /\ req'[q] = req[q],
           req' \in [Reqs -> Nat], NodeType', v2' = v2, disk' \in Nat, disk <= disk',
           pc'[r] \in NodePoints => nodeLock' /\ (pc[r] \in NodePoints \/ ~nodeLock),
           nodeLock => nodeLock' \/ pc[r] \in NodePoints,
           MappingOnDevice',
           \/ crypt' = crypt
           \/ crypt # 0 /\ crypt <= crypt'
           \/ crypt = 0 /\ disk # 0 /\ crypt' = Usable(disk),
           pc'[r] \in StagePoints => disk' # 0,
           pc'[r] \in NodeExpandPoints => crypt' # 0 /\ \E g \in Nat : req'[r] = g * GiB,
           pc'[r] = "resized" => Room(req'[r], disk, crypt),
           nodeCapacity' # nodeCapacity => Room(nodeCapacity', disk, crypt),
           fs' # fs /\ fs' # 0 => Room(fs' + HeaderSize, disk, crypt)
    PROVE  NodeInv'
<1>1. disk \in Nat /\ crypt \in Nat /\ req \in [Reqs -> Nat]
  BY DEF CapInv, SizeType, NodeInv, NodeType
<1>2. crypt' \in Nat /\ nodeCapacity' \in Nat /\ fs' \in Nat /\ crypt' \in Nat
  BY DEF NodeType
<1>3. \/ crypt' = 0
      \/ crypt # 0 /\ crypt <= crypt'
      \/ disk # 0 /\ crypt' = Usable(disk)
  BY <1>1
<1>4. ASSUME NEW bytes \in Nat, Room(bytes, disk, crypt)
      PROVE  /\ bytes <= disk' * GiB
             /\ crypt' # 0 => bytes <= crypt' + HeaderSize
             /\ HeaderSize' = HeaderSize
  <2>1. Room(bytes, disk', crypt')
    BY <1>1, <1>2, <1>3, <1>4, RoomKept
  <2>2. HeaderSize' = HeaderSize
    BY DEF HeaderSize
  <2>3. QED
    BY <2>1, <2>2 DEF Room
<1>5. OneOnNode'
  BY DEF NodeInv, OneOnNode
<1>6. Room(nodeCapacity, disk, crypt)'
  <2>1. Room(nodeCapacity', disk, crypt)
    BY DEF NodeInv
  <2>2. QED
    BY <1>2, <1>4, <2>1 DEF Room
<1>7. fs' # 0 => Room(fs + HeaderSize, disk, crypt)'
  <2> SUFFICES ASSUME fs' # 0
               PROVE  Room(fs + HeaderSize, disk, crypt)'
    OBVIOUS
  <2>1. Room(fs' + HeaderSize, disk, crypt)
    BY DEF NodeInv
  <2>2. fs' + HeaderSize \in Nat
    BY <1>2, HeaderType
  <2>3. QED
    BY <1>4, <2>1, <2>2 DEF Room
<1>8. ASSUME NEW q \in Reqs
      PROVE  /\ pc'[q] \in StagePoints => disk' # 0
             /\ pc'[q] \in NodeExpandPoints => crypt' # 0 /\ \E g \in Nat : req'[q] = g * GiB
             /\ pc'[q] = "resized" => Room(req[q], disk, crypt)'
  <2>0. req'[q] \in Nat
    OBVIOUS
  <2>1. CASE q = r
    <3>1. pc'[q] = "resized" => Room(req[q], disk, crypt)'
      BY <1>4, <2>0, <2>1 DEF Room
    <3>2. QED
      BY <2>1, <3>1
  <2>2. CASE q # r
    <3>1. pc'[q] = pc[q] /\ req'[q] = req[q] /\ req'[q] \in Nat
      BY <1>1, <2>2
    <3>2. /\ pc[q] \in StagePoints => disk # 0
          /\ pc[q] \in NodeExpandPoints => crypt # 0 /\ \E g \in Nat : req[q] = g * GiB
          /\ pc[q] = "resized" => Room(req[q], disk, crypt)
      BY DEF NodeInv, NodeCalls
    <3>3. crypt # 0 => crypt' # 0
      BY <1>1, <1>2
    <3>4. pc'[q] = "resized" => Room(req[q], disk, crypt)'
      BY <1>4, <3>1, <3>2 DEF Room
    <3>5. disk # 0 => disk' # 0
      BY <1>1
    <3>6. QED
      BY <3>1, <3>2, <3>3, <3>4, <3>5
  <2>3. QED
    BY <2>1, <2>2
<1>9. QED
  BY <1>5, <1>6, <1>7, <1>8 DEF NodeInv, NodeCalls

\* The disk is there for the mapping after it has grown, too.
LEMMA MappingKept ==
    ASSUME CapInv, NodeInv, disk' \in Nat, disk <= disk', UNCHANGED <<device, crypt, v2>>
    PROVE  MappingOnDevice'
  BY DEF CapInv, SizeType, NodeInv, NodeType, MappingOnDevice, Usable, HeaderSize

\* No step of the controller shrinks the disk, and the node does not touch it.
LEMMA DiskGrows ==
    ASSUME CapInv, [Next]_vars
    PROVE  disk' \in Nat /\ disk <= disk'
<1>1. disk \in Nat
  BY DEF CapInv, SizeType
<1>2. ASSUME NEW r \in Reqs, NEW g \in Nat,
             \/ g >= disk /\ disk' = g
             \/ disk' \in {disk, MaxOf(disk, g)}
      PROVE  disk' \in Nat /\ disk <= disk'
  BY <1>1, <1>2 DEF MaxOf
<1>3. ASSUME NEW r \in Reqs, CreateManagedDisk(r) \/ PatchDisk(r)
      PROVE  disk' \in Nat /\ disk <= disk'
  <2>1. requestGiB(req[r]) \in Nat /\ RoundUpGiB(req[r]) \in Nat
    BY RoundUpType DEF CapInv, SizeType
  <2>2. CASE CreateManagedDisk(r)
    BY <1>2, <2>1, <2>2 DEF CreateManagedDisk
  <2>3. CASE PatchDisk(r)
    BY <1>2, <2>1, <2>3 DEF PatchDisk
  <2>4. QED
    BY <1>3, <2>2, <2>3
<1>4. ASSUME disk' = disk
      PROVE  disk' \in Nat /\ disk <= disk'
  BY <1>1, <1>4
<1>5. QED
  BY <1>3, <1>4 DEF Next, vars, CreateVolume, CreateRefused, PollProvisioningState,
       ControllerExpandVolume, ResizeDisk, NodeStageVolume, StageOpen, StageFs,
       NodeExpandVolume, NodeExpandVolumeV2, RescanVolume, ResizeCryptDevice,
       ResizeVolume, CheckBlockSize, Reply, NodeUnstageVolume

\* The mapping itself, with its header, has room on the disk.
LEMMA MappingRoom ==
    ASSUME CapInv, NodeInv, crypt # 0
    PROVE  /\ Room(crypt + HeaderSize, disk, crypt)
           /\ \E g \in 1..device : crypt = Usable(g) /\ crypt + HeaderSize = g * GiB
<1>1. disk \in Nat /\ device \in Nat /\ crypt \in Nat /\ device <= disk
  BY DEF CapInv, SizeType, NodeInv, NodeType, MappingOnDevice
<1>2. PICK g \in 1..device : crypt = Usable(g)
  BY DEF NodeInv, MappingOnDevice
<1>3. g \in Nat /\ g # 0 /\ g <= disk
  BY <1>1, <1>2
<1>4. crypt + HeaderSize = g * GiB
  BY <1>1, <1>2, <1>3, UsableGrows
<1>5. g * GiB <= disk * GiB
  BY <1>1, <1>3, TimesGiB
<1>6. crypt + HeaderSize <= crypt + HeaderSize
  BY <1>1, HeaderType
<1>7. QED
  BY <1>2, <1>4, <1>5, <1>6 DEF Room

\* The comparison in GiB that NodeExpandVolume makes is exact, header or not.
LEMMA CheckIsExact ==
    ASSUME CapInv, NodeInv, NEW r \in Reqs, pc[r] \in NodeExpandPoints, BlockBigEnough(r)
    PROVE  Room(req[r], disk, crypt)
<1>1. disk \in Nat /\ device \in Nat /\ crypt \in Nat /\ device <= disk /\ req[r] \in Nat
  BY DEF CapInv, SizeType, NodeInv, NodeType, MappingOnDevice
<1>2. crypt # 0
  BY DEF NodeInv, NodeCalls
<1>3. PICK k \in Nat : req[r] = k * GiB
  BY DEF NodeInv, NodeCalls
<1>4. PICK g \in 1..device : crypt = Usable(g) /\ crypt + HeaderSize = g * GiB
  BY <1>2, MappingRoom
<1>5. g \in Nat /\ g <= disk
  BY <1>1, <1>4
<1>6. RoundUpGiB(crypt) = g
  BY <1>4, <1>5, HeaderType, RoundUpShort DEF Usable
<1>7. RoundUpGiB(req[r] - HeaderSize) = k
  BY <1>3, HeaderType, RoundUpShort
<1>8. k <= g /\ k <= disk
  BY <1>1, <1>3, <1>5, <1>6, <1>7 DEF BlockBigEnough
<1>9. k * GiB <= g * GiB /\ k * GiB <= disk * GiB
  BY <1>1, <1>3, <1>5, <1>8, TimesGiB
<1>10. QED
  BY <1>3, <1>4, <1>9 DEF Room

\* Every step keeps the node's invariant.
LEMMA NodeNext == CapInv /\ NodeInv /\ [Next]_vars => NodeInv'
<1> SUFFICES ASSUME CapInv, NodeInv, [Next]_vars
             PROVE  NodeInv'
  OBVIOUS
<1>t. /\ pc \in [Reqs -> PCs] /\ req \in [Reqs -> Nat]
      /\ disk \in Nat /\ capacity \in Nat /\ capacity <= disk
      /\ device \in Nat /\ crypt \in Nat /\ fs \in Nat /\ nodeCapacity \in Nat
      /\ nodeLock \in BOOLEAN /\ v2 \in BOOLEAN
  BY DEF CapInv, SizeType, CapacityIsBacked, NodeInv, NodeType
<1>d. disk' \in Nat /\ disk <= disk' /\ CapInv'
  BY DiskGrows, CapNext
<1>r. req' \in [Reqs -> Nat]
  BY <1>d DEF CapInv, SizeType
<1>0. ASSUME UNCHANGED <<pc, req, disk, device, crypt, fs, nodeCapacity, nodeLock, v2>>
      PROVE  NodeInv'
  BY <1>0 DEF NodeInv, NodeType, OneOnNode, NodeCalls, MappingOnDevice, Room, Usable, HeaderSize
<1>1. ASSUME NEW r \in Reqs,
             \/ CreateVolume(r) \/ CreateRefused(r) \/ CreateManagedDisk(r)
             \/ PollProvisioningState(r) \/ ControllerExpandVolume(r)
             \/ ResizeDisk(r) \/ PatchDisk(r)
      PROVE  NodeInv'
  <2>1. UNCHANGED <<nodeLock, device, crypt, fs, nodeCapacity, v2>>
    BY <1>1 DEF CreateVolume, CreateRefused, CreateManagedDisk, PollProvisioningState,
         ControllerExpandVolume, ResizeDisk, PatchDisk, callVars, nodeVars, knownVars,
         Call, CreateReturns, Goto, options
  <2>2. PICK to \in CreatePoints \cup ExpandPoints \cup {"created", "expanded", "ended"} :
            pc' = [pc EXCEPT ![r] = to]
    BY <1>1 DEF CreateVolume, CreateRefused, CreateManagedDisk, PollProvisioningState,
         ControllerExpandVolume, ResizeDisk, PatchDisk, Call, CreateReturns, Goto,
         CreatePoints, ExpandPoints
  <2>3. req' = req \/ \E bytes \in Nat : req' = [req EXCEPT ![r] = bytes]
    BY <1>1, SizeAssumption DEF CreateVolume, CreateRefused, CreateManagedDisk,
         PollProvisioningState, ControllerExpandVolume, ResizeDisk, PatchDisk, callVars, Call
  <2>4. /\ pc'[r] = to /\ to \notin NodePoints /\ to # "resized"
        /\ \A q \in Reqs : q # r => pc'[q] = pc[q] /\ req'[q] = req[q]
    BY <1>t, <2>2, <2>3 DEF NodePoints, CreatePoints, ExpandPoints, StagePoints, NodeExpandPoints
  <2>5. MappingOnDevice'
    BY <1>d, <2>1, MappingKept
  <2>6. NodeType'
    BY <1>t, <2>1 DEF NodeType
  <2>7. pc'[r] \notin StagePoints /\ pc'[r] \notin NodeExpandPoints
    BY <2>4 DEF NodePoints
  <2>8. QED
    BY <1>d, <1>r, <2>1, <2>4, <2>5, <2>6, <2>7, NodeStep
<1>2. ASSUME NEW r \in Reqs, NodeStageVolume(r)
      PROVE  NodeInv'
  <2>1. /\ pc' = [pc EXCEPT ![r] = "stageOpen"] /\ req' = [req EXCEPT ![r] = 0]
        /\ ~nodeLock /\ nodeLock' = TRUE /\ capacity > 0
        /\ UNCHANGED <<disk, device, crypt, fs, nodeCapacity, v2>>
    BY <1>2 DEF NodeStageVolume, Call, Goto, options, nodeVars, knownVars
  <2>2. /\ pc'[r] = "stageOpen" /\ pc'[r] \notin NodeExpandPoints /\ pc'[r] # "resized"
        /\ \A q \in Reqs : q # r => pc'[q] = pc[q] /\ req'[q] = req[q]
    BY <1>t, <2>1 DEF NodeExpandPoints
  <2>3. MappingOnDevice' /\ NodeType' /\ disk' # 0
    BY <1>t, <1>d, <2>1, MappingKept DEF NodeType
  <2>4. QED
    BY <1>d, <1>r, <2>1, <2>2, <2>3, NodeStep
<1>3. ASSUME NEW r \in Reqs, StageOpen(r)
      PROVE  NodeInv'
  <2>1. UNCHANGED <<req, disk, nodeCapacity, v2, fs>>
    BY <1>3 DEF StageOpen, NodeReturns, Goto, options, nodeVars, knownVars
  <2>2. pc[r] = "stageOpen" /\ pc[r] \in NodePoints /\ disk # 0 /\ nodeLock
    <3>1. pc[r] = "stageOpen" /\ pc[r] \in StagePoints /\ pc[r] \in NodePoints
      BY <1>3 DEF StageOpen, StagePoints, NodePoints
    <3>2. QED
      BY <3>1 DEF NodeInv, OneOnNode, NodeCalls
  <2>3. PICK to \in {"stageFs", "ended"} :
            pc' = [pc EXCEPT ![r] = to] /\ nodeLock' = (to = "stageFs")
    BY <1>3, <2>2 DEF StageOpen, NodeReturns, Goto
  <2>4. /\ pc'[r] = to /\ to \notin NodeExpandPoints /\ to # "resized"
        /\ pc'[r] \in NodePoints => nodeLock'
        /\ \A q \in Reqs : q # r => pc'[q] = pc[q] /\ req'[q] = req[q]
    BY <1>t, <2>1, <2>3 DEF NodePoints, StagePoints, NodeExpandPoints
  <2>5. HeaderSize' = HeaderSize
    BY <2>1 DEF HeaderSize
  <2>6. /\ MappingOnDevice' /\ device' \in Nat /\ crypt' \in Nat
        /\ \/ crypt' = crypt
           \/ crypt = 0 /\ crypt' = Usable(disk)
    <3>1. CASE UNCHANGED nodeVars
      BY <1>t, <1>d, <2>1, <3>1, MappingKept DEF nodeVars
    <3>2. CASE /\ device' = IF device = 0 THEN disk ELSE device
               /\ crypt' = IF crypt = 0 THEN Usable(device') ELSE crypt
      <4>1. CASE device = 0
        <5>1. crypt = 0
          BY <1>t, <4>1, SizeAssumption DEF NodeInv, MappingOnDevice
        <5>2. device' = disk /\ crypt' = Usable(disk)
          BY <3>2, <4>1, <5>1
        <5>3. Usable(disk) \in Nat /\ Usable(disk) # 0
          BY <1>t, <2>2, UsableGrows
        <5>4. Usable(disk') = Usable(disk)
          BY <2>1
        <5>5. MappingOnDevice'
          <6>1. disk' \in 1..device' /\ device' <= disk'
            BY <1>t, <2>1, <2>2, <5>2
          <6>2. crypt' = disk' * GiB - HeaderSize'
            BY <2>1, <2>5, <5>2 DEF Usable
          <6>3. QED
            BY <6>1, <6>2 DEF MappingOnDevice, Usable
        <5>6. QED
          BY <1>t, <5>1, <5>2, <5>3, <5>5
      <4>2. CASE device # 0
        <5>1. PICK g \in 1..device : crypt = Usable(g)
          BY <4>2 DEF NodeInv, MappingOnDevice
        <5>2. g \in Nat /\ g # 0 /\ g <= g
          BY <1>t, <5>1
        <5>3. crypt # 0
          BY <5>1, <5>2, UsableGrows
        <5>4. device' = device /\ crypt' = crypt
          BY <3>2, <4>2, <5>3
        <5>5. QED
          BY <1>t, <1>d, <2>1, <5>4, MappingKept
      <4>3. QED
        BY <4>1, <4>2
    <3>3. QED
      BY <1>3, <3>1, <3>2 DEF StageOpen
  <2>7. NodeType'
    BY <1>t, <2>1, <2>3, <2>6 DEF NodeType
  <2>8. pc'[r] \in StagePoints => disk' # 0
    BY <2>1, <2>2
  <2>9. QED
    BY <1>d, <1>r, <2>1, <2>2, <2>4, <2>6, <2>7, <2>8, NodeStep
<1>4. ASSUME NEW r \in Reqs, StageFs(r) \/ ResizeVolume(r)
      PROVE  NodeInv'
  <2>1. UNCHANGED <<req, disk, nodeCapacity, v2, device, crypt>> /\ fs' \in {fs, crypt}
    BY <1>4 DEF StageFs, ResizeVolume, NodeReturns, Goto, options, callVars, knownVars
  <2>2. PICK to \in {"ended", "check"} :
            /\ pc' = [pc EXCEPT ![r] = to]
            /\ to = "ended" => nodeLock' = FALSE
            /\ to = "check" => nodeLock' = nodeLock /\ pc[r] = "fsResize"
    BY <1>4 DEF StageFs, ResizeVolume, NodeReturns, Goto, callVars
  <2>3. pc[r] \in NodePoints /\ nodeLock
    <3>1. pc[r] \in NodePoints
      BY <1>4 DEF StageFs, ResizeVolume, NodePoints, StagePoints, NodeExpandPoints
    <3>2. QED
      BY <3>1 DEF NodeInv, OneOnNode
  <2>4. /\ pc'[r] = to /\ to \notin StagePoints /\ to # "resized"
        /\ \A q \in Reqs : q # r => pc'[q] = pc[q] /\ req'[q] = req[q]
        /\ pc'[r] \in NodeExpandPoints => pc[r] \in NodeExpandPoints
        /\ pc'[r] \in NodePoints => nodeLock'
    BY <1>t, <2>1, <2>2, <2>3 DEF NodePoints, StagePoints, NodeExpandPoints
  <2>5. MappingOnDevice' /\ NodeType'
    BY <1>t, <1>d, <2>1, <2>2, MappingKept DEF NodeType
  <2>6. pc'[r] \in NodeExpandPoints => crypt' # 0 /\ \E g \in Nat : req'[r] = g * GiB
    BY <2>1, <2>4 DEF NodeInv, NodeCalls
  <2>7. fs' # fs /\ fs' # 0 => Room(fs' + HeaderSize, disk, crypt)
    BY <2>1, MappingRoom
  <2>8. QED
    BY <1>d, <1>r, <2>1, <2>3, <2>4, <2>5, <2>6, <2>7, NodeStep
<1>5. ASSUME NEW r \in Reqs, NodeExpandVolume(r) \/ NodeExpandVolumeV2(r)
      PROVE  NodeInv'
  <2>1. UNCHANGED <<disk, device, crypt, fs, nodeCapacity, v2>> /\ crypt # 0
    BY <1>5 DEF NodeExpandVolume, NodeExpandVolumeV2, Call, Goto, options, nodeVars, knownVars
  <2>2. PICK to \in {"rescan", "cryptResize", "fsResize", "ended"} :
            /\ pc' = [pc EXCEPT ![r] = to] /\ req' = [req EXCEPT ![r] = capacity * GiB]
            /\ \/ nodeLock' = nodeLock /\ to = "ended"
               \/ ~nodeLock /\ nodeLock' = TRUE
    BY <1>5 DEF NodeExpandVolume, NodeExpandVolumeV2, Call, Goto
  <2>3. /\ pc'[r] = to /\ to \notin StagePoints /\ to # "resized"
        /\ \A q \in Reqs : q # r => pc'[q] = pc[q] /\ req'[q] = req[q]
        /\ req'[r] = capacity * GiB
        /\ to \in NodePoints => to # "ended"
    BY <1>t, <2>2 DEF NodePoints, StagePoints, NodeExpandPoints
  <2>4. MappingOnDevice' /\ NodeType'
    BY <1>t, <1>d, <2>1, <2>2, MappingKept DEF NodeType
  <2>5. QED
    BY <1>t, <1>d, <1>r, <2>1, <2>2, <2>3, <2>4, NodeStep
<1>6. ASSUME NEW r \in Reqs, RescanVolume(r) \/ ResizeCryptDevice(r)
      PROVE  NodeInv'
  <2>1. UNCHANGED <<req, disk, nodeCapacity, v2, fs>>
    BY <1>6 DEF RescanVolume, ResizeCryptDevice, NodeReturns, Goto, options, callVars, knownVars
  <2>2. pc[r] \in NodeExpandPoints /\ pc[r] \in NodePoints
    BY <1>6 DEF RescanVolume, ResizeCryptDevice, NodePoints, NodeExpandPoints
  <2>3. nodeLock /\ crypt # 0 /\ \E g \in Nat : req[r] = g * GiB
    BY <2>2 DEF NodeInv, OneOnNode, NodeCalls
  <2>4. PICK to \in {"cryptResize", "fsResize", "ended"} :
            /\ pc' = [pc EXCEPT ![r] = to]
            /\ \/ nodeLock' = nodeLock
               \/ to = "ended" /\ nodeLock' = FALSE
    BY <1>6 DEF RescanVolume, ResizeCryptDevice, NodeReturns, Goto, callVars
  <2>5. /\ pc'[r] = to /\ to \notin StagePoints /\ to # "resized"
        /\ \A q \in Reqs : q # r => pc'[q] = pc[q] /\ req'[q] = req[q]
        /\ to \in NodePoints => to # "ended"
    BY <1>t, <2>1, <2>4 DEF NodePoints, StagePoints, NodeExpandPoints
  <2>6. PICK g \in 1..device : crypt = Usable(g)
    BY <2>3 DEF NodeInv, MappingOnDevice
  <2>7. device # 0 /\ device <= disk /\ g \in Nat /\ g # 0 /\ g <= device
    BY <1>t, <2>6 DEF NodeInv, MappingOnDevice
  <2>8. /\ device' \in Nat /\ device <= device' /\ device' <= disk
        /\ crypt' \in Nat /\ crypt <= crypt'
        /\ \E k \in 1..device' : crypt' = Usable(k)
    <3>1. CASE device' \in {device, disk} /\ crypt' = crypt
      <4>1. device' \in Nat /\ device <= device' /\ device' <= disk /\ g \in 1..device'
        BY <1>t, <2>7, <3>1
      <4>2. QED
        BY <1>t, <2>6, <3>1, <4>1
    <3>2. CASE device' = device /\ crypt' = Usable(device)
      <4>1. Usable(g) <= Usable(device)
        BY <1>t, <2>7, UsableGrows
      <4>2. Usable(device) \in Nat
        BY <1>t, <2>7, UsableGrows
      <4>3. device \in 1..device' /\ device' <= disk /\ device <= device'
        BY <1>t, <2>7, <3>2
      <4>4. QED
        BY <1>t, <2>6, <3>2, <4>1, <4>2, <4>3
    <3>3. QED
      BY <1>6, <3>1, <3>2 DEF RescanVolume, ResizeCryptDevice
  <2>9. MappingOnDevice' /\ NodeType'
    <3>1. NodeType'
      BY <1>t, <2>1, <2>4, <2>8 DEF NodeType
    <3>2. QED
      BY <2>1, <2>8, <3>1 DEF MappingOnDevice, Usable, HeaderSize
  <2>10. crypt # 0 /\ crypt <= crypt' /\ crypt' # 0
    BY <1>t, <2>3, <2>8
  <2>11. QED
    BY <1>d, <1>r, <2>1, <2>2, <2>3, <2>4, <2>5, <2>9, <2>10, NodeStep
<1>7. ASSUME NEW r \in Reqs, CheckBlockSize(r)
      PROVE  NodeInv'
  <2>1. UNCHANGED <<req, disk, nodeCapacity, v2, device, crypt, fs>> /\ nodeLock' = FALSE
    BY <1>7 DEF CheckBlockSize, NodeReturns, Goto, options, nodeVars, knownVars
  <2>2. pc[r] \in NodePoints /\ pc[r] \in NodeExpandPoints
    BY <1>7 DEF CheckBlockSize, NodePoints, NodeExpandPoints
  <2>3. PICK to \in {"resized", "ended"} :
            /\ pc' = [pc EXCEPT ![r] = to]
            /\ to = "resized" => BlockBigEnough(r)
    BY <1>7 DEF CheckBlockSize, NodeReturns, Goto
  <2>4. /\ pc'[r] = to /\ to \notin NodePoints
        /\ to \notin StagePoints /\ to \notin NodeExpandPoints
        /\ \A q \in Reqs : q # r => pc'[q] = pc[q] /\ req'[q] = req[q]
    BY <1>t, <2>1, <2>3 DEF NodePoints, StagePoints, NodeExpandPoints
  <2>5. pc'[r] = "resized" => Room(req'[r], disk, crypt)
    BY <2>1, <2>2, <2>3, <2>4, CheckIsExact
  <2>6. MappingOnDevice' /\ NodeType'
    BY <1>t, <1>d, <2>1, MappingKept DEF NodeType
  <2>7. QED
    BY <1>d, <1>r, <2>1, <2>2, <2>4, <2>5, <2>6, NodeStep
<1>8. ASSUME NEW r \in Reqs, Reply(r)
      PROVE  NodeInv'
  <2>1. /\ UNCHANGED <<disk, v2, device, crypt, fs, nodeLock>>
        /\ pc' = [pc EXCEPT ![r] = "idle"] /\ req' = [req EXCEPT ![r] = 0]
    BY <1>8 DEF Reply, Goto, options, nodeVars
  <2>2. \/ nodeCapacity' = nodeCapacity
        \/ pc[r] = "resized" /\ nodeCapacity' = MaxOf(nodeCapacity, req[r])
    BY <1>8 DEF Reply, knownVars
  <2>3. pc[r] = "resized" => Room(req[r], disk, crypt)
    BY DEF NodeInv, NodeCalls
  <2>4. nodeCapacity' \in Nat
    BY <1>t, <2>2 DEF MaxOf
  <2>5. nodeCapacity' # nodeCapacity => Room(nodeCapacity', disk, crypt)
    BY <2>2, <2>3 DEF MaxOf
  <2>6. /\ pc'[r] = "idle" /\ pc'[r] \notin NodePoints
        /\ pc'[r] \notin StagePoints /\ pc'[r] \notin NodeExpandPoints
        /\ \A q \in Reqs : q # r => pc'[q] = pc[q] /\ req'[q] = req[q]
    BY <1>t, <2>1 DEF NodePoints, StagePoints, NodeExpandPoints
  <2>7. MappingOnDevice' /\ NodeType'
    BY <1>t, <1>d, <2>1, <2>4, MappingKept DEF NodeType
  <2>8. QED
    BY <1>d, <1>r, <2>1, <2>5, <2>6, <2>7, NodeStep
<1>9. ASSUME NodeUnstageVolume
      PROVE  NodeInv'
  <2>1. /\ UNCHANGED <<pc, req, nodeLock, disk, fs, nodeCapacity, v2>>
        /\ ~nodeLock /\ device' = 0 /\ crypt' = 0
    BY <1>9 DEF NodeUnstageVolume, callVars, knownVars, options
  <2>2. \A r \in Reqs : pc[r] \notin NodePoints
    BY <2>1 DEF NodeInv, OneOnNode
  <2>3. MappingOnDevice' /\ NodeType'
    BY <1>t, <2>1 DEF MappingOnDevice, NodeType
  <2>4. HeaderSize' = HeaderSize
    BY <2>1 DEF HeaderSize
  <2>5. OneOnNode' /\ NodeCalls'
    BY <2>1, <2>2, <2>4 DEF NodeInv, OneOnNode, NodeCalls, NodePoints, Room
  <2>6. Room(nodeCapacity, disk, crypt)' /\ (fs' # 0 => Room(fs + HeaderSize, disk, crypt)')
    BY <2>1, <2>4 DEF NodeInv, Room
  <2>7. QED
    BY <2>3, <2>5, <2>6 DEF NodeInv
<1>10. ASSUME UNCHANGED vars
       PROVE  NodeInv'
  BY <1>0, <1>10 DEF vars, callVars, knownVars, nodeVars, options
<1>11. QED
  BY <1>1, <1>2, <1>3, <1>4, <1>5, <1>6, <1>7, <1>8, <1>9, <1>10 DEF Next

\* Nothing is staged, answered or made at the start.
LEMMA NodeInit == Init => NodeInv
<1> SUFFICES ASSUME Init
             PROVE  NodeInv
  OBVIOUS
<1>1. /\ pc = [r \in Reqs |-> "idle"] /\ disk = 0 /\ device = 0 /\ crypt = 0
      /\ fs = 0 /\ nodeCapacity = 0
  BY DEF Init
<1>2. NodeType /\ MappingOnDevice
  <2>1. nodeLock \in BOOLEAN /\ v2 \in BOOLEAN
    <3>1. (IF onlineResize THEN {FALSE} ELSE BOOLEAN) \subseteq BOOLEAN
      OBVIOUS
    <3>2. QED
      BY <3>1 DEF Init
  <2>2. QED
    BY <1>1, <2>1 DEF NodeType, MappingOnDevice
<1>3. OneOnNode /\ NodeCalls
  BY <1>1 DEF OneOnNode, NodeCalls, NodePoints, StagePoints, NodeExpandPoints
<1>4. Room(nodeCapacity, disk, crypt)
  <2>1. 0 <= 0 * GiB
    BY SizeAssumption
  <2>2. QED
    BY <1>1, <2>1 DEF Room
<1>5. QED
  BY <1>1, <1>2, <1>3, <1>4 DEF NodeInv

\* Once NodeExpandVolume has answered OK for a size the open mapping has it, less
\* the header: for every header smaller than a GiB the two sizes rounded up to
\* GiB compare as the sizes in bytes do, and no later staging, failed rescan or
\* expansion makes the mapping smaller.
THEOREM NodeCapacityHolds == Spec => []NodeCapacityIsBacked
<1>1. Init => CapInv /\ NodeInv
  BY CapInit, NodeInit
<1>2. CapInv /\ NodeInv /\ [Next]_vars => CapInv' /\ NodeInv'
  BY CapNext, NodeNext
<1>3. NodeInv => NodeCapacityIsBacked
  BY DEF NodeInv, NodeCapacityIsBacked, Room
<1>4. QED
  BY <1>1, <1>2, <1>3, PTL DEF Spec

\* The file system never outgrows the mapping it is on, over any sequence of
\* expanding, unstaging and staging again.
THEOREM FileSystemHolds == Spec => []FileSystemFits
<1>1. Init => CapInv /\ NodeInv
  BY CapInit, NodeInit
<1>2. CapInv /\ NodeInv /\ [Next]_vars => CapInv' /\ NodeInv'
  BY CapNext, NodeNext
<1>3. NodeInv => FileSystemFits
  <2> SUFFICES ASSUME NodeInv, crypt # 0
               PROVE  fs <= crypt
    BY DEF FileSystemFits
  <2>1. fs \in Nat /\ crypt \in Nat
    BY DEF NodeInv, NodeType
  <2>2. fs # 0 => fs + HeaderSize <= crypt + HeaderSize
    BY DEF NodeInv, Room
  <2>3. QED
    BY <2>1, <2>2, HeaderType
<1>4. QED
  BY <1>1, <1>2, <1>3, PTL DEF Spec
=============================================================================
