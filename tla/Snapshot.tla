------------------------------ MODULE Snapshot ------------------------------
(* CreateSnapshot, DeleteSnapshot and ListSnapshots by id, in the driver     *)
(* (controllerserver.go) and in driver v2 (controllerserver_v2.go), with     *)
(* waitForSnapshotReady (azuredisk.go) and GenerateCSISnapshot               *)
(* (azure_snapshot_utils.go).  A snapshot for another region is made in four *)
(* steps: a temporary snapshot in the region of the volume, a copy of it, a  *)
(* wait for the copy, and the deletion of the temporary one.                 *)
(*                                                                           *)
(* External: ARM, which copies in the background after it has accepted a     *)
(* snapshot, and the external-snapshotter, which calls again until it is     *)
(* answered OK and may call again while an earlier call still runs.          *)
EXTENDS Integers, FiniteSets

CONSTANTS Names,      \* snapshot names
          Vols,       \* source volumes
          Reqs,       \* handlers that may run at the same time
          NoName, NoVol,
          MaxWrites,  \* bound on the writes to the volumes
          MaxFaults   \* bound on failing ARM calls and restarts

ASSUME SnapshotAssumption ==
    /\ NoName \notin Names /\ NoVol \notin Vols
    /\ MaxWrites \in Nat /\ MaxFaults \in Nat

\* "s" is the snapshot asked for, "local" the one made for it under local_<name>.
Ids == Names \X {"s", "local"}
S(n) == <<n, "s">>
Local(n) == <<n, "local">>

\* The URI of a disk is not that of a snapshot.
ASSUME SourceAssumption == (Vols \cup {NoVol}) \cap Ids = {}

None == [of |-> NoVol, src |-> NoVol, at |-> 0, ready |-> FALSE, done |-> FALSE]
Snapshots ==
    [of : Vols, src : Vols \cup Ids, at : 0 .. MaxWrites, ready : BOOLEAN, done : BOOLEAN]

VARIABLES pc, op, name, vol,  \* the handler: position, call and arguments
          volumeLocks,    \* entries of VolumeLocks
          snap,           \* snap[i]: volume, source, time, ProvisioningState
                          \* Succeeded, CompletionPercent 100
          clock,          \* writes to the volumes so far
          faults,         \* failures so far
          told,           \* told[n]: the snapshot as it was when the first OK
                          \* for n was answered, None before
          stray,          \* temporary snapshots whose deletion failed
          deleted,        \* snapshots that were asked to be deleted
          source,         \* source[n]: the volume that snapshot n is meant to be of
          remote, incremental,        \* names: location and incremental of the class
          v2, shouldWaitForSnapshotReady  \* which driver, with which option

callVars == <<op, name, vol>>
options == <<source, remote, incremental, v2, shouldWaitForSnapshotReady>>
vars == <<pc, callVars, volumeLocks, snap, clock, faults, told, stray, deleted, options>>

CreatePoints == {"create", "wait", "get", "copy", "waitCopy", "delTemp", "getCopy"}
PCs == CreatePoints \cup {"idle", "start", "delete", "list", "ok", "err"}

\* The state has these types.
TypeOK ==
    /\ pc \in [Reqs -> PCs]
    /\ op \in [Reqs -> {"create", "delete", "list"}]
    /\ name \in [Reqs -> Names \cup {NoName}]
    /\ vol \in [Reqs -> Vols \cup {NoVol}]
    /\ volumeLocks \subseteq Names
    /\ snap \in [Ids -> Snapshots \cup {None}]
    /\ clock \in 0 .. MaxWrites /\ faults \in 0 .. MaxFaults
    /\ told \in [Names -> Snapshots \cup {None}]
    /\ stray \subseteq Names /\ deleted \subseteq Names
    /\ remote \subseteq Names /\ incremental \subseteq Names
    /\ v2 \in BOOLEAN /\ shouldWaitForSnapshotReady \in BOOLEAN
    /\ source \in [Names -> Vols]

Init ==
    /\ pc = [r \in Reqs |-> "idle"]
    /\ op = [r \in Reqs |-> "create"]
    /\ name = [r \in Reqs |-> NoName]
    /\ vol = [r \in Reqs |-> NoVol]
    /\ volumeLocks = {}
    /\ snap = [i \in Ids |-> None]
    /\ clock = 0 /\ faults = 0
    /\ told = [n \in Names |-> None]
    /\ stray = {} /\ deleted = {}
    /\ remote \in SUBSET Names /\ incremental \in SUBSET Names
    /\ v2 \in BOOLEAN /\ shouldWaitForSnapshotReady \in BOOLEAN
    /\ source \in [Names -> Vols]

Goto(r, to) == pc' = [pc EXCEPT ![r] = to] /\ UNCHANGED <<callVars, options>>
Faulty == faults < MaxFaults /\ faults' = faults + 1

-----------------------------------------------------------------------------
(* ARM.                                                                      *)

\* A snapshot of src is asked for under id i.  One that exists already is left
\* as it is, unless it has another source ("existing disk").
Taken(i, src) ==
    IF snap[i] # None THEN [snap[i] EXCEPT !.ready = TRUE]
    ELSE [of |-> IF src \in Ids THEN snap[src].of ELSE src, src |-> src,
          at |-> IF src \in Ids THEN snap[src].at ELSE clock, ready |-> TRUE, done |-> FALSE]
OtherSource(i, src) == snap[i] # None /\ snap[i].src # src
SourceThere(src) == IF src \in Ids THEN snap[src] # None ELSE TRUE
CreateOk(i, src) ==
    /\ ~OtherSource(i, src) /\ SourceThere(src)
    /\ snap' = [snap EXCEPT ![i] = Taken(i, src)]
    /\ UNCHANGED faults
\* Refused, or failed with or without the snapshot being made after all.
CreateFails(i, src) ==
    \/ (OtherSource(i, src) \/ ~SourceThere(src)) /\ UNCHANGED <<snap, faults>>
    \/ Faulty /\ UNCHANGED snap
    \/ /\ Faulty /\ snap[i] = None /\ SourceThere(src)
       /\ snap' = [snap EXCEPT ![i] = [Taken(i, src) EXCEPT !.ready = FALSE]]

\* Deleting what is not there succeeds.
Remove(i) == snap' = [snap EXCEPT ![i] = None]

\* What ARM does on its own: the data arrives, if its source is still there.
Complete(i) ==
    /\ snap[i] # None /\ ~snap[i].done
    /\ snap[i].src \in Ids => snap[snap[i].src].done
    /\ snap' = [snap EXCEPT ![i].ready = TRUE, ![i].done = TRUE]
    /\ UNCHANGED <<pc, callVars, volumeLocks, clock, faults, told, stray, deleted, options>>

Write ==
    /\ clock < MaxWrites
    /\ clock' = clock + 1
    /\ UNCHANGED <<pc, callVars, volumeLocks, snap, faults, told, stray, deleted, options>>

-----------------------------------------------------------------------------
(* The external-snapshotter.                                                 *)

Call(r, o, n, v) ==
    /\ pc[r] = "idle"
    /\ pc' = [pc EXCEPT ![r] = CASE o = "create" -> "start" [] OTHER -> o]
    /\ op' = [op EXCEPT ![r] = o]
    /\ name' = [name EXCEPT ![r] = n]
    /\ vol' = [vol EXCEPT ![r] = v]
    /\ UNCHANGED <<volumeLocks, snap, clock, told, stray, options>>

\* A name is used for one snapshot only (a call with another volume is a mistake),
\* which is deleted once nothing else runs.
CallCreate(r, n, v) ==
    /\ n \notin deleted
    /\ IF v = source[n] THEN UNCHANGED faults ELSE Faulty
    /\ Call(r, "create", n, v)
    /\ UNCHANGED deleted
CallList(r, n) ==
    /\ n \notin deleted /\ told[n] # None
    /\ Call(r, "list", n, NoVol)
    /\ UNCHANGED <<deleted, faults>>
CallDelete(r, n) ==
    /\ told[n] # None /\ \A q \in Reqs : name[q] # n
    /\ Call(r, "delete", n, NoVol)
    /\ deleted' = deleted \cup {n}
    /\ UNCHANGED faults

Reply(r) ==
    /\ pc[r] \in {"ok", "err"}
    /\ pc' = [pc EXCEPT ![r] = "idle"]
    /\ op' = [op EXCEPT ![r] = "create"]
    /\ name' = [name EXCEPT ![r] = NoName]
    /\ vol' = [vol EXCEPT ![r] = NoVol]
    /\ UNCHANGED <<volumeLocks, snap, clock, faults, told, stray, deleted, options>>

-----------------------------------------------------------------------------
(* CreateSnapshot.                                                           *)

\* Mutant: nobody looks at the lock.
NotAcquired(n) == FALSE
Acquired(n) == n \in volumeLocks

\* The handler returns: the deferred Release of the name that was acquired, not
\* of the temporary one that snapshotName stands for by then.
\* Mutant: an error path without it.
CreateReturnsLocked(r, to) ==
    /\ Goto(r, to)
    /\ volumeLocks' = IF to = "err" THEN volumeLocks ELSE volumeLocks \ {name[r]}
CreateReturns(r, to) == Goto(r, to) /\ volumeLocks' = volumeLocks \ {name[r]}
Continues(r, to) == Goto(r, to) /\ UNCHANGED volumeLocks

\* The parameters are read first and may be refused (an option that is not known,
\* the tags, the data access mode); then the lock is taken.
CreateSnapshot(r) ==
    /\ ~v2 /\ pc[r] = "start"
    /\ \/ Goto(r, "err") /\ UNCHANGED volumeLocks /\ Faulty
       \/ /\ Acquired(name[r])
          /\ Goto(r, "err") /\ UNCHANGED <<volumeLocks, faults>>
       \/ /\ ~Acquired(name[r])
          /\ IF name[r] \in remote \ incremental
             THEN Goto(r, "err") /\ UNCHANGED volumeLocks
             ELSE Goto(r, "create") /\ volumeLocks' = volumeLocks \cup {name[r]}
          /\ UNCHANGED faults
    /\ UNCHANGED <<snap, clock, told, stray, deleted>>

\* Driver v2 takes no lock, and location is not an option it knows.
CreateSnapshotV2(r) ==
    /\ v2 /\ pc[r] = "start"
    /\ \/ Goto(r, "err") /\ Faulty
       \/ name[r] \in remote /\ Goto(r, "err") /\ UNCHANGED faults
       \/ name[r] \notin remote /\ Goto(r, "create") /\ UNCHANGED faults
    /\ UNCHANGED <<volumeLocks, snap, clock, told, stray, deleted>>

\* The name the first snapshot is made under.
snapshotName(n) == IF n \in remote THEN Local(n) ELSE S(n)

\* What comes after the snapshot was made, and after it was read.
AfterCreate == IF shouldWaitForSnapshotReady THEN "wait" ELSE "get"
AfterCreateV2 == "wait"
AfterGet(n) == IF n \in remote THEN "copy" ELSE "ok"

\* Mutant: a snapshot that exists already will do.
CreateOrUpdateExisting(r) ==
    LET i == snapshotName(name[r]) IN
    /\ pc[r] = "create"
    /\ snap' = [snap EXCEPT ![i] = Taken(i, vol[r])]
    /\ Continues(r, IF v2 THEN AfterCreateV2 ELSE AfterCreate)
    /\ UNCHANGED <<clock, faults, told, stray, deleted>>
CreateOrUpdate(r) ==
    LET i == snapshotName(name[r]) IN
    /\ pc[r] = "create"
    /\ \/ /\ CreateOk(i, vol[r])
          /\ Continues(r, IF v2 THEN AfterCreateV2 ELSE AfterCreate)
       \/ CreateFails(i, vol[r]) /\ CreateReturns(r, "err")
    /\ UNCHANGED <<clock, told, stray, deleted>>

\* waitForSnapshotReady: done, not there or not readable, or the time is up.
\* Mutants: an unfinished snapshot will do; one that is not finished in time is
\* deleted.
waitForSnapshotReadyOnce(r, i, to) ==
    /\ snap[i] # None /\ Continues(r, to) /\ UNCHANGED <<snap, faults>>
waitForSnapshotReadyOrDelete(r, i, to) ==
    \/ snap[i].done /\ Continues(r, to) /\ UNCHANGED <<snap, faults>>
    \/ Faulty /\ Remove(i) /\ CreateReturns(r, "err")
waitForSnapshotReady(r, i, to) ==
    \/ snap[i].done /\ Continues(r, to) /\ UNCHANGED <<snap, faults>>
    \/ ~snap[i].done /\ CreateReturns(r, "err") /\ UNCHANGED <<snap, faults>>
    \/ Faulty /\ CreateReturns(r, "err") /\ UNCHANGED snap

Wait(r) ==
    /\ pc[r] = "wait"
    /\ waitForSnapshotReady(r, snapshotName(name[r]), "get")
    /\ UNCHANGED <<clock, told, stray, deleted>>

\* GenerateCSISnapshot of what Get returns: what the answer says of it.
GenerateCSISnapshot(i) == snap[i]
Tell(n, i) ==
    told' = IF told[n] = None THEN [told EXCEPT ![n] = GenerateCSISnapshot(i)] ELSE told

getSnapshotByID(r, i, to) ==
    \/ /\ snap[i] # None /\ UNCHANGED faults
       /\ IF to = "ok" THEN CreateReturns(r, "ok") /\ Tell(name[r], i)
                       ELSE Continues(r, to) /\ UNCHANGED told
    \/ /\ (snap[i] = None /\ UNCHANGED faults) \/ Faulty
       /\ CreateReturns(r, "err") /\ UNCHANGED told

Get(r) ==
    /\ pc[r] = "get"
    /\ getSnapshotByID(r, snapshotName(name[r]), AfterGet(name[r]))
    /\ UNCHANGED <<snap, clock, stray, deleted>>

\* The copy in the other region.
Copy(r) ==
    LET n == name[r] IN
    /\ pc[r] = "copy"
    /\ \/ CreateOk(S(n), Local(n)) /\ Continues(r, "waitCopy")
       \/ CreateFails(S(n), Local(n)) /\ CreateReturns(r, "err")
    /\ UNCHANGED <<clock, told, stray, deleted>>

\* Always, whatever shouldWaitForSnapshotReady says.
WaitCopy(r) ==
    /\ pc[r] = "waitCopy"
    /\ waitForSnapshotReady(r, S(name[r]), "delTemp")
    /\ UNCHANGED <<clock, told, stray, deleted>>

\* A failure is only logged.
\* Mutant: the temporary snapshot is forgotten.
DeleteTemporaryForgotten(r) ==
    /\ pc[r] = "delTemp"
    /\ Continues(r, "getCopy")
    /\ UNCHANGED <<snap, clock, faults, told, stray, deleted>>
DeleteTemporary(r) ==
    LET n == name[r] IN
    /\ pc[r] = "delTemp"
    /\ \/ Remove(Local(n)) /\ stray' = stray \ {n} /\ UNCHANGED faults
       \/ Faulty /\ stray' = stray \cup {n} /\ UNCHANGED snap
    /\ Continues(r, "getCopy")
    /\ UNCHANGED <<clock, told, deleted>>

GetCopy(r) ==
    /\ pc[r] = "getCopy"
    /\ getSnapshotByID(r, S(name[r]), "ok")
    /\ UNCHANGED <<snap, clock, stray, deleted>>

-----------------------------------------------------------------------------
(* DeleteSnapshot and ListSnapshots by id: the same in both drivers.         *)

Deletes(r) ==
    /\ pc[r] = "delete"
    /\ \/ Remove(S(name[r])) /\ Continues(r, "ok") /\ UNCHANGED faults
       \/ Faulty /\ Continues(r, "err") /\ snap' \in {snap, [snap EXCEPT ![S(name[r])] = None]}
    /\ UNCHANGED <<clock, told, stray, deleted>>
DeleteSnapshot(r) == ~v2 /\ Deletes(r)
DeleteSnapshotV2(r) == v2 /\ Deletes(r)

\* A snapshot that is not found makes an empty list.
Lists(r) ==
    /\ pc[r] = "list"
    /\ \/ Continues(r, "ok") /\ UNCHANGED faults
       \/ Continues(r, "err") /\ Faulty
    /\ UNCHANGED <<snap, clock, told, stray, deleted>>
ListSnapshots(r) == ~v2 /\ Lists(r)
ListSnapshotsV2(r) == v2 /\ Lists(r)

\* The plugin restarts.
Restart ==
    /\ Faulty
    /\ pc' = [r \in Reqs |-> "idle"]
    /\ op' = [r \in Reqs |-> "create"]
    /\ name' = [r \in Reqs |-> NoName]
    /\ vol' = [r \in Reqs |-> NoVol]
    /\ volumeLocks' = {}
    /\ UNCHANGED <<snap, clock, told, stray, deleted, options>>

Handler(r) ==
    \/ CreateSnapshot(r) \/ CreateSnapshotV2(r) \/ CreateOrUpdate(r) \/ Wait(r) \/ Get(r)
    \/ Copy(r) \/ WaitCopy(r) \/ DeleteTemporary(r) \/ GetCopy(r)
    \/ DeleteSnapshot(r) \/ DeleteSnapshotV2(r)
    \/ ListSnapshots(r) \/ ListSnapshotsV2(r)
    \/ Reply(r)

Next ==
    \/ \E r \in Reqs :
          \/ \E n \in Names : \/ \E v \in Vols : CallCreate(r, n, v)
                              \/ CallDelete(r, n) \/ CallList(r, n)
          \/ Handler(r)
    \/ \E i \in Ids : Complete(i)
    \/ Write \/ Restart

Spec == Init /\ [][Next]_vars

\* Handlers run, ARM finishes what it has the data for, and the
\* external-snapshotter calls until it has got an OK.
Fairness ==
    /\ \A r \in Reqs : WF_vars(Handler(r))
    /\ \A i \in Ids : WF_vars(Complete(i))
    /\ \A r \in Reqs, n \in Names :
          SF_vars(told[n] = None /\ CallCreate(r, n, source[n]))
FairSpec == Spec /\ Fairness

-----------------------------------------------------------------------------
(* Properties.                                                               *)

\* volumeLocks.TryAcquire(snapshotName) keeps the temporary snapshot to one call at
\* a time: from its creation until the copy is complete nobody else takes it away,
\* though the name it is under is not the name that is locked.
TemporaryKept ==
    \A r \in Reqs :
        ~v2 /\ name[r] \in remote /\ pc[r] \in {"wait", "get", "copy", "waitCopy"} =>
            snap[Local(name[r])] # None

Answers(r) == pc[r] # "ok" /\ pc'[r] = "ok" /\ op[r] = "create"

\* CreateSnapshot with WaitForSnapshotReady, in another region or in driver v2
\* answers OK only with a snapshot whose data has all arrived.
AnsweredIsComplete ==
    [][\A r \in Reqs :
          Answers(r) /\ (v2 \/ shouldWaitForSnapshotReady \/ name[r] \in remote) =>
              snap[S(name[r])].done]_vars

\* When a snapshot in another region is answered OK its temporary snapshot is
\* gone, through any number of failed and interrupted attempts before, unless
\* Delete failed ("delete snapshot error" is logged and the call goes on).
TemporaryRemoved ==
    [][\A r \in Reqs :
          Answers(r) /\ name[r] \in remote \ stray => snap[Local(name[r])] = None]_vars

\* "already exists, but the SourceVolumeId is different": within a region the
\* answer is a snapshot of the volume that was asked for, not of another.
AnsweredIsOfVolume ==
    [][\A r \in Reqs :
          Answers(r) /\ name[r] \notin remote => snap[S(name[r])].of = vol[r]]_vars

\* A snapshot that was answered OK stays what it is until it is deleted: a retry
\* never takes it again at a later time nor loses it.
SnapshotKept ==
    \A n \in Names \ deleted :
        told[n] # None => snap[S(n)].at = told[n].at /\ snap[S(n)].of = told[n].of

\* Retries converge: however the first attempts failed or were cut short, a
\* snapshot that can be made (a full one cannot be made in another region, and
\* driver v2 makes none there) is answered OK in the end, unless a call with the
\* wrong volume got in and has taken the name.
Possible(n) == n \notin remote \/ (n \in incremental /\ ~v2)
TakenByOther(n) == \E i \in {S(n), Local(n)} : snap[i].of \notin {NoVol, source[n]}
RetriesConverge == \A n \in Names : Possible(n) ~> told[n] # None \/ TakenByOther(n)
=============================================================================
