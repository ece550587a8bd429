-------------------------- MODULE DiskAttachRefines --------------------------
(* DiskAttach, with either driver, implements VolumeAttach.                  *)
EXTENDS DiskAttachV2

\* A publish has what it was asked for when it has read its LUN, also if a VM in
\* failed state is then updated before the answer.
Point(r) ==
    CASE pc[r] \in {"ok", "failedLock", "failedUpdate"} -> "done"
      [] pc[r] = "err" -> "failed"
      [] OTHER -> "working"
AbstractCall(r) ==
    IF pc[r] = "idle" THEN NoReq
    ELSE [op |-> op[r], disk |-> disk[r], node |-> node[r], st |-> Point(r),
          lun |-> IF op[r] = "publish" /\ Point(r) = "done" THEN lun[r] ELSE NoLun]

\* A disk that is ToBeDetached has left.
AbstractLun(n, d) == IF d \in tbd[n] THEN NoLun ELSE dataDisks[n][d]

\* NoReq stands for no call.
RunningCalls ==
    [op : {"publish", "unpublish", "delete"}, disk : Disks, node : Nodes,
     st : {"working", "done", "failed"}, lun : Luns \cup {NoLun}]
ASSUME CallAssumption == NoReq \notin RunningCalls

Abstract == INSTANCE VolumeAttach WITH
    Idle <- NoReq,
    call <- [r \in Reqs |-> AbstractCall(r)],
    at <- [n \in Nodes |-> [d \in Disks |-> AbstractLun(n, d)]],
    disks <- exists,
    vms <- alive

\* Batching, node locks, the VM cache and retries keep the promise of
\* VolumeAttach, as long as no attach lands after it was reported failed: every
\* answer was true at one moment of the call, and no disk is attached, detached
\* or deleted that no running call asks for.
ImplementsVolumeAttach == Abstract!Spec
=============================================================================
