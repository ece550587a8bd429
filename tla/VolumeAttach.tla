---------------------------- MODULE VolumeAttach ----------------------------
(* What the controller plugin promises to the sidecars: every call that says *)
(* it published, unpublished or deleted a disk was right about it at one     *)
(* moment while it ran, and a disk comes to or leaves a VM only while a call *)
(* that asks for it runs.  There are no queues, batches, locks or caches     *)
(* here.                                                                     *)
CONSTANTS Disks, Shared, Nodes, Reqs, Luns, NoLun,
          Idle          \* no call

VARIABLES call,         \* call[r]: what is asked, and how far it is
          at,           \* at[n][d]: LUN of d on the VM n
          disks, vms    \* the disks and VMs that exist

vars == <<call, at, disks, vms>>

Works(r, o) == call[r] # Idle /\ call[r].st = "working" /\ call[r].op = o
Asked(o, d, n) == \E r \in Reqs : Works(r, o) /\ call[r].disk = d /\ call[r].node = n
AskedAway(d, n) ==
    Asked("unpublish", d, n) \/ \E m \in Nodes \ {n} : Asked("publish", d, m)

Init ==
    /\ call = [r \in Reqs |-> Idle]
    /\ at = [n \in Nodes |-> [d \in Disks |-> NoLun]]
    /\ disks = Disks
    /\ vms = Nodes

-----------------------------------------------------------------------------
Begin(r, o, d, n) ==
    /\ call[r] = Idle
    /\ \E s \in {"working", "failed"} :
          call' = [call EXCEPT ![r] = [op |-> o, disk |-> d, node |-> n, st |-> s, lun |-> NoLun]]
    /\ UNCHANGED <<at, disks, vms>>

\* The call has what it was asked for.
Done(r, l) == call' = [call EXCEPT ![r].st = "done", ![r].lun = l]

Published(r) ==
    /\ Works(r, "publish")
    /\ \E l \in Luns :
          /\ call[r].node \in vms => at[call[r].node][call[r].disk] = l
          /\ Done(r, l)
    /\ UNCHANGED <<at, disks, vms>>

Unpublished(r) ==
    /\ Works(r, "unpublish")
    /\ call[r].node \in vms => at[call[r].node][call[r].disk] = NoLun
    /\ Done(r, NoLun)
    /\ UNCHANGED <<at, disks, vms>>

Deleted(r) ==
    /\ Works(r, "delete")
    /\ \A n \in Nodes : at[n][call[r].disk] = NoLun
    /\ Done(r, NoLun)
    /\ disks' = disks \ {call[r].disk}
    /\ UNCHANGED <<at, vms>>

Failed(r) == call' = [call EXCEPT ![r].st = "failed", ![r].lun = NoLun]

\* A call fails, maybe after it had what it was asked for.
Fails(r) ==
    /\ call[r] # Idle
    /\ Failed(r)
    /\ UNCHANGED <<at, disks, vms>>

Answers(r) ==
    /\ call[r] # Idle /\ call[r].st # "working"
    /\ call' = [call EXCEPT ![r] = Idle]
    /\ UNCHANGED <<at, disks, vms>>

-----------------------------------------------------------------------------
\* Disks come to n, each because a publish asks for it.
Attach(n) ==
    /\ n \in vms
    /\ \E luns \in [Disks -> Luns \cup {NoLun}] :
          /\ at' = [at EXCEPT ![n] = luns]
          /\ \A d \in Disks : luns[d] # at[n][d] =>
                /\ at[n][d] = NoLun
                /\ d \in disks
                /\ Asked("publish", d, n)
                /\ \A e \in Disks \ {d} : luns[e] # luns[d]
                /\ d \in Shared \/ \A m \in Nodes \ {n} : at[m][d] = NoLun
    /\ UNCHANGED <<call, disks, vms>>

\* Disks leave n, each because a call asks for it; the one that made them leave
\* may fail all the same.
Detach(n) ==
    /\ \E gone \in SUBSET Disks :
          /\ \A d \in gone : AskedAway(d, n)
          /\ at' = [at EXCEPT ![n] = [d \in Disks |-> IF d \in gone THEN NoLun ELSE @[d]]]
    /\ call' = call \/ \E r \in Reqs : call[r] # Idle /\ Failed(r)
    /\ UNCHANGED <<disks, vms>>

VMGone(n) ==
    /\ vms' = vms \ {n}
    /\ at' = [at EXCEPT ![n] = [d \in Disks |-> NoLun]]
    /\ UNCHANGED <<call, disks>>

\* The plugin restarts, and no call is answered.
PluginRestarts ==
    /\ call' = [r \in Reqs |-> Idle]
    /\ UNCHANGED <<at, disks, vms>>

Next ==
    \/ \E r \in Reqs :
          \/ \E o \in {"publish", "unpublish", "delete"}, d \in Disks, n \in Nodes : Begin(r, o, d, n)
          \/ Published(r) \/ Unpublished(r) \/ Deleted(r) \/ Fails(r) \/ Answers(r)
    \/ \E n \in Nodes : Attach(n) \/ Detach(n) \/ VMGone(n)
    \/ PluginRestarts

Spec == Init /\ [][Next]_vars
=============================================================================
