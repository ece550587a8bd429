------------------------------- MODULE AzureVM -------------------------------
(* The part of Azure that the controller plugin talks to through the vmset   *)
(* interface of cloud-provider-azure and through the disk client: the data   *)
(* disks of each VM, the VM cache of the library, and which disks exist.     *)
(* None of this code is in the repository; it is modelled from how           *)
(* azure_controller_common.go and azure_managedDiskController.go use it:     *)
(*  - a VM update is one call that either succeeds, is rejected, or fails    *)
(*    (times out, is preempted) although Azure has accepted the new model;   *)
(*    an accepted attach may still land later, an accepted detach shows as   *)
(*    ToBeDetached until it is carried out;                                  *)
(*  - "the cache is invalidated after Attach/Detach disk" and is otherwise   *)
(*    served until it expires (DisksAreAttached, GetDiskLun);                *)
(*  - a disk that is not shared is on at most one VM ("A disk can be         *)
(*    attached to only one VM at a time").                                   *)
EXTENDS Integers, FiniteSets

CONSTANTS Disks,       \* managed disks
          Shared,      \* the disks with maxShares > 1
          Nodes,       \* VMs of the cluster
          MaxLUN,      \* maxLUN, the number of LUNs of a VM
          Mortal,      \* VMs that may be deleted while the plugin runs
          LateAttach,  \* may an attach that was reported failed land later?
          NoNode       \* disk.ManagedBy == nil

NoLun == -1
Luns == 0 .. MaxLUN - 1

ASSUME AzureAssumption ==
    /\ Shared \subseteq Disks
    /\ Mortal \subseteq Nodes
    /\ MaxLUN \in Nat
    /\ LateAttach \in BOOLEAN
    /\ NoNode \notin Nodes

\* The assignment of LUNs to disks: a VM's data disks, or an attach request.
LunMap == [Disks -> Luns \cup {NoLun}]
NoLuns == [d \in Disks |-> NoLun]

VARIABLES exists,      \* the disks that exist
          alive,       \* the VMs that exist
          dataDisks,   \* dataDisks[n]: LUN of each data disk of VM n
          tbd,         \* tbd[n]: data disks of n that are ToBeDetached
          pend,        \* pend[n]: accepted attach of n that has not landed
          cached,      \* VMs with a valid entry in the VM cache
          cacheDisks,  \* dataDisks[n] as cached
          cacheTbd     \* tbd[n] as cached

azureVars == <<exists, alive, dataDisks, tbd, pend, cached, cacheDisks, cacheTbd>>
cacheVars == <<cached, cacheDisks, cacheTbd>>
vmVars == <<dataDisks, tbd, pend>>

AzureTypeOK ==
    /\ exists \subseteq Disks
    /\ alive \subseteq Nodes
    /\ dataDisks \in [Nodes -> LunMap]
    /\ tbd \in [Nodes -> SUBSET Disks]
    /\ pend \in [Nodes -> LunMap]
    /\ cached \subseteq Nodes
    /\ cacheDisks \in [Nodes -> LunMap]
    /\ cacheTbd \in [Nodes -> SUBSET Disks]

AzureInit ==
    /\ exists = Disks
    /\ alive = Nodes
    /\ dataDisks = [n \in Nodes |-> NoLuns]
    /\ tbd = [n \in Nodes |-> {}]
    /\ pend = [n \in Nodes |-> NoLuns]
    /\ cached = {}
    /\ cacheDisks = [n \in Nodes |-> NoLuns]
    /\ cacheTbd = [n \in Nodes |-> {}]

-----------------------------------------------------------------------------
(* Reading.                                                                  *)

On(luns) == {d \in Disks : luns[d] # NoLun}
ManagedBy(d) == {n \in Nodes : dataDisks[n][d] # NoLun}

\* GetDataDisks with CacheReadTypeDefault: the cached entry, else the VM.
Readable(n) == n \in cached \cup alive
ReadDisks(n) == IF n \in cached THEN cacheDisks[n] ELSE dataDisks[n]
ReadTbd(n) == IF n \in cached THEN cacheTbd[n] ELSE tbd[n]
FillCache(n) ==
    /\ cached' = cached \cup {n}
    /\ cacheDisks' = [cacheDisks EXCEPT ![n] = ReadDisks(n)]
    /\ cacheTbd' = [cacheTbd EXCEPT ![n] = ReadTbd(n)]

\* DeleteCacheForNode.
DeleteCacheForNode(n) ==
    /\ cached' = cached \ {n}
    /\ cacheDisks' = [cacheDisks EXCEPT ![n] = NoLuns]
    /\ cacheTbd' = [cacheTbd EXCEPT ![n] = {}]

-----------------------------------------------------------------------------
(* VM updates.                                                               *)

\* Azure takes an attach of the disks in plan if each exists, is not attached
\* elsewhere, and its LUN is free on the VM or already the disk's own.
LunFree(n, d, l) == \A e \in Disks \ {d} : dataDisks[n][e] # l
Attachable(n, plan) ==
    /\ n \in alive
    /\ \A d \in On(plan) :
          /\ d \in exists
          /\ dataDisks[n][d] \in {NoLun, plan[d]}
          /\ d \notin tbd[n]
          /\ LunFree(n, d, plan[d])
          /\ d \in Shared \/ ManagedBy(d) \subseteq {n}
    /\ \A d, e \in On(plan) : d # e => plan[d] # plan[e]
Attached(n, plan) ==
    [d \in Disks |-> IF plan[d] # NoLun THEN plan[d] ELSE dataDisks[n][d]]

\* The VM gets the disks of plan.
LandPlan(n, plan) ==
    /\ dataDisks' = [dataDisks EXCEPT ![n] = Attached(n, plan)]
    /\ pend' = [pend EXCEPT ![n] = NoLuns]

VMAttachOk(n, plan) ==
    /\ Attachable(n, plan)
    /\ LandPlan(n, plan)
    /\ UNCHANGED tbd
\* Rejected, or accepted and then timed out or preempted.
VMAttachFails(n, plan) ==
    /\ UNCHANGED <<dataDisks, tbd>>
    /\ \/ UNCHANGED pend
       \/ /\ LateAttach
          /\ Attachable(n, plan)
          /\ pend' = [pend EXCEPT ![n] = plan]

Without(n, gone) == [d \in Disks |-> IF d \in gone THEN NoLun ELSE dataDisks[n][d]]
VMDetachOk(n, gone) ==
    /\ n \in alive
    /\ dataDisks' = [dataDisks EXCEPT ![n] = Without(n, gone)]
    /\ tbd' = [tbd EXCEPT ![n] = @ \ gone]
    /\ pend' = [pend EXCEPT ![n] = NoLuns]
VMDetachFails(n, gone) ==
    /\ UNCHANGED dataDisks
    /\ \/ UNCHANGED <<tbd, pend>>
       \/ /\ n \in alive
          /\ tbd' = [tbd EXCEPT ![n] = @ \cup (gone \cap On(dataDisks[n]))]
          /\ pend' = [pend EXCEPT ![n] = NoLuns]

\* An update with no change of its own carries out what was accepted before.
VMUpdateOk(n) ==
    /\ n \in alive
    /\ LET plan == IF Attachable(n, pend[n]) THEN pend[n] ELSE NoLuns
       IN dataDisks' = [dataDisks EXCEPT ![n] =
              [d \in Disks |-> IF d \in tbd[n] THEN NoLun ELSE Attached(n, plan)[d]]]
    /\ tbd' = [tbd EXCEPT ![n] = {}]
    /\ pend' = [pend EXCEPT ![n] = NoLuns]

-----------------------------------------------------------------------------
(* What Azure does on its own.                                               *)

CacheExpires(n) ==
    /\ n \in cached
    /\ DeleteCacheForNode(n)
    /\ UNCHANGED <<exists, alive, dataDisks, tbd, pend>>

LateAttachLands(n) ==
    /\ pend[n] # NoLuns
    /\ Attachable(n, pend[n])
    /\ LandPlan(n, pend[n])
    /\ UNCHANGED <<exists, alive, tbd, cached, cacheDisks, cacheTbd>>

LateDetachLands(n) ==
    /\ tbd[n] # {}
    /\ dataDisks' = [dataDisks EXCEPT ![n] = Without(n, tbd[n])]
    /\ tbd' = [tbd EXCEPT ![n] = {}]
    /\ UNCHANGED <<exists, alive, pend, cached, cacheDisks, cacheTbd>>

\* The VM is deleted, by the cluster autoscaler for instance.
NodeDeleted(n) ==
    /\ n \in alive \cap Mortal
    /\ alive' = alive \ {n}
    /\ dataDisks' = [dataDisks EXCEPT ![n] = NoLuns]
    /\ tbd' = [tbd EXCEPT ![n] = {}]
    /\ pend' = [pend EXCEPT ![n] = NoLuns]
    /\ UNCHANGED <<exists, cached, cacheDisks, cacheTbd>>

AzureStep ==
    \E n \in Nodes :
        \/ CacheExpires(n)
        \/ LateAttachLands(n)
        \/ LateDetachLands(n)
        \/ NodeDeleted(n)
=============================================================================
