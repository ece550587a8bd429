------------------------------- MODULE Device -------------------------------
(* The device of a volume on a Linux node: NodeGetInfo, with which the node  *)
(* plugin registers, and the first part of NodeStageVolume, which finds the  *)
(* device of the LUN it is given (getDevicePathWithLUN), tunes it            *)
(* (OptimizeDiskPerformance) and opens it.  The rest of NodeStageVolume is   *)
(* in NodeServer.                                                            *)
(*                                                                           *)
(* External, modelled from how the code uses it: the SCSI bus and the device *)
(* names of the kernel, which change whenever another disk is attached to or *)
(* detached from the node; and udev, which keeps the links to a device name  *)
(* and lags behind the kernel.  The links of a device are those of its disk: *)
(* /dev/disk/azure/scsi1/lunN, if the node has the udev rules of Azure, and  *)
(* /dev/disk/by-id/X.                                                        *)
EXTENDS DevicePerf

CONSTANTS Disks, Names,       \* data disks, names of their devices (sdc, sdd)
          NoDisk, NoName,
          LunOf,              \* LunOf[d]: LUN of the disk d
          SysDevices,         \* the other devices of the SCSI bus: host, lun,
                              \* name, and whether it is a VHD
          DataHosts,          \* SCSI hosts on which data disks may show up
          NodeInfos,          \* what NewNodeInfo may have got
          NoNodeInfo,
          VolumeContexts,     \* perf attributes of a volume
          Registrations,      \* configurations under which NodeGetInfo runs
          MaxPolls            \* bound on the polls of two minutes

ASSUME DeviceAssumption ==
    /\ NoDisk \notin Disks /\ NoName \notin Names
    /\ Disks \cap Names = {}
    /\ LunOf \in [Disks -> Nat] /\ \A d, e \in Disks : LunOf[d] = LunOf[e] => d = e
    /\ \A v \in SysDevices : v.name \notin Names /\ v.lun \in Nat /\ v.host \in Nat
    /\ NodeInfos \subseteq NodeInfoMap
    \* "as observed, targets 0-3 are used by OS disks"
    /\ \A v \in SysDevices : v.vhd => v.host <= 3
    /\ \A r \in Registrations : /\ r.limit \in Int /\ r.reserved \in Nat
                                /\ r.driver = "v2" => r.reserved = 0
    /\ MaxPolls \in Nat \ {0}

VARIABLES
    host,          \* SCSI host of the data disks
    azureRules,    \* are the udev rules of Azure installed?
    nodeInfo,      \* d.nodeInfo
    context,       \* volume context of the volume that is staged
    name,          \* name[d]: name of d's device, if d is attached and found
    udev,          \* udev[n]: the disk whose links point to n
    attached,      \* disks attached to the node
    info,          \* answer of NodeGetInfo, until the kubelet has got it
    pc, disk,      \* NodeStageVolume: position and volume
    polls, path,   \* path: a link (named by its disk) or a device name
    found,         \* found: devName of findDiskByLunWithConstraint
    listed,        \* listed: azureDisks of findDiskByLun
    tuned, todo,   \* device root that is tuned, settings still to be written
    queue          \* queue[n]: settings written for the device n

configVars == <<host, azureRules, nodeInfo, context>>
kernelVars == <<name, udev, attached, queue>>
vars == <<configVars, kernelVars, info, pc, disk, polls, path, found, listed, tuned, todo>>

FindPoints == {"rescan", "list", "scan", "scsi1", "byId"}
NoInfo == <<>>
\* scheduler, nr_requests and read_ahead_kb are written like these two.
BasicSettings == {"max_sectors_kb", "queue_depth"}
SysNames == {v.name : v \in SysDevices}

Init ==
    /\ host \in DataHosts
    /\ azureRules \in BOOLEAN
    /\ nodeInfo \in NodeInfos \cup {NoNodeInfo}
    /\ context \in VolumeContexts
    /\ name = [d \in Disks |-> NoName]
    /\ udev = [n \in Names |-> NoDisk]
    /\ attached = {}
    /\ queue = [n \in Names |-> {}]
    /\ info = NoInfo
    /\ pc = "register" /\ disk = NoDisk
    /\ polls = 0 /\ path = NoName /\ found = NoName /\ listed = {}
    /\ tuned = NoName /\ todo = {}

-----------------------------------------------------------------------------
(* NodeGetInfo.                                                              *)

\* Disks per VM by size; azure_dd_max_disk_count.go has these counts.
maxDataDiskCountMap == [s1 |-> 1, s2 |-> 2, s4 |-> 4, s8 |-> 8, s12 |-> 12, s16 |-> 16,
                        s24 |-> 24, s32 |-> 32, s48 |-> 48, s64 |-> 64]
defaultAzureVolumeLimit == 16
getMaxDataDiskCount(size) ==
    IF size \in DOMAIN maxDataDiskCountMap THEN maxDataDiskCountMap[size]
    ELSE defaultAzureVolumeLimit

\* Go's empty string: an answer that has no value.
Unset == ""

\* An input says what the flags are (fromLabels, limit, reserved, fromIMDS) and
\* what each source answers: "fails", Unset, or a value.
LabelsRead(in) == in.supportZone /\ (in.fromLabels \/ in.zone = "fails")
LabelSize(in) == IF in.labels = "fails" THEN Unset ELSE in.labelSize

\* Mutant: the size is not looked up in the labels again.
InstanceTypeNoFallback(in) ==
    IF in.size # "fails" /\ ~in.fromLabels THEN in.size
    ELSE IF LabelsRead(in) THEN LabelSize(in) ELSE Unset
InstanceType(in) ==
    IF ~in.fromLabels /\ in.size \notin {"fails", Unset} THEN in.size ELSE LabelSize(in)

NodeZone(in) ==
    IF ~in.supportZone THEN Unset
    ELSE IF ~in.fromLabels /\ in.zone # "fails" THEN in.zone
    ELSE in.labelZone

\* A failed read of the labels for the zone is an error, and the kubelet asks
\* again; a zone of another region is left out of the topology.
Registers(in, limit, id) ==
    /\ pc = "register"
    /\ info = NoInfo
    /\ ~(LabelsRead(in) /\ in.labels = "fails")
    /\ info' = <<[limit |-> IF in.limit >= 0 THEN in.limit ELSE limit, input |-> in, nodeId |-> id,
                  zone |-> IF NodeZone(in) = "elsewhere" THEN Unset ELSE NodeZone(in)]>>
    /\ UNCHANGED <<configVars, kernelVars, pc, disk, polls, path, found, listed, tuned, todo>>

NodeId(in) == IF in.fromIMDS /\ in.imds \notin {"fails", Unset} THEN in.imds ELSE "nodeid"
NodeGetInfo(in) ==
    /\ in.driver = "v1"
    /\ Registers(in, getMaxDataDiskCount(InstanceType(in)) - in.reserved, NodeId(in))

\* Driver v2 has no reserved number and does not ask the metadata service.
NodeGetInfoV2(in) ==
    /\ in.driver = "v2"
    /\ Registers(in, getMaxDataDiskCount(InstanceType(in)), "nodeid")

\* The kubelet has the answer, and volumes may come.
Registered ==
    /\ pc = "register" /\ info # NoInfo
    /\ info' = NoInfo
    /\ pc' = "idle"
    /\ UNCHANGED <<configVars, kernelVars, disk, polls, path, found, listed, tuned, todo>>

-----------------------------------------------------------------------------
(* The kernel and udev.                                                      *)

AtName(n) == {d \in Disks : name[d] = n}

Attach(d) ==
    /\ pc # "register"
    /\ d \notin attached
    /\ attached' = attached \cup {d}
    /\ UNCHANGED <<configVars, name, udev, queue, info, pc, disk, polls, path, found,
                   listed, tuned, todo>>

KernelAdds(d, n) ==
    /\ d \in attached /\ name[d] = NoName
    /\ AtName(n) = {}
    /\ name' = [name EXCEPT ![d] = n]
    /\ UNCHANGED <<configVars, udev, attached, queue, info, pc, disk, polls, path, found,
                   listed, tuned, todo>>

\* A disk leaves the node when no stage of it runs, and Azure ends the detach
\* when the kernel has dropped the device.
Detach(d) ==
    /\ d \in attached
    /\ pc = "idle" \/ disk # d
    /\ attached' = attached \ {d}
    /\ name' = [name EXCEPT ![d] = NoName]
    /\ queue' = [n \in Names |-> IF n = name[d] THEN {} ELSE queue[n]]
    /\ UNCHANGED <<configVars, udev, info, pc, disk, polls, path, found, listed, tuned, todo>>

\* udev handles the oldest event of a name: the links of a device that is gone
\* go before those of the next device of that name are made.  A link has one
\* target, the newest.
UdevHandles(n) ==
    /\ AtName(n) # {udev[n]}
    /\ \/ /\ udev[n] # NoDisk
          /\ udev' = [udev EXCEPT ![n] = NoDisk]
       \/ /\ udev[n] = NoDisk
          /\ \E d \in AtName(n) :
                udev' = [m \in Names |-> IF m = n THEN d
                                        ELSE IF udev[m] = d THEN NoDisk ELSE udev[m]]
    /\ UNCHANGED <<configVars, name, attached, queue, info, pc, disk, polls, path, found,
                   listed, tuned, todo>>

-----------------------------------------------------------------------------
(* getDevicePathWithLUN.                                                     *)

handlerRest == <<configVars, kernelVars, info>>

Stage(d) ==
    /\ pc = "idle"
    /\ d \in attached
    /\ pc' = "rescan"
    /\ disk' = d
    /\ UNCHANGED <<handlerRest, polls, path, found, listed, tuned, todo>>

\* The handler forgets what it knew.
Returns(to) ==
    /\ pc' = to
    /\ disk' = NoDisk
    /\ polls' = 0 /\ path' = NoName /\ found' = NoName /\ listed' = {}
    /\ tuned' = NoName /\ todo' = {}

\* GetDiskLUN of the publish context, and scsiHostRescan, whose errors are only
\* logged.
ScsiHostRescan ==
    /\ pc = "rescan"
    /\ \/ Returns("err")
       \/ pc' = "list" /\ UNCHANGED <<disk, polls, path, found, listed, tuned, todo>>
    /\ UNCHANGED handlerRest

\* The targets of the links in /dev/disk/azure that can be read.
SysDisks == IF azureRules THEN {v.name : v \in {w \in SysDevices : w.vhd}} ELSE {}
ListAzureDiskPath ==
    /\ pc = "list"
    /\ listed' \in SUBSET SysDisks
    /\ pc' = "scan"
    /\ UNCHANGED <<handlerRest, disk, polls, path, found, tuned, todo>>

Bus == SysDevices \cup
       {[host |-> host, lun |-> LunOf[d], name |-> name[d], vhd |-> TRUE] :
            d \in {e \in Disks : name[e] # NoName}}

\* Mutant: the system disks are not left out.
CandidateSystem(v, l) == v.lun = l /\ v.vhd /\ (listed = {} => v.host > 3)
\* A VHD with the LUN that is no system disk; without links to the system disks
\* the hosts 0 to 3 are left out.
Candidate(v, l) ==
    /\ v.lun = l
    /\ v.vhd
    /\ listed = {} => v.host > 3
    /\ v.name \notin listed

\* Mutant: a poll that does not count.
PollsOnForEver == polls' = polls /\ pc' = "list"
\* wait.PollImmediate: again, or the two minutes are over.
PollsOn ==
    /\ polls' = polls + 1
    /\ pc' = IF polls + 1 = MaxPolls THEN "err" ELSE "list"

\* A device may be missed because a file of it cannot be read.
FindDiskByLunWithConstraint ==
    /\ pc = "scan"
    /\ \/ \E v \in {w \in Bus : Candidate(w, LunOf[disk])} :
             found' = v.name /\ pc' = "scsi1" /\ UNCHANGED polls
       \/ PollsOn /\ UNCHANGED found
    /\ UNCHANGED <<handlerRest, disk, path, listed, tuned, todo>>

\* A link that points to the name, whatever it is called.
LinksTo(n) == IF n \in Names /\ udev[n] # NoDisk THEN {udev[n]} ELSE {}

\* getDiskLinkByDevName in /dev/disk/azure/scsi1 and in /dev/disk/by-id, else
\* the device itself.
FoundAs(p) ==
    /\ path' = p
    /\ pc' = "tune"
GetLinkInScsi1 ==
    /\ pc = "scsi1"
    /\ \/ azureRules /\ \E p \in LinksTo(found) : FoundAs(p)
       \/ pc' = "byId" /\ UNCHANGED path
    /\ UNCHANGED <<handlerRest, disk, polls, found, listed, tuned, todo>>
GetLinkById ==
    /\ pc = "byId"
    /\ \E p \in LinksTo(found) \cup {found} : FoundAs(p)
    /\ UNCHANGED <<handlerRest, disk, polls, found, listed, tuned, todo>>

-----------------------------------------------------------------------------
(* OptimizeDiskPerformance.                                                  *)

\* Names of devices that a path leads to: none for a dangling link.
Resolve(p) ==
    IF p \in Disks THEN {n \in Names : udev[n] = p /\ AtName(n) # {}} ELSE {p}

\* GetDiskPerfAttributes, DiskSupportsPerfOptimization and the settings of the
\* profile; {} if there are none or they cannot be had.
MatchingSkus == getMatchingDiskSku(context.account, context.gib, context.iops, context.mbps)
Settings ==
    CASE context.profile = "basic" /\ MatchingSkus # {} -> BasicSettings
      [] context.profile = "advanced" -> context.settings
      [] OTHER -> {}
Tunes ==
    /\ context.enabled
    /\ DiskSupportsPerfOptimization(context.profile, context.account)
AreDeviceSettingsValid == Settings # {} /\ "../outside" \notin Settings

OptimizeDiskPerformance ==
    /\ pc = "tune"
    /\ \/ /\ ~Tunes
          /\ ~(context.enabled /\ context.profile = "invalid")
          /\ pc' = "open"
          /\ UNCHANGED <<disk, polls, path, found, listed, tuned, todo>>
       \/ /\ Tunes /\ nodeInfo # NoNodeInfo /\ AreDeviceSettingsValid
          /\ \E n \in Resolve(path) : tuned' = n
          /\ todo' = Settings
          /\ pc' = "apply"
          /\ UNCHANGED <<disk, polls, path, found, listed>>
       \/ /\ \/ context.enabled /\ context.profile = "invalid"
             \/ Tunes /\ (nodeInfo = NoNodeInfo \/ ~AreDeviceSettingsValid \/ Resolve(path) = {})
          /\ Returns("err")
    /\ UNCHANGED handlerRest

\* One turn of the loop in applyDeviceSettings; the map has no order.
ApplyDeviceSettings ==
    /\ pc = "apply"
    /\ \/ /\ tuned \in Names /\ AtName(tuned) # {}
          /\ \E s \in todo :
                /\ queue' = [queue EXCEPT ![tuned] = @ \cup {s}]
                /\ todo' = todo \ {s}
                /\ pc' = IF todo' = {} THEN "open" ELSE "apply"
          /\ UNCHANGED <<disk, polls, path, found, listed, tuned>>
       \/ Returns("err") /\ UNCHANGED queue
    /\ UNCHANGED <<configVars, name, udev, attached, info>>

\* OpenCryptDevice of the path: here only which device that is.
Open ==
    /\ pc = "open"
    /\ \/ Resolve(path) # {} /\ Returns("ok")
       \/ Returns("err")
    /\ UNCHANGED handlerRest

Reply ==
    /\ pc \in {"ok", "err"}
    /\ Returns("idle")
    /\ UNCHANGED handlerRest

Handler ==
    \/ ScsiHostRescan \/ ListAzureDiskPath \/ FindDiskByLunWithConstraint
    \/ GetLinkInScsi1 \/ GetLinkById
    \/ OptimizeDiskPerformance \/ ApplyDeviceSettings \/ Open
    \/ Reply

Next ==
    \/ \E in \in Registrations : NodeGetInfo(in) \/ NodeGetInfoV2(in)
    \/ Registered
    \/ \E d \in Disks :
          \/ Stage(d) \/ Attach(d) \/ Detach(d)
          \/ \E n \in Names : KernelAdds(d, n)
    \/ \E n \in Names : UdevHandles(n)
    \/ Handler

Spec == Init /\ [][Next]_vars

\* The goroutine of the call runs as long as it can.
FairSpec == Spec /\ WF_vars(Handler)

-----------------------------------------------------------------------------
(* Properties.                                                               *)

TypeOK ==
    /\ name \in [Disks -> Names \cup {NoName}]
    /\ udev \in [Names -> Disks \cup {NoDisk}]
    /\ attached \subseteq Disks /\ disk \in Disks \cup {NoDisk}
    /\ pc \in FindPoints \cup {"register", "idle", "tune", "apply", "open", "ok", "err"}
    /\ polls \in 0 .. MaxPolls
    /\ path \in Disks \cup Names \cup SysNames \cup {NoName}
    /\ {found, tuned} \subseteq Names \cup SysNames \cup {NoName}
    /\ queue \in [Names -> SUBSET (BasicSettings \cup UNION {c.settings : c \in VolumeContexts})]

\* A path that is a link of another disk: that disk had the device name before,
\* and udev has not caught up.  The link is picked by what it points to.
StaleLink == path \in Disks \ {disk}

\* Only some of the links to the system disks could be read: the others pass for
\* data disks.
ListedInPart == listed \notin {{}, SysDisks}

\* Whatever is attached, detached, named and linked while the handler looks for
\* the device, NodeStageVolume opens the disk at the LUN it was given, never a
\* system disk or another volume's, with all of the settings that its profile asks
\* for in force, also after an earlier attempt failed half way.
OpensTheDisk ==
    [][pc = "open" /\ pc' = "ok" /\ ~StaleLink /\ ~ListedInPart =>
          \A n \in Resolve(path) :
             /\ AtName(n) = {disk}
             /\ Tunes => Settings \subseteq queue[n]]_vars

\* The settings of the basic profile bring the device to the burst bandwidth that
\* disk and VM have in common, on every VM size whose bandwidth is published.
DrivesBandwidth ==
    pc = "apply" /\ context.profile = "basic" /\ todo = Settings =>
        \A sku \in MatchingSkus, node \in NodeInfoMap :
            node.MaxBurstBwMbps > 0 =>
                Drives(getOptimalDeviceSettings(node, sku), sku,
                       1000 * Least(sku.MaxBurstBwMbps, node.MaxBurstBwMbps))

\* Every source of the VM size failing leaves the default; one that answers is
\* enough for the limit of the VM, less the reserved slots, to be reported.
LimitIsTheVMs ==
    info # NoInfo /\ info[1].input.limit < 0 =>
        LET in == info[1].input
            known == {in.size} \cup (IF in.labels = "fails" THEN {} ELSE {in.labelSize})
            sizes == IF in.fromLabels THEN {LabelSize(in)} \ {Unset} ELSE known \ {Unset, "fails"}
        IN info[1].limit + in.reserved \in
              IF sizes = {} THEN {defaultAzureVolumeLimit}
              ELSE {getMaxDataDiskCount(s) : s \in sizes}

\* Every stage is answered: the polls end.
StageReturns == pc \in FindPoints \cup {"tune", "apply", "open"} ~> pc = "idle"
=============================================================================
