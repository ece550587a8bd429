---------------------------- MODULE DeviceProofs ----------------------------
(* The device that NodeStageVolume opens, the settings it gives to it, and   *)
(* the limit that NodeGetInfo reports: the properties of Device, for every   *)
(* number of disks and device names and every set of registrations.          *)
EXTENDS Device, TLAPS

-----------------------------------------------------------------------------
(* The inductive invariant.                                                  *)

SettingNames == BasicSettings \cup UNION {c.settings : c \in VolumeContexts}
Types ==
    /\ TypeOK
    /\ context \in VolumeContexts /\ todo \subseteq SettingNames
    /\ listed \subseteq SysDisks
    /\ pc \in {"list", "scan"} => polls < MaxPolls
    /\ pc \in {"scsi1", "byId"} => found \in Names \cup SysNames
    /\ pc \in FindPoints \cup {"tune", "apply", "open"} => disk \in Disks
    /\ pc \in {"register", "idle", "rescan"} => polls = 0

\* The kernel gives a name to one device at a time, and a link has one target.
OneName == \A d, e \in Disks : name[d] = name[e] /\ name[d] # NoName => d = e
OneLink == \A m, n \in Names : udev[m] = udev[n] /\ udev[m] # NoDisk => m = n

\* Once a device is found it is that of the disk, unless only some of the system
\* disks were known.
FoundInv ==
    pc \in {"scsi1", "byId", "tune", "apply", "open"} /\ ~ListedInPart =>
        found \in Names /\ found = name[disk]

\* The path is the device found or a link to it, and udev leaves a link alone that
\* is right.
PathInv ==
    pc \in {"tune", "apply", "open"} /\ ~ListedInPart =>
        /\ path \in Disks \cup {found}
        /\ path = disk => udev[found] = disk

\* The settings are those of the device found, all of them in the end.
TuneInv ==
    ~ListedInPart /\ ~StaleLink =>
        /\ pc = "apply" => tuned = found /\ Settings \subseteq todo \cup queue[found]
        /\ pc = "open" /\ Tunes => Settings \subseteq queue[found]
ApplyInv == pc = "apply" => Tunes
DeviceInv == FoundInv /\ PathInv /\ TuneInv /\ ApplyInv

IInv == Types /\ OneName /\ OneLink /\ DeviceInv /\ LimitIsTheVMs

\* What is configured stays, and so does what is computed from it.
LEMMA Config ==
    ASSUME UNCHANGED configVars
    PROVE  Settings' = Settings /\ (Tunes' <=> Tunes) /\ SysDisks' = SysDisks
           /\ context' = context /\ azureRules' = azureRules /\ host' = host
<1>1. context' = context /\ azureRules' = azureRules /\ host' = host
  BY DEF configVars
<1>2. Settings' = Settings
  BY <1>1 DEF Settings, MatchingSkus
<1> QED BY <1>1, <1>2 DEF Tunes, SysDisks

\* Every step leaves the configuration alone.
LEMMA StepsKeepConfig ==
    ASSUME [Next]_vars
    PROVE  UNCHANGED configVars
BY DEF Next, vars, NodeGetInfo, NodeGetInfoV2, Registers, Registered, Stage, Attach, Detach,
       KernelAdds, UdevHandles, Handler, ScsiHostRescan, ListAzureDiskPath,
       FindDiskByLunWithConstraint, GetLinkInScsi1, GetLinkById, OptimizeDiskPerformance,
       ApplyDeviceSettings, Open, Reply, handlerRest

\* What a setting is called.
LEMMA SettingsNamed == ASSUME context \in VolumeContexts PROVE Settings \subseteq SettingNames
BY DEF Settings, SettingNames

\* What a path leads to is a device.
LEMMA ResolveType ==
    ASSUME TypeOK, NEW n \in Resolve(path)
    PROVE  n \in Names \cup SysNames \cup {NoName}
BY DEF TypeOK, Resolve

\* The types are kept by every step.
LEMMA TypesStep ==
    ASSUME Types, [Next]_vars
    PROVE  Types'
<1>1. Settings' = Settings /\ SysDisks' = SysDisks /\ context' = context
  BY StepsKeepConfig, Config
<1>2. Settings \subseteq SettingNames /\ MaxPolls \in Nat \ {0}
  BY SettingsNamed, DeviceAssumption DEF Types
<1> USE DEF Types, TypeOK, FindPoints
<1>3. ASSUME NEW in \in Registrations, NodeGetInfo(in) \/ NodeGetInfoV2(in)
      PROVE  Types'
  BY <1>1, <1>3 DEF NodeGetInfo, NodeGetInfoV2, Registers, kernelVars
<1>4. CASE Registered
  BY <1>1, <1>4 DEF Registered, kernelVars
<1>5. ASSUME NEW d \in Disks, Attach(d)
      PROVE  Types'
  BY <1>1, <1>5 DEF Attach
<1>6. ASSUME NEW d \in Disks, NEW n \in Names, KernelAdds(d, n)
      PROVE  Types'
  BY <1>1, <1>6 DEF KernelAdds
<1>7. ASSUME NEW d \in Disks, Detach(d)
      PROVE  Types'
  BY <1>1, <1>7 DEF Detach
<1>8. ASSUME NEW n \in Names, UdevHandles(n)
      PROVE  Types'
  BY <1>1, <1>8 DEF UdevHandles, AtName
<1> USE DEF handlerRest, kernelVars
<1>9. ASSUME NEW d \in Disks, Stage(d)
      PROVE  Types'
  BY <1>1, <1>9 DEF Stage
<1>10. CASE ScsiHostRescan
  BY <1>1, <1>2, <1>10 DEF ScsiHostRescan, Returns
<1>11. CASE ListAzureDiskPath
  BY <1>1, <1>11 DEF ListAzureDiskPath
<1>12. CASE FindDiskByLunWithConstraint
  BY <1>1, <1>2, <1>12 DEF FindDiskByLunWithConstraint, PollsOn, Bus, SysNames
<1>13. CASE GetLinkInScsi1
  BY <1>1, <1>13 DEF GetLinkInScsi1, LinksTo, FoundAs
<1>14. CASE GetLinkById
  BY <1>1, <1>14 DEF GetLinkById, LinksTo, FoundAs
<1>15. CASE OptimizeDiskPerformance
  BY <1>1, <1>2, <1>15, ResolveType DEF OptimizeDiskPerformance, Returns
<1>16. CASE ApplyDeviceSettings
  BY <1>1, <1>2, <1>16 DEF ApplyDeviceSettings, Returns, SettingNames
<1>17. CASE Open \/ Reply
  BY <1>1, <1>2, <1>17 DEF Open, Reply, Returns
<1>18. CASE UNCHANGED vars
  BY <1>1, <1>18 DEF vars
<1> QED BY <1>3, <1>4, <1>5, <1>6, <1>7, <1>8, <1>9, <1>10, <1>11, <1>12, <1>13, <1>14, <1>15,
           <1>16, <1>17, <1>18 DEF Next, Handler

-----------------------------------------------------------------------------
(* The device.                                                               *)

\* Where a device has been found.
Late == {"scsi1", "byId", "tune", "apply", "open"}

\* Nothing is said of the device before it is found.
LEMMA Quiet == pc' \notin Late => DeviceInv'
BY DEF Late, DeviceInv, FoundInv, PathInv, TuneInv, ApplyInv

\* The search finds the device of the disk: LUNs are unique among the data disks, and
\* the system disks are known or are on hosts that are left out.
LEMMA CandidateIsDisk ==
    ASSUME Types, pc = "scan", ~ListedInPart, NEW v \in Bus, Candidate(v, LunOf[disk])
    PROVE  v.name \in Names /\ v.name = name[disk]
<1>1. disk \in Disks /\ name \in [Disks -> Names \cup {NoName}] /\ listed \in {{}, SysDisks}
  BY DEF Types, TypeOK, FindPoints, ListedInPart
<1>2. ASSUME v \in SysDevices
      PROVE  FALSE
  <2>1. v.vhd /\ v.host <= 3 /\ v.host \in Nat
    BY <1>2, DeviceAssumption DEF Candidate
  <2>2. listed # {}
    BY <2>1 DEF Candidate
  <2>3. listed = SysDisks /\ azureRules
    BY <1>1, <2>2 DEF SysDisks
  <2>4. v.name \in SysDisks
    BY <1>2, <2>1, <2>3 DEF SysDisks
  <2> QED BY <2>3, <2>4 DEF Candidate
<1>3. PICK d \in Disks : name[d] # NoName
                         /\ v = [host |-> host, lun |-> LunOf[d], name |-> name[d], vhd |-> TRUE]
  BY <1>2 DEF Bus
<1>4. LunOf[d] = LunOf[disk]
  BY <1>3 DEF Candidate
<1>5. d = disk
  BY <1>1, <1>4, DeviceAssumption
<1> QED BY <1>1, <1>3, <1>5

\* No other disk has the device.
LEMMA AtFound ==
    ASSUME Types, OneName, FoundInv, pc \in Late, ~ListedInPart
    PROVE  found \in Names /\ name[disk] = found /\ AtName(found) = {disk} /\ disk \in Disks
<1>1. found \in Names /\ name[disk] = found /\ disk \in Disks /\ found # NoName
  BY DeviceAssumption DEF FoundInv, Late, Types, FindPoints
<1> QED BY <1>1 DEF AtName, OneName

\* The path leads there, unless it is another disk's link.
LEMMA PathLeadsThere ==
    ASSUME Types, OneLink, PathInv, pc \in {"tune", "apply", "open"}, ~ListedInPart, ~StaleLink,
           found \in Names, disk \in Disks
    PROVE  Resolve(path) \subseteq {found}
<1>1. path \in Disks \cup {found} /\ (path = disk => udev[found] = disk)
  BY DEF PathInv
<1>2. path \in {disk, found} /\ NoDisk \notin Disks /\ Disks \cap Names = {}
  BY <1>1, DeviceAssumption DEF StaleLink
<1>3. CASE path = found
  BY <1>2, <1>3 DEF Resolve
<1>4. CASE path = disk
  <2>1. \A n \in Names : udev[n] = disk => n = found
    BY <1>1, <1>2, <1>4 DEF OneLink
  <2> QED BY <1>4, <2>1 DEF Resolve
<1> QED BY <1>2, <1>3, <1>4

\* The kernel and udev do not disturb a handler that has found its device.
LEMMA KernelStep ==
    ASSUME Types, OneName, OneLink, DeviceInv, Types',
           \/ \E d \in Disks : Attach(d) \/ Detach(d) \/ \E n \in Names : KernelAdds(d, n)
           \/ \E n \in Names : UdevHandles(n)
    PROVE  OneName' /\ OneLink' /\ DeviceInv'
<1>1. /\ UNCHANGED configVars
      /\ UNCHANGED <<info, pc, disk, polls, path, found, listed, tuned, todo>>
  BY DEF Attach, Detach, KernelAdds, UdevHandles
<1>2. Settings' = Settings /\ (Tunes' <=> Tunes) /\ SysDisks' = SysDisks
  BY <1>1, Config
<1>3. (ListedInPart' <=> ListedInPart) /\ (StaleLink' <=> StaleLink)
  BY <1>1, <1>2 DEF ListedInPart, StaleLink
<1>4. /\ name \in [Disks -> Names \cup {NoName}] /\ udev \in [Names -> Disks \cup {NoDisk}]
      /\ NoName \notin Names /\ NoDisk \notin Disks
  BY DeviceAssumption DEF Types, TypeOK
<1> DEFINE Same == /\ name'[disk] = found
                   /\ udev[found] = disk => udev'[found] = disk
                   /\ queue[found] \subseteq queue'[found]
<1>5. ASSUME pc \in Late, ~ListedInPart
      PROVE  Same
  <2>1. found \in Names /\ name[disk] = found /\ AtName(found) = {disk} /\ disk \in Disks
    BY <1>5, AtFound DEF DeviceInv
  <2>2. ASSUME NEW d \in Disks, Attach(d)
        PROVE  Same
    BY <2>1, <2>2 DEF Attach
  <2>3. ASSUME NEW d \in Disks, Detach(d)
        PROVE  Same
    <3>1. d # disk
      BY <1>5, <2>3 DEF Detach, Late
    <3>2. name[d] # found
      BY <2>1, <3>1 DEF AtName
    <3> QED BY <1>4, <2>1, <2>3, <3>1, <3>2 DEF Detach
  <2>4. ASSUME NEW d \in Disks, NEW n \in Names, KernelAdds(d, n)
        PROVE  Same
    BY <1>4, <2>1, <2>4 DEF KernelAdds
  <2>5. ASSUME NEW n \in Names, UdevHandles(n)
        PROVE  Same
    <3>1. name' = name /\ queue' = queue
      BY <2>5 DEF UdevHandles
    <3>2. ASSUME udev[found] = disk PROVE udev'[found] = disk
      <4>1. n # found
        BY <2>1, <2>5, <3>2 DEF UdevHandles
      <4>2. \A d \in AtName(n) : d # disk
        BY <2>1, <4>1 DEF AtName
      <4> QED BY <1>4, <2>1, <2>5, <3>2, <4>1, <4>2 DEF UdevHandles
    <3> QED BY <2>1, <3>1, <3>2
  <2> QED BY <2>2, <2>3, <2>4, <2>5
<1>6. OneName'
  <2>1. ASSUME NEW d \in Disks, Attach(d) \/ Detach(d) PROVE OneName'
    BY <1>4, <2>1 DEF Attach, Detach, OneName
  <2>2. ASSUME NEW d \in Disks, NEW n \in Names, KernelAdds(d, n) PROVE OneName'
    BY <1>4, <2>2 DEF KernelAdds, AtName, OneName
  <2>3. ASSUME NEW n \in Names, UdevHandles(n) PROVE OneName'
    BY <2>3 DEF UdevHandles, OneName
  <2> QED BY <2>1, <2>2, <2>3
<1>7. OneLink'
  <2>1. ASSUME NEW n \in Names, UdevHandles(n) PROVE OneLink'
    BY <1>4, <2>1 DEF UdevHandles, OneLink, AtName
  <2>2. CASE udev' = udev
    BY <2>2 DEF OneLink
  <2> QED BY <2>1, <2>2 DEF Attach, Detach, KernelAdds
<1>8. FoundInv' /\ PathInv' /\ TuneInv' /\ ApplyInv'
  <2>1. FoundInv'
    BY <1>1, <1>3, <1>5 DEF DeviceInv, FoundInv, Late
  <2>2. PathInv'
    BY <1>1, <1>3, <1>5 DEF DeviceInv, PathInv, Late
  <2>3. TuneInv'
    BY <1>1, <1>2, <1>3, <1>5 DEF DeviceInv, TuneInv, Late
  <2>4. ApplyInv'
    BY <1>1, <1>2 DEF DeviceInv, ApplyInv
  <2> QED BY <2>1, <2>2, <2>3, <2>4
<1> QED BY <1>6, <1>7, <1>8 DEF DeviceInv

\* The steps of the handler keep what is known of the device.
LEMMA HandlerStep ==
    ASSUME Types, OneName, OneLink, DeviceInv, Handler
    PROVE  DeviceInv'
<1>1. Settings' = Settings /\ (Tunes' <=> Tunes) /\ SysDisks' = SysDisks
  <2>1. UNCHANGED configVars
    BY StepsKeepConfig DEF Next
  <2> QED BY <2>1, Config
<1>2. CASE ScsiHostRescan \/ ListAzureDiskPath \/ Open \/ Reply
  <2>1. pc' \notin Late
    BY <1>2 DEF ScsiHostRescan, ListAzureDiskPath, Open, Reply, Returns, Late
  <2> QED BY <2>1, Quiet
<1>3. CASE FindDiskByLunWithConstraint
  <2>1. CASE pc' # "scsi1"
    <3>1. pc' \notin Late
      BY <1>3, <2>1 DEF FindDiskByLunWithConstraint, PollsOn, Late
    <3> QED BY <3>1, Quiet
  <2>2. CASE pc' = "scsi1"
    <3>1. /\ pc = "scan" /\ disk' = disk /\ listed' = listed /\ name' = name
          /\ \E v \in {w \in Bus : Candidate(w, LunOf[disk])} : found' = v.name
      BY <1>3, <2>2 DEF FindDiskByLunWithConstraint, PollsOn, handlerRest, kernelVars
    <3>2. ListedInPart' <=> ListedInPart
      BY <1>1, <3>1 DEF ListedInPart
    <3>3. FoundInv'
      BY <3>1, <3>2, CandidateIsDisk DEF FoundInv
    <3> QED BY <2>2, <3>3 DEF DeviceInv, PathInv, TuneInv, ApplyInv
  <2> QED BY <2>1, <2>2
<1>4. CASE GetLinkInScsi1 \/ GetLinkById
  <2>1. /\ pc \in {"scsi1", "byId"} /\ pc' \in {"byId", "tune"}
        /\ UNCHANGED <<disk, listed, found, name, udev>>
        /\ pc' = "tune" => path' \in LinksTo(found) \cup {found}
    BY <1>4 DEF GetLinkInScsi1, GetLinkById, FoundAs, handlerRest, kernelVars
  <2>2. ListedInPart' <=> ListedInPart
    BY <1>1, <2>1 DEF ListedInPart
  <2>3. FoundInv'
    BY <2>1, <2>2 DEF DeviceInv, FoundInv
  <2>4. PathInv'
    <3> SUFFICES ASSUME pc' = "tune", ~ListedInPart
                 PROVE  path' \in Disks \cup {found} /\ (path' = disk => udev[found] = disk)
      BY <2>1, <2>2 DEF PathInv
    <3>1. found \in Names /\ disk \in Disks
      BY <2>1, AtFound DEF DeviceInv, Late
    <3>2. Disks \cap Names = {} /\ udev[found] \in Disks \cup {NoDisk}
      BY <3>1, DeviceAssumption DEF Types, TypeOK
    <3> QED BY <2>1, <3>1, <3>2 DEF LinksTo
  <2> QED BY <2>1, <2>3, <2>4 DEF DeviceInv, TuneInv, ApplyInv
<1>5. CASE OptimizeDiskPerformance
  <2>1. CASE pc' \notin Late
    BY <2>1, Quiet
  <2>2. CASE pc' \in Late
    <3>1. /\ pc = "tune" /\ pc' \in {"open", "apply"}
          /\ UNCHANGED <<disk, listed, found, name, udev, path>>
          /\ pc' = "open" => ~Tunes
          /\ pc' = "apply" => Tunes /\ tuned' \in Resolve(path) /\ todo' = Settings
      BY <1>5, <2>2 DEF OptimizeDiskPerformance, Returns, Late, handlerRest, kernelVars
    <3>2. (ListedInPart' <=> ListedInPart) /\ (StaleLink' <=> StaleLink)
      BY <1>1, <3>1 DEF ListedInPart, StaleLink
    <3>3. FoundInv' /\ PathInv'
      BY <3>1, <3>2 DEF DeviceInv, FoundInv, PathInv
    <3>4. ApplyInv'
      BY <1>1, <3>1 DEF ApplyInv
    <3>5. TuneInv'
      <4>1. ASSUME ~ListedInPart, ~StaleLink PROVE Resolve(path) \subseteq {found}
        BY <3>1, <4>1, AtFound, PathLeadsThere DEF DeviceInv, Late
      <4> QED BY <1>1, <3>1, <3>2, <4>1 DEF TuneInv
    <3> QED BY <3>3, <3>4, <3>5 DEF DeviceInv
  <2> QED BY <2>1, <2>2
<1>6. CASE ApplyDeviceSettings
  <2>1. CASE pc' \notin Late
    BY <2>1, Quiet
  <2>2. CASE pc' \in Late
    <3>1. PICK s \in todo :
             /\ pc = "apply" /\ tuned \in Names
             /\ UNCHANGED <<disk, listed, found, name, udev, path, tuned>>
             /\ queue' = [queue EXCEPT ![tuned] = @ \cup {s}]
             /\ todo' = todo \ {s}
             /\ pc' = IF todo' = {} THEN "open" ELSE "apply"
      BY <1>6, <2>2 DEF ApplyDeviceSettings, Returns, Late
    <3>2. (ListedInPart' <=> ListedInPart) /\ (StaleLink' <=> StaleLink)
      BY <1>1, <3>1 DEF ListedInPart, StaleLink
    <3>3. FoundInv' /\ PathInv'
      BY <3>1, <3>2 DEF DeviceInv, FoundInv, PathInv
    <3>4. ApplyInv'
      BY <1>1, <3>1 DEF ApplyInv, DeviceInv
    <3>5. queue'[tuned] = queue[tuned] \cup {s}
      BY <3>1 DEF Types, TypeOK
    <3>6. TuneInv'
      BY <1>1, <3>1, <3>2, <3>5 DEF TuneInv, DeviceInv
    <3> QED BY <3>3, <3>4, <3>6 DEF DeviceInv
  <2> QED BY <2>1, <2>2
<1> QED BY <1>2, <1>3, <1>4, <1>5, <1>6 DEF Handler

-----------------------------------------------------------------------------
(* The limit that is reported.                                               *)

\* A size that is not known has the default limit.
LEMMA UnknownSize ==
    /\ getMaxDataDiskCount(Unset) = defaultAzureVolumeLimit
    /\ getMaxDataDiskCount("fails") = defaultAzureVolumeLimit
    /\ Unset # "fails"
<1>1. /\ DOMAIN maxDataDiskCountMap =
            {"s1", "s2", "s4", "s8", "s12", "s16", "s24", "s32", "s48", "s64"}
  BY DEF maxDataDiskCountMap
<1>2. Unset \notin {"s1", "s2", "s4", "s8", "s12", "s16", "s24", "s32", "s48", "s64"}
      /\ Unset # "fails"
  BY Zenon DEF Unset
<1> QED BY <1>1, <1>2 DEF getMaxDataDiskCount

\* A limit is a number.
LEMMA LimitIsNumber == \A size : getMaxDataDiskCount(size) \in Nat
BY DEF getMaxDataDiskCount, maxDataDiskCountMap, defaultAzureVolumeLimit

\* The size that is looked up is one that a source has given, if one has.
LEMMA SizeGiven ==
    ASSUME NEW in
    PROVE  LET known == {in.size} \cup (IF in.labels = "fails" THEN {} ELSE {in.labelSize})
               sizes == IF in.fromLabels THEN {LabelSize(in)} \ {Unset} ELSE known \ {Unset, "fails"}
           IN  getMaxDataDiskCount(InstanceType(in)) \in
                  IF sizes = {} THEN {defaultAzureVolumeLimit}
                  ELSE {getMaxDataDiskCount(s) : s \in sizes}
<1> DEFINE known == {in.size} \cup (IF in.labels = "fails" THEN {} ELSE {in.labelSize})
           sizes == IF in.fromLabels THEN {LabelSize(in)} \ {Unset} ELSE known \ {Unset, "fails"}
           size == InstanceType(in)
<1>1. size \in sizes \/ (size \in {Unset, "fails"} /\ sizes = {})
  BY UnknownSize DEF InstanceType, LabelSize
<1> HIDE DEF sizes, size
<1>2. getMaxDataDiskCount(size) \in IF sizes = {} THEN {defaultAzureVolumeLimit}
                                    ELSE {getMaxDataDiskCount(s) : s \in sizes}
  BY <1>1, UnknownSize
<1> QED BY <1>2 DEF sizes, size

\* NodeGetInfo of both drivers answers with the limit of the VM.
LEMMA LimitStep ==
    ASSUME LimitIsTheVMs, [Next]_vars
    PROVE  LimitIsTheVMs'
<1>1. CASE info' = info
  BY <1>1 DEF LimitIsTheVMs
<1>2. CASE info' = NoInfo
  BY <1>2 DEF LimitIsTheVMs
<1>3. ASSUME NEW in \in Registrations, NodeGetInfo(in) \/ NodeGetInfoV2(in)
      PROVE  LimitIsTheVMs'
  <2> DEFINE max == getMaxDataDiskCount(InstanceType(in))
  <2>1. in.reserved \in Nat /\ in.limit \in Int /\ (in.driver = "v2" => in.reserved = 0) /\ max \in Nat
    <3>1. max \in Nat
      BY LimitIsNumber
    <3>2. in.reserved \in Nat /\ in.limit \in Int /\ (in.driver = "v2" => in.reserved = 0)
      BY DeviceAssumption
    <3> QED BY <3>1, <3>2
  <2>2. info'[1].input = in /\ (in.limit < 0 => info'[1].limit = max - in.reserved)
    <3>1. CASE NodeGetInfo(in)
      BY <2>1, <3>1 DEF NodeGetInfo, Registers
    <3>2. CASE NodeGetInfoV2(in)
      BY <2>1, <3>2 DEF NodeGetInfoV2, Registers
    <3> QED BY <1>3, <3>1, <3>2
  <2> HIDE DEF max
  <2>3. in.limit < 0 => info'[1].limit + in.reserved = max
    BY <2>1, <2>2
  <2> QED BY <2>2, <2>3, SizeGiven DEF LimitIsTheVMs, max
<1> QED BY <1>1, <1>2, <1>3
     DEF Next, vars, Registered, Stage, Attach, Detach,
         KernelAdds, UdevHandles, Handler, ScsiHostRescan, ListAzureDiskPath,
         FindDiskByLunWithConstraint, GetLinkInScsi1, GetLinkById, OptimizeDiskPerformance,
         ApplyDeviceSettings, Open, Reply, handlerRest

-----------------------------------------------------------------------------
(* Theorems.                                                                 *)

\* IInv is an invariant, whatever is attached, detached, named and linked while the
\* handler runs.
THEOREM Invariant == Spec => []IInv
<1>1. Init => IInv
  <2> SUFFICES ASSUME Init PROVE IInv
    OBVIOUS
  <2>1. Types
    BY DeviceAssumption DEF Init, Types, TypeOK, FindPoints, SettingNames
  <2>2. OneName /\ OneLink
    BY DEF Init, OneName, OneLink
  <2>3. DeviceInv /\ LimitIsTheVMs
    BY DEF Init, DeviceInv, FoundInv, PathInv, TuneInv, ApplyInv, LimitIsTheVMs
  <2> QED BY <2>1, <2>2, <2>3 DEF IInv
<1>2. IInv /\ [Next]_vars => IInv'
  <2> SUFFICES ASSUME IInv, [Next]_vars PROVE IInv'
    OBVIOUS
  <2>1. Types' /\ LimitIsTheVMs' /\ Types /\ OneName /\ OneLink /\ DeviceInv
    BY TypesStep, LimitStep DEF IInv
  <2>2. CASE \/ \E d \in Disks : Attach(d) \/ Detach(d) \/ \E n \in Names : KernelAdds(d, n)
             \/ \E n \in Names : UdevHandles(n)
    BY <2>1, <2>2, KernelStep DEF IInv
  <2>3. CASE Handler
    <3>1. DeviceInv'
      BY <2>1, <2>3, HandlerStep
    <3>2. name' = name /\ udev' = udev
      BY <2>3 DEF Handler, ScsiHostRescan, ListAzureDiskPath, FindDiskByLunWithConstraint,
                  GetLinkInScsi1, GetLinkById, OptimizeDiskPerformance, ApplyDeviceSettings, Open,
                  Reply, handlerRest, kernelVars
    <3>3. OneName' /\ OneLink'
      BY <2>1, <3>2 DEF OneName, OneLink
    <3> QED BY <2>1, <3>1, <3>3 DEF IInv
  <2>4. CASE \/ \E in \in Registrations : NodeGetInfo(in) \/ NodeGetInfoV2(in)
             \/ Registered \/ \E d \in Disks : Stage(d)
    <3>1. pc' \notin Late /\ name' = name /\ udev' = udev
      BY <2>4 DEF NodeGetInfo, NodeGetInfoV2, Registers, Registered, Stage, handlerRest, kernelVars,
                  Late
    <3>2. OneName' /\ OneLink'
      BY <2>1, <3>1 DEF OneName, OneLink
    <3> QED BY <2>1, <3>1, <3>2, Quiet DEF IInv
  <2>5. CASE UNCHANGED vars
    <3>1. UNCHANGED <<name, udev, pc, disk, path, found, listed, tuned, todo, queue>>
          /\ UNCHANGED configVars
      BY <2>5 DEF vars, kernelVars
    <3>2. Settings' = Settings /\ (Tunes' <=> Tunes) /\ SysDisks' = SysDisks
      BY <3>1, Config
    <3>3. OneName' /\ OneLink' /\ DeviceInv'
      BY <2>1, <3>1, <3>2 DEF OneName, OneLink, DeviceInv, FoundInv, PathInv, TuneInv, ApplyInv,
                              ListedInPart, StaleLink
    <3> QED BY <2>1, <3>3 DEF IInv
  <2> QED BY <2>2, <2>3, <2>4, <2>5 DEF Next
<1> QED BY <1>1, <1>2, PTL DEF Spec

\* The state has its types.
THEOREM TypeCorrect == Spec => []TypeOK
<1>1. IInv => TypeOK
  BY DEF IInv, Types
<1> QED BY <1>1, Invariant, PTL

\* NodeStageVolume opens the disk at the LUN it was given, with its settings in force.
THEOREM DiskIsOpened == Spec => OpensTheDisk
<1>1. ASSUME IInv, pc = "open", ~StaleLink, ~ListedInPart, NEW n \in Resolve(path)
      PROVE  AtName(n) = {disk} /\ (Tunes => Settings \subseteq queue[n])
  <2>1. found \in Names /\ AtName(found) = {disk} /\ disk \in Disks
    BY <1>1, AtFound DEF IInv, DeviceInv, Late
  <2>2. n = found
    BY <1>1, <2>1, PathLeadsThere DEF IInv, DeviceInv
  <2>3. Tunes => Settings \subseteq queue[found]
    BY <1>1 DEF IInv, DeviceInv, TuneInv
  <2> QED BY <2>1, <2>2, <2>3
<1>2. IInv /\ [Next]_vars =>
         [pc = "open" /\ pc' = "ok" /\ ~StaleLink /\ ~ListedInPart =>
             \A n \in Resolve(path) :
                /\ AtName(n) = {disk}
                /\ Tunes => Settings \subseteq queue[n]]_vars
  BY <1>1
<1> QED BY <1>2, Invariant, PTL DEF Spec, OpensTheDisk

\* The limit that is reported is that of the VM.
THEOREM LimitIsReported == Spec => []LimitIsTheVMs
<1>1. IInv => LimitIsTheVMs
  BY DEF IInv
<1> QED BY <1>1, Invariant, PTL

-----------------------------------------------------------------------------
(* The settings of the basic profile.                                        *)

\* Rounding a quotient up.
LEMMA CeilUp ==
    ASSUME NEW a \in Nat, NEW b \in Nat \ {0}
    PROVE  Ceil(a, b) \in Nat /\ b * Ceil(a, b) >= a /\ (a > 0 => Ceil(a, b) >= 1)
<1>1. Ceil(a, b) \in Nat /\ b * Ceil(a, b) >= a
  BY DEF Ceil
<1>2. a > 0 => Ceil(a, b) >= 1
  BY <1>1
<1> QED BY <1>1, <1>2

\* A factor keeps an order.
LEMMA TimesAtLeast ==
    ASSUME NEW a \in Nat, NEW b \in Nat, NEW c \in Nat, a >= b
    PROVE  c * a >= c * b
OBVIOUS

\* Rates that are published for an SKU.
Published(sku) == /\ sku.MaxSizeGiB \in Nat
                  /\ sku.MaxBurstIops \in Nat \ {0} /\ sku.MaxBurstBwMbps \in Nat \ {0}

\* The SKUs of the accounts that are optimised have them.
LEMMA SkusPublished ==
    ASSUME Tunes
    PROVE  \A sku \in MatchingSkus : Published(sku)
<1>1. \A sku \in Premium : Published(sku)
  BY DEF Premium, Even, Sku, Published
<1>2. \A sku \in StandardSSD : Published(sku)
  BY DEF StandardSSD, Even, Sku, Published
<1>3. context.account \in DOMAIN DiskSkuMap => DiskSkuMap[context.account] \in {Premium, StandardSSD}
  BY DEF Tunes, DiskSupportsPerfOptimization, DiskSkuMap
<1>4. \A sku \in MatchingSkus : /\ context.account \in DOMAIN DiskSkuMap
                                /\ sku \in DiskSkuMap[context.account]
  BY DEF MatchingSkus, getMatchingDiskSku
<1> QED BY <1>1, <1>2, <1>3, <1>4

\* So have the VM sizes, or zero.
LEMMA NodesPublished ==
    ASSUME NEW node \in NodeInfoMap
    PROVE  node.MaxBurstIops \in Nat /\ node.MaxBurstBwMbps \in Nat
BY DEF NodeInfoMap, NodeInfo

\* The queue holds as much as the bandwidth moves while a request is served,
\* however the tables are filled in.
LEMMA SettingsDrive ==
    ASSUME NEW node, node.MaxBurstIops \in Nat, node.MaxBurstBwMbps \in Nat \ {0},
           NEW sku, Published(sku)
    PROVE  Drives(getOptimalDeviceSettings(node, sku), sku,
                  1000 * Least(sku.MaxBurstBwMbps, node.MaxBurstBwMbps))
<1> DEFINE iops == BurstIops(node, sku)
           bw == BurstBw(node, sku)
           lat == GetSequentialOLatency(sku.MaxSizeGiB)
           sectors == Least(maxHwSectorsKb, Ceil(4 * bw, 3 * iops))
           seq == Ceil(bw * lat, 10000 * sectors)
           random == Ceil(iops * GetRandomIOLatency(sku.MaxSizeGiB), 10000)
           depth == Most(Ceil(random + 4 * seq, 4), random)
<1>1. bw = 1000 * Least(sku.MaxBurstBwMbps, node.MaxBurstBwMbps) /\ bw \in Nat \ {0}
  BY DEF BurstBw, Least, Published
<1>2. iops \in Nat \ {0}
  BY DEF BurstIops, Least, Published
<1>3. lat \in Nat /\ GetRandomIOLatency(sku.MaxSizeGiB) \in Nat
  BY DEF GetSequentialOLatency, GetRandomIOLatency, Published
<1>4. getOptimalDeviceSettings(node, sku) = [maxSectorsKb |-> sectors, queueDepth |-> depth]
  BY DEF getOptimalDeviceSettings
<1> HIDE DEF iops, bw, lat
<1>5. sectors \in Nat /\ sectors >= 1 /\ sectors <= maxHwSectorsKb
  <2>1. 4 * bw \in Nat /\ 4 * bw > 0 /\ 3 * iops \in Nat \ {0}
    BY <1>1, <1>2
  <2>2. Ceil(4 * bw, 3 * iops) \in Nat /\ Ceil(4 * bw, 3 * iops) >= 1
    BY <2>1, CeilUp
  <2> QED BY <2>2 DEF Least, maxHwSectorsKb
<1> HIDE DEF sectors
<1>6. seq \in Nat /\ (10000 * sectors) * seq >= bw * lat
  <2>1. bw * lat \in Nat /\ 10000 * sectors \in Nat \ {0}
    BY <1>1, <1>3, <1>5
  <2> QED BY <2>1, CeilUp
<1> HIDE DEF seq
<1>7. random \in Nat
  <2>1. iops * GetRandomIOLatency(sku.MaxSizeGiB) \in Nat
    BY <1>2, <1>3
  <2> QED BY <2>1, CeilUp
<1> HIDE DEF random
<1>8. depth \in Nat /\ depth >= seq
  <2>1. random + 4 * seq \in Nat
    BY <1>6, <1>7
  <2>2. Ceil(random + 4 * seq, 4) \in Nat /\ 4 * Ceil(random + 4 * seq, 4) >= random + 4 * seq
    BY <2>1, CeilUp
  <2>3. Ceil(random + 4 * seq, 4) >= seq
    BY <1>6, <1>7, <2>2
  <2> QED BY <1>6, <1>7, <2>2, <2>3 DEF Most
<1> HIDE DEF depth
<1>9. (10000 * sectors) * depth >= (10000 * sectors) * seq
  <2>1. 10000 * sectors \in Nat
    BY <1>5
  <2> QED BY <1>6, <1>8, <2>1, TimesAtLeast
<1>10. depth * sectors * 10000 >= bw * lat
  <2>1. depth * sectors * 10000 = (10000 * sectors) * depth
    BY <1>5, <1>8
  <2>2. /\ (10000 * sectors) * depth \in Int /\ (10000 * sectors) * seq \in Int /\ bw * lat \in Int
    BY <1>1, <1>3, <1>5, <1>6, <1>8
  <2> QED BY <1>6, <1>9, <2>1, <2>2
<1>11. sectors \in 1 .. maxHwSectorsKb
  BY <1>5 DEF maxHwSectorsKb
<1> QED BY <1>1, <1>4, <1>10, <1>11 DEF Drives, lat

\* The settings of the basic profile bring the device to the bandwidth that disk and VM
\* have in common.
THEOREM BandwidthIsDriven == Spec => []DrivesBandwidth
<1>1. IInv => DrivesBandwidth
  <2> SUFFICES ASSUME IInv, pc = "apply", NEW sku \in MatchingSkus, NEW node \in NodeInfoMap,
                      node.MaxBurstBwMbps > 0
               PROVE  Drives(getOptimalDeviceSettings(node, sku), sku,
                             1000 * Least(sku.MaxBurstBwMbps, node.MaxBurstBwMbps))
    BY DEF DrivesBandwidth
  <2>1. Published(sku)
    BY SkusPublished DEF IInv, DeviceInv, ApplyInv
  <2>2. node.MaxBurstIops \in Nat /\ node.MaxBurstBwMbps \in Nat \ {0}
    BY NodesPublished
  <2> QED BY <2>1, <2>2, SettingsDrive
<1> QED BY <1>1, Invariant, PTL
=============================================================================
