---------------------------- MODULE Provisioning ----------------------------
(* What becomes of the parameters of a storage class: CreateVolume of both   *)
(* drivers (controllerserver.go, controllerserver_v2.go), the parsing and    *)
(* normalising it calls (azure_disk_utils.go), CreateManagedDisk             *)
(* (azure_managedDiskController.go), and the checks that                     *)
(* ControllerPublishVolume and ValidateVolumeCapabilities make of the answer. *)
(*                                                                           *)
(* One volume is asked for; its request is repeated, with the same           *)
(* parameters and perhaps another topology, until the caller has an answer.  *)
(* volumeLocks lets one call for the name run at a time.  External: ARM's    *)
(* disks, and the cloud provider's configuration and zone ids.               *)
EXTENDS Integers, FiniteSets, Sequences

CONSTANTS Inputs,      \* the requests: name, params, caps, sizes and source
          Options,     \* how the driver is built and started
          Topologies,  \* the accessibility requirements a call may carry
          MinimumDiskSizeGiB, PerformancePlusMinimumDiskSizeGiB,
          SourceDiskSearchMaxDepth,
          MaxCalls     \* bound: calls of CreateVolume

ASSUME ProvisioningAssumption ==
    /\ MinimumDiskSizeGiB \in Nat \ {0}
    /\ PerformancePlusMinimumDiskSizeGiB \in Nat
    /\ SourceDiskSearchMaxDepth \in Nat
    /\ MaxCalls \in Nat

\* Go's empty string: what is not given.
Unset == ""
\* A zone is <<region, id>>; both are given but in NoZone.
NoZone == <<Unset, Unset>>
IsZone(z) == z \in STRING \X STRING /\ (z = NoZone \/ Unset \notin {z[1], z[2]})
\* Requests as kubelet's sidecars make them: maps of strings, sizes and zones.
ASSUME InputAssumption ==
    /\ \A i \in Inputs :
          /\ i.required \in Nat /\ i.limit \in Nat
          /\ i.params \in [DOMAIN i.params -> STRING]
          /\ \A k \in DOMAIN i.source.chain : IsZone(i.source.chain[k].zone)
          /\ DOMAIN i.source.chain = 1..Len(i.source.chain)
    /\ \A t \in Topologies :
          /\ Len(t) \in Nat
          /\ \A k \in 1..Len(t) : IsZone(t[k].wellKnown) /\ IsZone(t[k].driver)

VARIABLES opts,     \* member of Options
          req,      \* member of Inputs
          pc,       \* where the call of CreateVolume is
          plan,     \* the call's ManagedDiskOptions, and the answer it will give
          disks,    \* the disks in ARM, by subscription, group and name
          volume,   \* the last successful answer, or NoVolume
          attached, \* the caching mode the disk was attached with, Unset or "refused"
          calls

vars == <<opts, req, pc, plan, disks, volume, attached, calls>>

NoVolume == [gib |-> 0]
cloud == [location |-> "east", sub |-> "sub1", rg |-> "rg1"]
CachingModes == {"None", "ReadOnly", "ReadWrite"}

\* The state has these types.
TypeOK ==
    /\ opts \in Options
    /\ pc \in {"idle", "create", "poll"}
    /\ pc = "idle" <=> plan = NoVolume
    /\ \A i \in DOMAIN disks : disks[i].gib \in Nat \ {0}
    /\ volume = NoVolume \/ volume.gib \in Nat \ {0}
    /\ attached \in CachingModes \cup {Unset, "refused"}
    /\ calls \in 0..MaxCalls

Init ==
    /\ opts \in Options /\ req \in Inputs
    /\ pc = "idle" /\ plan = NoVolume
    /\ disks = << >>
    /\ volume = NoVolume /\ attached = Unset
    /\ calls = 0

-----------------------------------------------------------------------------
(* Parameters: a function from keys, as they are spelled, to values.         *)

\* The field of ManagedDiskParameters that a key sets; case does not matter.
KeyField ==
    [skuName |-> "AccountType", storageAccountType |-> "AccountType",
     cachingMode |-> "CachingMode", cachingmode |-> "CachingMode",
     location |-> "Location", subscriptionID |-> "SubscriptionID",
     resourceGroup |-> "ResourceGroup", diskName |-> "DiskName",
     diskIOPSReadWrite |-> "IOPS", diskMBpsReadWrite |-> "MBps",
     logicalSectorSize |-> "LogicalSectorSize", maxShares |-> "MaxShares",
     diskEncryptionSetID |-> "EncryptionSet", diskEncryptionType |-> "EncryptionType",
     networkAccessPolicy |-> "NetworkAccess", publicNetworkAccess |-> "PublicAccess",
     diskAccessID |-> "DiskAccess", enablePerformancePlus |-> "PerformancePlus",
     enableBursting |-> "Bursting", writeAcceleratorEnabled |-> "WriteAccelerator",
     userAgent |-> "UserAgent", perfProfile |-> "PerfProfile", tags |-> "Tags",
     attachDiskInitialDelay |-> "InitialDelay", kind |-> "Kind", zoned |-> "Zoned",
     deviceSetting |-> "DeviceSetting", deviceSettingOutside |-> "OutsideSetting"]
Fields == {KeyField[k] : k \in DOMAIN KeyField}

Numerals == {"0", "1", "2", "512", "600"}
Atoi(v) == CASE v = "0" -> 0 [] v = "1" -> 1 [] v = "2" -> 2 [] v = "512" -> 512
             [] v = "600" -> 600
NotGiven == -1
NotANumber == -2
IntOf(v) == IF v = Unset THEN NotGiven ELSE IF v \in Numerals THEN Atoi(v) ELSE NotANumber
IsValidPerfProfile(v) == v \in {"none", "basic", "advanced"}

\* An entry that ParseDiskParameters does not stop at.
ValidEntry(k, v) ==
    /\ k \in DOMAIN KeyField
    /\ KeyField[k] \in {"LogicalSectorSize", "InitialDelay", "MaxShares"} => v \in Numerals
    /\ KeyField[k] = "MaxShares" => Atoi(v) >= 1
    /\ KeyField[k] = "PerfProfile" => IsValidPerfProfile(v)
    /\ KeyField[k] = "Tags" => v # "malformed"
    /\ KeyField[k] = "PerformancePlus" => v \in {"true", "false"}

\* The map is read in any order: of the keys that set one field, the last one
\* read wins.
Winners(params) ==
    LET known == DOMAIN params \cap DOMAIN KeyField
    IN  {ks \in SUBSET known :
            \A k \in known : \E j \in ks : \A i \in ks :
                KeyField[i] = KeyField[k] <=> i = j}
Parsed(params, ks) ==
    [f \in Fields |-> IF \E k \in ks : KeyField[k] = f
                      THEN params[CHOOSE k \in ks : KeyField[k] = f] ELSE Unset]
Readings(params) == {Parsed(params, ks) : ks \in Winners(params)}

\* ParseDiskParameters reads the fields p from the map without an error.  The
\* check of the caching mode of PremiumV2_LRS ignores case.
ParseDiskParameters(params, p) ==
    /\ \A k \in DOMAIN params : ValidEntry(k, params[k])
    /\ p.AccountType = "PremiumV2_LRS" => p.CachingMode \in {Unset, "None", "none"}

\* The readers of the volume context that are given the map again.
Values(params, field) ==
    {params[k] : k \in {j \in DOMAIN params \cap DOMAIN KeyField : KeyField[j] = field}}
NormalizeCachingMode(m) == IF m = Unset THEN "ReadOnly" ELSE IF m \in CachingModes THEN m ELSE "error"
GetCachingMode(params) ==
    LET found == Values(params, "CachingMode")
    IN  {NormalizeCachingMode(m) : m \in IF found = {} THEN {Unset} ELSE found}
GetMaxShares(params) ==
    LET found == Values(params, "MaxShares")
    IN  IF found = {} THEN 1 ELSE Atoi(CHOOSE v \in found : TRUE)

\* Mutant: a key that is missing is not added.
SetKeyValueInMapIfThere(params, k, v) ==
    {[j \in DOMAIN params |-> IF j = k THEN v ELSE params[j]]}

\* SetKeyValueInMap: an entry with the key in some spelling is overwritten.
SetKeyValueInMap(params, k, v) ==
    LET same == {j \in DOMAIN params \cap DOMAIN KeyField : KeyField[j] = KeyField[k]}
    IN  IF same # {} THEN {[params EXCEPT ![j] = v] : j \in same}
        ELSE {[j \in DOMAIN params \cup {k} |-> IF j = k THEN v ELSE params[j]]}

-----------------------------------------------------------------------------
(* Normalising and validating.                                               *)

StandardSkus == {"Standard_LRS", "StandardSSD_LRS", "Premium_LRS", "Premium_ZRS",
                 "PremiumV2_LRS", "UltraSSD_LRS"}
IsZRS(sku) == sku = "Premium_ZRS"

\* A call made with a UserAgent of its own loads the cloud configuration again;
\* d.cloud and the copy are configured alike.
NormalizeStorageAccountType(v) ==
    IF v = Unset THEN IF opts.stack THEN "Standard_LRS" ELSE "StandardSSD_LRS"
    ELSE IF v \in (IF opts.stack THEN {"Standard_LRS", "Premium_LRS"} ELSE StandardSkus)
         THEN v ELSE "error"
NormalizeNetworkAccessPolicy(v) == IF v \in {Unset, "AllowAll", "AllowPrivate", "DenyAll"} THEN v ELSE "error"
NormalizePublicNetworkAccess(v) == IF v \in {Unset, "Enabled", "Disabled"} THEN v ELSE "error"
ValidateDiskEncryptionType(v) ==
    v \in {Unset, "EncryptionAtRestWithCustomerKey", "EncryptionAtRestWithPlatformAndCustomerKeys"}

\* A capability is a type of access, "mount" or "block", and an access mode:
\* one of the single node modes, one of the multi node modes, or neither.
IsValidAccessModes(caps) == \A c \in caps : c.mode \in {"single", "multi"}
IsValidVolumeCapabilities(caps, maxShares) ==
    /\ IsValidAccessModes(caps)
    /\ \A c \in caps : /\ c.type \in {"mount", "block"}
                       /\ c.mode = "multi" => c.type = "block" /\ maxShares >= 2

AreDeviceSettingsValid(p) == p.DeviceSetting # Unset /\ p.OutsideSetting = Unset

IsValidAvailabilityZone(zone, region) ==
    IF region = Unset THEN zone[1] # Unset /\ zone[2] # Unset ELSE zone[1] = region

\* PickAvailabilityZone: a requirement lists topologies, preferred before
\* requisite; a topology has the zone under Kubernetes' key, then the driver's.
PickAvailabilityZone(requirement, region) ==
    LET zones == [i \in 1..(2 * Len(requirement)) |->
                     IF i % 2 = 1 THEN requirement[(i + 1) \div 2].wellKnown
                     ELSE requirement[i \div 2].driver]
        valid == {i \in DOMAIN zones : IsValidAvailabilityZone(zones[i], region)}
    IN  IF valid = {} THEN NoZone
        ELSE zones[CHOOSE i \in valid : \A j \in valid : i <= j]

\* CreateValidDiskName: a name that is too long is cut; one that is not valid
\* then is replaced by a new one, whenever it is asked for.
Regenerated(name) == name \in {"invalid", "invalidWhenCut"}
\* Mutant: every name is made unique.
CreateValidDiskNameUnique(name) == <<name, calls>>
CreateValidDiskName(name) == IF Regenerated(name) THEN <<"generated", calls>> ELSE <<name, 0>>

\* GetSourceDiskSize: the disk at the end of the chain of copies, unless a disk
\* of the chain is gone, is not a disk, or is too far away.
GetSourceDiskSize(chain) ==
    {chain[i] : i \in {j \in 1..Len(chain) :
        /\ j <= SourceDiskSearchMaxDepth + 1
        /\ ~chain[j].copy
        /\ \A k \in 1..j : chain[k].there /\ (k < j => chain[k].copy)}}
GetSourceDiskSizeV2(chain) == GetSourceDiskSize(chain)

\* getValidCreationData: the source, completed to a resource id; Unset for an
\* empty disk.
getValidCreationData(source) ==
    CASE source.type = "none" -> Unset
      [] source.id = "nested" -> "error"
      [] OTHER -> source.type

-----------------------------------------------------------------------------
(* CreateVolume.                                                             *)

MaxOf(a, b) == IF a > b THEN a ELSE b
RoundUpSize(n, unit) == n \div unit + (IF n % unit > 0 THEN 1 ELSE 0)
DefaultDiskIOPSReadWrite == 500
DefaultDiskMBpsReadWrite == 100

getDefaultDiskIOPSReadWrite(gib) ==
    LET iops == MaxOf(DefaultDiskIOPSReadWrite, gib)
    IN  IF iops > 160000 THEN 160000 ELSE iops

\* Mutant: the bandwidth is not raised with the IOPS.
getDefaultDiskMBPSReadWriteFlat(gib) == DefaultDiskMBpsReadWrite

getDefaultDiskMBPSReadWrite(gib) ==
    LET iops == getDefaultDiskIOPSReadWrite(gib)
        b1 == IF iops \div 256 > DefaultDiskMBpsReadWrite THEN RoundUpSize(iops, 256)
              ELSE DefaultDiskMBpsReadWrite
        b2 == IF b1 > iops \div 4 THEN RoundUpSize(iops, 4) ELSE b1
    IN  IF b2 > 4000 THEN 4000 ELSE b2

\* requestGiB; sizes of requests are in halves of a GiB.  Mutant: rounded down.
requestGiBDown(p) ==
    MaxOf(MaxOf(req.required \div 2, MinimumDiskSizeGiB),
          IF p.PerformancePlus = "true" THEN PerformancePlusMinimumDiskSizeGiB ELSE 0)
requestGiB(p) ==
    MaxOf(MaxOf(RoundUpSize(req.required, 2), MinimumDiskSizeGiB),
          IF p.PerformancePlus = "true" THEN PerformancePlusMinimumDiskSizeGiB ELSE 0)
MaxSharesOf(p) == IF p.MaxShares = Unset THEN 0 ELSE Atoi(p.MaxShares)

\* What both drivers check before they look at the disk and its source.  Mutant:
\* the caching mode and the sizes are not looked at.
AcceptableAnyCaching(p) ==
    /\ ParseDiskParameters(req.params, p)
    /\ IsValidVolumeCapabilities(req.caps, MaxSharesOf(p))
    /\ NormalizeStorageAccountType(p.AccountType) # "error"
    /\ ValidateDiskEncryptionType(p.EncryptionType)
    /\ NormalizeNetworkAccessPolicy(p.NetworkAccess) # "error"
    /\ NormalizePublicNetworkAccess(p.PublicAccess) # "error"
Acceptable(p) ==
    /\ ParseDiskParameters(req.params, p)
    /\ IsValidVolumeCapabilities(req.caps, MaxSharesOf(p))
    /\ opts.perf /\ p.PerfProfile = "advanced" => AreDeviceSettingsValid(p)
    /\ req.limit > 0 => RoundUpSize(req.limit, 2) >= requestGiB(p)
    /\ opts.stack => MaxSharesOf(p) <= 1
    /\ NormalizeStorageAccountType(p.AccountType) # "error"
    /\ NormalizeCachingMode(p.CachingMode) # "error"
    /\ ValidateDiskEncryptionType(p.EncryptionType)
    /\ NormalizeNetworkAccessPolicy(p.NetworkAccess) # "error"
    /\ NormalizePublicNetworkAccess(p.PublicAccess) # "error"

IdOf(p) == [sub |-> IF p.SubscriptionID = Unset THEN cloud.sub ELSE p.SubscriptionID,
            rg |-> IF p.ResourceGroup = Unset THEN cloud.rg ELSE p.ResourceGroup,
            name |-> CreateValidDiskName(IF p.DiskName = Unset THEN req.name ELSE p.DiskName)]

\* checkDiskCapacity: a disk of the name must have the size, if it can be read.
\* Nothing sets GetDiskThrottlingKey, so isGetDiskThrottled is never true.
checkDiskCapacity(p) ==
    ~(opts.capacityCheck /\ IdOf(p) \in DOMAIN disks /\ disks[IdOf(p)].gib # requestGiB(p))
checkDiskCapacityV2(p) == checkDiskCapacity(p)

\* The volume context: the parameters, with what the driver adds to them.
Contexts(p, sku, source) ==
    LET base == IF sku = "PremiumV2_LRS" THEN SetKeyValueInMap(req.params, "cachingMode", "None")
                ELSE {req.params}
    IN  {[params |-> c, gib |-> requestGiB(p),
          resizeRequired |-> \E d \in source : d.gib < requestGiB(p)] : c \in base}

\* The part of ManagedDiskOptions that both drivers fill in alike.
DiskOptions(p, sku, zone) ==
    [id |-> IdOf(p), gib |-> requestGiB(p), sku |-> sku, zone |-> zone,
     iops |-> IntOf(p.IOPS), mbps |-> IntOf(p.MBps), sector |-> IntOf(p.LogicalSectorSize),
     maxShares |-> MaxSharesOf(p), location |-> p.Location,
     encryptionSet |-> p.EncryptionSet, encryptionType |-> Unset,
     networkAccess |-> IF opts.stack THEN Unset ELSE p.NetworkAccess,
     publicAccess |-> IF opts.stack THEN Unset ELSE p.PublicAccess,
     diskAccess |-> IF opts.stack THEN Unset ELSE p.DiskAccess,
     bursting |-> p.Bursting = "true", performancePlus |-> p.PerformancePlus = "true",
     writeAccelerator |-> p.WriteAccelerator = "true", tags |-> p.Tags, source |-> req.source]

SourceOf == IF req.source.type = "volume" THEN GetSourceDiskSize(req.source.chain) ELSE {}
SourceOfV2 == IF req.source.type = "volume" THEN GetSourceDiskSizeV2(req.source.chain) ELSE {}

\* The driver's own zone of the disk: the topology's, or that of the disk that
\* it is cloned from; a zone redundant disk has none.
DiskZone(requirement, location, sku) ==
    LET picked == PickAvailabilityZone(requirement, location)
        cloned == {d \in SourceOf : d.zone # NoZone}
    IN  CASE IsZRS(sku) -> NoZone
          [] ~IsZRS(sku) /\ cloned # {} -> <<location, (CHOOSE d \in cloned : TRUE).zone[2]>>
          [] OTHER -> picked
\* Mutant: the zone of the request, also for a zone redundant disk.
AccessibleTopologyOfZone(location, sku, zone) == {zone}
AccessibleTopology(location, sku, zone) ==
    IF IsZRS(sku) THEN {<<location, i>> : i \in {"1", "2", "3"}} \cup {NoZone} ELSE {zone}

\* The ManagedDiskOptions and the answer of Driver.CreateVolume.
Planned(p, requirement, context) ==
    LET sku == NormalizeStorageAccountType(p.AccountType)
        location == IF p.Location = Unset THEN cloud.location ELSE p.Location
        zone == DiskZone(requirement, location, sku)
        options == [DiskOptions(p, sku, zone) EXCEPT !.location = location,
                                                     !.encryptionType = p.EncryptionType]
        gib == requestGiB(p)
    IN  [disk |-> IF sku = "UltraSSD_LRS" /\ p.IOPS = Unset /\ p.MBps = Unset
                  THEN [options EXCEPT !.iops = getDefaultDiskIOPSReadWrite(gib),
                                       !.mbps = getDefaultDiskMBPSReadWrite(gib)]
                  ELSE options,
         context |-> context, gib |-> gib, fields |-> p,
         topology |-> AccessibleTopology(location, sku, zone)]

\* The same of DriverV2.CreateVolume, which takes the zone from the topology in
\* the cluster's region whatever the location, the SKU and the source are, and
\* passes neither the encryption type nor defaults for an Ultra disk.
PlannedV2(p, requirement, context) ==
    LET sku == NormalizeStorageAccountType(p.AccountType)
        zone == PickAvailabilityZone(requirement, cloud.location)
    IN  [disk |-> DiskOptions(p, sku, zone), context |-> context, gib |-> requestGiB(p),
         fields |-> p, topology |-> {zone}]

Begin == pc = "idle" /\ calls < MaxCalls /\ calls' = calls + 1
Refused == UNCHANGED <<pc, plan>>
Keep == UNCHANGED <<opts, req, disks, volume, attached>>

\* GetCloudProviderFromClient for a call with a UserAgent: the configuration
\* comes from the secret, else from the file.  Without one the call fails, or,
\* when an empty configuration is allowed, meets a nil client.
GetCloudProviderFromClient(p) == IF p.UserAgent = Unset THEN {TRUE} ELSE BOOLEAN

\* A call up to CreateManagedDisk.  One that is refused leaves no trace.
CreateVolume ==
    /\ ~opts.v2
    /\ Begin /\ Keep
    /\ \E p \in Readings(req.params), t \in Topologies :
       \E loaded \in GetCloudProviderFromClient(p) :
          IF loaded /\ Acceptable(p) /\ checkDiskCapacity(p)
          THEN /\ \E c \in Contexts(p, NormalizeStorageAccountType(p.AccountType), SourceOf) :
                      plan' = Planned(p, t, c)
               /\ pc' = "create"
          ELSE Refused

CreateVolumeV2 ==
    /\ opts.v2
    /\ Begin /\ Keep
    /\ \E p \in Readings(req.params), t \in Topologies :
          IF Acceptable(p) /\ checkDiskCapacityV2(p)
          THEN /\ \E c \in Contexts(p, NormalizeStorageAccountType(p.AccountType), SourceOfV2) :
                      plan' = PlannedV2(p, t, c)
               /\ pc' = "create"
          ELSE Refused

-----------------------------------------------------------------------------
(* CreateManagedDisk and ARM.                                                *)

\* Cloud.GetZoneID: only a zone of the cloud's own region has an id.
GetZoneID(zone) == IF zone[1] = cloud.location THEN zone[2] ELSE Unset

HasPerformance(sku) == sku \in {"UltraSSD_LRS", "PremiumV2_LRS"}

\* The options that CreateManagedDisk refuses.  ResourceGroup has been set by
\* then.
OptionsValid(o) ==
    /\ o.id.sub # cloud.sub => o.id.rg # Unset
    /\ getValidCreationData(o.source) # "error"
    /\ o.networkAccess = "AllowPrivate" => o.diskAccess # Unset
    /\ o.networkAccess \notin {Unset, "AllowPrivate"} => o.diskAccess = Unset
    /\ IF HasPerformance(o.sku) THEN NotANumber \notin {o.iops, o.mbps}
       ELSE o.iops = NotGiven /\ o.mbps = NotGiven /\ o.sector \in {NotGiven, 0}
    /\ o.encryptionSet # "malformed"
    /\ o.encryptionSet = Unset => o.encryptionType = Unset

DefaultTo(v, sku, default) == IF v = NotGiven /\ sku = "UltraSSD_LRS" THEN default ELSE v

\* Mutant: the type of the class is not looked at.
EncryptionTypeDefault(o) ==
    IF o.encryptionSet = Unset THEN Unset ELSE "EncryptionAtRestWithCustomerKey"
EncryptionTypeOf(o) ==
    CASE o.encryptionSet = Unset -> Unset
      [] o.encryptionSet # Unset /\ o.encryptionType = Unset -> "EncryptionAtRestWithCustomerKey"
      [] OTHER -> o.encryptionType

\* The properties of the disk that are sent.
ManagedDisk(o) ==
    [gib |-> o.gib, sku |-> o.sku, zone |-> GetZoneID(o.zone),
     location |-> IF o.location = Unset THEN cloud.location ELSE o.location,
     iops |-> DefaultTo(o.iops, o.sku, DefaultDiskIOPSReadWrite),
     mbps |-> DefaultTo(o.mbps, o.sku, DefaultDiskMBpsReadWrite),
     sector |-> IF o.sector = 0 THEN NotGiven ELSE o.sector,
     maxShares |-> IF o.maxShares > 1 THEN o.maxShares ELSE 1,
     encryptionSet |-> o.encryptionSet, encryptionType |-> EncryptionTypeOf(o),
     networkAccess |-> o.networkAccess, publicAccess |-> o.publicAccess,
     diskAccess |-> IF o.networkAccess = "AllowPrivate" THEN o.diskAccess ELSE Unset,
     bursting |-> o.bursting, performancePlus |-> o.performancePlus,
     writeAccelerator |-> o.writeAccelerator, tags |-> o.tags,
     source |-> getValidCreationData(o.source)]

\* What ARM does not do: move or shrink a disk, or clone one into another zone.
ArmAccepts(id, d) ==
    /\ id \in DOMAIN disks => /\ disks[id].location = d.location
                              /\ disks[id].zone = d.zone
                              /\ disks[id].gib <= d.gib
    /\ req.source.type = "volume" =>
          LET source == req.source.chain[1]
          IN  source.there /\ source.zone[2] \in {Unset, d.zone}

Stored(id, d) == [i \in DOMAIN disks \cup {id} |-> IF i = id THEN d ELSE disks[i]]

Ends == pc' = "idle" /\ plan' = NoVolume

\* CreateOrUpdate; a call that is reported to have failed may have been carried
\* out.
CreateManagedDisk ==
    /\ pc = "create"
    /\ LET o == plan.disk
           d == ManagedDisk(o)
       IN  \/ /\ OptionsValid(o) /\ ArmAccepts(o.id, d)
              /\ disks' = Stored(o.id, d)
              /\ \/ pc' = "poll" /\ UNCHANGED plan
                 \/ Ends
           \/ Ends /\ UNCHANGED disks
    /\ UNCHANGED <<opts, req, volume, attached, calls>>

\* The provisioning state is waited for; the answer is the same if it is not
\* reached.  The caller gets it, or has given up.
PollProvisioningState ==
    /\ pc = "poll"
    /\ Ends
    /\ \/ UNCHANGED volume
       \/ volume' = [id |-> plan.disk.id, gib |-> plan.gib, context |-> plan.context,
                     topology |-> plan.topology, fields |-> plan.fields]
    /\ UNCHANGED <<opts, req, disks, attached, calls>>

-----------------------------------------------------------------------------
(* The calls that are made with the answer.                                  *)

\* The checks of ControllerPublishVolume, and the caching mode the disk is
\* attached with.
ControllerPublishVolume ==
    /\ volume # NoVolume /\ attached = Unset
    /\ \E c \in req.caps, m \in GetCachingMode(volume.context.params) :
          attached' =
              IF /\ IsValidVolumeCapabilities({c}, GetMaxShares(volume.context.params))
                 /\ m # "error"
              THEN m ELSE "refused"
    /\ UNCHANGED <<opts, req, pc, plan, disks, volume, calls>>

\* ValidateVolumeCapabilities, for the parameters and capabilities of the
\* request.
ValidateVolumeCapabilities ==
    IsValidVolumeCapabilities(req.caps, GetMaxShares(req.params))

Next == \/ CreateVolume \/ CreateVolumeV2 \/ CreateManagedDisk
        \/ PollProvisioningState \/ ControllerPublishVolume

Spec == Init /\ [][Next]_vars

-----------------------------------------------------------------------------
(* Properties.                                                               *)

created == disks[volume.id]
SpelledOnce(field) ==
    \A j, k \in DOMAIN req.params \cap DOMAIN KeyField :
        KeyField[j] = field /\ KeyField[k] = field => j = k

\* Repeated calls for a volume whose name is a valid disk name, lost answers
\* and failed writes included, leave one disk, and the one that is answered.
OneDiskPerName ==
    LET given == "diskName" \in DOMAIN req.params /\ req.params["diskName"] # Unset
        name == IF given THEN req.params["diskName"] ELSE req.name
    IN  ~Regenerated(name) => /\ Cardinality(DOMAIN disks) <= 1
                              /\ volume # NoVolume => volume.id \in DOMAIN disks

\* A volume in the cluster's region is answered with the zone its disk is in, or
\* none if it is in none, although the topology may have changed since an
\* earlier call made the disk and the source of a clone may be elsewhere.  A zone
\* redundant disk of v1 is in no zone, and is answered with all of them.
TopologyIsWhereTheDiskIs ==
    volume # NoVolume /\ volume.fields.Location = Unset /\ SpelledOnce("AccountType") =>
        IF IsZRS(created.sku) /\ ~opts.v2
        THEN /\ created.zone = Unset
             /\ {<<cloud.location, i>> : i \in {"1", "2", "3"}} \subseteq volume.topology
        ELSE volume.topology = {IF created.zone = Unset THEN NoZone
                                ELSE <<cloud.location, created.zone>>}

\* A PremiumV2_LRS disk is attached without caching, by the volume context that
\* was made when it was created.
CachingFitsSku ==
    attached \in CachingModes /\ created.sku = "PremiumV2_LRS"
        /\ SpelledOnce("CachingMode") /\ SpelledOnce("AccountType") => attached = "None"

\* The answer of CreateVolume passes the checks of the calls that follow.
CreatedCanBeUsed ==
    /\ SpelledOnce("CachingMode") => attached # "refused"
    /\ volume # NoVolume => ValidateVolumeCapabilities

\* A parameter that says what the disk is to be, and was accepted, is a property of
\* the disk, whichever call made it and whatever else was given; one that does not
\* go with the others is refused, never dropped.  (0 is no sector size; Azure Stack
\* has no network access.)  Two are dropped and left out here: DriverV2 checks
\* diskEncryptionType (controllerserver_v2.go:137) but does not pass it on, and a
\* diskAccessID without a networkAccessPolicy is not looked at.
ParametersHonoured ==
    volume # NoVolume /\ SpelledOnce("AccountType") =>
        LET p == volume.fields
            is(asked, property) == asked # Unset => asked = property
            number(asked, property) == asked # Unset => Atoi(asked) = property
        IN  /\ is(p.AccountType, created.sku) /\ is(p.Location, created.location)
            /\ is(p.SubscriptionID, volume.id.sub) /\ is(p.ResourceGroup, volume.id.rg)
            /\ number(p.IOPS, created.iops) /\ number(p.MBps, created.mbps)
            /\ number(p.MaxShares, created.maxShares)
            /\ p.LogicalSectorSize # "0" => number(p.LogicalSectorSize, created.sector)
            /\ p.Bursting = "true" <=> created.bursting
            /\ p.PerformancePlus = "true" <=> created.performancePlus
            /\ p.WriteAccelerator = "true" <=> created.writeAccelerator
            /\ is(p.Tags, created.tags)
            /\ p.EncryptionSet = created.encryptionSet
            /\ ~opts.v2 => is(p.EncryptionType, created.encryptionType)
            /\ ~opts.stack => /\ is(p.NetworkAccess, created.networkAccess)
                              /\ is(p.PublicAccess, created.publicAccess)
                              /\ p.NetworkAccess # Unset => is(p.DiskAccess, created.diskAccess)
            /\ (created.networkAccess = "AllowPrivate") <=> (created.diskAccess # Unset)

\* The capacity answered covers the request and stays within its limit, both
\* rounded up to GiB, and is the size of the disk.
SizeInRange ==
    volume # NoVolume =>
        /\ 2 * volume.gib >= req.required
        /\ req.limit > 0 => volume.gib <= RoundUpSize(req.limit, 2)
        /\ created.gib = volume.gib

\* An Ultra disk has a bandwidth that its IOPS allow, if neither was given:
\* between 1/256 and 1/4 MBps for each, but for a rounding.  (iops/256 is rounded
\* down before it is compared: with 25601 to 25855 IOPS the disk has 100 MBps.)
UltraInRange ==
    volume # NoVolume /\ created.sku = "UltraSSD_LRS"
        /\ volume.fields.IOPS = Unset /\ volume.fields.MBps = Unset =>
            /\ created.iops >= 500 /\ created.iops <= 160000
            /\ created.iops < 256 * (created.mbps + 1)
            /\ 4 * created.mbps < created.iops + 4

=============================================================================
