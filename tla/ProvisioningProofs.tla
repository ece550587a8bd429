------------------------- MODULE ProvisioningProofs -------------------------
(* CreateVolume makes one disk of a name, as it was asked for, and answers   *)
(* what the disk is: the properties of Provisioning, for every set of        *)
(* requests, options and topologies and any number of calls.                 *)
EXTENDS Provisioning, FiniteSetTheorems, WellFoundedInduction, TLAPS

-----------------------------------------------------------------------------
(* Readings of the parameters.                                               *)

\* Most fields are set by one key.
OneKey(f) == f \notin {"AccountType", "CachingMode"}

\* Those are all but the account type and the caching mode.
LEMMA KeysOfField ==
    ASSUME NEW j \in DOMAIN KeyField, NEW k \in DOMAIN KeyField, KeyField[j] = KeyField[k],
           OneKey(KeyField[k])
    PROVE  j = k
BY DEF KeyField, OneKey

\* A field that is spelled once is read the same whatever the order.
LEMMA SameReading ==
    ASSUME NEW p \in Readings(req.params), NEW q \in Readings(req.params), NEW f \in Fields,
           SpelledOnce(f)
    PROVE  p[f] = q[f]
<1> DEFINE known == DOMAIN req.params \cap DOMAIN KeyField
<1>1. \A r \in Readings(req.params) :
         \/ r[f] = Unset /\ ~\E k \in known : KeyField[k] = f
         \/ \E k \in known : KeyField[k] = f /\ r[f] = req.params[k]
  <2> TAKE r \in Readings(req.params)
  <2>1. PICK ks \in Winners(req.params) : r = Parsed(req.params, ks)
    BY DEF Readings
  <2>2. ks \subseteq known /\ \A k \in known : \E j \in ks : KeyField[j] = KeyField[k]
    BY <2>1 DEF Winners
  <2>3. r[f] = IF \E k \in ks : KeyField[k] = f
               THEN req.params[CHOOSE k \in ks : KeyField[k] = f] ELSE Unset
    BY <2>1 DEF Parsed
  <2> QED BY <2>2, <2>3
<1>2. \A j, k \in known : KeyField[j] = f /\ KeyField[k] = f => j = k
  BY DEF SpelledOnce
<1> QED BY <1>1, <1>2

\* The fields that the driver uses.
LEMMA FieldNames ==
    {"AccountType", "CachingMode", "Location", "SubscriptionID", "ResourceGroup", "DiskName",
     "IOPS", "MBps", "MaxShares", "EncryptionType", "NetworkAccess", "PublicAccess",
     "PerformancePlus", "LogicalSectorSize", "EncryptionSet", "DiskAccess", "Bursting",
     "WriteAccelerator", "Tags"} \subseteq Fields
<1>1. /\ KeyField["skuName"] = "AccountType" /\ KeyField["cachingMode"] = "CachingMode"
      /\ KeyField["location"] = "Location" /\ KeyField["subscriptionID"] = "SubscriptionID"
      /\ KeyField["resourceGroup"] = "ResourceGroup" /\ KeyField["diskName"] = "DiskName"
      /\ KeyField["diskIOPSReadWrite"] = "IOPS" /\ KeyField["diskMBpsReadWrite"] = "MBps"
      /\ KeyField["maxShares"] = "MaxShares" /\ KeyField["diskEncryptionType"] = "EncryptionType"
      /\ KeyField["networkAccessPolicy"] = "NetworkAccess"
      /\ KeyField["publicNetworkAccess"] = "PublicAccess"
      /\ KeyField["enablePerformancePlus"] = "PerformancePlus"
      /\ KeyField["logicalSectorSize"] = "LogicalSectorSize"
      /\ KeyField["diskEncryptionSetID"] = "EncryptionSet" /\ KeyField["diskAccessID"] = "DiskAccess"
      /\ KeyField["enableBursting"] = "Bursting" /\ KeyField["tags"] = "Tags"
      /\ KeyField["writeAcceleratorEnabled"] = "WriteAccelerator"
      /\ {"skuName", "cachingMode", "location", "subscriptionID", "resourceGroup", "diskName",
          "diskIOPSReadWrite", "diskMBpsReadWrite", "maxShares", "diskEncryptionType",
          "networkAccessPolicy", "publicNetworkAccess", "enablePerformancePlus",
          "logicalSectorSize", "diskEncryptionSetID", "diskAccessID", "enableBursting", "tags",
          "writeAcceleratorEnabled"} \subseteq DOMAIN KeyField
  BY DEF KeyField
<1> QED BY <1>1 DEF Fields

\* All readings agree on the fields with one key, and on the account type and the
\* caching mode if they are spelled once.
LEMMA ReadingsAgree ==
    ASSUME NEW p \in Readings(req.params), NEW q \in Readings(req.params)
    PROVE  /\ p.Location = q.Location /\ p.SubscriptionID = q.SubscriptionID
           /\ p.ResourceGroup = q.ResourceGroup /\ p.DiskName = q.DiskName
           /\ p.IOPS = q.IOPS /\ p.MBps = q.MBps /\ p.MaxShares = q.MaxShares
           /\ p.EncryptionType = q.EncryptionType /\ p.NetworkAccess = q.NetworkAccess
           /\ p.PublicAccess = q.PublicAccess /\ p.PerformancePlus = q.PerformancePlus
           /\ p.LogicalSectorSize = q.LogicalSectorSize /\ p.EncryptionSet = q.EncryptionSet
           /\ p.DiskAccess = q.DiskAccess /\ p.Bursting = q.Bursting
           /\ p.WriteAccelerator = q.WriteAccelerator /\ p.Tags = q.Tags
           /\ SpelledOnce("AccountType") => p.AccountType = q.AccountType
           /\ SpelledOnce("CachingMode") => p.CachingMode = q.CachingMode
<1>1. \A f \in Fields : OneKey(f) \/ SpelledOnce(f) => p[f] = q[f]
  BY SameReading, KeysOfField DEF SpelledOnce
<1> QED BY <1>1, FieldNames DEF OneKey

\* What is read of a field is the value of a key of that field.
LEMMA ReadValue ==
    ASSUME NEW p \in Readings(req.params), NEW f \in Fields
    PROVE  IF Values(req.params, f) = {} THEN p[f] = Unset ELSE p[f] \in Values(req.params, f)
<1>1. PICK ks \in Winners(req.params) : p = Parsed(req.params, ks)
  BY DEF Readings
<1>2. /\ ks \subseteq DOMAIN req.params \cap DOMAIN KeyField
      /\ \A k \in DOMAIN req.params \cap DOMAIN KeyField : \E j \in ks : KeyField[j] = KeyField[k]
  BY <1>1 DEF Winners
<1>3. p[f] = IF \E k \in ks : KeyField[k] = f
             THEN req.params[CHOOSE k \in ks : KeyField[k] = f] ELSE Unset
  BY <1>1 DEF Parsed
<1>4. \A k \in ks : KeyField[k] = f => req.params[k] \in Values(req.params, f)
  BY <1>2 DEF Values
<1>5. (\E k \in ks : KeyField[k] = f) <=> Values(req.params, f) # {}
  BY <1>2 DEF Values
<1> QED BY <1>3, <1>4, <1>5

-----------------------------------------------------------------------------
(* Sizes.                                                                    *)

\* RoundUpSize is the ceiling of a quotient.
LEMMA RoundUp ==
    ASSUME NEW n \in Nat
    PROVE  /\ RoundUpSize(n, 2) \in Nat
           /\ 2 * RoundUpSize(n, 2) >= n /\ 2 * RoundUpSize(n, 2) < n + 2
           /\ RoundUpSize(n, 4) \in Nat
           /\ 4 * RoundUpSize(n, 4) >= n /\ 4 * RoundUpSize(n, 4) < n + 4
           /\ RoundUpSize(n, 256) \in Nat
           /\ 256 * RoundUpSize(n, 256) >= n /\ 256 * RoundUpSize(n, 256) < n + 256
<1>1. /\ RoundUpSize(n, 2) \in Nat
      /\ 2 * RoundUpSize(n, 2) >= n /\ 2 * RoundUpSize(n, 2) < n + 2
  BY DEF RoundUpSize
<1>2. /\ RoundUpSize(n, 4) \in Nat
      /\ 4 * RoundUpSize(n, 4) >= n /\ 4 * RoundUpSize(n, 4) < n + 4
  BY DEF RoundUpSize
<1>3. /\ RoundUpSize(n, 256) \in Nat
      /\ 256 * RoundUpSize(n, 256) >= n /\ 256 * RoundUpSize(n, 256) < n + 256
  BY DEF RoundUpSize
<1> QED BY <1>1, <1>2, <1>3

\* The size that is asked of Azure is one, and covers the request.
LEMMA RequestedSize ==
    ASSUME req \in Inputs, NEW p
    PROVE  requestGiB(p) \in Nat \ {0} /\ 2 * requestGiB(p) >= req.required
<1>1. /\ req.required \in Nat /\ MinimumDiskSizeGiB \in Nat \ {0}
      /\ PerformancePlusMinimumDiskSizeGiB \in Nat
  BY InputAssumption, ProvisioningAssumption
<1>2. RoundUpSize(req.required, 2) \in Nat /\ 2 * RoundUpSize(req.required, 2) >= req.required
  BY <1>1, RoundUp
<1> DEFINE plus == IF p.PerformancePlus = "true" THEN PerformancePlusMinimumDiskSizeGiB ELSE 0
           up == RoundUpSize(req.required, 2)
<1>3. plus \in Nat /\ up \in Nat
  BY <1>1, <1>2
<1>4. requestGiB(p) = MaxOf(MaxOf(up, MinimumDiskSizeGiB), plus)
  BY DEF requestGiB
<1> HIDE DEF plus, up
<1>5. requestGiB(p) \in Nat \ {0} /\ requestGiB(p) >= up
  BY <1>1, <1>3, <1>4 DEF MaxOf
<1> QED BY <1>1, <1>2, <1>3, <1>5 DEF up

\* Bandwidths that go with a number of IOPS.
Matching(iops, mbps) ==
    /\ iops \in Nat /\ mbps \in Nat /\ iops >= 500 /\ iops <= 160000
    /\ iops < 256 * (mbps + 1) /\ 4 * mbps < iops + 4

\* The defaults for an Ultra disk match, for every size.
LEMMA UltraDefaults ==
    ASSUME NEW gib \in Nat
    PROVE  Matching(getDefaultDiskIOPSReadWrite(gib), getDefaultDiskMBPSReadWrite(gib))
<1> DEFINE iops == getDefaultDiskIOPSReadWrite(gib)
           x == iops \div 256
           y == iops \div 4
           up256 == RoundUpSize(iops, 256)
           up4 == RoundUpSize(iops, 4)
           b1 == IF x > 100 THEN up256 ELSE 100
           b2 == IF b1 > y THEN up4 ELSE b1
<1>1. iops \in Nat /\ iops >= 500 /\ iops <= 160000
  BY DEF getDefaultDiskIOPSReadWrite, DefaultDiskIOPSReadWrite, MaxOf
<1>2. getDefaultDiskMBPSReadWrite(gib) = IF b2 > 4000 THEN 4000 ELSE b2
  BY DEF getDefaultDiskMBPSReadWrite, DefaultDiskMBpsReadWrite
<1> HIDE DEF iops, x, y, b1, b2
<1>3. /\ up256 \in Nat /\ 256 * up256 >= iops /\ 256 * up256 < iops + 256
      /\ up4 \in Nat /\ 4 * up4 >= iops /\ 4 * up4 < iops + 4
  BY <1>1, RoundUp
<1> HIDE DEF up256, up4
<1>4. /\ x \in Nat /\ 256 * x <= iops /\ iops < 256 * x + 256
      /\ y \in Nat /\ 4 * y <= iops /\ iops < 4 * y + 4
  BY <1>1 DEF x, y
<1>5. b1 \in Nat /\ iops < 256 * (b1 + 1) /\ b1 <= 626
  BY <1>1, <1>3, <1>4 DEF b1
<1>6. x <= 100 => b1 = 100 /\ b1 <= y
  BY <1>1, <1>4 DEF b1
<1>7. x > 100 => b1 <= y
  BY <1>1, <1>3, <1>4 DEF b1
<1>8. b2 = b1
  BY <1>4, <1>5, <1>6, <1>7 DEF b2
<1>9. getDefaultDiskMBPSReadWrite(gib) = b1
  BY <1>2, <1>5, <1>8
<1>10. 4 * b1 < iops + 4
  BY <1>1, <1>4, <1>5, <1>6, <1>7
<1>11. Matching(iops, b1)
  BY <1>1, <1>5, <1>10 DEF Matching
<1> QED BY <1>9, <1>11 DEF iops

-----------------------------------------------------------------------------
(* The disks that are asked for.                                             *)

SkuOf(p) == NormalizeStorageAccountType(p.AccountType)
LocationOf(p) == IF p.Location = Unset THEN cloud.location ELSE p.Location
NetworkOf(v) == IF opts.stack THEN Unset ELSE v

\* The id of the disk of a name that is not replaced by another.
NameOf(p) == IF p.DiskName = Unset THEN req.name ELSE p.DiskName
KeptId(p) == [sub |-> IF p.SubscriptionID = Unset THEN cloud.sub ELSE p.SubscriptionID,
              rg |-> IF p.ResourceGroup = Unset THEN cloud.rg ELSE p.ResourceGroup,
              name |-> <<NameOf(p), 0>>]

\* Where a disk of any name is.
InPlace(i, p) == i.sub = KeptId(p).sub /\ i.rg = KeptId(p).rg

\* What options, or a disk, take over from a reading as it is.
Copies(x, p) ==
    /\ x.encryptionSet = p.EncryptionSet /\ x.tags = p.Tags
    /\ p.Bursting = "true" <=> x.bursting
    /\ p.PerformancePlus = "true" <=> x.performancePlus
    /\ p.WriteAccelerator = "true" <=> x.writeAccelerator

\* ManagedDiskOptions of a reading, whichever driver makes them.
OptionsOf(o, p) ==
    /\ Regenerated(NameOf(p)) \/ o.id = KeptId(p)
    /\ InPlace(o.id, p) /\ Copies(o, p)
    /\ o.sector = IntOf(p.LogicalSectorSize)
    /\ o.gib = requestGiB(p) /\ o.sku = SkuOf(p)
    /\ o.location \in {p.Location, LocationOf(p)}
    /\ o.maxShares = MaxSharesOf(p)
    /\ o.encryptionType = IF opts.v2 THEN Unset ELSE p.EncryptionType
    /\ o.networkAccess = NetworkOf(p.NetworkAccess) /\ o.publicAccess = NetworkOf(p.PublicAccess)
    /\ o.diskAccess = NetworkOf(p.DiskAccess)
    /\ \/ o.iops = IntOf(p.IOPS) /\ o.mbps = IntOf(p.MBps)
       \/ /\ p.IOPS = Unset /\ p.MBps = Unset /\ SkuOf(p) = "UltraSSD_LRS"
          /\ o.iops = getDefaultDiskIOPSReadWrite(requestGiB(p))
          /\ o.mbps = getDefaultDiskMBPSReadWrite(requestGiB(p))

\* A valid name is that of the disk.
LEMMA KeptName == \A p : (Regenerated(NameOf(p)) \/ IdOf(p) = KeptId(p)) /\ InPlace(IdOf(p), p)
BY DEF IdOf, KeptId, NameOf, CreateValidDiskName, InPlace

\* What Driver.CreateVolume plans.
LEMMA PlannedFacts ==
    ASSUME ~opts.v2, NEW p, NEW t, NEW c
    PROVE  /\ OptionsOf(Planned(p, t, c).disk, p)
           /\ Planned(p, t, c).disk.zone = DiskZone(t, LocationOf(p), SkuOf(p))
           /\ Planned(p, t, c).gib = requestGiB(p) /\ Planned(p, t, c).fields = p
           /\ Planned(p, t, c).context = c
           /\ Planned(p, t, c).topology =
                 AccessibleTopology(LocationOf(p), SkuOf(p), DiskZone(t, LocationOf(p), SkuOf(p)))
<1> DEFINE zone == DiskZone(t, LocationOf(p), SkuOf(p))
           base == DiskOptions(p, SkuOf(p), zone)
           options == [base EXCEPT !.location = LocationOf(p), !.encryptionType = p.EncryptionType]
           gib == requestGiB(p)
           ultra == [options EXCEPT !.iops = getDefaultDiskIOPSReadWrite(gib),
                                    !.mbps = getDefaultDiskMBPSReadWrite(gib)]
<1>1. Planned(p, t, c) =
         [disk |-> IF SkuOf(p) = "UltraSSD_LRS" /\ p.IOPS = Unset /\ p.MBps = Unset THEN ultra ELSE options,
          context |-> c, gib |-> gib, fields |-> p,
          topology |-> AccessibleTopology(LocationOf(p), SkuOf(p), zone)]
  BY DEF Planned, SkuOf, LocationOf
<1> HIDE DEF zone
<1>2. OptionsOf(options, p) /\ options.zone = zone
  <2>1. Copies(options, p)
    BY DEF DiskOptions, Copies
  <2> QED BY <2>1, KeptName DEF OptionsOf, DiskOptions, NetworkOf
<1>3. ASSUME p.IOPS = Unset, p.MBps = Unset, SkuOf(p) = "UltraSSD_LRS"
      PROVE  OptionsOf(ultra, p) /\ ultra.zone = zone
  <2> DEFINE first == [options EXCEPT !.iops = getDefaultDiskIOPSReadWrite(gib)]
  <2>1. DOMAIN options = {"id", "gib", "sku", "zone", "iops", "mbps", "sector", "maxShares",
            "location", "encryptionSet", "encryptionType", "networkAccess", "publicAccess",
            "diskAccess", "bursting", "performancePlus", "writeAccelerator", "tags", "source"}
    BY DEF DiskOptions
  <2> HIDE DEF options
  <2>2. /\ DOMAIN first = DOMAIN options /\ first.iops = getDefaultDiskIOPSReadWrite(gib)
        /\ \A k \in DOMAIN options \ {"iops"} : first[k] = options[k]
    BY <2>1
  <2>3. ultra = [first EXCEPT !.mbps = getDefaultDiskMBPSReadWrite(gib)]
    BY Zenon
  <2> HIDE DEF first, ultra
  <2>4. /\ ultra.mbps = getDefaultDiskMBPSReadWrite(gib)
        /\ \A k \in DOMAIN options \ {"mbps"} : ultra[k] = first[k]
    BY <2>1, <2>2, <2>3
  <2>5. /\ ultra.iops = getDefaultDiskIOPSReadWrite(gib)
        /\ \A k \in DOMAIN options \ {"iops", "mbps"} : ultra[k] = options[k]
    BY <2>1, <2>2, <2>4
  <2>6. /\ ultra.id = options.id /\ ultra.gib = options.gib /\ ultra.sku = options.sku
        /\ ultra.zone = options.zone /\ ultra.location = options.location
        /\ ultra.maxShares = options.maxShares /\ ultra.encryptionType = options.encryptionType
        /\ ultra.networkAccess = options.networkAccess
        /\ ultra.publicAccess = options.publicAccess /\ ultra.diskAccess = options.diskAccess
        /\ ultra.sector = options.sector
    BY <2>1, <2>5
  <2>7. Copies(ultra, p)
    <3>1. /\ ultra.encryptionSet = options.encryptionSet /\ ultra.tags = options.tags
          /\ ultra.bursting = options.bursting
          /\ ultra.performancePlus = options.performancePlus
          /\ ultra.writeAccelerator = options.writeAccelerator
      BY <2>1, <2>5
    <3>2. Copies(options, p)
      BY <1>2 DEF OptionsOf
    <3> QED BY <3>1, <3>2, Zenon DEF Copies
  <2>8. ultra.zone = zone
    BY <1>2, <2>6
  <2>9. /\ ultra.iops = getDefaultDiskIOPSReadWrite(requestGiB(p))
        /\ ultra.mbps = getDefaultDiskMBPSReadWrite(requestGiB(p))
    BY <2>4, <2>5
  <2> HIDE DEF zone, gib
  <2> QED BY <1>2, <1>3, <2>6, <2>7, <2>8, <2>9 DEF OptionsOf
<1> HIDE DEF options, ultra, gib
<1>4. OptionsOf(Planned(p, t, c).disk, p) /\ Planned(p, t, c).disk.zone = zone
  <2>1. CASE SkuOf(p) = "UltraSSD_LRS" /\ p.IOPS = Unset /\ p.MBps = Unset
    <3>1. Planned(p, t, c).disk = ultra
      BY <1>1, <2>1
    <3> QED BY <1>3, <2>1, <3>1
  <2>2. CASE ~(SkuOf(p) = "UltraSSD_LRS" /\ p.IOPS = Unset /\ p.MBps = Unset)
    <3>1. Planned(p, t, c).disk = options
      BY <1>1, <2>2
    <3> QED BY <1>2, <3>1
  <2> QED BY <2>1, <2>2
<1>5. /\ Planned(p, t, c).gib = gib /\ Planned(p, t, c).fields = p
      /\ Planned(p, t, c).context = c
      /\ Planned(p, t, c).topology = AccessibleTopology(LocationOf(p), SkuOf(p), zone)
  BY <1>1
<1> QED BY <1>4, <1>5 DEF zone, gib

\* What DriverV2.CreateVolume plans.
LEMMA PlannedV2Facts ==
    ASSUME opts.v2, NEW p, NEW t, NEW c
    PROVE  /\ OptionsOf(PlannedV2(p, t, c).disk, p)
           /\ PlannedV2(p, t, c).disk.zone = PickAvailabilityZone(t, cloud.location)
           /\ PlannedV2(p, t, c).gib = requestGiB(p) /\ PlannedV2(p, t, c).fields = p
           /\ PlannedV2(p, t, c).context = c
           /\ PlannedV2(p, t, c).topology = {PickAvailabilityZone(t, cloud.location)}
<1> DEFINE zone == PickAvailabilityZone(t, cloud.location)
           options == DiskOptions(p, SkuOf(p), zone)
<1>1. PlannedV2(p, t, c) = [disk |-> options, context |-> c, gib |-> requestGiB(p),
                            fields |-> p, topology |-> {zone}]
  BY DEF PlannedV2, SkuOf
<1> HIDE DEF zone
<1>2. OptionsOf(options, p) /\ options.zone = zone
  <2>1. Copies(options, p)
    BY DEF DiskOptions, Copies
  <2> QED BY <2>1, KeptName DEF OptionsOf, DiskOptions, NetworkOf
<1> HIDE DEF options
<1> QED BY <1>1, <1>2 DEF zone

\* The disk that is sent to ARM.
UltraFits(d, p) ==
    d.sku = "UltraSSD_LRS" /\ p.IOPS = Unset /\ p.MBps = Unset => Matching(d.iops, d.mbps)
Honours(d, p) ==
    /\ p.AccountType # Unset => p.AccountType = d.sku
    /\ p.Location # Unset => p.Location = d.location
    /\ p.IOPS # Unset => Atoi(p.IOPS) = d.iops
    /\ p.MBps # Unset => Atoi(p.MBps) = d.mbps
    /\ p.MaxShares # Unset => Atoi(p.MaxShares) = d.maxShares
    /\ p.LogicalSectorSize \notin {Unset, "0"} => Atoi(p.LogicalSectorSize) = d.sector
    /\ Copies(d, p)
    /\ ~opts.v2 => (p.EncryptionType # Unset => p.EncryptionType = d.encryptionType)
    /\ ~opts.stack => /\ p.NetworkAccess # Unset => p.NetworkAccess = d.networkAccess
                      /\ p.PublicAccess # Unset => p.PublicAccess = d.publicAccess
                      /\ p.NetworkAccess # Unset /\ p.DiskAccess # Unset => p.DiskAccess = d.diskAccess
    /\ (d.networkAccess = "AllowPrivate") <=> (d.diskAccess # Unset)
\* What it does not have, whatever was asked for.
Drops(d, p) ==
    /\ opts.v2 => d.encryptionType # "EncryptionAtRestWithPlatformAndCustomerKeys"
    /\ p.NetworkAccess = Unset => d.diskAccess = Unset
MadeFor(d, p) ==
    d.gib = requestGiB(p) /\ d.sku = SkuOf(p) /\ UltraFits(d, p) /\ Honours(d, p) /\ Drops(d, p)

\* What is read of a field is the value of an entry that was not stopped at.
LEMMA ReadEntry ==
    ASSUME NEW p \in Readings(req.params), ParseDiskParameters(req.params, p),
           NEW f \in Fields, p[f] # Unset
    PROVE  \E k \in DOMAIN KeyField : KeyField[k] = f /\ ValidEntry(k, p[f])
<1>1. p[f] \in Values(req.params, f)
  BY ReadValue
<1>2. PICK k \in DOMAIN req.params \cap DOMAIN KeyField : KeyField[k] = f /\ p[f] = req.params[k]
  BY <1>1 DEF Values
<1>3. ValidEntry(k, req.params[k])
  BY DEF ParseDiskParameters
<1> QED BY <1>2, <1>3

\* A key that sets the shares has a number for its value, at least one; one that sets
\* the sector size has a number.
LEMMA SharesAreANumber ==
    ASSUME NEW p \in Readings(req.params), ParseDiskParameters(req.params, p), p.MaxShares # Unset
    PROVE  p.MaxShares \in Numerals /\ Atoi(p.MaxShares) >= 1
<1>1. "MaxShares" \in Fields
  BY FieldNames
<1>2. PICK k \in DOMAIN KeyField : KeyField[k] = "MaxShares" /\ ValidEntry(k, p["MaxShares"])
  BY <1>1, ReadEntry
<1> QED BY <1>2 DEF ValidEntry

\* The same of the sector size.
LEMMA SectorIsANumber ==
    ASSUME NEW p \in Readings(req.params), ParseDiskParameters(req.params, p),
           p.LogicalSectorSize # Unset
    PROVE  p.LogicalSectorSize \in Numerals
<1>1. "LogicalSectorSize" \in Fields
  BY FieldNames
<1>2. PICK k \in DOMAIN KeyField :
         KeyField[k] = "LogicalSectorSize" /\ ValidEntry(k, p["LogicalSectorSize"])
  BY <1>1, ReadEntry
<1> QED BY <1>2 DEF ValidEntry

\* It is as the parameters say, for every reading that was accepted.
LEMMA DiskMadeFor ==
    ASSUME req \in Inputs, NEW p \in Readings(req.params), Acceptable(p),
           NEW o, OptionsOf(o, p), OptionsValid(o)
    PROVE  MadeFor(ManagedDisk(o), p)
<1> DEFINE d == ManagedDisk(o)
<1>1. /\ d.gib = o.gib /\ d.sku = o.sku
      /\ d.location = IF o.location = Unset THEN cloud.location ELSE o.location
      /\ d.iops = DefaultTo(o.iops, o.sku, DefaultDiskIOPSReadWrite)
      /\ d.mbps = DefaultTo(o.mbps, o.sku, DefaultDiskMBpsReadWrite)
      /\ d.maxShares = (IF o.maxShares > 1 THEN o.maxShares ELSE 1)
      /\ d.encryptionType = EncryptionTypeOf(o)
      /\ d.networkAccess = o.networkAccess /\ d.publicAccess = o.publicAccess
      /\ d.diskAccess = (IF o.networkAccess = "AllowPrivate" THEN o.diskAccess ELSE Unset)
      /\ d.sector = (IF o.sector = 0 THEN NotGiven ELSE o.sector)
  BY DEF ManagedDisk
<1>0. /\ d.encryptionSet = o.encryptionSet /\ d.tags = o.tags /\ d.bursting = o.bursting
      /\ d.performancePlus = o.performancePlus /\ d.writeAccelerator = o.writeAccelerator
  BY DEF ManagedDisk
<1> HIDE DEF d
<1>2. UltraFits(d, p)
  <2> SUFFICES ASSUME d.sku = "UltraSSD_LRS", p.IOPS = Unset, p.MBps = Unset
               PROVE  Matching(d.iops, d.mbps)
    BY DEF UltraFits
  <2>0. o.sku = "UltraSSD_LRS"
    BY <1>1
  <2>1. CASE o.iops = IntOf(p.IOPS) /\ o.mbps = IntOf(p.MBps)
    <3>1. o.iops = NotGiven /\ o.mbps = NotGiven
      BY <2>1 DEF IntOf
    <3>2. d.iops = 500 /\ d.mbps = 100
      BY <1>1, <2>0, <3>1 DEF DefaultTo, DefaultDiskIOPSReadWrite, DefaultDiskMBpsReadWrite
    <3> QED BY <3>2 DEF Matching
  <2>2. CASE /\ o.iops = getDefaultDiskIOPSReadWrite(requestGiB(p))
             /\ o.mbps = getDefaultDiskMBPSReadWrite(requestGiB(p))
    <3>1. requestGiB(p) \in Nat
      BY RequestedSize
    <3>2. Matching(o.iops, o.mbps)
      BY <2>2, <3>1, UltraDefaults
    <3>3. o.iops # NotGiven /\ o.mbps # NotGiven
      BY <3>2 DEF Matching, NotGiven
    <3>4. d.iops = o.iops /\ d.mbps = o.mbps
      BY <1>1, <3>3 DEF DefaultTo
    <3> QED BY <3>2, <3>4
  <2> QED BY <2>1, <2>2 DEF OptionsOf
<1>3. /\ p.AccountType # Unset => p.AccountType = d.sku
      /\ p.Location # Unset => p.Location = d.location
  <2>1. o.sku = SkuOf(p) /\ o.location \in {p.Location, LocationOf(p)}
    BY DEF OptionsOf
  <2> QED BY <1>1, <2>1 DEF SkuOf, LocationOf, Acceptable, NormalizeStorageAccountType
<1>4. /\ p.IOPS # Unset => Atoi(p.IOPS) = d.iops
      /\ p.MBps # Unset => Atoi(p.MBps) = d.mbps
  <2>1. \A v : v # Unset =>
           IntOf(v) # NotGiven /\ (IntOf(v) = NotANumber \/ IntOf(v) = Atoi(v))
    BY DEF IntOf, NotGiven, NotANumber, Numerals, Atoi
  <2>2. /\ p.IOPS # Unset => o.iops = IntOf(p.IOPS)
        /\ p.MBps # Unset => o.mbps = IntOf(p.MBps)
    BY DEF OptionsOf
  <2>3. NotANumber \notin {o.iops, o.mbps} \/ (o.iops = NotGiven /\ o.mbps = NotGiven)
    BY DEF OptionsValid
  <2> QED BY <1>1, <2>1, <2>2, <2>3 DEF DefaultTo
<1>5. p.MaxShares # Unset => Atoi(p.MaxShares) = d.maxShares
  <2> SUFFICES ASSUME p.MaxShares # Unset PROVE Atoi(p.MaxShares) = d.maxShares
    OBVIOUS
  <2>1. p.MaxShares \in Numerals /\ Atoi(p.MaxShares) >= 1
    BY SharesAreANumber DEF Acceptable
  <2>2. o.maxShares = Atoi(p.MaxShares)
    BY DEF OptionsOf, MaxSharesOf
  <2>3. Atoi(p.MaxShares) \in Nat
    BY <2>1 DEF Numerals, Atoi
  <2> QED BY <1>1, <2>1, <2>2, <2>3
<1>a. Copies(d, p)
  <2>1. Copies(o, p)
    BY DEF OptionsOf
  <2> QED BY <1>0, <2>1, Zenon DEF Copies
<1>b. p.LogicalSectorSize \notin {Unset, "0"} => Atoi(p.LogicalSectorSize) = d.sector
  <2> DEFINE v == p.LogicalSectorSize
  <2> SUFFICES ASSUME v # Unset, v # "0" PROVE Atoi(v) = d.sector
    OBVIOUS
  <2>1. v \in Numerals
    BY SectorIsANumber DEF Acceptable
  <2>2. o.sector = IntOf(v)
    BY DEF OptionsOf
  <2> HIDE DEF v
  <2>3. IntOf(v) = Atoi(v) /\ Atoi(v) # 0
    BY <2>1 DEF IntOf, Numerals, Atoi
  <2> QED BY <1>1, <2>2, <2>3
<1>c. Drops(d, p)
  <2>1. opts.v2 => o.encryptionType = Unset
    BY DEF OptionsOf
  <2>2. opts.v2 => d.encryptionType \in {Unset, "EncryptionAtRestWithCustomerKey"}
    BY <1>1, <2>1 DEF EncryptionTypeOf
  <2>3. /\ Unset # "EncryptionAtRestWithPlatformAndCustomerKeys" /\ Unset # "AllowPrivate"
        /\ "EncryptionAtRestWithCustomerKey" # "EncryptionAtRestWithPlatformAndCustomerKeys"
    BY Zenon DEF Unset
  <2>4. p.NetworkAccess = Unset => o.networkAccess = Unset
    BY DEF OptionsOf, NetworkOf
  <2> QED BY <1>1, <2>2, <2>3, <2>4 DEF Drops
<1>6. ~opts.v2 => (p.EncryptionType # Unset => p.EncryptionType = d.encryptionType)
  <2>1. ~opts.v2 => o.encryptionType = p.EncryptionType
    BY DEF OptionsOf
  <2>2. o.encryptionSet = Unset => o.encryptionType = Unset
    BY DEF OptionsValid
  <2> QED BY <1>1, <2>1, <2>2 DEF EncryptionTypeOf
<1>7. ~opts.stack => /\ p.NetworkAccess # Unset => p.NetworkAccess = d.networkAccess
                     /\ p.PublicAccess # Unset => p.PublicAccess = d.publicAccess
                     /\ p.NetworkAccess # Unset /\ p.DiskAccess # Unset => p.DiskAccess = d.diskAccess
  BY <1>1 DEF OptionsOf, NetworkOf, OptionsValid
<1>8. (d.networkAccess = "AllowPrivate") <=> (d.diskAccess # Unset)
  BY <1>1 DEF OptionsValid
<1>9. Honours(d, p)
  BY <1>3, <1>4, <1>5, <1>6, <1>7, <1>8, <1>a, <1>b DEF Honours
<1>10. MadeFor(d, p)
  BY <1>1, <1>2, <1>9, <1>c DEF MadeFor, OptionsOf
<1> QED BY <1>10 DEF d

-----------------------------------------------------------------------------
(* Zones.                                                                    *)

\* A set of natural numbers has a least one.
LEMMA LeastNatural ==
    ASSUME NEW S \in SUBSET Nat, S # {}
    PROVE  \E i \in S : \A j \in S : i <= j
<1> DEFINE less == OpToRel(<, Nat)
<1>1. \A i, j \in Nat : <<i, j>> \in less <=> i < j
  BY DEF OpToRel
<1>2. IsWellFoundedOn(less, Nat)
  BY NatLessThanWellFounded
<1> HIDE DEF less
<1>3. PICK i \in S : \A j \in S : ~(<<j, i>> \in less)
  BY <1>2, WFMin
<1>4. \A j \in S : ~(j < i)
  BY <1>1, <1>3, Zenon
<1>5. \A j \in S : i <= j
  BY <1>4
<1> QED BY <1>5

\* The region of the cluster, and no region.
LEMMA Regions == cloud.location # Unset
<1>1. cloud.location = "east"
  BY DEF cloud
<1> QED BY <1>1, Zenon DEF Unset

\* A zone is its region and its id.
LEMMA ZonePair == \A z : IsZone(z) => z = <<z[1], z[2]>>
BY DEF IsZone

\* A zone that is picked for a region is in it.
LEMMA PickedZone ==
    ASSUME NEW t \in Topologies, NEW region, region # Unset
    PROVE  LET z == PickAvailabilityZone(t, region)
           IN  z = NoZone \/ (z = <<region, z[2]>> /\ z[2] # Unset)
<1> DEFINE zones == [i \in 1..(2 * Len(t)) |->
                        IF i % 2 = 1 THEN t[(i + 1) \div 2].wellKnown ELSE t[i \div 2].driver]
           valid == {i \in DOMAIN zones : IsValidAvailabilityZone(zones[i], region)}
           first == CHOOSE i \in valid : \A j \in valid : i <= j
<1>1. PickAvailabilityZone(t, region) = IF valid = {} THEN NoZone ELSE zones[first]
  BY DEF PickAvailabilityZone
<1>2. Len(t) \in Nat /\ \A k \in 1..Len(t) : IsZone(t[k].wellKnown) /\ IsZone(t[k].driver)
  BY InputAssumption
<1>3. \A i \in 1..(2 * Len(t)) : IsZone(zones[i])
  <2> TAKE i \in 1..(2 * Len(t))
  <2>1. CASE i % 2 = 1
    <3>1. (i + 1) \div 2 \in 1..Len(t)
      BY <1>2, <2>1
    <3> QED BY <1>2, <2>1, <3>1
  <2>2. CASE i % 2 # 1
    <3>1. i \div 2 \in 1..Len(t)
      BY <1>2, <2>2
    <3> QED BY <1>2, <2>2, <3>1
  <2> QED BY <2>1, <2>2
<1>4. DOMAIN zones = 1..(2 * Len(t)) /\ valid \in SUBSET Nat
  BY <1>2
<1> HIDE DEF zones
<1>5. ASSUME valid # {}
      PROVE  IsZone(zones[first]) /\ zones[first][1] = region
  <2>1. \E i \in valid : \A j \in valid : i <= j
    BY <1>4, <1>5, LeastNatural
  <2>2. first \in valid
    BY <2>1
  <2> QED BY <1>3, <1>4, <2>2 DEF IsValidAvailabilityZone
<1> HIDE DEF valid, first
<1>6. ASSUME valid # {}
      PROVE  zones[first] = <<region, zones[first][2]>> /\ zones[first][2] # Unset
  <2> DEFINE z == zones[first]
  <2>1. IsZone(z) /\ z[1] = region
    BY <1>5, <1>6
  <2> HIDE DEF z
  <2>2. z = <<z[1], z[2]>> /\ z # NoZone
    BY <2>1, ZonePair DEF NoZone
  <2>3. z[2] # Unset
    BY <2>1, <2>2 DEF IsZone
  <2>4. z = <<region, z[2]>>
    BY <2>1, <2>2
  <2> QED BY <2>3, <2>4 DEF z
<1> QED BY <1>1, <1>6

\* The zone of a disk that is cloned has an id, if there is one.
LEMMA SourceZone ==
    ASSUME req \in Inputs, NEW d \in SourceOf, d.zone # NoZone
    PROVE  d.zone[2] # Unset
<1> DEFINE chain == req.source.chain
<1>1. /\ \A k \in DOMAIN chain : IsZone(chain[k].zone)
      /\ DOMAIN chain = 1..Len(chain)
  BY InputAssumption
<1>2. PICK k \in 1..Len(chain) : d = chain[k]
  BY DEF SourceOf, GetSourceDiskSize
<1>3. IsZone(d.zone)
  BY <1>1, <1>2
<1> QED BY <1>3 DEF IsZone

\* The zones that are answered for a disk in the zone id z.
Where(topology, z, sku) ==
    IF IsZRS(sku) /\ ~opts.v2
    THEN /\ z = Unset
         /\ {<<cloud.location, i>> : i \in {"1", "2", "3"}} \subseteq topology
    ELSE topology = {IF z = Unset THEN NoZone ELSE <<cloud.location, z>>}

\* The id of a zone of the cluster's region.
LEMMA ZoneID ==
    /\ GetZoneID(NoZone) = Unset
    /\ \A i : GetZoneID(<<cloud.location, i>>) = i
<1>1. NoZone[1] = Unset
  BY DEF NoZone
<1> QED BY <1>1, Regions DEF GetZoneID

\* Driver.CreateVolume answers with the zone it asks for.
LEMMA PlannedWhere ==
    ASSUME ~opts.v2, req \in Inputs, NEW p, p.Location = Unset, NEW t \in Topologies, NEW c
    PROVE  Where(Planned(p, t, c).topology, ManagedDisk(Planned(p, t, c).disk).zone, SkuOf(p))
<1> DEFINE zone == DiskZone(t, cloud.location, SkuOf(p))
           topology == Planned(p, t, c).topology
           z == ManagedDisk(Planned(p, t, c).disk).zone
<1>1. LocationOf(p) = cloud.location
  BY DEF LocationOf
<1>2. topology = AccessibleTopology(cloud.location, SkuOf(p), zone)
  BY <1>1, PlannedFacts
<1>3. z = GetZoneID(zone)
  <2>1. Planned(p, t, c).disk.zone = zone
    BY <1>1, PlannedFacts
  <2> QED BY <2>1 DEF ManagedDisk
<1>4. CASE IsZRS(SkuOf(p))
  <2>1. zone = NoZone
    BY <1>4 DEF DiskZone
  <2>2. z = Unset
    BY <1>3, <2>1, ZoneID
  <2>3. {<<cloud.location, i>> : i \in {"1", "2", "3"}} \subseteq topology
    BY <1>2, <1>4 DEF AccessibleTopology
  <2> HIDE DEF z, topology
  <2>4. Where(topology, z, SkuOf(p))
    BY <1>4, <2>2, <2>3 DEF Where
  <2> QED BY <2>4 DEF z, topology
<1>5. CASE ~IsZRS(SkuOf(p))
  <2> DEFINE cloned == {d \in SourceOf : d.zone # NoZone}
  <2>1. topology = {zone}
    BY <1>2, <1>5 DEF AccessibleTopology
  <2>2. zone = IF cloned # {} THEN <<cloud.location, (CHOOSE d \in cloned : TRUE).zone[2]>>
               ELSE PickAvailabilityZone(t, cloud.location)
    BY <1>5 DEF DiskZone
  <2>3. zone = NoZone \/ (zone = <<cloud.location, zone[2]>> /\ zone[2] # Unset)
    <3>1. CASE cloned # {}
      <4>1. PICK d \in cloned : d = (CHOOSE e \in cloned : TRUE)
        BY <3>1
      <4>2. d.zone[2] # Unset
        BY <4>1, SourceZone
      <4>3. zone = <<cloud.location, d.zone[2]>>
        BY <2>2, <3>1, <4>1
      <4> HIDE DEF zone
      <4> QED BY <4>2, <4>3
    <3>2. CASE cloned = {}
      <4>1. zone = PickAvailabilityZone(t, cloud.location)
        BY <2>2, <3>2
      <4> QED BY <4>1, PickedZone, Regions
    <3> QED BY <3>1, <3>2
  <2> HIDE DEF z, topology, zone
  <2>4. topology = {IF z = Unset THEN NoZone ELSE <<cloud.location, z>>}
    BY <1>3, <2>1, <2>3, ZoneID
  <2>5. Where(topology, z, SkuOf(p))
    BY <1>5, <2>4 DEF Where
  <2> QED BY <2>5 DEF z, topology
<1> QED BY <1>4, <1>5

\* DriverV2.CreateVolume does so too.
LEMMA PlannedV2Where ==
    ASSUME opts.v2, NEW p, NEW t \in Topologies, NEW c
    PROVE  Where(PlannedV2(p, t, c).topology, ManagedDisk(PlannedV2(p, t, c).disk).zone, SkuOf(p))
<1> DEFINE zone == PickAvailabilityZone(t, cloud.location)
           topology == PlannedV2(p, t, c).topology
           z == ManagedDisk(PlannedV2(p, t, c).disk).zone
<1>1. topology = {zone}
  BY PlannedV2Facts
<1>2. z = GetZoneID(zone)
  <2>1. PlannedV2(p, t, c).disk.zone = zone
    BY PlannedV2Facts
  <2> QED BY <2>1 DEF ManagedDisk
<1>3. zone = NoZone \/ (zone = <<cloud.location, zone[2]>> /\ zone[2] # Unset)
  BY PickedZone, Regions
<1> HIDE DEF z, topology, zone
<1>4. topology = {IF z = Unset THEN NoZone ELSE <<cloud.location, z>>}
  BY <1>1, <1>2, <1>3, ZoneID
<1>5. Where(topology, z, SkuOf(p))
  BY <1>4 DEF Where
<1> QED BY <1>5 DEF z, topology

-----------------------------------------------------------------------------
(* The volume context.                                                       *)

\* The key the driver adds.
LEMMA CachingKey == "cachingMode" \in DOMAIN KeyField /\ KeyField["cachingMode"] = "CachingMode"
BY DEF KeyField

\* Setting the caching mode leaves the other fields alone, and is what is read
\* then if there was not more than one spelling.
LEMMA SetCaching ==
    ASSUME req \in Inputs, NEW v, NEW set \in SetKeyValueInMap(req.params, "cachingMode", v)
    PROVE  /\ \A f : f # "CachingMode" => Values(set, f) = Values(req.params, f)
           /\ SpelledOnce("CachingMode") => Values(set, "CachingMode") = {v}
<1> DEFINE params == req.params
           same == {j \in DOMAIN params \cap DOMAIN KeyField : KeyField[j] = "CachingMode"}
<1>1. params \in [DOMAIN params -> STRING]
  BY InputAssumption
<1>2. \/ \E j \in same : set = [params EXCEPT ![j] = v]
      \/ /\ same = {}
         /\ set = [j \in DOMAIN params \cup {"cachingMode"} |->
                      IF j = "cachingMode" THEN v ELSE params[j]]
  BY CachingKey DEF SetKeyValueInMap
<1>3. CASE \E j \in same : set = [params EXCEPT ![j] = v]
  <2>1. PICK j \in same : set = [params EXCEPT ![j] = v]
    BY <1>3
  <2>2. /\ DOMAIN set = DOMAIN params /\ set[j] = v
        /\ \A k \in DOMAIN params \ {j} : set[k] = params[k]
        /\ j \in DOMAIN params \cap DOMAIN KeyField /\ KeyField[j] = "CachingMode"
    BY <1>1, <2>1
  <2> HIDE DEF params
  <2>3. \A f : f # "CachingMode" => Values(set, f) = Values(params, f)
    BY <2>2 DEF Values
  <2>4. SpelledOnce("CachingMode") => Values(set, "CachingMode") = {v}
    BY <2>2 DEF Values, SpelledOnce, params
  <2> QED BY <2>3, <2>4 DEF params
<1>4. CASE /\ same = {}
           /\ set = [j \in DOMAIN params \cup {"cachingMode"} |->
                      IF j = "cachingMode" THEN v ELSE params[j]]
  <2>1. /\ DOMAIN set = DOMAIN params \cup {"cachingMode"} /\ set["cachingMode"] = v
        /\ \A k \in DOMAIN params \ {"cachingMode"} : set[k] = params[k]
        /\ \A k \in DOMAIN params \cap DOMAIN KeyField : KeyField[k] # "CachingMode"
    BY <1>4
  <2> HIDE DEF params
  <2>2. \A f : f # "CachingMode" => Values(set, f) = Values(params, f)
    BY <2>1, CachingKey DEF Values
  <2>3. Values(set, "CachingMode") = {v}
    BY <2>1, CachingKey DEF Values
  <2> QED BY <2>2, <2>3 DEF params
<1> QED BY <1>2, <1>3, <1>4

\* How the calls that follow read the volume context.
Usable(params, p) ==
    /\ GetMaxShares(params) = GetMaxShares(req.params)
    /\ SpelledOnce("CachingMode") =>
          \A m \in GetCachingMode(params) :
              m # "error" /\ (SkuOf(p) = "PremiumV2_LRS" => m = "None")

\* A context that the driver makes is read without an error, and without caching
\* for PremiumV2_LRS.
LEMMA ContextUsable ==
    ASSUME req \in Inputs, NEW p \in Readings(req.params), Acceptable(p), NEW source,
           NEW c \in Contexts(p, SkuOf(p), source)
    PROVE  Usable(c.params, p)
<1>1. /\ "None" # Unset /\ "error" # Unset
  BY Zenon DEF Unset
<1>2. CASE SkuOf(p) = "PremiumV2_LRS"
  <2>1. c.params \in SetKeyValueInMap(req.params, "cachingMode", "None")
    BY <1>2 DEF Contexts
  <2> DEFINE set == c.params
  <2> HIDE DEF set
  <2>2. /\ Values(set, "MaxShares") = Values(req.params, "MaxShares")
        /\ SpelledOnce("CachingMode") => Values(set, "CachingMode") = {"None"}
    BY <2>1, SetCaching DEF set
  <2>3. GetMaxShares(set) = GetMaxShares(req.params)
    <3> DEFINE Shares(S) == IF S = {} THEN 1 ELSE Atoi(CHOOSE v \in S : TRUE)
    <3>1. \A P : GetMaxShares(P) = Shares(Values(P, "MaxShares"))
      BY DEF GetMaxShares
    <3> HIDE DEF Shares
    <3> QED BY <2>2, <3>1
  <2>4. SpelledOnce("CachingMode") => GetCachingMode(set) = {NormalizeCachingMode("None")}
    BY <2>2 DEF GetCachingMode
  <2>5. NormalizeCachingMode("None") = "None"
    BY <1>1 DEF NormalizeCachingMode, CachingModes
  <2>6. Usable(set, p)
    BY <2>3, <2>4, <2>5 DEF Usable
  <2> QED BY <2>6 DEF set
<1>3. CASE SkuOf(p) # "PremiumV2_LRS"
  <2>1. c.params = req.params
    BY <1>3 DEF Contexts
  <2>2. ASSUME SpelledOnce("CachingMode"), NEW m \in GetCachingMode(req.params)
        PROVE  m # "error"
    <3>1. NormalizeCachingMode(p.CachingMode) # "error"
      BY DEF Acceptable
    <3>2. m = NormalizeCachingMode(p.CachingMode)
      <4>1. "CachingMode" \in Fields
        BY FieldNames
      <4>2. IF Values(req.params, "CachingMode") = {} THEN p.CachingMode = Unset
            ELSE p.CachingMode \in Values(req.params, "CachingMode")
        BY <4>1, ReadValue
      <4>3. \A v, w \in Values(req.params, "CachingMode") : v = w
        BY <2>2 DEF Values, SpelledOnce
      <4> QED BY <2>2, <4>2, <4>3 DEF GetCachingMode
    <3> QED BY <3>1, <3>2
  <2>3. Usable(req.params, p)
    BY <1>3, <2>2 DEF Usable
  <2> QED BY <2>1, <2>3
<1> QED BY <1>2, <1>3

\* The capabilities of a request that is accepted are valid when they are checked
\* again.
LEMMA CapabilitiesValid ==
    ASSUME NEW p \in Readings(req.params), Acceptable(p)
    PROVE  ValidateVolumeCapabilities
<1>1. IsValidVolumeCapabilities(req.caps, MaxSharesOf(p)) /\ ParseDiskParameters(req.params, p)
  BY DEF Acceptable
<1>2. "MaxShares" \in Fields /\ Unset \notin Numerals
  <2>1. "MaxShares" \in Fields
    BY FieldNames
  <2>2. Unset \notin Numerals
    BY Zenon DEF Unset, Numerals
  <2> QED BY <2>1, <2>2
<1>3. CASE Values(req.params, "MaxShares") = {}
  <2>1. p.MaxShares = Unset
    BY <1>2, <1>3, ReadValue
  <2>2. MaxSharesOf(p) = 0 /\ GetMaxShares(req.params) = 1
    BY <1>3, <2>1 DEF MaxSharesOf, GetMaxShares
  <2> QED BY <1>1, <2>2 DEF IsValidVolumeCapabilities, ValidateVolumeCapabilities
<1>4. CASE Values(req.params, "MaxShares") # {}
  <2>1. p.MaxShares \in Values(req.params, "MaxShares")
    BY <1>2, <1>4, ReadValue
  <2>2. \A v, w \in Values(req.params, "MaxShares") : v = w
    BY KeysOfField DEF Values, OneKey
  <2>3. \A v \in Values(req.params, "MaxShares") : v \in Numerals
    BY <1>1 DEF Values, ParseDiskParameters, ValidEntry
  <2>4. MaxSharesOf(p) = Atoi(p.MaxShares)
    BY <1>2, <2>1, <2>3 DEF MaxSharesOf
  <2>5. GetMaxShares(req.params) = Atoi(p.MaxShares)
    BY <1>4, <2>1, <2>2 DEF GetMaxShares
  <2> QED BY <1>1, <2>4, <2>5 DEF ValidateVolumeCapabilities
<1> QED BY <1>3, <1>4

-----------------------------------------------------------------------------
(* The inductive invariant.                                                  *)

\* A call in progress has a plan that some reading of the parameters explains.
PlanFor(pl, p) ==
    /\ OptionsOf(pl.disk, p)
    /\ pl.fields = p /\ pl.gib = requestGiB(p)
    /\ Usable(pl.context.params, p)
    /\ p.Location = Unset => Where(pl.topology, ManagedDisk(pl.disk).zone, SkuOf(p))
PlanInv == pc # "idle" => \E p \in Readings(req.params) : Acceptable(p) /\ PlanFor(plan, p)
\* The disk that is polled for is the one that was planned.
PollInv == pc = "poll" => /\ plan.disk.id \in DOMAIN disks
                          /\ disks[plan.disk.id] = ManagedDisk(plan.disk)
\* Every disk was made for a reading, perhaps not that of the answer.
DiskFor(i, d, p) == MadeFor(d, p) /\ InPlace(i, p) /\ (Regenerated(NameOf(p)) \/ i = KeptId(p))
DisksInv == \A i \in DOMAIN disks :
               \E p \in Readings(req.params) : Acceptable(p) /\ DiskFor(i, disks[i], p)
\* The answer is that of a plan, and the disk is still where it was then.
AnswerFor(v, z, p) ==
    /\ v.fields = p /\ v.gib = requestGiB(p)
    /\ Usable(v.context.params, p)
    /\ p.Location = Unset => Where(v.topology, z, SkuOf(p))
VolumeInv == volume # NoVolume =>
    /\ volume.id \in DOMAIN disks
    /\ \E p \in Readings(req.params) : Acceptable(p) /\ AnswerFor(volume, disks[volume.id].zone, p)
\* How the disk of an answer was attached; the reading of the answer need not be
\* that of a later one.
AttachedInv == attached # Unset =>
    /\ volume # NoVolume
    /\ SpelledOnce("CachingMode") =>
          /\ attached \in CachingModes
          /\ \E p \in Readings(req.params) : SkuOf(p) = "PremiumV2_LRS" => attached = "None"

IInv == /\ TypeOK /\ req \in Inputs
        /\ PlanInv /\ PollInv /\ DisksInv /\ VolumeInv /\ AttachedInv

\* What is read of a request and the options stays as it is.
LEMMA Frame ==
    ASSUME opts' = opts, req' = req
    PROVE  /\ \A p : Acceptable(p)' <=> Acceptable(p)
           /\ \A pl, p : PlanFor(pl, p)' <=> PlanFor(pl, p)
           /\ \A i, d, p : DiskFor(i, d, p)' <=> DiskFor(i, d, p)
           /\ \A v, z, p : AnswerFor(v, z, p)' <=> AnswerFor(v, z, p)
           /\ \A f : SpelledOnce(f)' <=> SpelledOnce(f)
           /\ \A p : SkuOf(p)' = SkuOf(p)
<1>1. /\ \A p : requestGiB(p)' = requestGiB(p)
      /\ \A v : NormalizeStorageAccountType(v)' = NormalizeStorageAccountType(v)
      /\ \A p : NameOf(p)' = NameOf(p)
      /\ \A v : NetworkOf(v)' = NetworkOf(v)
  BY DEF requestGiB, NormalizeStorageAccountType, NameOf, NetworkOf
<1>2. \A f : SpelledOnce(f)' <=> SpelledOnce(f)
  BY DEF SpelledOnce
<1>3. \A p : SkuOf(p)' = SkuOf(p)
  BY <1>1 DEF SkuOf
<1>4. \A p : KeptId(p)' = KeptId(p)
  BY <1>1 DEF KeptId
<1>5. \A p : Acceptable(p)' <=> Acceptable(p)
  BY <1>1 DEF Acceptable
<1>a. \A i, p : InPlace(i, p)' <=> InPlace(i, p)
  BY <1>4 DEF InPlace
<1>b. \A x, p : Copies(x, p)' <=> Copies(x, p)
  BY DEF Copies
<1>6. \A o, p : OptionsOf(o, p)' <=> OptionsOf(o, p)
  BY <1>1, <1>3, <1>4, <1>a, <1>b DEF OptionsOf
<1>7. \A params, p : Usable(params, p)' <=> Usable(params, p)
  BY <1>2, <1>3 DEF Usable
<1>8. \A topology, z, sku : Where(topology, z, sku)' <=> Where(topology, z, sku)
  BY DEF Where
<1>9. \A pl, p : PlanFor(pl, p)' <=> PlanFor(pl, p)
  BY <1>1, <1>3, <1>6, <1>7, <1>8 DEF PlanFor
<1>10. \A d, p : (Honours(d, p)' <=> Honours(d, p)) /\ (Drops(d, p)' <=> Drops(d, p))
  BY <1>b DEF Honours, Drops
<1>11. \A d, p : MadeFor(d, p)' <=> MadeFor(d, p)
  BY <1>1, <1>3, <1>10 DEF MadeFor
<1>12. \A i, d, p : DiskFor(i, d, p)' <=> DiskFor(i, d, p)
  BY <1>1, <1>4, <1>11, <1>a DEF DiskFor
<1>13. \A v, z, p : AnswerFor(v, z, p)' <=> AnswerFor(v, z, p)
  BY <1>1, <1>3, <1>7, <1>8 DEF AnswerFor
<1> QED BY <1>2, <1>3, <1>5, <1>9, <1>12, <1>13

\* Both drivers make a plan for the reading they have accepted.
LEMMA PlanMade ==
    ASSUME req \in Inputs, ~opts.v2, NEW p \in Readings(req.params), Acceptable(p),
           NEW t \in Topologies, NEW c \in Contexts(p, SkuOf(p), SourceOf)
    PROVE  PlanFor(Planned(p, t, c), p)
<1>1. Usable(c.params, p)
  BY ContextUsable
<1> DEFINE pl == Planned(p, t, c)
<1>2. /\ OptionsOf(pl.disk, p) /\ pl.fields = p /\ pl.gib = requestGiB(p)
      /\ pl.context = c
  BY PlannedFacts
<1>3. p.Location = Unset => Where(pl.topology, ManagedDisk(pl.disk).zone, SkuOf(p))
  BY PlannedWhere
<1> HIDE DEF pl
<1>4. PlanFor(pl, p)
  BY <1>1, <1>2, <1>3 DEF PlanFor
<1> QED BY <1>4 DEF pl

\* The same for v2.
LEMMA PlanMadeV2 ==
    ASSUME req \in Inputs, opts.v2, NEW p \in Readings(req.params), Acceptable(p),
           NEW t \in Topologies, NEW c \in Contexts(p, SkuOf(p), SourceOfV2)
    PROVE  PlanFor(PlannedV2(p, t, c), p)
<1>1. Usable(c.params, p)
  BY ContextUsable
<1> DEFINE pl == PlannedV2(p, t, c)
<1>2. /\ OptionsOf(pl.disk, p) /\ pl.fields = p /\ pl.gib = requestGiB(p)
      /\ pl.context = c
  BY PlannedV2Facts
<1>3. Where(pl.topology, ManagedDisk(pl.disk).zone, SkuOf(p))
  BY PlannedV2Where
<1> HIDE DEF pl
<1>4. PlanFor(pl, p)
  BY <1>1, <1>2, <1>3 DEF PlanFor
<1> QED BY <1>4 DEF pl

\* A call that begins leaves the disks and the answer as they are.
LEMMA Kept ==
    ASSUME DisksInv, VolumeInv, AttachedInv, Keep
    PROVE  DisksInv' /\ VolumeInv' /\ AttachedInv'
<1>1. opts' = opts /\ req' = req /\ disks' = disks /\ volume' = volume /\ attached' = attached
  BY DEF Keep
<1>2. DisksInv'
  BY <1>1, Frame DEF DisksInv
<1>3. VolumeInv'
  BY <1>1, Frame DEF VolumeInv
<1>4. AttachedInv'
  BY <1>1, Frame DEF AttachedInv
<1> QED BY <1>2, <1>3, <1>4

\* CreateVolume of both drivers preserves the invariant.
LEMMA CreateStep ==
    ASSUME IInv, CreateVolume \/ CreateVolumeV2
    PROVE  IInv'
<1>1. /\ Begin /\ Keep
      /\ \/ Refused
         \/ /\ pc' = "create"
            /\ \E p \in Readings(req.params) : Acceptable(p) /\ PlanFor(plan', p)
  <2>1. CASE CreateVolume
    <3>1. PICK p \in Readings(req.params), t \in Topologies :
             \/ Refused
             \/ /\ Acceptable(p) /\ pc' = "create"
                /\ \E c \in Contexts(p, SkuOf(p), SourceOf) : plan' = Planned(p, t, c)
      BY <2>1 DEF CreateVolume, SkuOf
    <3>2. Begin /\ Keep /\ ~opts.v2 /\ req \in Inputs
      BY <2>1 DEF CreateVolume, IInv
    <3>3. CASE Refused
      BY <3>2, <3>3
    <3>4. ASSUME Acceptable(p), pc' = "create",
                 NEW c \in Contexts(p, SkuOf(p), SourceOf), plan' = Planned(p, t, c)
          PROVE  PlanFor(plan', p)
      <4>1. PlanFor(Planned(p, t, c), p)
        BY <3>2, <3>4, PlanMade
      <4> QED BY <3>4, <4>1
    <3> QED BY <3>1, <3>2, <3>3, <3>4
  <2>2. CASE CreateVolumeV2
    <3>1. PICK p \in Readings(req.params), t \in Topologies :
             \/ Refused
             \/ /\ Acceptable(p) /\ pc' = "create"
                /\ \E c \in Contexts(p, SkuOf(p), SourceOfV2) : plan' = PlannedV2(p, t, c)
      BY <2>2 DEF CreateVolumeV2, SkuOf
    <3>2. Begin /\ Keep /\ opts.v2 /\ req \in Inputs
      BY <2>2 DEF CreateVolumeV2, IInv
    <3>3. CASE Refused
      BY <3>2, <3>3
    <3>4. ASSUME Acceptable(p), pc' = "create",
                 NEW c \in Contexts(p, SkuOf(p), SourceOfV2), plan' = PlannedV2(p, t, c)
          PROVE  PlanFor(plan', p)
      <4>1. PlanFor(PlannedV2(p, t, c), p)
        BY <3>2, <3>4, PlanMadeV2
      <4> QED BY <3>4, <4>1
    <3> QED BY <3>1, <3>2, <3>3, <3>4
  <2> QED BY <2>1, <2>2
<1>2. opts' = opts /\ req' = req /\ disks' = disks /\ volume' = volume /\ attached' = attached
  BY <1>1 DEF Keep
<1>3. DisksInv' /\ VolumeInv' /\ AttachedInv'
  BY <1>1, Kept DEF IInv
<1>4. calls' \in 0..MaxCalls
  <2>1. calls \in 0..MaxCalls /\ MaxCalls \in Nat
    BY ProvisioningAssumption DEF IInv, TypeOK
  <2>2. calls' = calls + 1 /\ calls < MaxCalls
    BY <1>1 DEF Begin
  <2> QED BY <2>1, <2>2
<1>5. CASE Refused
  <2>1. pc' = "idle" /\ plan' = plan /\ pc = "idle"
    BY <1>1, <1>5 DEF Refused, Begin
  <2>2. PlanInv' /\ PollInv'
    BY <2>1 DEF PlanInv, PollInv
  <2>3. TypeOK'
    BY <1>2, <1>4, <2>1 DEF IInv, TypeOK
  <2> QED BY <1>2, <1>3, <2>2, <2>3 DEF IInv
<1>6. ASSUME pc' = "create", NEW p \in Readings(req.params), Acceptable(p), PlanFor(plan', p)
      PROVE  IInv'
  <2>1. PlanInv'
    <3>1. Acceptable(p)'
      BY <1>2, <1>6, Frame
    <3>2. PlanFor(plan, p)'
      BY <1>2, <1>6, Frame
    <3> QED BY <1>2, <3>1, <3>2 DEF PlanInv
  <2>2. PollInv'
    BY <1>6 DEF PollInv
  <2>3. plan' # NoVolume
    <3>1. plan'.gib \in Nat \ {0}
      BY <1>6, RequestedSize DEF PlanFor, IInv
    <3> QED BY <3>1 DEF NoVolume
  <2>4. TypeOK'
    BY <1>2, <1>4, <1>6, <2>3 DEF IInv, TypeOK
  <2> QED BY <1>2, <1>3, <2>1, <2>2, <2>4 DEF IInv
<1> QED BY <1>1, <1>5, <1>6

\* CreateManagedDisk preserves the invariant: it may overwrite the disk of an
\* earlier answer, but neither move nor resize it.
LEMMA ManagedDiskStep ==
    ASSUME IInv, CreateManagedDisk
    PROVE  IInv'
<1> DEFINE o == plan.disk
           d == ManagedDisk(plan.disk)
<1>1. /\ opts' = opts /\ req' = req /\ volume' = volume /\ attached' = attached
      /\ calls' = calls /\ pc = "create"
  BY DEF CreateManagedDisk
<1>2. \/ /\ OptionsValid(o) /\ ArmAccepts(o.id, d) /\ disks' = Stored(o.id, d)
         /\ (pc' = "poll" /\ plan' = plan) \/ Ends
      \/ Ends /\ disks' = disks
  BY DEF CreateManagedDisk
<1>3. PICK p \in Readings(req.params) : Acceptable(p) /\ PlanFor(plan, p)
  BY <1>1 DEF IInv, PlanInv
<1>4. req \in Inputs /\ TypeOK /\ DisksInv /\ VolumeInv /\ AttachedInv
  BY DEF IInv
<1>5. AttachedInv'
  BY <1>1, <1>4, Frame DEF AttachedInv
<1>6. pc' \in {"idle", "poll"} /\ (pc' = "idle" <=> plan' = NoVolume) /\ PlanInv'
  <2>1. CASE Ends
    BY <2>1 DEF Ends, PlanInv
  <2>2. CASE pc' = "poll" /\ plan' = plan
    <3>1. PlanInv'
      BY <1>1, <1>3, <2>2, Frame DEF PlanInv
    <3>2. plan # NoVolume
      BY <1>1, <1>4 DEF TypeOK
    <3> QED BY <2>2, <3>1, <3>2
  <2> QED BY <1>2, <2>1, <2>2
<1>7. CASE disks' = disks /\ Ends
  <2>1. DisksInv' /\ VolumeInv'
    BY <1>1, <1>4, <1>7, Frame DEF DisksInv, VolumeInv
  <2>2. PollInv'
    BY <1>7 DEF PollInv, Ends
  <2>3. TypeOK'
    BY <1>1, <1>4, <1>6, <1>7 DEF TypeOK
  <2> QED BY <1>1, <1>4, <1>5, <1>6, <2>1, <2>2, <2>3 DEF IInv
<1>8. ASSUME OptionsValid(o), ArmAccepts(o.id, d), disks' = Stored(o.id, d)
      PROVE  IInv'
  <2>1. /\ DOMAIN disks' = DOMAIN disks \cup {o.id} /\ disks'[o.id] = d
        /\ \A i \in DOMAIN disks : i # o.id => disks'[i] = disks[i]
    BY <1>8 DEF Stored
  <2>2. MadeFor(d, p) /\ InPlace(o.id, p) /\ (Regenerated(NameOf(p)) \/ o.id = KeptId(p))
    BY <1>3, <1>4, <1>8, DiskMadeFor DEF PlanFor, OptionsOf
  <2>3. o.id \in DOMAIN disks => disks[o.id].zone = d.zone
    BY <1>8 DEF ArmAccepts
  <2>4. (pc' = "poll" /\ plan' = plan) \/ Ends
    BY <1>1, <1>2 DEF Ends
  <2>5. PollInv'
    BY <2>1, <2>4 DEF PollInv, Ends
  <2> HIDE DEF o, d
  <2>6. DisksInv'
    <3>1. ASSUME NEW i \in DOMAIN disks'
          PROVE  \E q \in Readings(req.params) : Acceptable(q) /\ DiskFor(i, disks'[i], q)
      <4>1. CASE i = o.id
        BY <1>3, <2>1, <2>2, <4>1 DEF DiskFor
      <4>2. CASE i # o.id
        BY <1>4, <2>1, <3>1, <4>2 DEF DisksInv
      <4> QED BY <4>1, <4>2
    <3> QED BY <1>1, <3>1, Frame DEF DisksInv
  <2>7. VolumeInv'
    <3>1. ASSUME volume # NoVolume
          PROVE  volume.id \in DOMAIN disks' /\ disks'[volume.id].zone = disks[volume.id].zone
      BY <1>4, <2>1, <2>3, <3>1 DEF VolumeInv
    <3>2. ASSUME volume # NoVolume
          PROVE  \E q \in Readings(req.params) :
                    Acceptable(q) /\ AnswerFor(volume, disks'[volume.id].zone, q)
      BY <1>4, <3>1, <3>2 DEF VolumeInv
    <3> QED BY <1>1, <3>1, <3>2, Frame DEF VolumeInv
  <2>8. TypeOK'
    <3>1. d.gib \in Nat \ {0}
      BY <1>4, <2>2, RequestedSize DEF MadeFor
    <3>2. \A i \in DOMAIN disks' : disks'[i].gib \in Nat \ {0}
      BY <1>4, <2>1, <3>1 DEF TypeOK
    <3> QED BY <1>1, <1>4, <1>6, <3>2 DEF TypeOK
  <2> QED BY <1>1, <1>4, <1>5, <1>6, <2>5, <2>6, <2>7, <2>8 DEF IInv
<1> HIDE DEF o, d
<1> QED BY <1>2, <1>7, <1>8

\* The answer is about the disk that was made.
LEMMA PollStep ==
    ASSUME IInv, PollProvisioningState
    PROVE  IInv'
<1>1. /\ opts' = opts /\ req' = req /\ disks' = disks /\ attached' = attached
      /\ calls' = calls /\ pc = "poll" /\ pc' = "idle" /\ plan' = NoVolume
  BY DEF PollProvisioningState, Ends
<1>2. \/ volume' = volume
      \/ volume' = [id |-> plan.disk.id, gib |-> plan.gib, context |-> plan.context,
                    topology |-> plan.topology, fields |-> plan.fields]
  BY DEF PollProvisioningState
<1>3. /\ req \in Inputs /\ TypeOK /\ DisksInv /\ VolumeInv /\ AttachedInv /\ PlanInv
      /\ PollInv
  BY DEF IInv
<1>4. DisksInv' /\ PlanInv' /\ PollInv'
  BY <1>1, <1>3, Frame DEF DisksInv, PlanInv, PollInv
<1>5. CASE volume' = volume
  <2>1. VolumeInv' /\ AttachedInv'
    BY <1>1, <1>3, <1>5, Frame DEF VolumeInv, AttachedInv
  <2>2. TypeOK'
    BY <1>1, <1>3, <1>5 DEF TypeOK
  <2> QED BY <1>1, <1>3, <1>4, <2>1, <2>2 DEF IInv
<1>6. CASE volume' = [id |-> plan.disk.id, gib |-> plan.gib, context |-> plan.context,
                      topology |-> plan.topology, fields |-> plan.fields]
  <2>1. PICK p \in Readings(req.params) : Acceptable(p) /\ PlanFor(plan, p)
    BY <1>1, <1>3 DEF PlanInv
  <2>2. /\ volume'.id = plan.disk.id /\ volume'.gib = plan.gib
        /\ volume'.context = plan.context /\ volume'.topology = plan.topology
        /\ volume'.fields = plan.fields
    BY <1>6
  <2>3. /\ plan.disk.id \in DOMAIN disks
        /\ disks[plan.disk.id].zone = ManagedDisk(plan.disk).zone
    BY <1>1, <1>3 DEF PollInv
  <2>4. AnswerFor(volume', disks[plan.disk.id].zone, p)
    BY <2>1, <2>2, <2>3 DEF AnswerFor, PlanFor
  <2>5. VolumeInv'
    BY <1>1, <2>1, <2>2, <2>3, <2>4, Frame DEF VolumeInv
  <2>6. volume'.gib \in Nat \ {0}
    BY <1>3, <2>1, <2>2, RequestedSize DEF PlanFor
  <2>7. volume' # NoVolume
    BY <2>6 DEF NoVolume
  <2>8. AttachedInv'
    BY <1>1, <1>3, <2>7, Frame DEF AttachedInv
  <2>9. TypeOK'
    BY <1>1, <1>3, <2>6 DEF TypeOK
  <2> QED BY <1>1, <1>3, <1>4, <2>5, <2>8, <2>9 DEF IInv
<1> QED BY <1>2, <1>5, <1>6

\* The disk is attached with a mode that is read from the answer's context.
LEMMA PublishStep ==
    ASSUME IInv, ControllerPublishVolume
    PROVE  IInv'
<1>1. /\ opts' = opts /\ req' = req /\ disks' = disks /\ volume' = volume
      /\ calls' = calls /\ pc' = pc /\ plan' = plan /\ volume # NoVolume
  BY DEF ControllerPublishVolume
<1>2. PICK c \in req.caps, m \in GetCachingMode(volume.context.params) :
         attached' = IF /\ IsValidVolumeCapabilities({c}, GetMaxShares(volume.context.params))
                        /\ m # "error"
                     THEN m ELSE "refused"
  BY DEF ControllerPublishVolume
<1>3. /\ req \in Inputs /\ TypeOK /\ DisksInv /\ VolumeInv /\ PlanInv /\ PollInv
  BY DEF IInv
<1>4. DisksInv' /\ PlanInv' /\ PollInv' /\ VolumeInv'
  BY <1>1, <1>3, Frame DEF DisksInv, PlanInv, PollInv, VolumeInv
<1>5. PICK p \in Readings(req.params) :
         Acceptable(p) /\ AnswerFor(volume, disks[volume.id].zone, p)
  BY <1>1, <1>3 DEF VolumeInv
<1>6. m \in CachingModes \cup {"error"}
  BY <1>2 DEF GetCachingMode, NormalizeCachingMode, CachingModes
<1>7. IsValidVolumeCapabilities({c}, GetMaxShares(volume.context.params))
  <2>1. IsValidVolumeCapabilities(req.caps, GetMaxShares(req.params))
    BY <1>5, CapabilitiesValid DEF ValidateVolumeCapabilities
  <2>2. GetMaxShares(volume.context.params) = GetMaxShares(req.params)
    BY <1>5 DEF AnswerFor, Usable
  <2> QED BY <2>1, <2>2 DEF IsValidVolumeCapabilities, IsValidAccessModes
<1>8. SpelledOnce("CachingMode") => /\ attached' = m /\ m # "error"
                                    /\ SkuOf(p) = "PremiumV2_LRS" => m = "None"
  BY <1>2, <1>5, <1>7 DEF AnswerFor, Usable
<1>9. SpelledOnce("CachingMode") =>
         /\ attached' \in CachingModes
         /\ \E q \in Readings(req.params) : SkuOf(q) = "PremiumV2_LRS" => attached' = "None"
  BY <1>6, <1>8
<1>10. AttachedInv'
  BY <1>1, <1>9, Frame DEF AttachedInv
<1>11. attached' \in CachingModes \cup {Unset, "refused"}
  BY <1>2, <1>6
<1>12. TypeOK'
  BY <1>1, <1>3, <1>11 DEF TypeOK
<1> QED BY <1>1, <1>3, <1>4, <1>10, <1>12 DEF IInv

\* IInv is an invariant of CreateVolume of both drivers, lost answers and failed
\* writes included.
THEOREM Invariant == Spec => []IInv
<1>1. Init => IInv
  <2> SUFFICES ASSUME Init PROVE IInv
    OBVIOUS
  <2>1. /\ req \in Inputs /\ opts \in Options /\ pc = "idle" /\ plan = NoVolume
        /\ disks = << >> /\ volume = NoVolume /\ attached = Unset /\ calls = 0
    BY DEF Init
  <2>2. DOMAIN disks = {}
    BY <2>1
  <2>3. TypeOK
    BY <2>1, <2>2, ProvisioningAssumption DEF TypeOK
  <2> QED BY <2>1, <2>2, <2>3 DEF IInv, PlanInv, PollInv, DisksInv, VolumeInv, AttachedInv
<1>2. IInv /\ [Next]_vars => IInv'
  <2> SUFFICES ASSUME IInv, [Next]_vars PROVE IInv'
    OBVIOUS
  <2>1. CASE CreateVolume \/ CreateVolumeV2
    BY <2>1, CreateStep
  <2>2. CASE CreateManagedDisk
    BY <2>2, ManagedDiskStep
  <2>3. CASE PollProvisioningState
    BY <2>3, PollStep
  <2>4. CASE ControllerPublishVolume
    BY <2>4, PublishStep
  <2>5. CASE UNCHANGED vars
    <3>1. /\ opts' = opts /\ req' = req /\ disks' = disks /\ volume' = volume
          /\ attached' = attached /\ calls' = calls /\ pc' = pc /\ plan' = plan
      BY <2>5 DEF vars
    <3>2. DisksInv' /\ PlanInv' /\ PollInv' /\ VolumeInv' /\ AttachedInv'
      BY <3>1, Frame DEF IInv, DisksInv, PlanInv, PollInv, VolumeInv, AttachedInv
    <3> QED BY <3>1, <3>2 DEF IInv, TypeOK
  <2> QED BY <2>1, <2>2, <2>3, <2>4, <2>5 DEF Next
<1> QED BY <1>1, <1>2, PTL DEF Spec

\* The state has its types.
THEOREM TypeCorrect == Spec => []TypeOK
<1>1. IInv => TypeOK
  BY DEF IInv
<1> QED BY <1>1, Invariant, PTL

-----------------------------------------------------------------------------
(* What the invariant says of the answer.                                    *)

\* The name OneDiskPerName speaks of is the one every reading gives.
LEMMA GivenName ==
    ASSUME NEW p \in Readings(req.params)
    PROVE  LET given == "diskName" \in DOMAIN req.params /\ req.params["diskName"] # Unset
           IN  NameOf(p) = IF given THEN req.params["diskName"] ELSE req.name
<1>1. /\ "diskName" \in DOMAIN KeyField /\ KeyField["diskName"] = "DiskName"
      /\ "DiskName" \in Fields
  BY FieldNames DEF KeyField
<1>2. \A k \in DOMAIN KeyField : KeyField[k] = "DiskName" => k = "diskName"
  BY <1>1, KeysOfField DEF OneKey
<1>3. Values(req.params, "DiskName") =
         IF "diskName" \in DOMAIN req.params THEN {req.params["diskName"]} ELSE {}
  BY <1>1, <1>2 DEF Values
<1>4. p.DiskName = IF "diskName" \in DOMAIN req.params THEN req.params["diskName"] ELSE Unset
  BY <1>1, <1>3, ReadValue
<1> QED BY <1>4 DEF NameOf

\* Repeated calls leave one disk of a valid name, and the one that is answered.
THEOREM OneDisk == Spec => []OneDiskPerName
<1>1. IInv => OneDiskPerName
  <2> SUFFICES ASSUME IInv PROVE OneDiskPerName
    OBVIOUS
  <2> DEFINE given == "diskName" \in DOMAIN req.params /\ req.params["diskName"] # Unset
             name == IF given THEN req.params["diskName"] ELSE req.name
  <2> SUFFICES ASSUME ~Regenerated(name)
               PROVE  /\ Cardinality(DOMAIN disks) <= 1
                      /\ volume # NoVolume => volume.id \in DOMAIN disks
    BY DEF OneDiskPerName
  <2>1. \A p \in Readings(req.params) : ~Regenerated(NameOf(p))
    BY GivenName
  <2>2. ASSUME NEW i \in DOMAIN disks, NEW j \in DOMAIN disks
        PROVE  i = j
    <3>1. PICK p \in Readings(req.params) : DiskFor(i, disks[i], p)
      BY DEF IInv, DisksInv
    <3>2. PICK q \in Readings(req.params) : DiskFor(j, disks[j], q)
      BY DEF IInv, DisksInv
    <3>3. i = KeptId(p) /\ j = KeptId(q)
      BY <2>1, <3>1, <3>2 DEF DiskFor
    <3>4. KeptId(p) = KeptId(q)
      BY ReadingsAgree DEF KeptId, NameOf
    <3> QED BY <3>3, <3>4
  <2>3. Cardinality(DOMAIN disks) <= 1
    <3>1. CASE DOMAIN disks = {}
      BY <3>1, FS_EmptySet
    <3>2. CASE DOMAIN disks # {}
      <4>1. PICK i \in DOMAIN disks : TRUE
        BY <3>2
      <4>2. DOMAIN disks = {i}
        BY <2>2, <4>1
      <4>3. Cardinality({i}) = 1
        BY FS_Singleton
      <4> QED BY <4>2, <4>3
    <3> QED BY <3>1, <3>2
  <2>4. volume # NoVolume => volume.id \in DOMAIN disks
    BY DEF IInv, VolumeInv
  <2> QED BY <2>3, <2>4
<1> QED BY <1>1, Invariant, PTL

\* The disk of an answer was made for a reading that agrees with the answer's.
LEMMA Answered ==
    ASSUME IInv, volume # NoVolume
    PROVE  \E p, q \in Readings(req.params) :
              /\ Acceptable(p) /\ AnswerFor(volume, created.zone, p) /\ MadeFor(created, q)
              /\ p.IOPS = q.IOPS /\ p.MBps = q.MBps /\ requestGiB(p) = requestGiB(q)
              /\ SpelledOnce("AccountType") => SkuOf(p) = SkuOf(q) /\ MadeFor(created, p)
              /\ InPlace(volume.id, p) /\ Drops(created, p)
<1>1. PICK p \in Readings(req.params) :
         Acceptable(p) /\ AnswerFor(volume, created.zone, p)
  BY DEF IInv, VolumeInv, created
<1>2. PICK q \in Readings(req.params) : MadeFor(created, q) /\ InPlace(volume.id, q)
  BY DEF IInv, VolumeInv, DisksInv, DiskFor, created
<1>3. /\ p.Location = q.Location
      /\ p.IOPS = q.IOPS /\ p.MBps = q.MBps /\ p.MaxShares = q.MaxShares
      /\ p.EncryptionType = q.EncryptionType /\ p.NetworkAccess = q.NetworkAccess
      /\ p.PublicAccess = q.PublicAccess /\ p.PerformancePlus = q.PerformancePlus
      /\ p.LogicalSectorSize = q.LogicalSectorSize /\ p.EncryptionSet = q.EncryptionSet
      /\ p.DiskAccess = q.DiskAccess /\ p.Bursting = q.Bursting
      /\ p.WriteAccelerator = q.WriteAccelerator /\ p.Tags = q.Tags
      /\ p.SubscriptionID = q.SubscriptionID /\ p.ResourceGroup = q.ResourceGroup
      /\ SpelledOnce("AccountType") => p.AccountType = q.AccountType
  BY ReadingsAgree
<1>4. requestGiB(p) = requestGiB(q)
  BY <1>3 DEF requestGiB
<1>5. Drops(created, p) /\ InPlace(volume.id, p)
  BY <1>2, <1>3 DEF MadeFor, Drops, InPlace, KeptId
<1>6. Copies(created, p)
  <2>1. Copies(created, q)
    BY <1>2 DEF MadeFor, Honours
  <2> QED BY <1>3, <2>1, Zenon DEF Copies
<1>7. SpelledOnce("AccountType") => SkuOf(p) = SkuOf(q) /\ MadeFor(created, p)
  BY <1>2, <1>3, <1>4, <1>5, <1>6 DEF SkuOf, MadeFor, UltraFits, Honours
<1> QED BY <1>1, <1>2, <1>3, <1>4, <1>5, <1>7

\* A volume in the cluster's region is answered with the zone its disk is in.
THEOREM TopologyIsTrue == Spec => []TopologyIsWhereTheDiskIs
<1>1. IInv => TopologyIsWhereTheDiskIs
  <2> SUFFICES ASSUME IInv, volume # NoVolume, volume.fields.Location = Unset,
                      SpelledOnce("AccountType")
               PROVE  Where(volume.topology, created.zone, created.sku)
    BY DEF TopologyIsWhereTheDiskIs, Where
  <2>1. PICK p \in Readings(req.params) :
           AnswerFor(volume, created.zone, p) /\ MadeFor(created, p)
    BY Answered
  <2>2. p.Location = Unset /\ created.sku = SkuOf(p)
    BY <2>1 DEF AnswerFor, MadeFor
  <2> QED BY <2>1, <2>2 DEF AnswerFor
<1> QED BY <1>1, Invariant, PTL

\* A PremiumV2_LRS disk is attached without caching.
THEOREM CachingIsNone == Spec => []CachingFitsSku
<1>1. IInv => CachingFitsSku
  <2> SUFFICES ASSUME IInv, attached \in CachingModes, created.sku = "PremiumV2_LRS",
                      SpelledOnce("CachingMode"), SpelledOnce("AccountType")
               PROVE  attached = "None"
    BY DEF CachingFitsSku
  <2>1. attached # Unset
    <3>1. Unset \notin CachingModes
      BY Zenon DEF Unset, CachingModes
    <3> QED BY <3>1
  <2>2. PICK r \in Readings(req.params) : SkuOf(r) = "PremiumV2_LRS" => attached = "None"
    BY <2>1 DEF IInv, AttachedInv
  <2>3. volume # NoVolume
    BY <2>1 DEF IInv, AttachedInv
  <2>4. PICK p \in Readings(req.params) : MadeFor(created, p)
    BY <2>3, Answered
  <2>5. SkuOf(p) = "PremiumV2_LRS"
    BY <2>4 DEF MadeFor
  <2>6. p.AccountType = r.AccountType
    BY ReadingsAgree
  <2> QED BY <2>2, <2>5, <2>6 DEF SkuOf
<1> QED BY <1>1, Invariant, PTL

\* The answer of CreateVolume passes the checks of the calls that follow.
THEOREM CanBeUsed == Spec => []CreatedCanBeUsed
<1>1. IInv => CreatedCanBeUsed
  <2> SUFFICES ASSUME IInv PROVE CreatedCanBeUsed
    OBVIOUS
  <2>1. SpelledOnce("CachingMode") => attached # "refused"
    <3>1. "refused" \notin CachingModes /\ "refused" # Unset
      BY Zenon DEF Unset, CachingModes
    <3> QED BY <3>1 DEF IInv, AttachedInv
  <2>2. volume # NoVolume => ValidateVolumeCapabilities
    BY CapabilitiesValid DEF IInv, VolumeInv
  <2> QED BY <2>1, <2>2 DEF CreatedCanBeUsed
<1> QED BY <1>1, Invariant, PTL

\* A parameter that says what the disk is to be, and was accepted, is a property of the
\* disk, for every map of parameters and both drivers, but for the two that are dropped.
THEOREM ParametersAreHonoured == Spec => []ParametersHonoured
<1>1. IInv => ParametersHonoured
  <2> SUFFICES ASSUME IInv, volume # NoVolume, SpelledOnce("AccountType")
               PROVE  /\ Honours(created, volume.fields)
                      /\ volume.fields.SubscriptionID # Unset => volume.fields.SubscriptionID = volume.id.sub
                      /\ volume.fields.ResourceGroup # Unset => volume.fields.ResourceGroup = volume.id.rg
    BY DEF ParametersHonoured, Honours, Copies
  <2>1. PICK p \in Readings(req.params) :
           AnswerFor(volume, created.zone, p) /\ MadeFor(created, p) /\ InPlace(volume.id, p)
    BY Answered
  <2> QED BY <2>1 DEF AnswerFor, MadeFor, InPlace, KeptId
<1> QED BY <1>1, Invariant, PTL

\* The two parameters that ParametersHonoured leaves out have no effect at all, though
\* they are accepted: DriverV2 makes no disk that is encrypted with platform and
\* customer keys, and without a policy no disk has a DiskAccess resource.
DroppedParameters == volume # NoVolume => Drops(created, volume.fields)

\* This is so for every request: docs/driver-parameters.md:60 gives DriverV2 the
\* parameters of V1, diskEncryptionType (line 35) among them.
THEOREM ParametersAreDropped == Spec => []DroppedParameters
<1>1. IInv => DroppedParameters
  <2> SUFFICES ASSUME IInv, volume # NoVolume PROVE Drops(created, volume.fields)
    BY DEF DroppedParameters
  <2>1. PICK p \in Readings(req.params) : AnswerFor(volume, created.zone, p) /\ Drops(created, p)
    BY Answered
  <2> QED BY <2>1 DEF AnswerFor
<1> QED BY <1>1, Invariant, PTL

\* The capacity answered covers the request, is within its limit and is the size of
\* the disk.
THEOREM SizeIsInRange == Spec => []SizeInRange
<1>1. IInv => SizeInRange
  <2> SUFFICES ASSUME IInv, volume # NoVolume
               PROVE  /\ 2 * volume.gib >= req.required
                      /\ req.limit > 0 => volume.gib <= RoundUpSize(req.limit, 2)
                      /\ created.gib = volume.gib
    BY DEF SizeInRange
  <2>1. PICK p, q \in Readings(req.params) :
           /\ Acceptable(p) /\ AnswerFor(volume, created.zone, p) /\ MadeFor(created, q)
           /\ requestGiB(p) = requestGiB(q)
    BY Answered
  <2>2. volume.gib = requestGiB(p) /\ created.gib = requestGiB(p)
    BY <2>1 DEF AnswerFor, MadeFor
  <2>3. req \in Inputs /\ req.limit \in Nat
    BY InputAssumption DEF IInv
  <2>4. 2 * requestGiB(p) >= req.required /\ requestGiB(p) \in Nat
    BY <2>3, RequestedSize
  <2>5. req.limit > 0 => RoundUpSize(req.limit, 2) >= requestGiB(p)
    BY <2>1 DEF Acceptable
  <2>6. RoundUpSize(req.limit, 2) \in Nat
    BY <2>3, RoundUp
  <2> QED BY <2>2, <2>4, <2>5, <2>6
<1> QED BY <1>1, Invariant, PTL

\* An Ultra disk has a bandwidth that its IOPS allow, for every size.
THEOREM UltraIsInRange == Spec => []UltraInRange
<1>1. IInv => UltraInRange
  <2> SUFFICES ASSUME IInv, volume # NoVolume, created.sku = "UltraSSD_LRS",
                      volume.fields.IOPS = Unset, volume.fields.MBps = Unset
               PROVE  Matching(created.iops, created.mbps)
    BY DEF UltraInRange, Matching
  <2>1. PICK p, q \in Readings(req.params) :
           /\ AnswerFor(volume, created.zone, p) /\ MadeFor(created, q)
           /\ p.IOPS = q.IOPS /\ p.MBps = q.MBps
    BY Answered
  <2> QED BY <2>1 DEF AnswerFor, MadeFor, UltraFits
<1> QED BY <1>1, Invariant, PTL
=============================================================================
