----------------------------- MODULE DevicePerf -----------------------------
(* The settings that the node plugin gives to the block device of a volume   *)
(* with a perfProfile: the SKU tables (optimization/azure_skus_map.go), the  *)
(* SKU that is matched to the volume, and the queue depth and request size   *)
(* computed from it (optimization/device_perf_linux.go).  Latencies are in   *)
(* units of 0.1 ms; float64 results that are rounded up are integers here.   *)
EXTENDS Integers, FiniteSets

\* A disk SKU: MaxSizeGiB, MaxIops, MaxBwMbps, MaxBurstIops, MaxBurstBwMbps.
Sku(gib, iops, bw, burstIops, burstBw) ==
    [MaxSizeGiB |-> gib, MaxIops |-> iops, MaxBwMbps |-> bw,
     MaxBurstIops |-> burstIops, MaxBurstBwMbps |-> burstBw]
Even(gib, iops, bw) == Sku(gib, iops, bw, iops, bw)

\* P1 to P80 and E1 to E80; the ZRS tables are the same as the LRS ones.
Premium ==
    {Sku(s, 120, 25, 3500, 170) : s \in {4, 8, 16, 32}} \cup
    {Sku(64, 240, 50, 3500, 170), Sku(128, 500, 100, 3500, 170),
     Sku(256, 1100, 125, 3500, 170), Sku(512, 2300, 150, 3500, 170),
     Even(1024, 5000, 200), Even(2048, 7500, 250), Even(4096, 7500, 250),
     Even(8192, 16000, 500), Even(16384, 18000, 750), Even(32767, 20000, 900)}
StandardSSD ==
    {Even(s, 500, 60) : s \in {4, 8, 16, 32, 64, 128, 256, 512, 1024, 2048, 4096}} \cup
    {Even(8192, 2000, 400), Even(16384, 4000, 600), Even(32767, 6000, 750)}
Standard ==
    {Even(s, 500, 60) : s \in {32, 64, 128, 256, 512, 1024, 2048, 4096}} \cup
    {Even(8192, 1300, 300), Even(16384, 2000, 500), Even(32767, 2000, 500)}
DiskSkuMap ==
    [Premium_LRS |-> Premium, Premium_ZRS |-> Premium, StandardSSD_LRS |-> StandardSSD,
     StandardSSD_ZRS |-> StandardSSD, UltraSSD_LRS |-> {Even(65536, 0, 0)},
     Standard_LRS |-> Standard]
AccountTypes == DOMAIN DiskSkuMap \cup {"PremiumV2_LRS"}

\* The pairs of MaxBurstIops and MaxBurstBwMbps of the VM sizes; zero where
\* nothing is published.
NodeInfo(p) == [MaxBurstIops |-> p[1], MaxBurstBwMbps |-> p[2]]
NodeInfoMap == {NodeInfo(p) : p \in
    {<<0, 0>>, <<160, 10>>, <<320, 10>>, <<640, 10>>, <<1280, 15>>, <<1920, 22>>,
     <<2880, 35>>, <<3200, 32>>, <<3200, 47>>, <<3200, 48>>, <<3750, 81>>, <<3750, 82>>,
     <<3750, 85>>, <<4320, 0>>, <<4320, 50>>, <<5000, 125>>, <<5500, 148>>, <<6400, 47>>,
     <<6400, 64>>, <<6400, 96>>, <<6400, 138>>, <<6400, 144>>, <<6400, 145>>, <<10000, 250>>,
     <<11000, 333>>, <<12800, 128>>, <<12800, 190>>, <<12800, 192>>, <<12800, 200>>,
     <<12800, 276>>, <<12800, 290>>, <<20000, 476>>, <<20000, 500>>, <<22000, 596>>,
     <<24480, 351>>, <<25600, 256>>, <<25600, 380>>, <<25600, 384>>, <<25600, 572>>,
     <<25600, 600>>, <<32000, 480>>, <<32000, 715>>, <<32000, 750>>, <<40000, 953>>,
     <<40000, 1000>>, <<44000, 1192>>, <<51200, 512>>, <<51200, 750>>, <<51200, 768>>,
     <<51200, 824>>, <<51200, 865>>, <<64000, 960>>, <<76800, 1100>>, <<76800, 1152>>,
     <<76800, 1254>>, <<76800, 1315>>, <<80000, 1100>>, <<80000, 1200>>, <<80000, 1600>>,
     <<80000, 1654>>, <<80000, 1735>>, <<80000, 1907>>, <<80000, 2000>>, <<80000, 2600>>,
     <<80000, 3000>>, <<88000, 2384>>, <<120000, 2000>>, <<120000, 3814>>, <<120000, 4000>>}}

-----------------------------------------------------------------------------
\* isPerfTuningEnabled and accountSupportsPerfOptimization.
DiskSupportsPerfOptimization(profile, account) ==
    /\ profile \in {"basic", "advanced"}
    /\ account \in AccountTypes \ {"UltraSSD_LRS", "Standard_LRS"}

\* The SKUs that are large and fast enough, of which the smallest is taken: no
\* two have the same size, so the random order of the map does not show.
meetsRequest(sku, gib, iops, bw) ==
    sku.MaxSizeGiB >= gib /\ sku.MaxBwMbps >= bw /\ sku.MaxIops >= iops
getMatchingDiskSku(account, gib, iops, bw) ==
    LET skus == IF account \in DOMAIN DiskSkuMap THEN DiskSkuMap[account] ELSE {}
        fit == {s \in skus : meetsRequest(s, gib, iops, bw)}
    IN {s \in fit : \A t \in fit : s.MaxSizeGiB <= t.MaxSizeGiB}

GetRandomIOLatency(gib) ==
    IF gib <= 4096 THEN 22 ELSE IF gib <= 8192 THEN 28 ELSE IF gib <= 16384 THEN 34 ELSE 40
GetSequentialOLatency(gib) ==
    IF gib <= 4096 THEN 33 ELSE IF gib <= 8192 THEN 41 ELSE IF gib <= 16384 THEN 46 ELSE 52

Least(a, b) == IF a <= b THEN a ELSE b
Most(a, b) == IF a >= b THEN a ELSE b
Ceil(a, b) == (a + b - 1) \div b

BurstIops(node, sku) ==
    LET least == Least(sku.MaxBurstIops, node.MaxBurstIops)
    IN IF least <= 0 THEN sku.MaxBurstIops ELSE least
\* Mutant: MB/s taken for kB/s.
BurstBwMegabytes(node, sku) == Least(sku.MaxBurstBwMbps, node.MaxBurstBwMbps)
BurstBw(node, sku) ==
    LET least == Least(sku.MaxBurstBwMbps, node.MaxBurstBwMbps) * 1000
    IN IF least <= 0 THEN sku.MaxBurstBwMbps ELSE least

maxHwSectorsKb == 512

\* max_sectors_kb, queue_depth and nr_requests: three quarters of the IOPS are
\* for sequential IO, and the queue is as deep as the latency asks for.
getOptimalDeviceSettings(node, sku) ==
    LET iops == BurstIops(node, sku)
        bw == BurstBw(node, sku)
        sectors == Least(maxHwSectorsKb, Ceil(4 * bw, 3 * iops))
        seq == Ceil(bw * GetSequentialOLatency(sku.MaxSizeGiB), 10000 * sectors)
        random == Ceil(iops * GetRandomIOLatency(sku.MaxSizeGiB), 10000)
    IN [maxSectorsKb |-> sectors,
        queueDepth |-> Most(Ceil(random + 4 * seq, 4), random)]

\* Settings that can bring a disk to bw kB/s with sequential IO: within what the
\* hardware takes, the requests in flight are as large as the data that bw moves
\* while one request is served.
Drives(settings, sku, bw) ==
    /\ settings.maxSectorsKb \in 1 .. maxHwSectorsKb
    /\ settings.queueDepth * settings.maxSectorsKb * 10000 >=
          bw * GetSequentialOLatency(sku.MaxSizeGiB)
=============================================================================
