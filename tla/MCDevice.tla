------------------------------ MODULE MCDevice ------------------------------
(* Inputs for the runs of Device.                                            *)
EXTENDS Device, TLC

CONSTANTS d1, d2, sdc, sdd, sda, sdb, sr0

MCDisks == {d1, d2}
MCNames == {sdc, sdd}
MCLunOf == (d1 :> 0) @@ (d2 :> 1)

\* The OS disk, the resource disk and the provisioning DVD, which have the LUNs of
\* the data disks.
MCSysDevices == {[host |-> 0, lun |-> 0, name |-> sda, vhd |-> TRUE],
                 [host |-> 1, lun |-> 1, name |-> sdb, vhd |-> TRUE],
                 [host |-> 5, lun |-> 1, name |-> sr0, vhd |-> FALSE]}
MCDataHosts == {1, 5}

MCNodeInfos == {NodeInfo(<<80000, 2000>>)}

Context(profile, account, gib, iops, mbps, settings) ==
    [enabled |-> TRUE, profile |-> profile, account |-> account, gib |-> gib,
     iops |-> iops, mbps |-> mbps, settings |-> settings]
MCBasic == Context("basic", "Premium_LRS", 20, 0, 0, {})
MCContexts ==
    {MCBasic, [MCBasic EXCEPT !.enabled = FALSE],
     Context("invalid", "Premium_LRS", 4, 0, 0, {}),
     Context("basic", "PremiumV2_LRS", 100, 0, 0, {}),
     Context("advanced", "Premium_ZRS", 4, 0, 0, {"nr_requests", "rotational"}),
     Context("advanced", "StandardSSD_ZRS", 4, 0, 0, {"../outside", "nr_requests"})}

\* Driver v2 is started without zones.
Driver == {<<"v1", TRUE, TRUE>>, <<"v1", TRUE, FALSE>>, <<"v1", FALSE, FALSE>>, <<"v2", FALSE, FALSE>>}
MCRegistrations ==
    {[driver |-> f[1], supportZone |-> f[2], fromLabels |-> f[3], limit |-> l,
      reserved |-> IF f[1] = "v1" THEN 1 ELSE 0,
      fromIMDS |-> f[1] = "v1", imds |-> i, zone |-> z, size |-> s,
      labels |-> b, labelZone |-> "zone1", labelSize |-> c] :
        f \in Driver, l \in {-1, 5}, i \in {"fails", "node1"},
        z \in {"fails", "elsewhere"}, s \in {"fails", "", "s8"},
        b \in {"fails", "ok"}, c \in {"", "s8"}}

\* No two SKUs of an account have the same size, or the match would depend on the
\* order of the map.
ASSUME SkuSizesDistinct ==
    \A a \in DOMAIN DiskSkuMap : \A s, t \in DiskSkuMap[a] :
        s.MaxSizeGiB = t.MaxSizeGiB => s = t
=============================================================================
