---------------------------- MODULE MCProvisioning ----------------------------
(* Requests for model checking Provisioning.                                 *)
EXTENDS Provisioning, TLC

\* Entries of a storage class, one or two of which are given at a time.
Entries ==
    {<<"skuName", v>> : v \in {"UltraSSD_LRS", "PremiumV2_LRS", "Premium_ZRS", "Other"}}
    \cup {<<"storageAccountType", "Premium_LRS">>, <<"cachingmode", "None">>}
    \cup {<<"cachingMode", v>> : v \in {"None", "ReadWrite", "none"}}
    \cup {<<"maxShares", v>> : v \in {"0", "1", "2", "two"}}
    \cup {<<"location", "west">>, <<"subscriptionID", "sub2">>, <<"resourceGroup", "rg2">>}
    \cup {<<"diskName", v>> : v \in {"other", "invalid"}}
    \cup {<<"diskIOPSReadWrite", v>> : v \in {"600", "many"}}
    \cup {<<"diskMBpsReadWrite", "512">>}
    \cup {<<"logicalSectorSize", v>> : v \in {"0", "512"}}
    \cup {<<"diskEncryptionSetID", v>> : v \in {"des", "malformed"}}
    \cup {<<"diskEncryptionType", v>> :
             v \in {"EncryptionAtRestWithPlatformAndCustomerKeys", "Other"}}
    \cup {<<"networkAccessPolicy", v>> : v \in {"AllowPrivate", "DenyAll", "Other"}}
    \cup {<<"diskAccessID", "access">>, <<"publicNetworkAccess", "Disabled">>}
    \cup {<<"enablePerformancePlus", "true">>, <<"userAgent", "agent">>}
    \cup {<<"enableBursting", "true">>, <<"writeAcceleratorEnabled", "true">>, <<"tags", "team">>}
    \cup {<<"perfProfile", "advanced">>, <<"deviceSetting", "1">>,
          <<"deviceSettingOutside", "1">>, <<"tags", "malformed">>, <<"unknown", "1">>}

AsMap(es) == [k \in {e[1] : e \in es} |-> (CHOOSE e \in es : e[1] = k)[2]]
Maps == {AsMap(es) : es \in {{e, f} : e \in Entries, f \in Entries}}

One(type, mode) == {[type |-> type, mode |-> mode]}
Empty == [type |-> "none", id |-> "", chain |-> << >>]
Asked(params, caps, source) ==
    [name |-> "pvc", params |-> params, caps |-> caps, required |-> 3, limit |-> 0,
     source |-> source]

D(copy, there, gib, id) ==
    [copy |-> copy, there |-> there, gib |-> gib,
     zone |-> IF id = "" THEN NoZone ELSE <<"east", id>>]
MCChains == {<<D(FALSE, TRUE, 1, "1")>>, <<D(FALSE, TRUE, 2, "")>>,
             <<D(TRUE, TRUE, 2, "2"), D(FALSE, TRUE, 1, "2")>>,
             <<D(TRUE, TRUE, 2, "2"), D(FALSE, FALSE, 2, "2")>>,
             <<D(TRUE, TRUE, 2, "1"), D(TRUE, TRUE, 1, "1"), D(FALSE, TRUE, 1, "1")>>}
MCSources == {[type |-> "snapshot", id |-> i, chain |-> << >>] : i \in {"uri", "name", "nested"}}
             \cup {[type |-> "volume", id |-> "uri", chain |-> c] : c \in MCChains}

SmallMaps == {AsMap(es) : es \in {{e} : e \in Entries} \cup {{}}}
MCInputs ==
    {Asked(m, One("mount", "single"), Empty) : m \in Maps}
    \cup {Asked(m, c, Empty) : m \in SmallMaps,
              c \in {One("block", "multi"), One("mount", "multi"), One("none", "single"),
                     One("mount", "other"),
                     One("block", "multi") \cup One("mount", "single")}}
    \cup {Asked(m, One("block", "single"), s) : m \in SmallMaps, s \in MCSources}
    \cup {[Asked(m, One("mount", "single"), Empty) EXCEPT !.required = r, !.limit = l] :
              m \in SmallMaps, r \in {0, 3, 4, 51400, 60000, 400000}, l \in {0, 3, 4}}
    \cup {[Asked(m, One("mount", "single"), Empty) EXCEPT !.name = n] :
              m \in SmallMaps, n \in {"invalid", "invalidWhenCut"}}

MCOptions == [v2 : BOOLEAN, stack : BOOLEAN, perf : {TRUE}, capacityCheck : {TRUE}]
             \cup {[v2 |-> FALSE, stack |-> FALSE, perf |-> FALSE, capacityCheck |-> FALSE]}

T(wellKnown, driver) == [wellKnown |-> wellKnown, driver |-> driver]
MCTopologies == {<< >>,
                 <<T(NoZone, <<"east", "1">>)>>,
                 <<T(<<"west", "1">>, <<"east", "2">>), T(NoZone, <<"west", "3">>)>>}
=============================================================================
