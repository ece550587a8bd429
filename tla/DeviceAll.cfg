SPECIFICATION FairSpec
CONSTANTS
    d1 = d1  d2 = d2  sdc = sdc  sdd = sdd  sda = sda  sdb = sdb  sr0 = sr0
    NoDisk = NoDisk  NoName = NoName  NoNodeInfo = NoNodeInfo
    Disks <- MCDisks
    Names <- MCNames
    LunOf <- MCLunOf
    SysDevices <- MCSysDevices
    DataHosts <- MCDataHosts
    NodeInfos <- MCNodeInfos
    VolumeContexts <- MCContexts
    Registrations <- MCRegistrations
    MaxPolls = 2
INVARIANTS
    DrivesBandwidth
    LimitIsTheVMs
PROPERTIES
    OpensTheDisk
    StageReturns
