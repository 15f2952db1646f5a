SPECIFICATION ClientsSpec
CONSTANTS
    Name = {"f"}
    Path <- OneFile
    Homes <- Nowhere
    Data = {"x", "y", "z"}
    Client = {"x", "y", "z"}
    Shared <- SharedFile
    Grants <- Nowhere
    MountPoints <- Nowhere
    Seed <- NoSeed
    External = FALSE
    HookPrefixes <- Nowhere
    Indexing = FALSE
    Snapshots = TRUE
    Unversioned = Unversioned
    Expected <- Nowhere
    MaxGone = 0
    MaxLen = 3
    MaxVersion = 4
    MaxResets = 2
INVARIANTS ClientsTypeOK
PROPERTIES AddsAtOnce EveryClientFinishes
