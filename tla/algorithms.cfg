SPECIFICATION Spec
CONSTANTS
    Name = {"a", "b"}
    Path <- Fan
    Homes <- Nowhere
    Data = {"x"}
    Grants <- LockedFan
    MountPoints <- AtRoot
    Seed <- SeedRoot
    External = FALSE
    HookPrefixes <- Nowhere
    Indexing = FALSE
    Snapshots = FALSE
    Unversioned = Unversioned
    Expected <- Unchecked
    MaxGone = 2
    MaxLen = 0
    MaxVersion = 0
    Orders <- FanOrders
INVARIANTS MakingIsAllOrNothing RemovalIsSummedUp RestoreIsSummedUp LoadIsSummedUp
