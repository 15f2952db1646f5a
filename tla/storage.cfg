SPECIFICATION Spec
CONSTANTS
    Name = {"a", "n", "m"}
    Path <- Nested
    Homes <- Nowhere
    Data = {"x"}
    Grants <- Nowhere
    MountPoints <- MountsMN
    Seed <- SeedMN
    External = TRUE
    HookPrefixes <- Nowhere
    Indexing = FALSE
    Snapshots = FALSE
    Unversioned = Unversioned
    Expected <- Unchecked
    MaxGone = 2
    MaxLen = 1
    MaxVersion = 1
PROPERTIES StoreFollowsWrites SyncConverges ConflictsMatchDivergence
