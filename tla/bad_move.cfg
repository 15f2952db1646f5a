SPECIFICATION Spec
CONSTANTS
    Name = {"a", "b"}
    Path <- Comb
    Homes <- Nowhere
    Data = {"x"}
    Grants <- Nowhere
    MountPoints <- Nowhere
    Seed <- NoSeed
    External = FALSE
    HookPrefixes <- Nowhere
    Indexing = FALSE
    Snapshots = FALSE
    Unversioned = Unversioned
    Expected <- Unchecked
    MaxGone = 2
    MaxLen = 1
    MaxVersion = 1
PROPERTIES FailedMoveChangesNothing
