SPECIFICATION Spec
CONSTANTS
    Name = {"a", "b"}
    Path <- Stem
    Homes <- Stem
    Data = {"x"}
    Grants <- LockedDirOrHiddenRoot
    MountPoints <- Nowhere
    Seed <- NoSeed
    External = FALSE
    HookPrefixes <- Nowhere
    Indexing = TRUE
    Snapshots = TRUE
    Unversioned = Unversioned
    Expected <- Unchecked
    MaxGone = 2
    MaxLen = 1
    MaxVersion = 1
PROPERTIES RestoreReturns
