SPECIFICATION HostSpec
CONSTANTS
    Name = {"a", "b"}
    Path <- Comb
    Homes <- Nowhere
    Data = {"x", "x_crlf"}
    Grants <- LockedOrHiddenChild
    MountPoints <- Nowhere
    Seed <- NoSeed
    External = FALSE
    HookPrefixes <- Nowhere
    Indexing = FALSE
    Snapshots = FALSE
    Unversioned = Unversioned
    Expected <- Unchecked
    MaxGone = 2
    MaxLen = 1
    MaxVersion = 2
    Rank <- CombRank
    HostTrees <- AnyTree
    ReadText <- Newlines
INVARIANTS HostTypeOK BroughtBackAgrees
PROPERTIES SyncBringsTheHost SyncOnlyApproaches SyncEnds
