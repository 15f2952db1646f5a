SPECIFICATION Spec
CONSTANTS
    Name = {"a", "b"}
    Path <- Wide
    Homes <- Nowhere
    Data = {"x"}
    Grants <- LockedChildOrHiddenRoot
    MountPoints <- Nowhere
    Seed <- NoSeed
    External = FALSE
    HookPrefixes <- UnderA
    Indexing = TRUE
    Snapshots = FALSE
    Unversioned = Unversioned
    Expected <- Unchecked
    MaxGone = 2
    MaxLen = 1
    MaxVersion = 1
CONSTRAINT InStep
PROPERTIES IndexFollowsTree MirrorFollowsWrites MovePreservesNodes
