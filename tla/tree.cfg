SPECIFICATION Spec
CONSTANTS
    Name = {"a", "b"}
    Path <- Comb
    Homes <- Comb
    Data = {"x"}
    Grants <- AnyWrite
    MountPoints <- Nowhere
    Seed <- NoSeed
    External = FALSE
    HookPrefixes <- Nowhere
    Indexing = FALSE
    Snapshots = FALSE
    Unversioned = Unversioned
    Expected <- Checked
    MaxGone = 2
    MaxLen = 1
    MaxVersion = 1
INVARIANTS TypeOK TreeIsWellFormed
PROPERTIES PolicyProtects
