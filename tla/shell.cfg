SPECIFICATION ShellSpec
CONSTANTS
    Name = {"a", "b", "m"}
    Path <- ShellUniverse
    Homes <- NoPaths
    Data = {"x"}
    Grants <- BranchLocks
    MountPoints <- MountM
    Seed <- SeedM
    External = TRUE
    HookPrefixes <- NoPaths
    Indexing = FALSE
    Snapshots = FALSE
    Unversioned = Unversioned
    Expected <- Unchecked
    MaxGone = 2
    MaxLen = 6
    MaxVersion = 3
    Lines <- ShellLines
    Allowed <- AllButWrite
    NoFile = NoFile
    MaxOutput = 2
    StartLen = 1
    StartVersion = 1
INVARIANTS ShellTypeOK CommandsKeepTheirWord
PROPERTIES ReadersKeepTheirSources ExecEnds
