SPECIFICATION HooksSpec
CONSTANTS
    Name = {"a", "d"}
    Path <- Folder
    Data = {x, y}
    Places <- InFolder
    WriteHooks <- AllThenFolder
    PathHooks <- AllThenFolder
    MaxCalls = 3
    MaxVersion = 2
INVARIANTS HooksTypeOK FollowersInStep CopyFollows FlushedIsLatest
PROPERTIES KindsAlternate
SYMMETRY TextsAlike
