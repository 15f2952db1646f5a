SPECIFICATION SearchSpec
CONSTANTS
    File = {"p"}
    Provided = {"p"}
    Query = {"q", "r"}
    NoQuery = NoQuery
    Text = {{}, {"q"}, {"r"}, {"q", "r"}}
    Indexing = TRUE
    Restoring = TRUE
    MaxCalls = 4
INVARIANTS SearchTypeOK ContextFollowsCalls ResultsComeFromOutside
PROPERTIES SearchPathIsFresh
