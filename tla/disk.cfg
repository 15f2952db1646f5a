SPECIFICATION AdapterSpec
CONSTANTS
    Text = {"x", "y"}
    MaxClock = 2
    MaxOthers = 3
    MaxWrites = 4
INVARIANTS AdapterTypeOK AgreementLasts
PROPERTIES LostUpdatesAreExplained ConflictMeansOthers WantedIsWritten
