SPECIFICATION FairSpec
CONSTANTS
    Requests <- OneRequest
    Packages <- TwoPackages
    Owner <- OneUser
    Old <- OldOnes
    Counts = {1}
    MaxBuilds = 1
    MaxEdits = 1
    Outcomes = {"succeeded"}
    MaxFaults = 1
INVARIANT CoprWithinLimit
INVARIANT RecordedBuildStays
INVARIANT FinishedMeansDone
INVARIANT CompsNotYetLinked
PROPERTY RequestsProceed
CHECK_DEADLOCK FALSE
