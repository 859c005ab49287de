SPECIFICATION Spec
CONSTANTS
    Requests <- TwoRequests
    Packages <- TwoPackages
    Owner <- TwoUsers
    Old = {}
    Counts = {1}
    MaxBuilds = 1
    MaxEdits = 0
    Outcomes = {"succeeded"}
    MaxFaults = 0
INVARIANT SubmittedWithinCount
CHECK_DEADLOCK FALSE
