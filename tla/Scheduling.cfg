SPECIFICATION Spec
CONSTANTS
    NULL = NULL
    pkg1 = pkg1
    pkg2 = pkg2
    polling = polling
    watcher = watcher
    scheduler = scheduler
    web = web
    Packages <- TwoPackages
    Pollers <- Polling
    Watchers <- Watcher
    Schedulers <- TheScheduler
    Frontends <- NoProcs
    UserPriority <- NoPriority
    Resolutions <- AlwaysResolved
    PollAligned = FALSE
    FailedPriority = 20
    MaxBuilds = 1
    MaxBuildId = 4
    MaxStamp = 6
    MaxVersion = 1
    MaxTagMoves = 2
    MaxCrashes = 0
    MaxDeadline = 0
    PollParts = {"builds"}
    WatchTopics = {"tag"}
INVARIANT RunningWithinLimit
CHECK_DEADLOCK FALSE
