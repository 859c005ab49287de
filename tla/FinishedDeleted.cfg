SPECIFICATION Spec
CONSTANTS
    NULL = NULL
    pkg1 = pkg1
    pkg2 = pkg2
    polling = polling
    watcher = watcher
    scheduler = scheduler
    web = web
    Packages <- OnePackage
    Pollers <- Polling
    Watchers <- Watcher
    Schedulers <- TheScheduler
    Frontends <- NoProcs
    UserPriority <- NoPriority
    Resolutions <- AlwaysResolved
    PollAligned = TRUE
    FailedPriority = 20
    MaxBuilds = 1
    MaxBuildId = 2
    MaxStamp = 4
    MaxVersion = 1
    MaxTagMoves = 1
    MaxCrashes = 0
    MaxDeadline = 5
    PollParts = {"builds"}
    WatchTopics = {"task", "tag"}
PROPERTY FinishedBuildsKept
CHECK_DEADLOCK FALSE
