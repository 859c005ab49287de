SPECIFICATION FairSpec
CONSTANTS
    NULL = NULL
    pkg1 = pkg1
    pkg2 = pkg2
    polling = polling
    watcher = watcher
    scheduler = scheduler
    web = web
    Packages <- OnePackage
    Pollers <- Polling
    Watchers <- NoProcs
    Schedulers <- TheScheduler
    Frontends <- Web
    UserPriority <- NoPriority
    Resolutions <- AlwaysResolved
    PollAligned = TRUE
    FailedPriority = 20
    MaxBuilds = 1
    MaxBuildId = 3
    MaxStamp = 5
    MaxVersion = 1
    MaxTagMoves = 1
    MaxCrashes = 0
    MaxDeadline = 4
    PollParts = {"builds", "latest"}
    WatchTopics = {"task", "tag"}
PROPERTY LateBuildEnds
PROPERTY CancelHonoured
CHECK_DEADLOCK FALSE
