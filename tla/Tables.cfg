SPECIFICATION Spec
CONSTANTS
    NULL = NULL
    pkg1 = pkg1
    pkg2 = pkg2
    polling = polling
    watcher = watcher
    scheduler = scheduler
    web = web
    Packages <- OnePackage
    Pollers <- Polling
    Watchers <- Watcher
    Schedulers <- TheScheduler
    Frontends <- NoProcs
    UserPriority <- NoPriority
    Resolutions <- AlwaysResolved
    PollAligned = TRUE
    FailedPriority = 20
    MaxBuilds = 1
    MaxBuildId = 3
    MaxStamp = 3
    MaxVersion = 2
    MaxTagMoves = 2
    MaxCrashes = 0
    MaxDeadline = 2
    PollParts = {"builds", "latest"}
    WatchTopics = {"task", "tag"}
INVARIANT RealBuildsUnique
 
CHECK_DEADLOCK FALSE
