SPECIFICATION Spec
CONSTANTS
    NULL = NULL
    pkg1 = pkg1
    pkg2 = pkg2
    polling = polling
    watcher = watcher
    scheduler = scheduler
    web = web
    Packages <- OnePackage
    Pollers <- Polling
    Watchers <- Watcher
    Schedulers <- TheScheduler
    Frontends <- Web
    UserPriority <- OnePriority
    Resolutions <- AlwaysResolved
    PollAligned = TRUE
    FailedPriority = 20
    MaxBuilds = 1
    MaxBuildId = 2
    MaxStamp = 3
    MaxVersion = 1
    MaxTagMoves = 1
    MaxCrashes = 1
    MaxDeadline = 0
    PollParts = {"builds", "latest"}
    WatchTopics = {"task", "tag"}
INVARIANT TypeOK
 
 
CHECK_DEADLOCK FALSE
