SPECIFICATION Spec
CONSTANTS
    NULL = NULL
    pkg1 = pkg1
    pkg2 = pkg2
    polling = polling
    watcher = watcher
    scheduler = scheduler
    web = web
    Packages <- OnePackage
    Pollers <- Polling
    Watchers <- Watcher
    Schedulers <- TheScheduler
    Frontends <- NoProcs
    UserPriority <- NoPriority
    Resolutions <- EitherWay
    PollAligned = TRUE
    FailedPriority = 20
    MaxBuilds = 1
    MaxBuildId = 3
    MaxStamp = 5
    MaxVersion = 1
    MaxTagMoves = 1
    MaxCrashes = 0
    MaxDeadline = 0
    PollParts = {"builds"}
    WatchTopics = {"task", "tag"}
 
 
PROPERTY EventTellsTransition
 
CHECK_DEADLOCK FALSE
