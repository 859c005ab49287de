------------------------------- MODULE Koschei -------------------------------
(****************************************************************************)
(* Koschei's services on their shared database: the polling service, the    *)
(* fedmsg watcher, the scheduler and the web frontend, with Koji beside     *)
(* them, service crashes, and PostgreSQL's deadlock detection.              *)
(****************************************************************************)
EXTENDS BuildStates, RealBuilds, Scheduler, Frontend

CONSTANTS
    MaxCrashes,      \* bound: number of service crashes
    Resolutions      \* outcomes of dependency resolution

ASSUME MaxCrashesAssumption == MaxCrashes \in Nat
ASSUME ResolutionsAssumption == Resolutions \subseteq BOOLEAN

VARIABLES
    crashes,         \* crashes so far
    lost             \* Koji tasks whose submitter died before its commit

vars == <<db, work, xlock, keyed, share, nextId, proc, clock, koji, real, tagged,
          moves, deadline, arch, sent, crashes, lost>>

-----------------------------------------------------------------------------
NewPackage ==
    [last_build |-> NULL, last_complete_build |-> NULL,
     last_complete_build_state |-> NULL, resolved |-> NULL,
     manual_priority |-> 0, build_priority |-> 0]

Init ==
    /\ db = [r \in Rows |-> IF r \in Packages THEN NewPackage ELSE NULL]
    /\ work = db
    /\ xlock = [r \in Rows |-> NULL]
    /\ keyed = {}
    /\ share = {}
    /\ nextId = 1
    /\ proc = [q \in Procs |-> IdleProc]
    /\ KojiInit
    /\ deadline = 0
    /\ arch = [b \in BuildIds |-> 0]
    /\ sent = [b \in BuildIds |-> 0]
    /\ crashes = 0
    /\ lost = {}

-----------------------------------------------------------------------------
(* Whom a process waits for. A set of processes each waiting for another    *)
(* one of the set is a deadlock.                                            *)
Blockers(q) ==
    CASE q \in Workers    -> TriggerBlockers(q) \cup UpdateBuildStateBlockers(q)
                             \cup RealBuildsBlockers(q)
      [] q \in Schedulers -> TriggerBlockers(q) \cup SchedulerBlockers(q)
      [] OTHER            -> FrontendBlockers(q)

Deadlocked(q) ==
    \E Q \in SUBSET Procs : q \in Q /\ \A x \in Q : Blockers(x) \cap Q # {}

-----------------------------------------------------------------------------
(* The process ends: its transaction is gone, a task it created stays *)
Die(q) ==
    /\ Rollback(q)
    /\ EndService(q)
    /\ lost' = lost \cup ({proc[q].task} \ {NULL})
    /\ UNCHANGED <<nextId, kojiVars, stateVars>>

Crash(q) ==
    /\ crashes < MaxCrashes
    /\ proc[q].pc # "idle"
    /\ crashes' = crashes + 1
    /\ Die(q)

(* deadlock_detected: one of the processes gets an OperationalError *)
DeadlockAbort(q) ==
    /\ Deadlocked(q)
    /\ UNCHANGED crashes
    /\ Die(q)

(* RepoResolver.persist_resolution_output for one package, in one step *)
Resolve(p) ==
    /\ db[p].last_build # NULL
    /\ xlock[p] = NULL
    /\ \A q \in Procs : <<q, p>> \notin share
    /\ \E r \in Resolutions :
          /\ db[p].resolved # r
          /\ db' = [db EXCEPT ![p].resolved = r]
          /\ work' = [work EXCEPT ![p].resolved = r]
    /\ UNCHANGED <<xlock, keyed, share, nextId, proc, kojiVars, stateVars, crashes, lost>>

PollStep(q) == PollInfos(q) \/ PollRows(q) \/ PollNext(q) \/ UpdateBuildState(q)

RealStep(q) == RegisterRealBuilds(q) \/ RefreshLatestBuilds(q)

TriggerStep(q) ==
    /\ Trigger(q)
    /\ lost' = IF proc'[q] = IdleProc /\ proc[q].task # NULL
               THEN lost \cup {proc[q].task} ELSE lost

(* A step of process q, whichever service it runs *)
Step(q) ==
    \/ q \in Pollers /\ PollStep(q) /\ UNCHANGED <<crashes, lost>>
    \/ /\ q \in Pollers
       /\ \E p \in Packages : RefreshPackage(q, p)
       /\ UNCHANGED <<stateVars, crashes, lost>>
    \/ /\ q \in Watchers
       /\ (\E b \in BuildIds : WatchTask(q, b)) \/ UpdateBuildState(q)
       /\ UNCHANGED <<crashes, lost>>
    \/ /\ q \in Watchers
       /\ \E p \in Packages : WatchTag(q, p)
       /\ UNCHANGED <<stateVars, crashes, lost>>
    \/ q \in Workers /\ RealStep(q) /\ UNCHANGED <<stateVars, crashes, lost>>
    \/ q \in Schedulers /\ Schedule(q) /\ UNCHANGED <<stateVars, crashes, lost>>
    \/ TriggerStep(q) /\ UNCHANGED <<kojiVars, stateVars, crashes>>
    \/ /\ q \in Frontends
       /\ ServeRequest(q)
       /\ UNCHANGED <<kojiVars, stateVars, crashes, lost>>

Next ==
    \/ \E q \in Procs : Step(q) \/ Crash(q) \/ DeadlockAbort(q)
    \/ \E p \in Packages : Resolve(p)
    \/ \E b \in BuildIds : PassTimeout(b) /\ UNCHANGED <<crashes, lost>>
    \/ KojiStep /\ UNCHANGED <<dbVars, nextId, proc, stateVars, crashes, lost>>

Spec == Init /\ [][Next]_vars

-----------------------------------------------------------------------------
(* Fairness. A process finishes what it began: a process waiting for a row  *)
(* lock is served in turn by the lock queue of PostgreSQL, hence strong     *)
(* fairness. The polling service starts every round with poll_builds. A     *)
(* deadlock is detected. Nothing is assumed of Koji, of messages, of users. *)
Continue(q) == proc[q].pc # "idle" /\ Step(q)

StartPoll(q) == PollInfos(q) /\ UNCHANGED <<crashes, lost>>

Fairness ==
    /\ \A q \in Procs : SF_vars(Continue(q))
    /\ \A q \in Pollers : SF_vars(StartPoll(q))
    /\ WF_vars(\E q \in Procs : DeadlockAbort(q))

FairSpec == Spec /\ Fairness

-----------------------------------------------------------------------------
PCs ==
    {"idle", "poll", "poll_rows", "decide", "lock", "delete", "lock_package", "sync",
     "commit", "emit", "register", "registered", "untag", "untag_registered",
     "untag_rows", "retag", "retag_rows", "refreshed", "priorities", "pick", "flush",
     "insert", "reset", "submitted", "skip", "skip_flags", "skipped", "cancel",
     "trigger", "trigger_package", "trigger_flags", "done"}

Local ==
    [pc : PCs, ret : PCs, cont : PCs, p : Packages \cup {NULL},
     b : BuildIds \cup {NULL}, ts : StateNames \cup {"none"}, canceled : BOOLEAN,
     ins : BOOLEAN, prev : MsgStates \cup {"none"}, new : MsgStates \cup {"none"},
     info : Versions \cup {NULL}, last : 0..MaxVersion \cup {NULL},
     task : Stamps \cup {NULL}, lb : 0..MaxBuildId \cup {NULL},
     lcb : 0..MaxBuildId \cup {NULL}, lcs : FinishedStates \cup {NULL}, fires : Nat,
     todo : SUBSET Rows, list : SUBSET (BuildIds \X StateNames),
     infos : SUBSET (Nat \X StateNames)]

TypeTable(t) ==
    /\ DOMAIN t = Rows
    /\ \A b \in BuildIds : t[b] \in BuildRow \cup {NULL}
    /\ \A p \in Packages : t[p] \in PackageRow

(* Every variable keeps its type: rows satisfy the column types and the     *)
(* CHECK constraint on build states.                                        *)
TypeOK ==
    /\ TypeTable(db)
    /\ TypeTable(work)
    /\ xlock \in [Rows -> Procs \cup {NULL}]
    /\ keyed \subseteq Rows
    /\ share \subseteq Procs \X Rows
    /\ nextId \in 1..(MaxBuildId + 1)
    /\ proc \in [Procs -> Local]
    /\ clock \in 1..(MaxStamp + 1)
    /\ koji \in [Stamps -> TaskStates \cup {NULL}]
    /\ real \in [Packages -> [Versions -> Stamps \cup {NULL}]]
    /\ tagged \in [Packages -> 0..MaxVersion]
    /\ moves \in Nat
    /\ deadline \in 0..MaxDeadline
    /\ arch \in [BuildIds -> Nat]
    /\ sent \in [BuildIds -> Nat]
    /\ crashes \in Nat
    /\ lost \subseteq Stamps

-----------------------------------------------------------------------------
(* Committed state. *)

(* The denormalised columns agree in every committed state: a build carries *)
(* last_complete exactly when its package points to it, that build exists,  *)
(* is finished and belongs to the package, and the copied state is its      *)
(* state (triggers.sql update_last_build; skip_no_srpm).                    *)
LastCompleteConsistent ==
    \A p \in Packages :
        LET lc == db[p].last_complete_build
        IN  /\ lc # NULL => /\ db[lc] # NULL
                            /\ db[lc].package = p
                            /\ db[lc].state \in FinishedStates
            /\ db[p].last_complete_build_state =
                   (IF lc = NULL THEN NULL ELSE db[lc].state)
            /\ \A b \in BuildsOf(db, p) : db[b].last_complete <=> b = lc

(* However often and in whatever order the polling service and the watcher  *)
(* hear of the end of a task, its build is announced at most once           *)
(* (update_build_state: the build is read again under its lock).            *)
OneEventPerBuild == \A b \in BuildIds : sent[b] =< 1

(* What Koschei records about the end of a build is what Koji says about    *)
(* that build's own task, and a Koji fault is not recorded (poll_builds,    *)
(* Watcher.update_build_state, update_build_state).                         *)
RecordedStateMatchesTask ==
    \A b \in BuildIds :
        (db[b] # NULL /\ ~ db[b].real /\ db[b].state \in FinishedStates)
            => koji[db[b].task] = IF db[b].state = COMPLETE THEN "CLOSED" ELSE "FAILED"

(* A scratch task that still runs in Koji has a build row, or a scheduler   *)
(* about to insert it, or its scheduler died: deleting a build never leaves *)
(* its task running unattended (update_build_state cancels the task first). *)
OpenTasksTracked ==
    \A t \in Stamps :
        koji[t] \in Unfinished =>
            \/ t \in lost
            \/ \E b \in BuildIds : db[b] # NULL /\ db[b].task = t
            \/ \E q \in Schedulers : proc[q].task = t

(* One scheduler never has more than max_builds builds running, whatever    *)
(* the other services do between its count and its commit (Scheduler.main). *)
RunningWithinLimit == Cardinality(RunningBuilds(db)) =< MaxBuilds

(* The polling service and the watcher may register the same real build at  *)
(* the same time; it is inserted once (register_real_builds).               *)
RealBuildsUnique ==
    \A b, c \in BuildIds :
        (/\ db[b] # NULL /\ db[c] # NULL /\ db[b].real /\ db[c].real
         /\ db[b].package = db[c].package /\ db[b].task = db[c].task) => b = c

-----------------------------------------------------------------------------
(* Steps. *)

(* A finished build keeps its state for as long as it exists. *)
FinishedStateStable ==
    [][\A b \in BuildIds :
          (db[b] # NULL /\ db[b].state \in FinishedStates /\ db'[b] # NULL)
              => db'[b].state = db[b].state]_vars

(* The states an event will name are those of the package immediately       *)
(* before and after the commit that finished the build (update_build_state: *)
(* "Lock package, so there are no concurrent state changes").               *)
EventTellsTransition ==
    [][\A q \in Workers :
          (proc[q].pc = "commit" /\ proc'[q].pc = "emit")
              => /\ proc[q].prev = MsgState(db[proc[q].p])
                 /\ proc'[q].new = MsgState(db'[proc[q].p])]_vars

(* What the committed rows say of each build. A number that build_id_seq    *)
(* has handed out, and no row has, is gone for good.                        *)
Status ==
    [b \in BuildIds |->
        IF db[b] # NULL
        THEN CASE db[b].state = RUNNING  -> "running"
               [] db[b].state = COMPLETE -> "complete"
               [] OTHER                  -> "failed"
        ELSE IF b < nextId /\ work[b] = NULL THEN "gone" ELSE "none"]

(* Koschei implements BuildLife: whatever services, transactions, crashes   *)
(* and deadlocks do, a build becomes public once, ends once, never comes    *)
(* back under its number, and is announced at most once, after its end was  *)
(* committed (update_build_state, register_real_builds, Scheduler.main).    *)
Life == INSTANCE BuildLife WITH Builds <- BuildIds, status <- Status, events <- sent
BuildsLive == Life!LifeSpec

-----------------------------------------------------------------------------
(* Progress. *)
Running(b) == db[b] # NULL /\ db[b].state = RUNNING

(* A build that is late does not run for ever, even if Koji never ends its  *)
(* task: it is canceled and deleted (update_build_state: "Prevents          *)
(* starvations of resources").                                              *)
LateBuildEnds ==
    \A b \in BuildIds : (Running(b) /\ db[b].started < deadline) ~> ~ Running(b)

(* A cancelation that was recorded takes effect although Koji, the timeout  *)
(* and the messages do nothing (cancel_build, update_build_state).          *)
CancelHonoured ==
    \A b \in BuildIds : (Running(b) /\ db[b].cancel_requested) ~> ~ Running(b)

-----------------------------------------------------------------------------
(* A claim of a message in the code that the code does not keep.            *)

(* "Only running builds can be canceled": a finished scratch build is never *)
(* deleted because of a cancelation request or a timeout.                   *)
FinishedBuildsKept ==
    [][\A b \in BuildIds :
          (db[b] # NULL /\ db[b].state \in FinishedStates /\ ~ db[b].real)
              => db'[b] # NULL]_vars
=============================================================================
