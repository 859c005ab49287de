----------------------------- MODULE BuildStates -----------------------------
(****************************************************************************)
(* update_build_state (backend/__init__.py) and its two callers: the        *)
(* polling service, which asks Koji about every running build, and the      *)
(* fedmsg watcher, which is told of task state changes. One action per      *)
(* stretch of code between two points where the process can wait: a         *)
(* statement that needs a row lock, a call to Koji, a commit.               *)
(****************************************************************************)
EXTENDS Database, Koji

CONSTANTS
    PollAligned,     \* assume both queries of poll_builds return the same rows
    FailedPriority,  \* priorities.failed_build_priority
    MaxDeadline      \* bound: how far time passes for timeouts

ASSUME FailedPriorityAssumption == FailedPriority \in Nat
ASSUME MaxDeadlineAssumption == MaxDeadline \in 0..(MaxStamp + 1)
ASSUME PollAlignedAssumption == PollAligned \in BOOLEAN

VARIABLES
    deadline,        \* now - koji_config.task_timeout
    arch,            \* number of koji_task rows of the buildArch subtask
    sent             \* number of package_state_change events about a build

stateVars == <<deadline, arch, sent>>

(* Build.KOJI_STATE_MAP.get *)
KojiStateMapDefault(name) == IF name = "CLOSED" THEN COMPLETE ELSE FAILED

KojiStateMap(name) ==
    CASE name = "CLOSED" -> COMPLETE
      [] name = "FAILED" -> FAILED
      [] OTHER           -> NULL

Rank(b, S) == Cardinality({c \in S : c =< b})

-----------------------------------------------------------------------------
(* Polling.poll_builds. infos and running_builds come from two executions   *)
(* of the query; zip pairs the n-th task info with the n-th build.          *)
PollInfos(q) ==
    /\ "builds" \in PollParts
    /\ proc[q].pc = "idle"
    /\ LET S == RunningBuilds(db)
       IN  /\ S # {}
           /\ proc' = [proc EXCEPT
                 ![q].infos = IF PollAligned THEN {}
                              ELSE {<<Rank(b, S), StateName(koji[db[b].task])>> : b \in S},
                 ![q].list = IF PollAligned
                             THEN {<<b, StateName(koji[db[b].task])>> : b \in S} ELSE {},
                 ![q].pc = IF PollAligned THEN "poll" ELSE "poll_rows"]
    /\ UNCHANGED <<dbVars, nextId, kojiVars, stateVars>>

PollPairs(q) ==
    LET S == RunningBuilds(db)
    IN  {x \in {<<b, i[2]>> : b \in S, i \in proc[q].infos} :
            <<Rank(x[1], S), x[2]>> \in proc[q].infos}

PollRows(q) ==
    /\ proc[q].pc = "poll_rows"
    /\ proc' = [proc EXCEPT ![q].list = PollPairs(q), ![q].infos = {},
                            ![q].pc = IF PollPairs(q) = {} THEN "idle" ELSE "poll"]
    /\ UNCHANGED <<dbVars, nextId, kojiVars, stateVars>>

PollNext(q) ==
    /\ proc[q].pc = "poll"
    /\ \E x \in proc[q].list :
          proc' = [proc EXCEPT ![q].list = @ \ {x},
                               ![q].b = x[1], ![q].ts = x[2], ![q].pc = "decide"]
    /\ UNCHANGED <<dbVars, nextId, kojiVars, stateVars>>

(* Watcher.update_build_state. A message may be late, repeated or overtaken *)
(* by another one, or never arrive.                                         *)
WatchTask(q, b) ==
    /\ "task" \in WatchTopics
    /\ proc[q].pc = "idle"
    /\ db[b] # NULL
    /\ \E name \in ReportedNames(koji[db[b].task]) :
          proc' = [proc EXCEPT ![q].b = b, ![q].ts = name, ![q].pc = "decide"]
    /\ UNCHANGED <<dbVars, nextId, kojiVars, stateVars>>

-----------------------------------------------------------------------------
(* update_build_state, up to the first lock: decide what the task state     *)
(* means and cancel the task of a build that is late or unwanted.           *)
GiveUpIgnoringTimeout(b) == db[b].cancel_requested
GiveUpIgnoringRequest(b) == db[b].started < deadline

GiveUp(b) == db[b].started < deadline \/ db[b].cancel_requested

ForgetTask(b) == UNCHANGED koji

AbandonTask(b) == CancelTask(db[b].task)

Decide(q) ==
    /\ proc[q].pc = "decide"
    /\ db[proc[q].b] # NULL
    /\ LET b        == proc[q].b
           final    == KojiStateMap(proc[q].ts) # NULL
           canceled == proc[q].ts = "CANCELED"
           giveup   == ~ canceled /\ ~ final /\ GiveUp(b)
       IN  /\ IF giveup THEN AbandonTask(b) ELSE UNCHANGED koji
           /\ proc' = [proc EXCEPT ![q].canceled = canceled \/ giveup,
                                   ![q].p = db[b].package,
                                   ![q].pc = IF canceled \/ giveup \/ final
                                             THEN "lock" ELSE "sync"]
    /\ UNCHANGED <<dbVars, nextId, clock, real, tagged, moves, stateVars>>

(* ObjectDeletedError on the first attribute access *)
DecideDeleted(q) ==
    /\ proc[q].pc = "decide"
    /\ db[proc[q].b] = NULL
    /\ EndHandler(q)
    /\ UNCHANGED <<dbVars, nextId, kojiVars, stateVars>>

(* SELECT build FOR UPDATE *)
BuildState(q) == IF proc[q].canceled THEN NULL ELSE KojiStateMap(proc[q].ts)

DeletedAlready(q) == db[proc[q].b] = NULL

AlreadyDone(q) ==
    db[proc[q].b] # NULL => db[proc[q].b].state = BuildState(q)

LockBuildDone(q) ==
    /\ proc[q].pc = "lock"
    /\ ForUpdateBlockers(q, proc[q].b) = {}
    /\ AlreadyDone(q)
    /\ Rollback(q)
    /\ EndHandler(q)
    /\ UNCHANGED <<nextId, kojiVars, stateVars>>

(* Canceled, Koji fault, or no repo_id: the build will be deleted. Otherwise *)
(* sync_tasks takes the creation time from Koji and insert_koji_tasks        *)
(* inserts the subtask unless it sees it in the table.                       *)
KeepsFaults(q) == proc[q].canceled \/ ~ HasSubtasks(koji[db[proc[q].b].task])

MustDelete(q) ==
    LET s == koji[db[proc[q].b].task]
    IN  proc[q].canceled \/ s = "FAULT" \/ ~ HasSubtasks(s)

LockBuild(q) ==
    /\ proc[q].pc = "lock"
    /\ ForUpdateBlockers(q, proc[q].b) = {}
    /\ ~ AlreadyDone(q)
    /\ LET b == proc[q].b
       IN  /\ Write(q, [r \in {b} |-> IF MustDelete(q) THEN db[b]
                                      ELSE [db[b] EXCEPT !.started = db[b].task]], {b})
           /\ proc' = [proc EXCEPT ![q].ins = ~ MustDelete(q) /\ arch[b] = 0,
                                   ![q].pc = IF MustDelete(q) THEN "delete"
                                             ELSE "lock_package"]
    /\ UNCHANGED <<share, nextId, kojiVars, stateVars>>

DeleteBuild(q) ==
    /\ proc[q].pc = "delete"
    /\ \/ Delete(q, proc[q].b, proc[q].p)
       \/ DeleteRefused(q, proc[q].b, proc[q].p)
    /\ UNCHANGED <<nextId, kojiVars, stateVars>>

-----------------------------------------------------------------------------
(* set_failed_build_priority: the previous build in the whole table *)
PreviousBuild(v, b) ==
    Latest(v, {c \in BuildIds : v[c] # NULL /\ v[c].started < v[b].started})

FailedBuildPriority(v, b, state) ==
    LET prev == PreviousBuild(v, b)
    IN  IF state = FAILED /\ (prev = NULL \/ v[prev].state # FAILED)
        THEN FailedPriority ELSE 0

LockPackageLate(q) ==
    /\ proc[q].pc = "lock_package"
    /\ Write(q, [r \in {proc[q].b} |-> [View(q)[r] EXCEPT !.state = BuildState(q)]], {})
    /\ proc' = [proc EXCEPT ![q].prev = MsgState(db[proc[q].p]), ![q].fires = 1,
                            ![q].ret = "commit", ![q].pc = "trigger"]
    /\ UNCHANGED <<share, nextId, kojiVars, stateVars>>

(* SELECT package FOR UPDATE, then everything up to the flush that fires    *)
(* the trigger: clear_priority_data, prev_state, build.state,               *)
(* set_failed_build_priority                                                *)
LockPackage(q) ==
    /\ proc[q].pc = "lock_package"
    /\ ForUpdateBlockers(q, proc[q].p) = {}
    /\ LET b == proc[q].b
           p == proc[q].p
           v == View(q)
       IN  /\ Write(q, [r \in {b, p} |->
                  IF r = b THEN [v[b] EXCEPT !.state = BuildState(q)]
                  ELSE [v[p] EXCEPT !.manual_priority = 0,
                                    !.build_priority =
                                        FailedBuildPriority(v, b, BuildState(q))]], {p})
           /\ proc' = [proc EXCEPT ![q].prev = MsgState(v[p]), ![q].fires = 1,
                                   ![q].ret = "commit", ![q].pc = "trigger"]
    /\ UNCHANGED <<share, nextId, kojiVars, stateVars>>

(* The build is still running: synchronise start time and subtasks. Only a  *)
(* changed start time locks the row; inserting the subtask shares it.       *)
SyncBlockers(q) ==
    LET b == proc[q].b
    IN  IF db[b] = NULL THEN {}
        ELSE IF db[b].started # db[b].task THEN WriteBlockers(q, b)
        ELSE IF arch[b] = 0 THEN ShareBlockers(q, b)
        ELSE {}

SyncRunning(q) ==
    /\ proc[q].pc = "sync"
    /\ SyncBlockers(q) = {}
    /\ db[proc[q].b] # NULL
    /\ LET b == proc[q].b
           t == db[b].task
           changed == db[b].started # t
       IN  /\ Write(q, [r \in (IF changed THEN {b} ELSE {}) |->
                            [db[b] EXCEPT !.started = t]], {})
           /\ share' = share \cup (IF arch[b] = 0 THEN {<<q, b>>} ELSE {})
           /\ proc' = [proc EXCEPT ![q].ins = HasSubtasks(koji[t]) /\ arch[b] = 0,
                                   ![q].pc = "commit"]
    /\ UNCHANGED <<nextId, kojiVars, stateVars>>

(* StaleDataError, or IntegrityError of the koji_task insert *)
SyncDeleted(q) ==
    /\ proc[q].pc = "sync"
    /\ SyncBlockers(q) = {}
    /\ db[proc[q].b] = NULL
    /\ Rollback(q)
    /\ EndHandler(q)
    /\ UNCHANGED <<nextId, kojiVars, stateVars>>

-----------------------------------------------------------------------------
(* The event sent from the open transaction *)
CommitAfterEmit(q) ==
    /\ proc[q].pc = "commit"
    /\ IF proc[q].prev \notin {"none", MsgState(View(q)[proc[q].p])}
       THEN Goto(q, "emit") /\ UNCHANGED dbVars
       ELSE Commit(q) /\ EndHandler(q)
    /\ UNCHANGED <<nextId, kojiVars, stateVars>>

(* COMMIT. The event is dispatched after it, when the package state changed *)
CommitBuild(q) ==
    /\ proc[q].pc = "commit"
    /\ Commit(q)
    /\ LET b    == proc[q].b
           gone == View(q)[b] = NULL
           new  == MsgState(View(q)[proc[q].p])
       IN  /\ arch' = [arch EXCEPT ![b] = IF gone THEN 0
                                          ELSE IF proc[q].ins THEN @ + 1 ELSE @]
           /\ IF proc[q].prev \notin {"none", new}
              THEN proc' = [proc EXCEPT ![q].new = new, ![q].pc = "emit"]
              ELSE EndHandler(q)
    /\ UNCHANGED <<nextId, kojiVars, deadline, sent>>

Emit(q) ==
    /\ proc[q].pc = "emit"
    /\ sent' = [sent EXCEPT ![proc[q].b] = @ + 1]
    /\ EndHandler(q)
    /\ UNCHANGED <<dbVars, nextId, kojiVars, deadline, arch>>

-----------------------------------------------------------------------------
(* Time passes until build b has exceeded the timeout, whatever its state. *)
PassTimeout(b) ==
    /\ db[b] # NULL
    /\ deadline =< db[b].started
    /\ db[b].started < MaxDeadline
    /\ deadline' = db[b].started + 1
    /\ UNCHANGED <<dbVars, nextId, proc, kojiVars, arch, sent>>

UpdateBuildState(q) ==
    \/ Decide(q)
    \/ DecideDeleted(q)
    \/ LockBuildDone(q)
    \/ LockBuild(q)
    \/ DeleteBuild(q)
    \/ LockPackage(q)
    \/ SyncRunning(q)
    \/ SyncDeleted(q)
    \/ CommitBuild(q)
    \/ Emit(q)

UpdateBuildStateBlockers(q) ==
    CASE proc[q].pc = "lock"         -> ForUpdateBlockers(q, proc[q].b)
      [] proc[q].pc = "delete"       -> DeleteBlockers(q, proc[q].b, proc[q].p)
      [] proc[q].pc = "lock_package" -> ForUpdateBlockers(q, proc[q].p)
      [] proc[q].pc = "sync"         -> SyncBlockers(q)
      [] OTHER                       -> {}
=============================================================================
