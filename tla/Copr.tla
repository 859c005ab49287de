-------------------------------- MODULE Copr --------------------------------
(***************************************************************************)
(* plugins/copr_plugin: rebuild requests of users, the resolver that turns *)
(* a request into rebuilds, the scheduler that submits them to Copr, the   *)
(* polling and watcher services that take over results, the web forms that *)
(* edit a request and the cleanup of old ones.  Every transaction is cut   *)
(* where it waits for a row lock or calls a service.                       *)
(***************************************************************************)
EXTENDS Integers, Sequences, FiniteSets, SequencesExt

CONSTANTS Requests, Packages,
          Owner,        \* user_id of a request
          Old,          \* requests older than the cleanup interval
          Counts,       \* values of schedule_count users enter
          MaxBuilds,    \* copr.max_builds
          MaxEdits,     \* bound on uses of the edit form
          Outcomes,     \* Copr build states that end a build
          MaxFaults     \* bound on crashes and failed calls

VARIABLES req,      \* copr_rebuild_request: rows by id
          reb,      \* copr_rebuild: rows by <<request, package>>
          builds,   \* Copr: builds ever created, by id
          comps,    \* requests whose comps.xml is linked in user_repos
          res, sch, txn, edit, clean,   \* what each process is doing
          edits, faults

vars == <<req, reb, builds, comps, res, sch, txn, edit, clean, edits, faults>>

Idle      == [pc |-> "idle"]
Refreshers == {"polling", "watcher"}
Finished  == {"complete", "failed"}          \* Build.FINISHED_STATES
StateMap  == [succeeded |-> "complete", failed |-> "failed"]

ASSUME CoprAssumption ==
    /\ Owner \in [Requests -> STRING] /\ Old \subseteq Requests
    /\ Counts \subseteq Nat /\ MaxBuilds \in Nat \ {0}
    /\ MaxEdits \in Nat /\ MaxFaults \in Nat /\ Outcomes \subseteq DOMAIN StateMap

Rows(r)     == {x \in DOMAIN reb : x[1] = r}
Submitted(r) == {x \in Rows(r) : reb[x].build # 0}
Pending(r)  == {x \in Rows(r) : reb[x].state = "null"}
Running     == {x \in DOMAIN reb : reb[x].state = "running"}
Present(r)  == req[r].state \notin {"none", "deleted"}
Without(S)  == [x \in DOMAIN reb \ S |-> reb[x]]

Init ==
    /\ req = [r \in Requests |-> [state |-> "none", count |-> 0, index |-> 0]]
    /\ reb = <<>> /\ builds = <<>> /\ comps = {}
    /\ res = [pc |-> "idle", leaked |-> FALSE]
    /\ sch = Idle /\ edit = Idle /\ clean = Idle
    /\ txn = [a \in Refreshers |-> [pc |-> "idle", queue |-> {}]]
    /\ edits = 0 /\ faults = 0

Fault == faults < MaxFaults /\ faults' = faults + 1

-----------------------------------------------------------------------------
(* Row locks held across steps: the scheduler rotates all requests of a user
   before it calls Copr, an edit shifts rows before it touches the request,
   a refresh writes its rebuild before the request. *)
RequestLocked(r) ==
    sch.pc \in {"decide", "project", "build", "commit"} /\ Owner[r] = Owner[sch.r]

RefreshLocks(x) == \E a \in Refreshers : txn[a].pc = "commit" /\ txn[a].wrote /\ txn[a].x = x
EditLocks(x)    == edit.pc \in {"finish", "wait"} /\ x \in edit.rows

(* two transactions each wait for a row the other has written *)
SchedulerVsEdit ==
    /\ sch.pc = "commit" /\ EditLocks(sch.x)
    /\ edit.pc = "wait" /\ RequestLocked(edit.x[1])

-----------------------------------------------------------------------------
(* new_rebuild_request *)
NewRequest(r, c) ==
    /\ req[r].state = "none"
    /\ req' = [req EXCEPT ![r].state = "new", ![r].count = c]
    /\ UNCHANGED <<reb, builds, comps, res, sch, txn, edit, clean, edits, faults>>

-----------------------------------------------------------------------------
(* CoprResolver.main, one request.  RepoCache.locked keeps the descriptor when
   an exception leaves the with block; the next get_sack of the same repo then
   fails its assertion and ends the process. *)
ResolverEnds == res' = [pc |-> "idle", leaked |-> FALSE]
ResolverOnly == UNCHANGED <<builds, sch, txn, edit, clean, edits>>

Resolve(r) ==
    /\ res.pc = "idle" /\ req[r].state = "new"
    /\ \/ /\ ~ res.leaked                                     \* get_sack
          /\ res' = [pc |-> "repo", r |-> r, leaked |-> FALSE]
          /\ UNCHANGED <<req, faults>>
       \/ /\ req' = [req EXCEPT ![r].state = "failed"]        \* set_source_repo_url
          /\ UNCHANGED <<res, faults>>
       \/ res.leaked /\ ResolverEnds /\ UNCHANGED <<req, faults>>
       \/ ~ res.leaked /\ Fault /\ ResolverEnds /\ UNCHANGED req  \* no koji repo
    /\ UNCHANGED <<reb, comps>> /\ ResolverOnly

KeepUserRepo(r) == comps      \* mutant: the directory is not emptied first
NewUserRepo(r) == comps \ {r}

(* add_repo_to_sack: get_repo removes the directory, comps.xml included *)
AddRepoToSack ==
    /\ res.pc = "repo"
    /\ comps' = NewUserRepo(res.r)
    /\ \/ res' = [res EXCEPT !.pc = "link"] /\ UNCHANGED req
       \/ /\ Present(res.r)
          /\ req' = [req EXCEPT ![res.r].state = "failed"]
          /\ res' = [pc |-> "idle", leaked |-> TRUE]
       \/ ~ Present(res.r) /\ ResolverEnds /\ UNCHANGED req   \* StaleDataError
    /\ UNCHANGED <<reb, faults>> /\ ResolverOnly

PrepareComps ==       \* os.link raises when the target exists
    /\ res.pc = "link"
    /\ IF res.r \in comps THEN ResolverEnds /\ UNCHANGED comps
       ELSE comps' = comps \cup {res.r} /\ res' = [res EXCEPT !.pc = "resolve"]
    /\ UNCHANGED <<req, reb, faults>> /\ ResolverOnly

(* resolve_request: rebuilds in the order of their priority, or only changed
   resolution results, or nothing *)
ResolveRequest(order, changes) ==
    /\ res.pc = "resolve" /\ Present(res.r)
    /\ LET new == {<<res.r, p>> : p \in ToSet(order)}
           pos(p) == CHOOSE i \in DOMAIN order : order[i] = p
       IN  reb' = [x \in DOMAIN reb \cup new |->
                     IF x \in new THEN [build |-> 0, state |-> "null", order |-> pos(x[2]) - 1]
                     ELSE reb[x]]
    /\ req' = [req EXCEPT ![res.r].state =
                 IF order # <<>> \/ changes THEN "in progress" ELSE "finished"]
    /\ res' = [pc |-> "idle", leaked |-> FALSE]
    /\ UNCHANGED <<comps, faults>> /\ ResolverOnly

ResolverLosesRow ==   \* StaleDataError
    /\ res.pc = "resolve" /\ ~ Present(res.r) /\ ResolverEnds
    /\ UNCHANGED <<req, reb, comps, faults>> /\ ResolverOnly

ResolverCrash ==
    /\ res.pc # "idle" /\ ResolverEnds /\ Fault
    /\ UNCHANGED <<req, reb, comps>> /\ ResolverOnly

-----------------------------------------------------------------------------
(* CoprScheduler.main *)
SchedulerOnly == UNCHANGED <<res, txn, edit, clean, edits>>

InProgress == {r \in Requests : req[r].state = "in progress"}
Rotated == [r \in Requests |->
              IF Owner[r] = Owner[sch.r] /\ Present(r)
              THEN [req[r] EXCEPT !.index = sch.last] ELSE req[r]]

OverLimit   == Cardinality(Running) > MaxBuilds     \* mutant: off by one
AtMaxBuilds == Cardinality(Running) >= MaxBuilds

PickRequest(r) ==        \* reads the request, its schedule_count and state
    /\ sch.pc = "idle" /\ ~ AtMaxBuilds
    /\ r \in InProgress /\ \A q \in InProgress : req[r].index <= req[q].index
    /\ \E q \in Requests :                                 \* the highest index
          /\ \A o \in Requests : req[o].index <= req[q].index
          /\ sch' = [pc |-> "rotate", r |-> r, count |-> req[r].count,
                     last |-> req[q].index + 1]
    /\ UNCHANGED <<req, reb, builds, comps, faults>> /\ SchedulerOnly

RotateQueue ==           \* the UPDATE that locks the rows of the user's requests
    /\ sch.pc = "rotate" /\ sch' = [sch EXCEPT !.pc = "decide"]
    /\ edit.pc = "wait" => Owner[edit.x[1]] # Owner[sch.r]    \* the waiter is served first
    /\ UNCHANGED <<req, reb, builds, comps, faults>> /\ SchedulerOnly

(* no filter by request: the lowest order of all unsubmitted rebuilds *)
NotRunning  == {x \in DOMAIN reb : reb[x].state # "running"}   \* mutant: wrong column
Unsubmitted == {x \in DOMAIN reb : reb[x].build = 0}
NextRebuilds == {x \in Unsubmitted : \A y \in Unsubmitted : reb[x].order <= reb[y].order}

CountReached    == Cardinality(Submitted(sch.r)) >= sch.count     \* mutant: no rebuild left
NothingToSubmit == Cardinality(Submitted(sch.r)) >= sch.count \/ NextRebuilds = {}

FinishScheduling ==      \* a lost row is a StaleDataError
    /\ sch.pc = "decide" /\ NothingToSubmit
    /\ req' = IF Present(sch.r) THEN [Rotated EXCEPT ![sch.r].state = "scheduled"] ELSE req
    /\ sch' = Idle
    /\ UNCHANGED <<reb, builds, comps, faults>> /\ SchedulerOnly

ChooseRebuild(x) ==
    /\ sch.pc = "decide" /\ ~ NothingToSubmit /\ x \in NextRebuilds
    /\ sch' = [pc |-> "project", r |-> sch.r, last |-> sch.last, x |-> x]
    /\ UNCHANGED <<req, reb, builds, comps, faults>> /\ SchedulerOnly

(* create_copr_project deletes what a crashed process left behind; comps.xml is
   linked again when the storage was lost *)
CreateCoprProject ==
    /\ sch.pc = "project" /\ sch.x \in DOMAIN reb
    /\ builds' = [b \in DOMAIN builds |->
                    IF builds[b].x = sch.x /\ builds[b].gone = "no"
                    THEN [builds[b] EXCEPT !.gone = "replaced"] ELSE builds[b]]
    /\ comps' = comps \cup {sch.x[1]}
    /\ sch' = [sch EXCEPT !.pc = "build"]
    /\ UNCHANGED <<req, reb, faults>> /\ SchedulerOnly

CreateFromUrl ==
    /\ sch.pc = "build"
    /\ builds' = Append(builds, [x |-> sch.x, state |-> "running", gone |-> "no"])
    /\ sch' = [sch EXCEPT !.pc = "commit"]
    /\ UNCHANGED <<req, reb, comps, faults>> /\ SchedulerOnly

ScheduleRebuild ==
    /\ sch.pc = "commit" /\ sch.x \in DOMAIN reb
    /\ ~ EditLocks(sch.x)
    /\ reb' = [reb EXCEPT ![sch.x].build = Len(builds), ![sch.x].state = "running"]
    /\ req' = Rotated
    /\ sch' = Idle
    /\ UNCHANGED <<builds, comps, faults>> /\ SchedulerOnly

(* an exception or a crash ends the process: the transaction is rolled back,
   Copr keeps what it has *)
SchedulerEnds == sch' = Idle /\ UNCHANGED <<req, reb, builds, comps>> /\ SchedulerOnly

SchedulerAborts ==       \* the row was deleted, or the scheduler is the deadlock's victim
    /\ SchedulerVsEdit \/ (sch.pc \in {"project", "commit"} /\ sch.x \notin DOMAIN reb)
    /\ SchedulerEnds /\ UNCHANGED faults

SchedulerCrash == sch.pc # "idle" /\ SchedulerEnds /\ Fault  \* or no SRPM, or a failed call

-----------------------------------------------------------------------------
(* Copr finishes a build; its project may have been deleted *)
CoprBuildEnds(b, s) ==
    /\ builds[b].state = "running" /\ builds[b].gone = "no"
    /\ builds' = [builds EXCEPT ![b].state = s]
    /\ UNCHANGED <<req, reb, comps, res, sch, txn, edit, clean, edits, faults>>

(* poll_copr: the running rebuilds of one query, refreshed one by one *)
PollCopr ==
    /\ txn["polling"].pc = "idle" /\ txn["polling"].queue = {} /\ Running # {}
    /\ txn' = [txn EXCEPT !["polling"].queue = Running]
    /\ UNCHANGED <<req, reb, builds, comps, res, sch, edit, clean, edits, faults>>

Refreshes(a, x) ==
    \/ a = "polling" /\ x \in txn[a].queue
    \/ a = "watcher" /\ x \in DOMAIN reb /\ reb[x].build # 0    \* process_fedmsg

(* refresh_build_state: ask Copr about the build of the row as it is now; a row
   or build that is gone raises and ends the service *)
RefreshBuildState(a, x) ==
    /\ txn[a].pc = "idle" /\ Refreshes(a, x)
    /\ txn' = [txn EXCEPT ![a] =
         IF x \notin DOMAIN reb \/ builds[reb[x].build].gone # "no"
         THEN [pc |-> "idle", queue |-> {}]
         ELSE IF builds[reb[x].build].state = "running"
         THEN [txn[a] EXCEPT !.queue = @ \ {x}]
         ELSE [pc |-> "write", queue |-> @.queue \ {x}, x |-> x, seen |-> reb[x].state,
               new |-> StateMap[builds[reb[x].build].state]]]
    /\ UNCHANGED <<req, reb, builds, comps, res, sch, edit, clean, edits, faults>>

CountsFinished(a) ==      \* its own write is visible to the count query, others' are not
    \A y \in Rows(txn[a].x[1]) : y = txn[a].x \/ reb[y].state \in Finished

IgnoresUnsubmitted(a) ==  \* mutant: NULL NOT IN (...) drops the unsubmitted rows
    \A y \in Rows(txn[a].x[1]) :
        y = txn[a].x \/ reb[y].state \in Finished \cup {"null"}

NoneUnfinished(a) == CountsFinished(a)

WriteState(a) ==
    LET x == txn[a].x  wrote == txn[a].seen # txn[a].new IN
    /\ txn[a].pc = "write"
    /\ wrote => ~ EditLocks(x) /\ ~ RefreshLocks(x)
    /\ txn' = [txn EXCEPT ![a] =
         IF wrote /\ x \notin DOMAIN reb THEN [pc |-> "idle", queue |-> {}]
         ELSE [pc |-> "commit", queue |-> @.queue, x |-> x, new |-> @.new,
               wrote |-> wrote, finish |-> NoneUnfinished(a)]]
    /\ UNCHANGED <<req, reb, builds, comps, res, sch, edit, clean, edits, faults>>

CommitState(a) ==
    LET t == txn[a]  r == txn[a].x[1] IN
    /\ t.pc = "commit"
    /\ t.finish /\ Present(r) /\ req[r].state # "finished" => ~ RequestLocked(r)
    /\ reb' = IF t.wrote THEN [reb EXCEPT ![t.x].state = t.new] ELSE reb
    /\ req' = IF t.finish /\ Present(r) THEN [req EXCEPT ![r].state = "finished"] ELSE req
    /\ txn' = [txn EXCEPT ![a] = [pc |-> "idle", queue |-> t.queue]]
    /\ UNCHANGED <<builds, comps, res, sch, edit, clean, edits, faults>>

RefreshCrash(a) ==
    /\ txn[a].pc # "idle" /\ Fault
    /\ txn' = [txn EXCEPT ![a] = [pc |-> "idle", queue |-> {}]]
    /\ UNCHANGED <<req, reb, builds, comps, res, sch, edit, clean, edits>>

-----------------------------------------------------------------------------
(* edit_rebuild: load the rebuild and its request, shift the others, then
   write both rows *)
EditOnly == UNCHANGED <<builds, comps, res, sch, txn, clean, faults>>

LoadRebuild(x, action) ==
    /\ edit.pc = "idle" /\ x \in DOMAIN reb /\ edits < MaxEdits
    /\ edit' = [pc |-> "shift", x |-> x, action |-> action, order |-> reb[x].order,
                count |-> req[x[1]].count, state |-> req[x[1]].state]
    /\ edits' = edits + 1
    /\ UNCHANGED <<req, reb>> /\ EditOnly

Shifted == {y \in Rows(edit.x[1]) :
              IF edit.action = "move-top"
              THEN reb[y].state = "null" /\ reb[y].order < edit.order
              ELSE reb[y].order > edit.order}

ShiftOthers ==
    /\ edit.pc = "shift" /\ \A y \in Shifted : ~ RefreshLocks(y)
    /\ edit' = [pc |-> "finish", x |-> edit.x, action |-> edit.action, count |-> edit.count,
                state |-> edit.state, rows |-> Shifted]
    /\ UNCHANGED <<req, reb, edits>> /\ EditOnly

OrdersAfter(d) == [y \in DOMAIN reb |->
                     IF y \in edit.rows THEN [reb[y] EXCEPT !.order = @ + d] ELSE reb[y]]

WaitForRequest ==
    /\ edit.pc = "finish" /\ edit.action = "move-top" /\ RequestLocked(edit.x[1])
    /\ edit' = [edit EXCEPT !.pc = "wait"]
    /\ UNCHANGED <<req, reb, edits>> /\ EditOnly

MoveTop ==
    LET r == edit.x[1]  shifted == OrdersAfter(1)
        pending == {shifted[y].order : y \in Pending(r)}
    IN  /\ edit.pc \in {"finish", "wait"} /\ edit.action = "move-top"
        /\ ~ RequestLocked(r) /\ ~ RefreshLocks(edit.x)
        /\ edit' = Idle
        /\ IF edit.x \in DOMAIN reb /\ pending # {}
           THEN /\ \E o \in pending : /\ \A q \in pending : o <= q
                                     /\ reb' = [shifted EXCEPT ![edit.x].order = o - 1]
                /\ req' = [req EXCEPT ![r].count = edit.count + 1,
                             ![r].state = IF edit.state = "in progress" THEN @
                                          ELSE "in progress"]
           ELSE UNCHANGED <<req, reb>>     \* order is not nullable, or the row is gone
        /\ UNCHANGED edits /\ EditOnly

RemoveRebuild ==
    /\ edit.pc = "finish" /\ edit.action = "remove" /\ ~ RefreshLocks(edit.x)
    /\ edit' = Idle
    /\ reb' = IF edit.x \in DOMAIN reb     \* else a StaleDataError
              THEN [y \in DOMAIN reb \ {edit.x} |-> OrdersAfter(-1)[y]] ELSE reb
    /\ UNCHANGED <<req, edits>> /\ EditOnly

EditAbort ==             \* the victim of the deadlock is the edit
    /\ SchedulerVsEdit /\ edit' = Idle
    /\ UNCHANGED <<req, reb, edits>> /\ EditOnly

-----------------------------------------------------------------------------
(* copr_cleanup: delete the projects of old requests, then their rows; a
   request one of whose projects could not be deleted stays *)
CleanProjects(failed) ==
    LET old  == {r \in Old : Present(r)}
        subm == UNION {Submitted(r) : r \in old}
    IN  /\ clean.pc = "idle" /\ old # {} /\ failed \subseteq subm
        /\ IF failed = {} THEN UNCHANGED faults ELSE Fault
        /\ builds' = [b \in DOMAIN builds |->
             IF builds[b].x \in subm \ failed /\ builds[b].gone = "no"
             THEN [builds[b] EXCEPT !.gone = "cleaned"] ELSE builds[b]]
        /\ clean' = [pc |-> "rows", ids |-> old \ {x[1] : x \in failed}]
        /\ UNCHANGED <<req, reb, comps, res, sch, txn, edit, edits>>

CleanRows ==
    LET rows == UNION {Rows(r) : r \in clean.ids} IN
    /\ clean.pc = "rows"
    /\ \A r \in clean.ids : ~ RequestLocked(r)
    /\ \A x \in rows : ~ RefreshLocks(x) /\ ~ EditLocks(x)
    /\ req' = [r \in Requests |-> IF r \in clean.ids
                                  THEN [state |-> "deleted", count |-> 0, index |-> 0]
                                  ELSE req[r]]
    /\ reb' = Without(rows)
    /\ comps' = comps \ clean.ids
    /\ clean' = Idle
    /\ UNCHANGED <<builds, res, sch, txn, edit, edits, faults>>

(* the storage of user_repos is lost when the machine is respawned *)
LoseStorage ==
    /\ comps # {} /\ Fault /\ comps' = {}
    /\ UNCHANGED <<req, reb, builds, res, sch, txn, edit, clean, edits>>

-----------------------------------------------------------------------------
ResolverStep ==
    \/ \E r \in Requests : Resolve(r)
    \/ AddRepoToSack \/ PrepareComps \/ ResolverLosesRow
    \/ \E S \in SUBSET Packages, c \in BOOLEAN :
          \E order \in SetToSeqs(S) : ResolveRequest(order, c)

SchedulerStep ==
    \/ \E r \in Requests : PickRequest(r)
    \/ RotateQueue \/ FinishScheduling
    \/ \E x \in DOMAIN reb : ChooseRebuild(x)
    \/ CreateCoprProject \/ CreateFromUrl \/ ScheduleRebuild \/ SchedulerAborts

RefreshStep(a) ==
    \/ \E x \in Requests \X Packages : RefreshBuildState(a, x)
    \/ WriteState(a) \/ CommitState(a)

EditStep == ShiftOthers \/ WaitForRequest \/ MoveTop \/ RemoveRebuild

Next ==
    \/ \E r \in Requests, c \in Counts : NewRequest(r, c)
    \/ ResolverStep \/ ResolverCrash
    \/ SchedulerStep \/ SchedulerCrash
    \/ \E b \in DOMAIN builds, s \in Outcomes : CoprBuildEnds(b, s)
    \/ PollCopr
    \/ \E a \in Refreshers : RefreshStep(a) \/ RefreshCrash(a)
    \/ \E x \in DOMAIN reb, action \in {"move-top", "remove"} : LoadRebuild(x, action)
    \/ EditStep \/ EditAbort
    \/ (\E failed \in SUBSET DOMAIN reb : CleanProjects(failed)) \/ CleanRows
    \/ LoseStorage

Spec == Init /\ [][Next]_vars

(* Every service loop runs on, PostgreSQL ends deadlocks, Copr ends builds, a web
   request is answered; crashes, messages, edits and cleanups need not happen. *)
Fairness ==
    /\ WF_vars(ResolverStep) /\ WF_vars(SchedulerStep)
    /\ WF_vars(PollCopr) /\ \A a \in Refreshers : WF_vars(WriteState(a) \/ CommitState(a))
    /\ WF_vars(\E x \in Requests \X Packages : RefreshBuildState("polling", x))
    /\ WF_vars(EditStep \/ EditAbort) /\ WF_vars(CleanRows)
    /\ WF_vars(\E b \in DOMAIN builds, s \in Outcomes : CoprBuildEnds(b, s))

FairSpec == Spec /\ Fairness

-----------------------------------------------------------------------------
(* At most copr.max_builds rebuilds run: the count is taken before the Copr
   calls and the state written after them. *)
CoprWithinLimit == Cardinality(Running) <= MaxBuilds

(* Deleting the leftover project of a crashed scheduler never takes away a build
   that a rebuild records: schedule_rebuild only touches rows without build. *)
RecordedBuildStays ==
    \A x \in DOMAIN reb : reb[x].build # 0 =>
        builds[reb[x].build].x = x /\ builds[reb[x].build].gone # "replaced"

(* A request is finished only when every build completed (models.py). *)
FinishedMeansDone ==
    \A r \in Requests : req[r].state = "finished" =>
        \A x \in Rows(r) : reb[x].state \in Finished

(* prepare_comps of the resolver never meets a comps.xml of an earlier attempt,
   so a crashed resolution can be repeated. *)
CompsNotYetLinked == res.pc = "link" => res.r \notin comps

(* The resolver answers every new request and the scheduler gets through every
   request in progress, past crashes, deleted rows, deadlocks and the limit of
   running builds, unless a failed cleanup left a running rebuild whose Copr
   project is gone: polling then fails on it for ever. *)
Orphaned ==
    \E x \in Running : builds[reb[x].build].gone # "no"
RequestsProceed ==
    []<>(~ Orphaned) => \A r \in Requests, s \in {"new", "in progress"} :
                           req[r].state = s ~> req[r].state # s

(* "Only first `schedule_count` builds are actually submitted" (CoprRebuild). *)
SubmittedWithinCount == \A r \in Requests : Cardinality(Submitted(r)) <= req[r].count
=============================================================================
