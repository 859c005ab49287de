------------------------------ MODULE Scheduler ------------------------------
(****************************************************************************)
(* Service scheduler (backend/services/scheduler.py) and submit_build       *)
(* (backend/__init__.py). The order of packages by priority depends on the  *)
(* time of day; the model picks any package that has a priority.            *)
(****************************************************************************)
EXTENDS Database, Koji

CONSTANTS
    MaxBuilds        \* koji_config.max_builds

ASSUME MaxBuildsAssumption == MaxBuilds \in Nat

CountBuildsOffByOne(q) ==
    /\ proc[q].pc = "idle"
    /\ Cardinality(RunningBuilds(db)) =< MaxBuilds
    /\ Goto(q, "priorities")
    /\ UNCHANGED <<dbVars, nextId, kojiVars>>

(* Scheduler.main: too many running builds, or read the priorities *)
CountBuilds(q) ==
    /\ proc[q].pc = "idle"
    /\ Cardinality(RunningBuilds(db)) < MaxBuilds
    /\ Goto(q, "priorities")
    /\ UNCHANGED <<dbVars, nextId, kojiVars>>

(* todo: the packages above the threshold *)
ReadPriorities(q) ==
    /\ proc[q].pc = "priorities"
    /\ \E C \in SUBSET {p \in Packages : HasPriority(db[p])} :
          proc' = [proc EXCEPT ![q].todo = C, ![q].pc = IF C = {} THEN "idle" ELSE "pick"]
    /\ UNCHANGED <<dbVars, nextId, kojiVars>>

(* No package left above the threshold, or Koji is too busy. run_service    *)
(* rolls the transaction back.                                              *)
Stop(q) ==
    /\ proc[q].pc = "pick"
    /\ Rollback(q)
    /\ EndService(q)
    /\ UNCHANGED <<nextId, kojiVars>>

(* The SRPM headers list no allowed arch. The change stays in the ORM       *)
(* session until the query for the next package flushes it; after the last  *)
(* package there is none and Stop drops it.                                 *)
NoAllowedArch(q, p) ==
    /\ proc[q].pc = "pick"
    /\ p \in proc[q].todo
    /\ proc[q].todo # {p}
    /\ proc' = [proc EXCEPT ![q].p = p, ![q].todo = @ \ {p}, ![q].pc = "flush"]
    /\ UNCHANGED <<dbVars, nextId, kojiVars>>

FlushSkipped(q) ==
    /\ proc[q].pc = "flush"
    /\ WriteBlockers(q, proc[q].p) = {}
    /\ Write(q, [r \in {proc[q].p} |->
                    [View(q)[r] EXCEPT !.manual_priority = @ - 1000]], {})
    /\ Goto(q, "pick")
    /\ UNCHANGED <<share, nextId, kojiVars>>

(* Koji has no SRPM headers for the last complete build *)
NoSrpmHeaders(q, p) ==
    /\ proc[q].pc = "pick"
    /\ p \in proc[q].todo
    /\ proc' = [proc EXCEPT ![q].p = p, ![q].pc = "skip"]
    /\ UNCHANGED <<dbVars, nextId, kojiVars>>

-----------------------------------------------------------------------------
(* submit_build: the task is created in Koji, then the row is inserted *)
SubmitTask(q, p) ==
    /\ proc[q].pc = "pick"
    /\ p \in proc[q].todo
    /\ IF tagged[p] = 0
       THEN /\ proc' = [proc EXCEPT ![q].p = p, ![q].cont = "reset", ![q].pc = "skip"]
            /\ UNCHANGED kojiVars
       ELSE /\ clock + 1 \in Stamps
            /\ NewScratchTask
            /\ proc' = [proc EXCEPT ![q].p = p, ![q].task = clock,
                                    ![q].info = tagged[p], ![q].pc = "insert"]
            /\ UNCHANGED <<real, tagged, moves>>
    /\ UNCHANGED <<dbVars, nextId>>

(* The foreign key check of the new row shares the package, then the        *)
(* trigger runs                                                             *)
InsertBuild(q) ==
    /\ proc[q].pc = "insert"
    /\ ShareBlockers(q, proc[q].p) = {}
    /\ nextId \in BuildIds
    /\ clock \in Stamps
    /\ Write(q, [r \in {nextId} |->
           [package |-> proc[q].p, state |-> RUNNING, task |-> proc[q].task,
            started |-> clock, ver |-> proc[q].info, real |-> FALSE,
            untagged |-> FALSE, last_complete |-> FALSE, cancel_requested |-> FALSE]], {})
    /\ share' = share \cup {<<q, proc[q].p>>}
    /\ clock' = clock + 1
    /\ nextId' = nextId + 1
    /\ proc' = [proc EXCEPT ![q].fires = 1, ![q].ret = "reset", ![q].pc = "trigger"]
    /\ UNCHANGED <<koji, real, tagged, moves>>

ResetBlockers(q) ==
    IF View(q)[proc[q].p].manual_priority = 0 THEN {} ELSE WriteBlockers(q, proc[q].p)

ResetPriority(q) ==
    /\ proc[q].pc = "reset"
    /\ ResetBlockers(q) = {}
    /\ LET row == View(q)[proc[q].p]
       IN  Write(q, [r \in (IF row.manual_priority = 0 THEN {} ELSE {proc[q].p}) |->
                        [row EXCEPT !.manual_priority = 0]], {})
    /\ Goto(q, "submitted")
    /\ UNCHANGED <<share, nextId, kojiVars>>

SubmitCommit(q) ==
    /\ proc[q].pc = "submitted"
    /\ Commit(q)
    /\ EndService(q)
    /\ UNCHANGED <<nextId, kojiVars>>

-----------------------------------------------------------------------------
(* skip_no_srpm *)
SkipPackage(q) ==
    /\ proc[q].pc = "skip"
    /\ WriteBlockers(q, proc[q].p) = {}
    /\ Write(q, [r \in {proc[q].p} |->
           [View(q)[r] EXCEPT !.resolved = NULL, !.last_build = NULL,
                              !.last_complete_build = NULL,
                              !.last_complete_build_state = NULL,
                              !.manual_priority = IF proc[q].cont = "reset" THEN 0 ELSE @]],
           {})
    /\ Goto(q, "skip_flags")
    /\ UNCHANGED <<share, nextId, kojiVars>>

SkipFlagged(q) == {b \in BuildsOf(View(q), proc[q].p) : View(q)[b].last_complete}

SkipFlagsBlockers(q) == UNION {WriteBlockers(q, b) : b \in SkipFlagged(q)}

SkipFlags(q) ==
    /\ proc[q].pc = "skip_flags"
    /\ SkipFlagsBlockers(q) = {}
    /\ Write(q, [r \in SkipFlagged(q) |-> [View(q)[r] EXCEPT !.last_complete = FALSE]], {})
    /\ Goto(q, "skipped")
    /\ UNCHANGED <<share, nextId, kojiVars>>

SkipCommit(q) ==
    /\ proc[q].pc = "skipped"
    /\ Commit(q)
    /\ LET rest == proc[q].todo \ {proc[q].p}
       IN  proc' = [proc EXCEPT ![q] =
                       [IdleProc EXCEPT !.todo = rest,
                                        !.pc = IF rest = {} THEN "idle" ELSE "pick"]]
    /\ UNCHANGED <<nextId, kojiVars>>

Schedule(q) ==
    \/ CountBuilds(q)
    \/ ReadPriorities(q)
    \/ Stop(q)
    \/ \E p \in Packages : NoAllowedArch(q, p) \/ NoSrpmHeaders(q, p) \/ SubmitTask(q, p)
    \/ FlushSkipped(q)
    \/ InsertBuild(q)
    \/ ResetPriority(q)
    \/ SubmitCommit(q)
    \/ SkipPackage(q)
    \/ SkipFlags(q)
    \/ SkipCommit(q)

SchedulerBlockers(q) ==
    CASE proc[q].pc = "insert"     -> ShareBlockers(q, proc[q].p)
      [] proc[q].pc = "reset"      -> ResetBlockers(q)
      [] proc[q].pc \in {"flush", "skip"} -> WriteBlockers(q, proc[q].p)
      [] proc[q].pc = "skip_flags" -> SkipFlagsBlockers(q)
      [] OTHER                     -> {}
=============================================================================
