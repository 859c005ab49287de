------------------------------ MODULE Database -------------------------------
(****************************************************************************)
(* The PostgreSQL database the services of Koschei share: READ COMMITTED    *)
(* transactions, row locks, and the row triggers on table build.            *)
(*                                                                          *)
(* A process runs one transaction at a time. db holds the committed rows.   *)
(* A row written or locked by an open transaction has that process as       *)
(* xlock and its uncommitted version in work; nobody else can write it, so  *)
(* one working version per row is enough. A process reads its own working   *)
(* versions and the committed version of every other row.                   *)
(*                                                                          *)
(* Three lock strengths matter to the code:                                 *)
(*   SELECT ... FOR UPDATE, DELETE    xlock, and the row is in keyed        *)
(*   UPDATE of non-key columns        xlock only                            *)
(*   foreign key check                share                                 *)
(* A share lock conflicts with the first and not with the second.           *)
(****************************************************************************)
EXTENDS LastBuild

CONSTANTS
    Pollers,       \* instances of service polling
    Watchers,      \* instances of service watcher (fedmsg plugin)
    Schedulers,    \* instances of service scheduler
    Frontends,     \* web frontend processes
    PollParts,     \* parts of Polling.main explored: "builds", "latest"
    WatchTopics    \* topics the watcher is explored with: "task", "tag"

Workers == Pollers \cup Watchers
Procs   == Workers \cup Schedulers \cup Frontends

ASSUME ProcsAssumption ==
    /\ NULL \notin Procs
    /\ Pollers \cap Watchers = {}
    /\ Schedulers \cap (Workers \cup Frontends) = {}
    /\ Workers \cap Frontends = {}

ASSUME PartsAssumption ==
    /\ PollParts \subseteq {"builds", "latest"}
    /\ WatchTopics \subseteq {"task", "tag"}

VARIABLES
    db,            \* committed rows
    work,          \* version of every row as its lock holder sees it
    xlock,         \* holder of the exclusive lock of a row, or NULL
    keyed,         \* rows whose exclusive lock also excludes share locks
    share,         \* <<process, row>>: share locks of foreign key checks
    nextId,        \* build_id_seq
    proc           \* program counter and local variables of every process

dbVars == <<db, work, xlock, keyed, share>>

-----------------------------------------------------------------------------
(* What a process sees, and whom it would have to wait for. *)
View(q) == [r \in Rows |-> IF xlock[r] = q THEN work[r] ELSE db[r]]

WriteBlockers(q, r) == {xlock[r]} \ {q, NULL}

ForUpdateBlockers(q, r) ==
    WriteBlockers(q, r) \cup {o \in Procs \ {q} : <<o, r>> \in share}

ShareBlockers(q, r) == IF r \in keyed THEN WriteBlockers(q, r) ELSE {}

(* UPDATE, INSERT and SELECT ... FOR UPDATE: new versions f of the rows in  *)
(* its domain; key says which of them get the strong lock.                  *)
Write(q, f, key) ==
    /\ work' = [r \in Rows |-> IF r \in DOMAIN f THEN f[r] ELSE work[r]]
    /\ xlock' = [r \in Rows |-> IF r \in DOMAIN f THEN q ELSE xlock[r]]
    /\ keyed' = keyed \cup key
    /\ UNCHANGED db

Release(q) ==
    /\ xlock' = [r \in Rows |-> IF xlock[r] = q THEN NULL ELSE xlock[r]]
    /\ keyed' = {r \in keyed : xlock[r] # q}
    /\ share' = {s \in share : s[1] # q}

Commit(q) ==
    /\ db' = View(q)
    /\ work' = work
    /\ Release(q)

Rollback(q) ==
    /\ work' = [r \in Rows |-> IF xlock[r] = q THEN db[r] ELSE work[r]]
    /\ db' = db
    /\ Release(q)

-----------------------------------------------------------------------------
(* Local state of a process. Each field is a local variable of the handler  *)
(* it is running; fields that a handler does not use keep their idle value. *)
Keep == 0    \* the trigger leaves this pointer alone

IdleProc ==
    [pc |-> "idle", ret |-> "idle", cont |-> "done", p |-> NULL, b |-> NULL, ts |-> "none",
     canceled |-> FALSE, ins |-> FALSE, prev |-> "none", new |-> "none",
     info |-> NULL, last |-> NULL, task |-> NULL,
     lb |-> Keep, lcb |-> Keep, lcs |-> NULL, fires |-> 0,
     todo |-> {}, list |-> {}, infos |-> {}]

Goto(q, l) == proc' = [proc EXCEPT ![q].pc = l]

(* The handler is done, or gave up with a rollback. The polling service     *)
(* goes on with the next running build of its list.                         *)
EndHandler(q) ==
    proc' = [proc EXCEPT ![q] =
                [IdleProc EXCEPT !.list = proc[q].list,
                                 !.pc = IF proc[q].list = {} THEN "idle" ELSE "poll"]]

(* main returns and is called again, or an exception that no handler        *)
(* catches ends the service process, which is started again. Either way the *)
(* open transaction is rolled back.                                         *)
EndService(q) == proc' = [proc EXCEPT ![q] = IdleProc]

-----------------------------------------------------------------------------
(* update_last_build(proc[q].p) run by a trigger, fires times, after which  *)
(* the process goes on at ret. The function first reads; the UPDATEs use    *)
(* what it read even when they had to wait for a lock in between.           *)
NextFiring(q) ==
    proc' = [proc EXCEPT ![q].fires = @ - 1, ![q].lb = Keep, ![q].lcb = Keep,
                         ![q].lcs = NULL,
                         ![q].pc = IF proc[q].fires > 1 THEN "trigger" ELSE proc[q].ret]

TriggerRead(q) ==
    /\ proc[q].pc = "trigger"
    /\ LET v   == View(q)
           p   == proc[q].p
           lb  == LastBuildOf(v, p)
           lcb == LastCompleteBuildOf(v, p)
       IN  IF lb = v[p].last_build /\ lcb = v[p].last_complete_build
           THEN NextFiring(q)
           ELSE proc' = [proc EXCEPT
                   ![q].pc = "trigger_package",
                   ![q].lb = IF lb = v[p].last_build THEN Keep ELSE lb,
                   ![q].lcb = IF lcb = v[p].last_complete_build THEN Keep ELSE lcb,
                   ![q].lcs = IF lcb = v[p].last_complete_build \/ lcb = NULL
                              THEN NULL ELSE v[lcb].state]
    /\ UNCHANGED <<dbVars, nextId>>

(* UPDATE package SET last_build_id / last_complete_build_id, _state *)
TriggerPackage(q) ==
    /\ proc[q].pc = "trigger_package"
    /\ WriteBlockers(q, proc[q].p) = {}
    /\ LET l   == proc[q]
           row == View(q)[l.p]
       IN  Write(q, [r \in {l.p} |->
               [row EXCEPT !.last_build = IF l.lb = Keep THEN @ ELSE l.lb,
                           !.last_complete_build = IF l.lcb = Keep THEN @ ELSE l.lcb,
                           !.last_complete_build_state = IF l.lcb = Keep THEN @ ELSE l.lcs]],
               {})
    /\ Goto(q, "trigger_flags")
    /\ UNCHANGED <<share, nextId>>

(* Builds the new pointers refer to (foreign key checks) and builds whose   *)
(* last_complete flag the last two UPDATEs write                            *)
Referenced(q) == {proc[q].lb, proc[q].lcb} \ {NULL, Keep}

FlaggedNewOnly(q) == {proc[q].lcb} \ {NULL, Keep}

Flagged(q) ==
    IF proc[q].lcb = Keep THEN {}
    ELSE {b \in BuildsOf(View(q), proc[q].p) : View(q)[b].last_complete}
         \cup ({proc[q].lcb} \ {NULL})

TriggerFlagsBlockers(q) ==
    UNION ({ShareBlockers(q, r) : r \in Referenced(q)}
           \cup {WriteBlockers(q, r) : r \in Flagged(q)})

TriggerFlags(q) ==
    /\ proc[q].pc = "trigger_flags"
    /\ TriggerFlagsBlockers(q) = {}
    /\ \A r \in Referenced(q) : View(q)[r] # NULL
    /\ Write(q, [r \in Flagged(q) |->
                    [View(q)[r] EXCEPT !.last_complete = (r = proc[q].lcb)]], {})
    /\ share' = share \cup {<<q, r>> : r \in Referenced(q)}
    /\ NextFiring(q)
    /\ UNCHANGED nextId

(* A referenced build was deleted in the meantime: the foreign key check    *)
(* raises IntegrityError. update_build_state catches it and rolls back; the *)
(* other callers do not, which ends the service.                            *)
TriggerIntegrityError(q) ==
    /\ proc[q].pc = "trigger_flags"
    /\ TriggerFlagsBlockers(q) = {}
    /\ \E r \in Referenced(q) : View(q)[r] = NULL
    /\ Rollback(q)
    /\ IF proc[q].ret = "commit" THEN EndHandler(q) ELSE EndService(q)
    /\ UNCHANGED nextId

Trigger(q) ==
    \/ TriggerRead(q)
    \/ TriggerPackage(q)
    \/ TriggerFlags(q)
    \/ TriggerIntegrityError(q)

(* Whom process q waits for inside a trigger *)
TriggerBlockers(q) ==
    CASE proc[q].pc = "trigger_package" -> WriteBlockers(q, proc[q].p)
      [] proc[q].pc = "trigger_flags"   -> TriggerFlagsBlockers(q)
      [] OTHER                          -> {}

-----------------------------------------------------------------------------
(* DELETE FROM build WHERE id = b by a process that holds its lock: the     *)
(* foreign keys of package, then the trigger update_last_build_del.         *)
DeleteBlockers(q, b, p) ==
    IF View(q)[p].last_build = b THEN WriteBlockers(q, p) ELSE ShareBlockers(q, p)

Delete(q, b, p) ==
    LET pkg == View(q)[p]
        cleared == IF pkg.last_build = b THEN [pkg EXCEPT !.last_build = NULL] ELSE pkg
    IN  /\ DeleteBlockers(q, b, p) = {}
        /\ pkg.last_complete_build # b
        /\ Write(q, [r \in {b} \cup (IF pkg.last_build = b THEN {p} ELSE {}) |->
                        IF r = b THEN NULL ELSE cleared], {b})
        /\ proc' = [proc EXCEPT ![q].fires = IF cleared.last_build = NULL THEN 1 ELSE 0,
                                ![q].ret = "commit",
                                ![q].pc = IF cleared.last_build = NULL
                                          THEN "trigger" ELSE "commit"]
        /\ UNCHANGED share

(* No ON DELETE clause on last_complete_build_id: IntegrityError *)
DeleteRefused(q, b, p) ==
    /\ DeleteBlockers(q, b, p) = {}
    /\ View(q)[p].last_complete_build = b
    /\ Rollback(q)
    /\ EndHandler(q)
=============================================================================
