----------------------------- MODULE TaskProofs -----------------------------
(****************************************************************************)
(* The scratch tasks Koschei has running in Koji: none of them is forgotten *)
(* and one scheduler never has too many builds running.                     *)
(*                                                                          *)
(* Neither property is inductive. A task is safe because whoever is about   *)
(* to delete its build knows that the task has ended, and because the       *)
(* scheduler that created it keeps the row it has inserted locked until its *)
(* commit. The limit holds because the scheduler inserts one row between    *)
(* its count and its commit, and no other service makes a build run.        *)
(****************************************************************************)
EXTENDS BuildProofs

-----------------------------------------------------------------------------
(* The steps of a scheduler *)
LEMMA SchedulerActs ==
    ASSUME NEW q \in Schedulers, Acts(q)
    PROVE  \/ Die(q)
           \/ Schedule(q) /\ UNCHANGED lost
           \/ TriggerStep(q)
<1>1. q \notin Pollers /\ q \notin Watchers /\ q \notin Workers /\ q \notin Frontends
  BY ProcsAssumption DEF Workers
<1>q. QED
  BY <1>1 DEF Acts, Step, Crash, DeadlockAbort

(* The program counters at which a scheduler may hold a task *)
TaskPCs == {"insert", "reset", "submitted"} \cup TriggerPCs

LEMMA ScheduleTask ==
    ASSUME TypeInv, NEW q \in Procs, Schedule(q)
    PROVE  \/ /\ \E p \in Packages : SubmitTask(q, p)
              /\ proc[q].pc = "pick"
              /\ \/ proc'[q].task = proc[q].task /\ UNCHANGED koji
                 \/ /\ proc'[q].task = clock /\ proc'[q].pc = "insert"
                    /\ koji' = [koji EXCEPT ![clock] = "FREE"]
           \/ /\ InsertBuild(q) /\ proc[q].pc = "insert" /\ proc'[q].task = proc[q].task
              /\ proc'[q].pc = "trigger" /\ proc'[q].ret = "reset" /\ UNCHANGED koji
           \/ /\ ResetPriority(q) /\ proc[q].pc = "reset" /\ proc'[q].task = proc[q].task
              /\ proc'[q].pc = "submitted" /\ UNCHANGED koji
           \/ /\ SubmitCommit(q) /\ proc[q].pc = "submitted" /\ proc'[q].task = NULL
              /\ proc'[q].pc = "idle" /\ UNCHANGED koji
           \/ /\ proc[q].pc \notin TaskPCs /\ proc'[q].task \in {proc[q].task, NULL}
              /\ proc'[q].pc \notin TaskPCs /\ UNCHANGED koji
              /\ proc[q].pc = "idle" => CountBuilds(q)
<1>1. proc \in [Procs -> Local] /\ proc[q] \in Local
  BY DEF TypeInv, Locals
<1>2. ASSUME NEW p \in Packages, SubmitTask(q, p)
      PROVE  \/ proc'[q].task = proc[q].task /\ UNCHANGED koji
             \/ /\ proc'[q].task = clock /\ proc'[q].pc = "insert"
                /\ koji' = [koji EXCEPT ![clock] = "FREE"]
  BY <1>1, <1>2 DEF SubmitTask, NewScratchTask, kojiVars, Local
<1>3. CASE InsertBuild(q)
  BY <1>1, <1>3 DEF InsertBuild, Local
<1>4. CASE ResetPriority(q)
  BY <1>1, <1>4 DEF ResetPriority, Goto, Local, kojiVars
<1>5. CASE SubmitCommit(q)
  BY <1>1, <1>5 DEF SubmitCommit, EndService, IdleProc, kojiVars
<1>6. CASE Stop(q)
  BY <1>1, <1>6 DEF Stop, EndService, IdleProc, kojiVars, TaskPCs, TriggerPCs
<1>7. CASE CountBuilds(q) \/ FlushSkipped(q) \/ SkipPackage(q) \/ SkipFlags(q)
  BY <1>1, <1>7 DEF CountBuilds, FlushSkipped, SkipPackage, SkipFlags, Goto, kojiVars, TaskPCs,
                    TriggerPCs, Local
<1>8. CASE ReadPriorities(q)
  <2>1. PICK C \in SUBSET {p \in Packages : HasPriority(db[p])} :
           proc' = [proc EXCEPT ![q].todo = C, ![q].pc = IF C = {} THEN "idle" ELSE "pick"]
    BY <1>8 DEF ReadPriorities
  <2>q. QED
    BY <1>1, <1>8, <2>1 DEF ReadPriorities, kojiVars, TaskPCs, TriggerPCs, Local
<1>9. ASSUME NEW p \in Packages, NoAllowedArch(q, p) \/ NoSrpmHeaders(q, p)
      PROVE  /\ proc[q].pc \notin TaskPCs /\ proc[q].pc # "idle"
             /\ proc'[q].task = proc[q].task
             /\ proc'[q].pc \notin TaskPCs /\ UNCHANGED koji
  BY <1>1, <1>9 DEF NoAllowedArch, NoSrpmHeaders, kojiVars, TaskPCs, TriggerPCs, Local
<1>10. CASE SkipCommit(q)
  <2> DEFINE rest == proc[q].todo \ {proc[q].p}
             pc == IF rest = {} THEN "idle" ELSE "pick"
  <2>1. proc' = [proc EXCEPT ![q] = [IdleProc EXCEPT !.todo = rest, !.pc = pc]]
    BY <1>10 DEF SkipCommit
  <2>2. pc \in {"idle", "pick"}
    OBVIOUS
  <2> HIDE DEF rest, pc
  <2>3. proc'[q].task = NULL /\ proc'[q].pc = pc
    BY <1>1, <2>1 DEF IdleProc
  <2>q. QED
    BY <1>10, <2>2, <2>3 DEF SkipCommit, kojiVars, TaskPCs, TriggerPCs
<1>q. QED
  BY <1>2, <1>3, <1>4, <1>5, <1>6, <1>7, <1>8, <1>9, <1>10 DEF Schedule, SubmitTask

LEMMA TriggerTask ==
    ASSUME TypeInv, NEW q \in Procs, Trigger(q)
    PROVE  /\ proc[q].pc \in TriggerPCs
           /\ \/ TriggerIntegrityError(q)
              \/ /\ proc'[q].task = proc[q].task /\ Fires(q)
                 /\ Updating(q) \/ UNCHANGED <<db, work, xlock>>
<1>1. proc \in [Procs -> Local] /\ proc[q] \in Local
  BY DEF TypeInv, Locals
<1>2. NextFiring(q) => proc'[q].task = proc[q].task
  BY <1>1 DEF NextFiring, Local
<1>3. ASSUME TriggerRead(q)
      PROVE  proc'[q].task = proc[q].task
  <2> DEFINE v   == View(q)
             p   == proc[q].p
             lb  == LastBuildOf(v, p)
             lcb == LastCompleteBuildOf(v, p)
             x   == IF lb = v[p].last_build THEN Keep ELSE lb
             y   == IF lcb = v[p].last_complete_build THEN Keep ELSE lcb
             z   == IF lcb = v[p].last_complete_build \/ lcb = NULL THEN NULL ELSE v[lcb].state
  <2>1. CASE proc' = [proc EXCEPT ![q].pc = "trigger_package", ![q].lb = x, ![q].lcb = y,
                                  ![q].lcs = z]
    BY <1>1, <2>1 DEF Local
  <2>q. QED
    BY <1>2, <1>3, <2>1 DEF TriggerRead
<1>4. TriggerPackage(q) => proc'[q].task = proc[q].task
  BY <1>1 DEF TriggerPackage, Goto, Local
<1>5. TriggerIntegrityError(q) \/ proc'[q].task = proc[q].task
  BY <1>2, <1>3, <1>4 DEF Trigger, TriggerFlags
<1>6. proc[q].pc \in TriggerPCs
  BY DEF Trigger, TriggerRead, TriggerPackage, TriggerFlags, TriggerIntegrityError, TriggerPCs
<1>7. TriggerIntegrityError(q) \/ Fires(q)
  BY TriggerMoves
<1>q. QED
  BY <1>5, <1>6, <1>7, TriggerShape


-----------------------------------------------------------------------------
(* The task of a build that has been deleted, or is about to be, has ended; *)
(* a task that a scheduler holds is the one it is about to insert, or that  *)
(* of a row it has inserted and keeps locked                                *)
GoneEnded ==
    \A b \in BuildIds : (db[b] # NULL /\ work[b] = NULL) => koji[db[b].task] \in Ended

Deleting(q) ==
    LET l == proc[q]
    IN  (l.pc = "lock" /\ l.canceled) \/ l.pc = "delete" => TaskIn(l.b, Ended)

Carried(q) ==
    \E b \in BuildIds : xlock[b] = q /\ work[b] # NULL /\ work[b].task = proc[q].task

Carrying(q) ==
    proc[q].task # NULL =>
        \/ proc[q].pc = "insert"
        \/ At(proc[q]) \in {"reset", "submitted"} /\ Carried(q)

TrackInv ==
    /\ GoneEnded
    /\ \A q \in Procs : Deleting(q)
    /\ \A q \in Schedulers : Carrying(q)
    /\ OpenTasksTracked

LEMMA NextGone ==
    ASSUME TypeInv, KojiInv, GoneEnded, \A q \in Procs : Deleting(q), [Next]_vars
    PROVE  GoneEnded'
<1>1. SUFFICES ASSUME NEW b \in BuildIds, db'[b] # NULL, work'[b] = NULL
               PROVE  koji'[db'[b].task] \in Ended
  BY DEF GoneEnded
<1>2. CASE RowStep(b)
  <2>1. db[b] # NULL /\ work[b] = NULL /\ db'[b] = db[b]
    BY <1>1, <1>2 DEF RowStep, Kept
  <2>2. koji[db[b].task] \in Ended /\ db[b].task \in Stamps
    BY <2>1, CommittedRow DEF GoneEnded
  <2>q. QED
    BY <2>1, <2>2, NextKoji DEF EndedStay
<1>3. ASSUME NEW q \in Procs, Deletes(q, b)
      PROVE  koji'[db'[b].task] \in Ended
  <2>1. TaskIn(b, Ended)
    BY <1>3 DEF Deleting, Deletes
  <2>2. TaskIn(b, Ended)'
    BY <2>1, TaskInStays
  <2>q. QED
    BY <1>1, <2>2 DEF TaskIn
<1>q. QED
  BY <1>1, <1>2, <1>3, NextRows DEF BuildStep, Finishes, Inserts, Registers

LEMMA DeletingHeld ==
    ASSUME TypeInv, KojiInv, [Next]_vars, NEW o \in Procs, Deleting(o), proc'[o] = proc[o]
    PROVE  Deleting(o)'
<1>1. SUFFICES ASSUME (proc[o].pc = "lock" /\ proc[o].canceled) \/ proc[o].pc = "delete"
               PROVE  TaskIn(proc[o].b, Ended)'
  BY DEF Deleting
<1>2. PICK b \in BuildIds : b = proc[o].b
  BY <1>1, UpdateLocals DEF UpdatePCs
<1>3. TaskIn(b, Ended)'
  BY <1>1, <1>2, TaskInStays DEF Deleting
<1>q. QED
  BY <1>2, <1>3

LEMMA DecideDeleting ==
    ASSUME TypeInv, UniqueInv, KojiInv, [Next]_vars, NEW q \in Procs, Hearing(q), Decide(q)
    PROVE  Deleting(q)'
<1> DEFINE final    == KojiStateMap(proc[q].ts) # NULL
           canceled == proc[q].ts = "CANCELED"
           giveup   == ~ canceled /\ ~ final /\ GiveUp(proc[q].b)
           c == canceled \/ giveup
           pc == IF canceled \/ giveup \/ final THEN "lock" ELSE "sync"
<1>1. proc \in [Procs -> Local] /\ proc[q] \in Local /\ proc[q].pc = "decide"
  BY DEF TypeInv, Locals, Decide
<1>2. /\ proc' = [proc EXCEPT ![q].canceled = c, ![q].p = db[proc[q].b].package, ![q].pc = pc]
      /\ pc \in {"lock", "sync"} /\ (giveup => AbandonTask(proc[q].b))
  BY DEF Decide
<1>3. PICK b \in BuildIds : b = proc[q].b
  BY <1>1, UpdateLocals DEF UpdatePCs
<1>4. db[b] # NULL /\ UNCHANGED <<db, work, nextId>>
  BY <1>3 DEF Decide, dbVars
<1>5. b < nextId /\ koji[db[b].task] \in TaskStates /\ db[b].task \in Stamps
  BY <1>4, CommittedRow
<1>6. work[b] # NULL => work[b].task = db[b].task
  BY <1>4 DEF UniqueInv, IdentKept, SameIdent
<1>7. ASSUME canceled
      PROVE  TaskIn(b, Ended)'
  <2>1. TaskIn(b, Means("CANCELED"))
    BY <1>1, <1>3, <1>7 DEF Hearing, Heard
  <2>2. TaskIn(b, Ended)
    BY <2>1 DEF TaskIn, Means
  <2>q. QED
    BY <2>2, TaskInStays
<1>8. ASSUME giveup
      PROVE  TaskIn(b, Ended)'
  <2>1. CancelTask(db[b].task) /\ koji \in [Stamps -> TaskStates \cup {NULL}]
    BY <1>2, <1>3, <1>8 DEF AbandonTask, TypeInv, KojiType
  <2>2. koji'[db[b].task] \in Ended
    BY <1>5, <2>1 DEF CancelTask, Ended, TaskStates
  <2>q. QED
    BY <1>4, <1>5, <1>6, <2>2 DEF TaskIn
<1>9. c => TaskIn(b, Ended)'
  BY <1>7, <1>8
<1> HIDE DEF c, pc
<1>10. /\ proc'[q].canceled = c /\ proc'[q].b = b /\ proc'[q].pc \in {"lock", "sync"}
  BY <1>1, <1>2, <1>3 DEF Local
<1>q. QED
  BY <1>9, <1>10 DEF Deleting

LEMMA LockBuildDeleting ==
    ASSUME TypeInv, KojiInv, [Next]_vars, NEW q \in Procs, Hearing(q), Deleting(q), LockBuild(q)
    PROVE  Deleting(q)'
<1>1. proc[q].pc = "lock"
  BY DEF LockBuild
<1>2. PICK b \in BuildIds : b = proc[q].b
  BY <1>1, UpdateLocals DEF UpdatePCs
<1>3. TaskIn(b, Ended)
  <2>1. CASE proc[q].canceled
    BY <1>1, <1>2, <2>1 DEF Deleting
  <2>2. CASE ~ proc[q].canceled
    <3>1. proc[q].ts \in {"CLOSED", "FAILED"}
      BY <1>1, <2>2 DEF TypeInv, ProcInv, LocalOK, KojiStateMap
    <3>q. QED
      BY <1>1, <1>2, <3>1 DEF Hearing, Heard, TaskIn, Means
  <2>q. QED
    BY <2>1, <2>2
<1>4. TaskIn(b, Ended)' /\ proc'[q].b = b
  BY <1>2, <1>3, TaskInStays, HandlesFields DEF Handles
<1>q. QED
  BY <1>4 DEF Deleting

LEMMA NextDeleting ==
    ASSUME TypeInv, UniqueInv, KojiInv, [Next]_vars, NEW q \in Procs, Hearing(q), Deleting(q)
    PROVE  Deleting(q)'
<1>1. CASE Acts(q)
  <2>1. ASSUME proc'[q].pc \notin {"lock", "delete"}
        PROVE  Deleting(q)'
    BY <2>1 DEF Deleting
  <2>2. CASE Handles(q)
    BY <2>1, <2>2, HandlesFields, DecideDeleting, LockBuildDeleting
  <2>3. CASE Fires(q)
    BY <2>1, <2>3, FiresFields DEF TriggerPCs
  <2>4. CASE Resets(q) \/ Aside(q) \/ DeletesRow(q) \/ EmitsNext(q)
    BY <2>1, <2>4, DeletesFields, EmitsFields DEF Resets, Aside, At, UpdatePCs, TriggerPCs
  <2>5. CASE UNCHANGED proc
    BY <2>5, DeletingHeld
  <2>q. QED
    BY <1>1, <2>2, <2>3, <2>4, <2>5, Moves
<1>2. CASE ~ Acts(q)
  BY <1>2, DeletingHeld, OthersHeld, EnvHeld
<1>q. QED
  BY <1>1, <1>2


-----------------------------------------------------------------------------
(* What a scheduler that holds a task does with it *)
LEMMA CarryingHeld ==
    ASSUME TypeInv, NEW o \in Procs, Carrying(o), Held(o), proc'[o] = proc[o]
    PROVE  Carrying(o)'
<1>1. Carried(o) => Carried(o)'
  BY DEF Carried, Held, Rows
<1>q. QED
  BY <1>1 DEF Carrying

LEMMA UpdatingCarries ==
    ASSUME TypeInv, NEW q \in Procs, Updating(q) \/ UNCHANGED <<db, work, xlock>>, Carried(q),
           proc'[q].task = proc[q].task
    PROVE  Carried(q)'
<1>1. PICK b \in BuildIds : xlock[b] = q /\ work[b] # NULL /\ work[b].task = proc[q].task
  BY DEF Carried
<1>2. b \in Rows
  BY DEF Rows
<1>3. xlock'[b] = q
  BY <1>1, <1>2, FiresKeepsLocks
<1>4. work'[b] # NULL /\ work'[b].task = work[b].task
  BY <1>1, UpdatingRows DEF Kept, SameIdent
<1>q. QED
  BY <1>1, <1>3, <1>4 DEF Carried

LEMMA NextCarrying ==
    ASSUME TypeInv, NEW q \in Schedulers, Carrying(q), Acts(q)
    PROVE  Carrying(q)'
<1>1. q \in Procs /\ proc \in [Procs -> Local] /\ proc[q] \in Local
  BY DEF Procs, TypeInv, Locals
<1>2. ASSUME EndService(q) \/ EndHandler(q)
      PROVE  Carrying(q)'
  <2>1. proc'[q].task = NULL
    <3>1. CASE EndService(q)
      BY <1>1, <3>1 DEF EndService, IdleProc
    <3>2. CASE EndHandler(q)
      BY <1>1, <3>2 DEF EndHandler, IdleProc
    <3>q. QED
      BY <1>2, <3>1, <3>2
  <2>q. QED
    BY <2>1 DEF Carrying
<1>3. CASE Trigger(q)
  <2>1. CASE TriggerIntegrityError(q)
    BY <1>2, <2>1 DEF TriggerIntegrityError
  <2>2. CASE ~ TriggerIntegrityError(q)
    <3>1. /\ proc[q].pc \in TriggerPCs /\ proc'[q].task = proc[q].task /\ Fires(q)
          /\ Updating(q) \/ UNCHANGED <<db, work, xlock>>
      BY <1>1, <1>3, <2>2, TriggerTask
    <3>2. At(proc'[q]) = At(proc[q]) /\ proc[q].pc # "insert"
      BY <1>1, <3>1, FiresFields DEF TriggerPCs
    <3>q. QED
      BY <1>1, <3>1, <3>2, UpdatingCarries DEF Carrying
  <2>q. QED
    BY <2>1, <2>2
<1>4. CASE Schedule(q)
  <2>1. CASE InsertBuild(q)
    <3>1. nextId \in BuildIds /\ BuildIds \subseteq Rows
      BY <2>1 DEF InsertBuild, Rows
    <3>2. work'[nextId] # NULL /\ work'[nextId].task = proc[q].task /\ xlock'[nextId] = q
      <4> DEFINE row == [package |-> proc[q].p, state |-> RUNNING, task |-> proc[q].task,
                         started |-> clock, ver |-> proc[q].info, real |-> FALSE,
                         untagged |-> FALSE, last_complete |-> FALSE,
                         cancel_requested |-> FALSE]
      <4>1. /\ proc[q].p \in Packages /\ proc[q].info \in Versions /\ proc[q].task \in Stamps
            /\ clock \in Stamps
        BY <1>1, <2>1 DEF InsertBuild, TypeInv, ProcInv, LocalOK, NoPackagePCs
      <4>2. row \in BuildRow /\ row.task = proc[q].task
        BY <4>1 DEF BuildRow
      <4>3. work'[nextId] = row /\ xlock'[nextId] = q
        BY <2>1, <3>1 DEF InsertBuild, Write
      <4>q. QED
        BY <4>2, <4>3, NullAssumption
    <3>3. /\ proc'[q].pc = "trigger" /\ proc'[q].ret = "reset"
          /\ proc'[q].task = proc[q].task
      BY <1>1, <2>1 DEF InsertBuild, Local
    <3>4. Carried(q)'
      BY <3>1, <3>2, <3>3 DEF Carried
    <3>q. QED
      BY <3>3, <3>4 DEF Carrying, At, TriggerPCs
  <2>2. CASE ResetPriority(q)
    <3>1. /\ proc[q].pc = "reset" /\ proc'[q].pc = "submitted" /\ proc'[q].task = proc[q].task
      BY <1>1, <2>2 DEF ResetPriority, Goto, Local
    <3>2. Updating(q)
      BY <1>1, <2>2, PackageWrites
    <3>q. QED
      BY <1>1, <3>1, <3>2, UpdatingCarries DEF Carrying, At, TriggerPCs
  <2>3. CASE SubmitCommit(q)
    BY <1>2, <2>3 DEF SubmitCommit
  <2>4. CASE proc[q].pc \notin TaskPCs
    <3>1. proc[q].task = NULL
      BY <2>4 DEF Carrying, At, TaskPCs
    <3>2. proc'[q].task = NULL \/ proc'[q].pc = "insert"
      BY <1>1, <1>4, <2>4, <3>1, ScheduleTask DEF TaskPCs
    <3>q. QED
      BY <3>2 DEF Carrying
  <2>q. QED
    BY <1>1, <1>4, <2>1, <2>2, <2>3, <2>4, ScheduleTask DEF TaskPCs, TriggerPCs
<1>q. QED
  BY <1>2, <1>3, <1>4, SchedulerActs DEF Die, TriggerStep


(* Only a scheduler submits and inserts *)
LEMMA SubmitsScheduler ==
    ASSUME TypeInv, NEW q \in Procs, Step(q), proc[q].pc \in {"pick", "insert"}
    PROVE  q \in Schedulers
<1>1. ~ UpdateBuildState(q)
  BY DEF UpdateBuildState, Decide, DecideDeleted, LockBuildDone, LockBuild, DeleteBuild,
         LockPackage, SyncRunning, SyncDeleted, CommitBuild, Emit
<1>2. ~ PollStep(q)
  BY <1>1 DEF PollStep, PollInfos, PollRows, PollNext
<1>3. ~ RealStep(q)
  BY DEF RealStep, RegisterRealBuilds, RefreshLatestBuilds, RegisterNoRepo, RegisterLock,
         RegisterCommit, Untag, UntagRegistered, Retag, UpdateRow, RefreshCommit
<1>4. ~ TriggerStep(q)
  BY DEF TriggerStep, Trigger, TriggerRead, TriggerPackage, TriggerFlags, TriggerIntegrityError
<1>5. ASSUME ServeRequest(q)
      PROVE  q \in Schedulers
  BY <1>5 DEF ServeRequest, RequestCancel, MarkCanceled, EditPriority
<1>q. QED
  BY <1>1, <1>2, <1>3, <1>4, <1>5 DEF Step, RefreshPackage, WatchTask, WatchTag

(* A task that runs after a step ran before it or has just been submitted *)
LEMMA NewTasks ==
    ASSUME TypeInv, KojiInv, [Next]_vars, NEW t \in Stamps, koji'[t] \in Unfinished,
           koji[t] \notin Unfinished
    PROVE  \E q \in Schedulers : proc'[q].task = t
<1>1. koji \in [Stamps -> TaskStates \cup {NULL}] /\ koji'[t] # koji[t]
  BY DEF TypeInv, KojiType
<1>2. PICK q \in Procs : Step(q)
  <2>1. ASSUME KojiStep
        PROVE  FALSE
    <3>1. ASSUME NEW x \in Stamps, KojiOpenTask(x) \/ KojiEndTask(x)
          PROVE  FALSE
      BY <1>1, <3>1 DEF KojiOpenTask, KojiEndTask, Unfinished
    <3>2. ASSUME NEW p \in Packages, KojiRealBuild(p)
          PROVE  FALSE
      <4>1. PICK s \in {"CLOSED", "NOREPO"} : koji' = [koji EXCEPT ![clock] = s]
        BY <3>2 DEF KojiRealBuild
      <4>q. QED
        BY <1>1, <4>1 DEF Unfinished
    <3>3. ASSUME NEW p \in Packages, KojiTag(p)
          PROVE  FALSE
      BY <1>1, <3>3 DEF KojiTag
    <3>q. QED
      BY <2>1, <3>1, <3>2, <3>3 DEF KojiStep
  <2>q. QED
    BY <1>1, <2>1 DEF Next, Crash, DeadlockAbort, Die, Resolve, PassTimeout, kojiVars, vars
<1>3. ~ Decide(q)
  <2>1. SUFFICES ASSUME Decide(q)
                 PROVE  FALSE
    OBVIOUS
  <2>2. \A x : CancelTask(x) => koji'[t] \in {koji[t], "CANCELED"}
    BY <1>1 DEF CancelTask
  <2>q. QED
    BY <1>1, <2>1, <2>2 DEF Decide, AbandonTask, Unfinished
<1>4. PICK p \in Packages : SubmitTask(q, p)
  BY <1>1, <1>2, <1>3, StepKoji
<1>5. q \in Schedulers
  BY <1>2, <1>4, SubmitsScheduler DEF SubmitTask
<1>6. Schedule(q)
  BY <1>4 DEF Schedule
<1>7. proc'[q].task = clock /\ koji' = [koji EXCEPT ![clock] = "FREE"]
  BY <1>1, <1>4, <1>6, ScheduleTask DEF SubmitTask, InsertBuild, ResetPriority, SubmitCommit
<1>q. QED
  BY <1>1, <1>5, <1>7

LEMMA LostGrows ==
    ASSUME TypeInv, [Next]_vars
    PROVE  lost \subseteq lost'
BY DEF Next, Step, Crash, DeadlockAbort, Die, Resolve, TriggerStep, vars

LEMMA NextTracked ==
    ASSUME TypeInv, UniqueInv, KojiInv, TrackInv, [Next]_vars
    PROVE  OpenTasksTracked'
<1>1. SUFFICES ASSUME NEW t \in Stamps, koji'[t] \in Unfinished
               PROVE  \/ t \in lost'
                      \/ \E b \in BuildIds : db'[b] # NULL /\ db'[b].task = t
                      \/ \E q \in Schedulers : proc'[q].task = t
  BY DEF OpenTasksTracked
<1>2. CASE koji[t] \notin Unfinished
  BY <1>1, <1>2, NewTasks
<1>3. CASE t \in lost
  BY <1>3, LostGrows
<1>4. ASSUME koji[t] \in Unfinished, NEW b \in BuildIds, db[b] # NULL, db[b].task = t
      PROVE  db'[b] # NULL /\ db'[b].task = t
  <2>1. work[b] # NULL /\ work[b].task = t
    BY <1>4 DEF TrackInv, GoneEnded, Ended, Unfinished, UniqueInv, IdentKept, SameIdent
  <2>q. QED
    BY <1>4, <2>1, NextRows
       DEF RowStep, BuildStep, Finishes, Deletes, Inserts, Registers, Kept, SameIdent
<1>5. ASSUME NEW q \in Schedulers, proc[q].task = t
      PROVE  \/ t \in lost'
             \/ \E b \in BuildIds : db'[b] # NULL /\ db'[b].task = t
             \/ proc'[q].task = t
  <2>1. q \in Procs /\ proc[q].task # NULL /\ Carrying(q)
    BY <1>5, RowsAssumption DEF Procs, Stamps, TrackInv
  <2>2. CASE ~ Acts(q)
    BY <1>5, <2>1, <2>2, OthersHeld, EnvHeld
  <2>3. CASE Die(q)
    BY <1>5, <2>1, <2>3 DEF Die
  <2>4. CASE TriggerStep(q)
    <3>1. CASE TriggerIntegrityError(q)
      <4>1. proc[q].pc = "trigger_flags" /\ proc[q].ret # "commit"
        BY <2>1, <3>1 DEF TriggerIntegrityError, Carrying, At, TriggerPCs
      <4>2. proc'[q] = IdleProc
        BY <2>1, <3>1, <4>1 DEF TriggerIntegrityError, EndService, TypeInv, Locals
      <4>q. QED
        BY <1>5, <2>1, <2>4, <4>2 DEF TriggerStep
    <3>q. QED
      BY <1>5, <2>1, <2>4, <3>1, TriggerTask DEF TriggerStep
  <2>5. CASE Schedule(q)
    <3>1. CASE SubmitCommit(q)
      <4>1. PICK b \in BuildIds : xlock[b] = q /\ work[b] # NULL /\ work[b].task = t
        BY <1>5, <2>1, <3>1 DEF SubmitCommit, Carrying, Carried
      <4>q. QED
        BY <3>1, <4>1 DEF SubmitCommit, Commit, View, Rows
    <3>2. proc[q].pc \in TaskPCs
      BY <2>1 DEF Carrying, At, TaskPCs
    <3>q. QED
      BY <1>5, <2>1, <2>5, <3>1, <3>2, ScheduleTask DEF TaskPCs, TriggerPCs
  <2>q. QED
    BY <2>2, <2>3, <2>4, <2>5, SchedulerActs
<1>q. QED
  BY <1>1, <1>2, <1>3, <1>4, <1>5 DEF TrackInv, OpenTasksTracked

LEMMA NextTrack ==
    ASSUME TypeInv, UniqueInv, FinishInv, TrackInv, [Next]_vars
    PROVE  TrackInv'
<1>1. KojiInv /\ \A q \in Procs : Hearing(q)
  BY DEF FinishInv
<1>2. GoneEnded' /\ \A q \in Procs : Deleting(q)'
  BY <1>1, NextGone, NextDeleting DEF TrackInv
<1>3. ASSUME NEW q \in Schedulers
      PROVE  Carrying(q)'
  <2>1. q \in Procs
    BY DEF Procs
  <2>q. QED
    BY <2>1, NextCarrying, CarryingHeld, OthersHeld, EnvHeld DEF TrackInv
<1>q. QED
  BY <1>1, <1>2, <1>3, NextTracked DEF TrackInv

(* A scratch task that runs in Koji is never forgotten: it has a build row, *)
(* or its scheduler is about to insert one, or that scheduler died between  *)
(* the call to Koji and its commit. Deleting a build, late, unwanted or     *)
(* reported as canceled, never leaves its task running (update_build_state  *)
(* cancels it first; submit_build), provided that the two queries of        *)
(* poll_builds see the same rows.                                           *)
THEOREM TasksAreTracked ==
    ASSUME PollAligned
    PROVE  Spec => []OpenTasksTracked
<1>1. Init => TypeInv /\ UniqueInv /\ FinishInv /\ TrackInv
  <2>1. ASSUME Init
        PROVE  TrackInv
    <3>1. \A b \in BuildIds : db[b] = NULL
      BY <2>1, RowsAssumption DEF Init, Rows, BuildIds
    <3>2. \A q \in Procs : Deleting(q)
      BY <2>1 DEF Init, IdleProc, Deleting
    <3>3. \A q \in Schedulers : Carrying(q)
      BY <2>1 DEF Init, IdleProc, Carrying, Procs
    <3>4. OpenTasksTracked
      BY <2>1, TaskStatesAssumption DEF Init, KojiInit, OpenTasksTracked, TaskStates
    <3>q. QED
      BY <3>1, <3>2, <3>3, <3>4 DEF TrackInv, GoneEnded
  <2>q. QED
    BY <2>1, InitTypes, InitFinish
<1>2. TypeInv /\ UniqueInv /\ FinishInv /\ TrackInv /\ [Next]_vars
      => TypeInv' /\ UniqueInv' /\ FinishInv' /\ TrackInv'
  BY NextTypes, StutterTypes, NextUnique, NextFinish, NextTrack
<1>3. TrackInv => OpenTasksTracked
  BY DEF TrackInv
<1>q. QED
  BY <1>1, <1>2, <1>3, PTL DEF Spec


-----------------------------------------------------------------------------
(* The limit. No finished build runs again; a build that is about to run is *)
(* a row its scheduler has inserted and not committed; there is one such    *)
(* row; and a scheduler that is not idle has found fewer than max_builds    *)
NoRestart ==
    \A b \in BuildIds :
        (db[b] # NULL /\ work[b] # NULL /\ db[b].state \in FinishedStates)
            => work[b].state \in FinishedStates

Inserting(b) == db[b] = NULL /\ work[b] # NULL /\ work[b].state = RUNNING

InsertedBy(b) ==
    \E s \in Schedulers : xlock[b] = s /\ At(proc[s]) \in {"reset", "submitted"}

LimitInv ==
    /\ NoRestart
    /\ \A b \in BuildIds : Inserting(b) => InsertedBy(b)
    /\ \A b, c \in BuildIds : Inserting(b) /\ Inserting(c) => b = c
    /\ \A s \in Schedulers :
          proc[s].pc # "idle" => Cardinality(RunningBuilds(db)) < MaxBuilds
    /\ RunningWithinLimit

LEMMA NextNoRestart ==
    ASSUME TypeInv, NoRestart, [Next]_vars
    PROVE  NoRestart'
<1>1. ASSUME NEW q \in Procs, LockPackage(q)
      PROVE  BuildState(q) \in FinishedStates
  BY <1>1 DEF LockPackage, TypeInv, ProcInv, LocalOK, BuildState, KojiStateMap, FinishedStates
<1>q. QED
  BY <1>1, NextRows
     DEF NoRestart, RowStep, BuildStep, Finishes, Deletes, Inserts, Registers, Kept

(* Whoever inserts is a scheduler, and it is the one that acts *)
LEMMA InsertActs ==
    ASSUME TypeInv, [Next]_vars, NEW q \in Procs, InsertBuild(q)
    PROVE  q \in Schedulers /\ xlock'[nextId] = q /\ At(proc'[q]) = "reset"
<1>1. proc \in [Procs -> Local] /\ proc[q] \in Local
  BY DEF TypeInv, Locals
<1>2. proc[q].pc = "insert" /\ proc'[q].pc = "trigger" /\ proc'[q].ret = "reset"
  BY <1>1 DEF InsertBuild, Local
<1>3. Acts(q)
  BY <1>2, OthersHeld, EnvHeld
<1>4. ~ Die(q)
  BY <1>1, <1>2 DEF Die, EndService, IdleProc
<1>5. q \in Schedulers
  BY <1>2, <1>3, <1>4, SubmitsScheduler DEF Acts, Crash, DeadlockAbort
<1>6. xlock'[nextId] = q
  BY DEF InsertBuild, Write, Rows
<1>q. QED
  BY <1>2, <1>5, <1>6 DEF At, TriggerPCs

(* Until its scheduler commits, the inserted row stays its own *)
LEMMA StillInserting ==
    ASSUME TypeInv, [Next]_vars, NEW b \in BuildIds, Inserting(b), InsertedBy(b), Inserting(b)'
    PROVE  InsertedBy(b)'
<1>1. PICK s \in Schedulers : xlock[b] = s /\ At(proc[s]) \in {"reset", "submitted"}
  BY DEF InsertedBy
<1>2. s \in Procs /\ b \in Rows
  BY DEF Procs, Rows
<1>3. CASE ~ Acts(s)
  BY <1>1, <1>2, <1>3, OthersHeld, EnvHeld DEF InsertedBy, Held
<1>4. ~ Rollback(s) /\ ~ Commit(s)
  BY <1>1, <1>2 DEF Inserting, Rollback, Commit, View
<1>5. CASE Trigger(s)
  <2>1. Fires(s) /\ (Updating(s) \/ UNCHANGED <<db, work, xlock>>)
    BY <1>2, <1>4, <1>5, TriggerTask DEF TriggerIntegrityError
  <2>2. xlock'[b] = s /\ At(proc'[s]) = At(proc[s])
    BY <1>1, <1>2, <2>1, FiresKeepsLocks, FiresFields
  <2>q. QED
    BY <1>1, <2>2 DEF InsertedBy
<1>6. CASE Schedule(s)
  <2>1. proc[s].pc \in TaskPCs /\ proc[s].pc # "insert"
    BY <1>1 DEF At, TaskPCs, TriggerPCs
  <2>2. ResetPriority(s) /\ proc'[s].pc = "submitted"
    BY <1>2, <1>4, <1>6, <2>1, ScheduleTask DEF SubmitCommit, TaskPCs, TriggerPCs
  <2>3. xlock'[b] = s
    BY <1>1, <1>2, <2>2, PackageWrites, FiresKeepsLocks
  <2>q. QED
    BY <2>2, <2>3 DEF InsertedBy, At, TriggerPCs
<1>q. QED
  BY <1>1, <1>3, <1>4, <1>5, <1>6, SchedulerActs DEF Die, TriggerStep

LEMMA BeginsInserting ==
    ASSUME TypeInv, [Next]_vars, NEW b \in BuildIds, Inserting(b)'
    PROVE  Inserting(b) \/ \E q \in Procs : InsertBuild(q) /\ b = nextId
<1>1. ASSUME NEW q \in Procs, LockPackage(q)
      PROVE  BuildState(q) \in FinishedStates
  BY <1>1 DEF LockPackage, TypeInv, ProcInv, LocalOK, BuildState, KojiStateMap, FinishedStates
<1>q. QED
  BY <1>1, NextRows
     DEF Inserting, RowStep, BuildStep, Finishes, Deletes, Inserts, Registers, Kept,
         FinishedStates, RUNNING, COMPLETE, FAILED

LEMMA NextInserting ==
    ASSUME \A s, r \in Schedulers : s = r, TypeInv, LimitInv, [Next]_vars
    PROVE  /\ \A b \in BuildIds : Inserting(b)' => InsertedBy(b)'
           /\ \A b, c \in BuildIds : Inserting(b)' /\ Inserting(c)' => b = c
<1>1. ASSUME NEW b \in BuildIds, Inserting(b)'
      PROVE  InsertedBy(b)'
  <2>1. CASE Inserting(b)
    BY <1>1, <2>1, StillInserting DEF LimitInv
  <2>2. ASSUME NEW q \in Procs, InsertBuild(q), b = nextId
        PROVE  InsertedBy(b)'
    BY <2>2, InsertActs DEF InsertedBy
  <2>q. QED
    BY <1>1, <2>1, <2>2, BeginsInserting
<1>2. ASSUME NEW q \in Procs, InsertBuild(q), NEW c \in BuildIds
      PROVE  ~ Inserting(c)
  <2>1. SUFFICES ASSUME Inserting(c)
                 PROVE  FALSE
    OBVIOUS
  <2>2. PICK s \in Schedulers : At(proc[s]) \in {"reset", "submitted"}
    BY <2>1 DEF LimitInv, InsertedBy
  <2>3. s = q /\ proc[q].pc = "insert"
    BY <1>2, InsertActs DEF InsertBuild
  <2>q. QED
    BY <2>2, <2>3 DEF At, TriggerPCs
<1>q. QED
  BY <1>1, <1>2, BeginsInserting DEF LimitInv


(* A build that runs after a step and not before it has been committed by   *)
(* its scheduler, which is idle then                                        *)
LEMMA BeginsRunning ==
    ASSUME TypeInv, LimitInv, [Next]_vars, NEW b \in RunningBuilds(db'), b \notin RunningBuilds(db)
    PROVE  /\ Inserting(b)
           /\ \E s \in Schedulers : proc[s].pc # "idle" /\ proc'[s].pc = "idle"
<1>1. b \in BuildIds /\ b \in Rows /\ db'[b] # NULL /\ db'[b].state = RUNNING
  BY DEF RunningBuilds, Rows
<1>2. db[b] # NULL => db[b].state \in FinishedStates
  BY <1>1, CommittedRow DEF RunningBuilds, BuildRow
<1>3. (db[b] # NULL /\ work[b] # NULL /\ db[b].state \in FinishedStates)
         => work[b].state \in FinishedStates
  BY <1>1 DEF LimitInv, NoRestart
<1>4. db'[b] # db[b]
  BY <1>1 DEF RunningBuilds
<1>5. RUNNING \notin FinishedStates
  BY DEF RUNNING, FinishedStates, COMPLETE, FAILED
<1>6. db'[b] = work[b] /\ Inserting(b)
  <2>1. db[b] # NULL /\ work[b] = db[b] => ~ Kept(db'[b], db[b])
    BY <1>1, <1>2, <1>5 DEF Kept
  <2>2. db'[b] = work[b]
    BY <1>1, <1>4, <2>1, NextRows DEF RowStep, BuildStep, Finishes, Deletes, Inserts, Registers
  <2>q. QED
    BY <1>1, <1>2, <1>3, <1>5, <2>2 DEF Inserting
<1>7. PICK s \in Schedulers : xlock[b] = s /\ At(proc[s]) \in {"reset", "submitted"}
  BY <1>1, <1>6 DEF LimitInv, InsertedBy
<1>8. s \in Procs /\ proc[s].pc # "idle"
  BY <1>7 DEF Procs, At, TriggerPCs
<1>9. Acts(s)
  BY <1>1, <1>4, <1>7, <1>8, OthersHeld, EnvHeld DEF Held
<1>10. ~ Die(s) /\ ~ Trigger(s)
  BY <1>1, <1>4, <1>8, TriggerTask
     DEF Die, Rollback, TriggerIntegrityError, Updating, Write
<1>11. SubmitCommit(s) /\ proc'[s].pc = "idle"
  <2>1. Schedule(s)
    BY <1>9, <1>10, SchedulerActs DEF TriggerStep
  <2>2. proc[s].pc \in TaskPCs /\ proc[s].pc # "insert"
    BY <1>7 DEF At, TaskPCs, TriggerPCs
  <2>3. ~ ResetPriority(s)
    BY <1>1, <1>4 DEF ResetPriority, Write
  <2>q. QED
    BY <1>8, <2>1, <2>2, <2>3, ScheduleTask DEF TaskPCs, TriggerPCs
<1>q. QED
  BY <1>6, <1>8, <1>11

LEMMA RunningFinite ==
    ASSUME NEW t
    PROVE  IsFiniteSet(RunningBuilds(t)) /\ Cardinality(RunningBuilds(t)) \in Nat
<1>1. IsFiniteSet(BuildIds)
  BY FS_Interval, BoundsAssumption DEF BuildIds
<1>2. RunningBuilds(t) \in SUBSET BuildIds
  BY DEF RunningBuilds
<1>q. QED
  BY <1>1, <1>2, FS_Subset, FS_CardinalityType

(* A scheduler leaves idle only with the count below the limit *)
LEMMA SchedulerCounts ==
    ASSUME TypeInv, [Next]_vars, NEW s \in Schedulers, proc[s].pc = "idle", proc'[s].pc # "idle"
    PROVE  CountBuilds(s)
<1>1. s \in Procs /\ proc \in [Procs -> Local]
  BY DEF Procs, TypeInv, Locals
<1>2. Acts(s)
  BY <1>1, OthersHeld, EnvHeld
<1>3. ~ Die(s)
  BY <1>1 DEF Die, EndService, IdleProc
<1>4. ~ Trigger(s)
  BY <1>1, TriggerTask DEF TriggerPCs
<1>q. QED
  BY <1>1, <1>2, <1>3, <1>4, SchedulerActs, ScheduleTask DEF TriggerStep

LEMMA NextLimit ==
    ASSUME \A s, r \in Schedulers : s = r, TypeInv, LimitInv, [Next]_vars
    PROVE  LimitInv'
<1> DEFINE R == RunningBuilds(db)
           S == RunningBuilds(db')
<1>1. /\ IsFiniteSet(R) /\ Cardinality(R) \in Nat
      /\ IsFiniteSet(S) /\ Cardinality(S) \in Nat /\ MaxBuilds \in Nat
  BY RunningFinite, MaxBuildsAssumption
<1>2. Cardinality(R) =< MaxBuilds
  BY DEF LimitInv, RunningWithinLimit
<1> HIDE DEF R, S
<1>3. CASE S \subseteq R
  <2>1. Cardinality(S) =< Cardinality(R)
    BY <1>1, <1>3, FS_Subset
  <2>2. ASSUME NEW s \in Schedulers, proc'[s].pc # "idle"
        PROVE  Cardinality(S) < MaxBuilds
    <3>1. Cardinality(R) < MaxBuilds
      BY <2>2, SchedulerCounts DEF LimitInv, CountBuilds, R
    <3>q. QED
      BY <1>1, <2>1, <3>1
  <2>3. Cardinality(S) =< MaxBuilds
    BY <1>1, <1>2, <2>1
  <2>q. QED
    BY <2>2, <2>3, NextNoRestart, NextInserting DEF LimitInv, RunningWithinLimit, S
<1>4. CASE ~ (S \subseteq R)
  <2>1. PICK b \in S : b \notin R
    BY <1>4
  <2>2. PICK s \in Schedulers : proc[s].pc # "idle" /\ proc'[s].pc = "idle"
    BY <2>1, BeginsRunning DEF R, S
  <2>3. \A c \in S \ R : c = b
    BY <2>1, BeginsRunning DEF LimitInv, R, S, RunningBuilds
  <2>4. S \subseteq R \cup {b}
    BY <2>3
  <2>5. Cardinality(R \cup {b}) = Cardinality(R) + 1 /\ IsFiniteSet(R \cup {b})
    BY <1>1, <2>1, FS_AddElement
  <2>6. Cardinality(S) =< Cardinality(R) + 1
    BY <2>4, <2>5, FS_Subset
  <2>7. Cardinality(R) < MaxBuilds
    BY <2>2 DEF LimitInv, R
  <2>8. Cardinality(S) =< MaxBuilds
    BY <1>1, <2>6, <2>7
  <2>9. \A r \in Schedulers : proc'[r].pc = "idle"
    BY <2>2
  <2>q. QED
    BY <2>8, <2>9, NextNoRestart, NextInserting DEF LimitInv, RunningWithinLimit, S
<1>q. QED
  BY <1>3, <1>4

(* One scheduler never has more than max_builds builds running, whatever    *)
(* the polling service, the watcher, the frontend and crashes do between    *)
(* its count and its commit (Scheduler.main).                               *)
THEOREM OneSchedulerWithinLimit ==
    ASSUME \A s, r \in Schedulers : s = r
    PROVE  Spec => []RunningWithinLimit
<1>1. Init => TypeInv /\ LimitInv
  <2>1. ASSUME Init
        PROVE  LimitInv
    <3>1. \A b \in BuildIds : db[b] = NULL /\ work[b] = NULL
      BY <2>1, RowsAssumption DEF Init, Rows, BuildIds
    <3>2. RunningBuilds(db) = {}
      BY <3>1 DEF RunningBuilds
    <3>3. Cardinality(RunningBuilds(db)) =< MaxBuilds
      BY <3>2, FS_EmptySet, MaxBuildsAssumption
    <3>4. \A s \in Schedulers : proc[s].pc = "idle"
      BY <2>1 DEF Init, IdleProc, Procs
    <3>q. QED
      BY <3>1, <3>3, <3>4 DEF LimitInv, NoRestart, Inserting, RunningWithinLimit
  <2>q. QED
    BY <2>1, InitTypes
<1>2. TypeInv /\ LimitInv /\ [Next]_vars => TypeInv' /\ LimitInv'
  BY NextTypes, StutterTypes, NextLimit
<1>3. LimitInv => RunningWithinLimit
  BY DEF LimitInv
<1>q. QED
  BY <1>1, <1>2, <1>3, PTL DEF Spec
=============================================================================
