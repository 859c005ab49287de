---------------------------- MODULE BuildProofs -----------------------------
(****************************************************************************)
(* What Koschei records about the end of a build, and what it announces,    *)
(* for any number of services, builds and packages.                         *)
(*                                                                          *)
(* None of these properties is inductive. They hold because a Koji task     *)
(* that has ended never changes again, so that everything a handler has     *)
(* heard of the end of a task stays true however late it acts on it; and    *)
(* because the row of a build is written under a lock that the handler      *)
(* keeps from its second look at the row until its commit.                  *)
(****************************************************************************)
EXTENDS UniqueProofs

-----------------------------------------------------------------------------
(* What a step does to the two versions of a build: nothing, an update that *)
(* keeps its state, a commit, a rollback, or an update that is a            *)
(* transaction of its own                                                   *)
RowStep(b) ==
    \/ db'[b] = db[b] /\ work'[b] = work[b]
    \/ db'[b] = db[b] /\ work[b] # NULL /\ Kept(work'[b], work[b])
    \/ db'[b] = work[b] /\ work'[b] = work[b]
    \/ db'[b] = db[b] /\ work'[b] = db[b]
    \/ /\ db[b] # NULL /\ work[b] = db[b]
       /\ Kept(db'[b], db[b]) /\ work'[b] = db'[b]

(* or the end of the build, its deletion, or its insertion by q *)
Finishes(q, b) ==
    /\ LockPackage(q) /\ b = proc[q].b
    /\ db'[b] = db[b]
    /\ work[b] # NULL /\ work'[b] # NULL
    /\ SameIdent(work'[b], work[b]) /\ work'[b].state = BuildState(q)

Deletes(q, b) ==
    /\ Delete(q, b, proc[q].p) /\ proc[q].pc = "delete" /\ b = proc[q].b
    /\ db'[b] = db[b] /\ work'[b] = NULL

Inserts(q, b) ==
    /\ InsertBuild(q) /\ b = nextId
    /\ db[b] = NULL /\ work[b] = NULL /\ db'[b] = NULL
    /\ work'[b] # NULL /\ work'[b].state = RUNNING /\ work'[b].task = proc[q].task

Registers(q, b) ==
    /\ RegisterLock(q) /\ b = nextId
    /\ db[b] = NULL /\ work[b] = NULL /\ db'[b] = NULL
    /\ work'[b] # NULL /\ work'[b].state = COMPLETE /\ work'[b].task = InfoTask(q)

BuildStep(q, b) == Finishes(q, b) \/ Deletes(q, b) \/ Inserts(q, b) \/ Registers(q, b)

LEMMA UpdatingRows ==
    ASSUME TypeInv, NEW q \in Procs, Updating(q), NEW b \in BuildIds
    PROVE  /\ db'[b] = db[b]
           /\ work'[b] = work[b] \/ (work[b] # NULL /\ Kept(work'[b], work[b]))
<1>1. PICK f, key : Write(q, f, key) /\ Updates(q, f)
  BY DEF Updating
<1>2. b \in Rows /\ xlock[b] \in Procs \cup {NULL}
  BY DEF Rows, TypeInv, DbType
<1>3. db'[b] = db[b] /\ work'[b] = IF b \in DOMAIN f THEN f[b] ELSE work[b]
  BY <1>1, <1>2 DEF Write
<1>4. b \in DOMAIN f => View(q)[b] = work[b]
  BY <1>1, <1>2 DEF Updates, View, TypeInv, Settled
<1>q. QED
  BY <1>1, <1>3, <1>4 DEF Updates

LEMMA EndingRows ==
    ASSUME TypeInv, NEW q \in Procs, Ending(q), NEW b \in BuildIds
    PROVE  RowStep(b)
<1>1. b \in Rows
  BY DEF Rows
<1>q. QED
  BY <1>1 DEF Ending, Commit, Rollback, View, RowStep

LEMMA ReplacingRows ==
    ASSUME TypeInv, Replacing, NEW b \in BuildIds
    PROVE  RowStep(b)
<1>1. b \in Rows /\ DOMAIN db = Rows /\ DOMAIN work = Rows
  BY DEF Rows, TypeInv, DbType, TypeTable
<1>q. QED
  BY <1>1 DEF Replacing, RowStep, TypeInv, Settled

LEMMA LockPackageRows ==
    ASSUME TypeInv, NEW q \in Procs, LockPackage(q), NEW b \in BuildIds
    PROVE  IF b = proc[q].b THEN Finishes(q, b) ELSE db'[b] = db[b] /\ work'[b] = work[b]
<1> DEFINE c == proc[q].b
           p == proc[q].p
           v == View(q)
           finished == [v[c] EXCEPT !.state = BuildState(q)]
           pkg == [v[p] EXCEPT !.manual_priority = 0,
                               !.build_priority = FailedBuildPriority(v, c, BuildState(q))]
           f == [r \in {c, p} |-> IF r = c THEN finished ELSE pkg]
<1>1. c \in BuildIds /\ p \in Packages /\ xlock[c] = q /\ work[c] # NULL
  BY UpdateLocals DEF LockPackage, UpdatePCs, BuildLocked
<1>2. b \in Rows /\ c \in Rows /\ p \in Rows /\ b # p
  BY <1>1, RowsAssumption DEF Rows, BuildIds
<1>3. v[c] = work[c] /\ work[c] \in BuildRow
  BY <1>1, <1>2 DEF View, TypeInv, DbType, TypeTable
<1>4. SameIdent(finished, v[c]) /\ finished.state = BuildState(q)
  BY <1>3, UpdateKeeps DEF BuildRow
<1>5. finished # NULL
  <2>1. BuildState(q) \in FinishedStates
    BY DEF LockPackage, TypeInv, ProcInv, LocalOK, BuildState, KojiStateMap, FinishedStates
  <2>2. finished \in BuildRow
    BY <1>3, <2>1 DEF BuildRow
  <2>q. QED
    BY <2>2, NullAssumption
<1>6. Write(q, f, {p})
  BY DEF LockPackage
<1> HIDE DEF finished, pkg
<1>7. db'[b] = db[b] /\ work'[b] = IF b = c THEN finished ELSE work[b]
  BY <1>2, <1>6 DEF Write
<1>q. QED
  BY <1>1, <1>3, <1>4, <1>5, <1>7 DEF Finishes

LEMMA DeleteBuildRows ==
    ASSUME TypeInv, NEW q \in Procs, DeleteBuild(q), NEW b \in BuildIds
    PROVE  RowStep(b) \/ Deletes(q, b)
<1> DEFINE c == proc[q].b
           p == proc[q].p
           pkg == View(q)[p]
           cleared == IF pkg.last_build = c THEN [pkg EXCEPT !.last_build = NULL] ELSE pkg
           f == [r \in {c} \cup (IF pkg.last_build = c THEN {p} ELSE {}) |->
                    IF r = c THEN NULL ELSE cleared]
<1>1. c \in BuildIds /\ p \in Packages
  BY UpdateLocals DEF DeleteBuild, UpdatePCs
<1>2. b \in Rows /\ b # p
  BY <1>1, RowsAssumption DEF Rows, BuildIds
<1>3. CASE Delete(q, c, p)
  <2>1. Write(q, f, {c})
    BY <1>3 DEF Delete
  <2> HIDE DEF cleared, pkg
  <2>2. db'[b] = db[b] /\ work'[b] = IF b = c THEN NULL ELSE work[b]
    BY <1>2, <2>1 DEF Write
  <2>q. QED
    BY <1>3, <2>2 DEF RowStep, Deletes, DeleteBuild
<1>4. CASE DeleteRefused(q, c, p)
  BY <1>4, EndingRows DEF DeleteRefused, Ending
<1>q. QED
  BY <1>3, <1>4 DEF DeleteBuild

LEMMA RegisterLockRows ==
    ASSUME TypeInv, NEW q \in Procs, RegisterLock(q), NEW b \in BuildIds
    PROVE  RowStep(b) \/ Registers(q, b)
<1> DEFINE p == proc[q].p
           new == InfoTask(q) \notin RegisteredTasks(View(q), p)
           ids == IF new THEN {nextId} ELSE {}
           pkg == [View(q)[p] EXCEPT !.manual_priority = 0, !.build_priority = 0]
           row == NewRealBuild(q)
           f == [r \in {p} \cup ids |-> IF r = p THEN pkg ELSE row]
<1>1. p \in Packages
  BY RefreshLocals DEF RegisterLock, RefreshPCs
<1>2. b \in Rows /\ b # p
  BY <1>1, RowsAssumption DEF Rows, BuildIds
<1>3. Write(q, f, {p}) /\ (new => nextId \in BuildIds)
  BY DEF RegisterLock
<1>4. row.state = COMPLETE /\ row.task = InfoTask(q)
  BY DEF NewRealBuild
<1>5. row # NULL
  <2>1. proc[q].info \in Versions /\ InfoTask(q) \in Stamps
    BY RefreshLocals DEF RegisterLock, RefreshPCs
  <2>2. row \in BuildRow
    BY <1>1, <2>1 DEF NewRealBuild, BuildRow, FinishedStates
  <2>q. QED
    BY <2>2, NullAssumption
<1> HIDE DEF row, pkg
<1>6. db'[b] = db[b] /\ work'[b] = IF b \in ids THEN row ELSE work[b]
  BY <1>2, <1>3 DEF Write
<1>7. b \in ids => b = nextId /\ db[b] = NULL /\ work[b] = NULL
  BY <1>2, <1>3 DEF TypeInv, Fresh, Settled, CountType, BuildIds
<1>q. QED
  BY <1>4, <1>5, <1>6, <1>7 DEF RowStep, Registers

LEMMA InsertBuildRows ==
    ASSUME TypeInv, NEW q \in Procs, InsertBuild(q), NEW b \in BuildIds
    PROVE  RowStep(b) \/ Inserts(q, b)
<1> DEFINE row == [package |-> proc[q].p, state |-> RUNNING, task |-> proc[q].task,
                   started |-> clock, ver |-> proc[q].info, real |-> FALSE,
                   untagged |-> FALSE, last_complete |-> FALSE, cancel_requested |-> FALSE]
           f == [r \in {nextId} |-> row]
<1>1. Write(q, f, {}) /\ nextId \in BuildIds /\ b \in Rows
  BY DEF InsertBuild, Rows
<1>2. row.state = RUNNING /\ row.task = proc[q].task
  OBVIOUS
<1>3. row # NULL
  <2>1. /\ proc[q].p \in Packages /\ proc[q].info \in Versions /\ proc[q].task \in Stamps
        /\ clock \in Stamps
    BY DEF InsertBuild, TypeInv, ProcInv, LocalOK, NoPackagePCs
  <2>2. row \in BuildRow
    BY <2>1 DEF BuildRow
  <2>q. QED
    BY <2>2, NullAssumption
<1> HIDE DEF row
<1>4. db'[b] = db[b] /\ work'[b] = IF b = nextId THEN row ELSE work[b]
  BY <1>1 DEF Write
<1>5. b = nextId => db[b] = NULL /\ work[b] = NULL
  BY <1>1 DEF TypeInv, Fresh, Settled, CountType, BuildIds
<1>q. QED
  BY <1>2, <1>3, <1>4, <1>5 DEF RowStep, Inserts

LEMMA NextRows ==
    ASSUME TypeInv, [Next]_vars, NEW b \in BuildIds
    PROVE  RowStep(b) \/ \E q \in Procs : BuildStep(q, b)
<1>1. ASSUME UNCHANGED <<db, work, xlock>>
      PROVE  RowStep(b)
  BY <1>1 DEF RowStep
<1>q. QED
  BY <1>1, NextShape, EndingRows, UpdatingRows, ReplacingRows, LockPackageRows, DeleteBuildRows,
     RegisterLockRows, InsertBuildRows DEF BuildStep, RowStep

-----------------------------------------------------------------------------
(* The process that takes a step, if any, and what the others keep *)
Acts(q) == Step(q) \/ Crash(q) \/ DeadlockAbort(q)

LEMMA ActsOK ==
    ASSUME TypeInv, NEW q \in Procs, Acts(q)
    PROVE  StepOK(q)
BY StepTypes, DieStep DEF Acts, Crash, DeadlockAbort

LEMMA NextActs ==
    ASSUME TypeInv, [Next]_vars
    PROVE  \/ \E q \in Procs : Acts(q)
           \/ /\ UNCHANGED <<proc, nextId, sent, lost, xlock>>
              /\ \A b \in BuildIds : db'[b] = db[b] /\ work'[b] = work[b]
              /\ \A p \in Packages : xlock[p] # NULL => db'[p] = db[p] /\ work'[p] = work[p]
<1>1. ASSUME NEW p \in Packages, Resolve(p)
      PROVE  /\ UNCHANGED <<proc, nextId, sent, lost, xlock>>
             /\ \A b \in BuildIds : db'[b] = db[b] /\ work'[b] = work[b]
             /\ \A r \in Packages : xlock[r] # NULL => db'[r] = db[r] /\ work'[r] = work[r]
  <2>1. \A b \in BuildIds : b # p
    BY RowsAssumption DEF BuildIds
  <2>2. DOMAIN db = Rows /\ DOMAIN work = Rows
    BY DEF TypeInv, DbType, TypeTable
  <2>3. PICK x \in Resolutions : /\ db' = [db EXCEPT ![p].resolved = x]
                                 /\ work' = [work EXCEPT ![p].resolved = x]
    BY <1>1 DEF Resolve
  <2>q. QED
    BY <1>1, <2>1, <2>2, <2>3 DEF Resolve, stateVars, Rows
<1>q. QED
  BY <1>1 DEF Next, Acts, PassTimeout, vars, dbVars, stateVars

(* The rows that another process has locked are as they were *)
Held(o) ==
    \A r \in Rows : /\ xlock'[r] = o <=> xlock[r] = o
                    /\ xlock[r] = o => work'[r] = work[r] /\ db'[r] = db[r]

LEMMA OthersHeld ==
    ASSUME TypeInv, NEW q \in Procs, Acts(q), NEW o \in Procs \ {q}
    PROVE  Held(o) /\ proc'[o] = proc[o]
<1>1. StepOK(q)
  BY ActsOK
<1>2. \/ Ending(q) \/ Updating(q) \/ Replacing
      \/ LockPackage(q) \/ DeleteBuild(q) \/ RegisterLock(q) \/ InsertBuild(q)
  BY StepShape DEF Acts, Crash, DeadlockAbort, Die, Ending
<1>3. ASSUME NEW r \in Rows, xlock[r] = o
      PROVE  db'[r] = db[r]
  <2>1. CASE Ending(q) \/ (\E b, p : DeleteRefused(q, b, p))
    BY <1>3, <2>1, ProcsAssumption DEF Ending, Commit, Rollback, View, DeleteRefused
  <2>2. CASE Replacing
    <3>1. DOMAIN db = Rows
      BY DEF TypeInv, DbType, TypeTable
    <3>q. QED
      BY <1>3, <2>2, <3>1, ProcsAssumption DEF Replacing
  <2>3. CASE \E f, key : Write(q, f, key)
    BY <2>3 DEF Write
  <2>q. QED
    BY <1>2, <2>1, <2>2, <2>3
       DEF Updating, LockPackage, DeleteBuild, Delete, RegisterLock, InsertBuild
<1>q. QED
  BY <1>1, <1>3, ProcsAssumption DEF StepOK, DbStep, Respects, Held, ProcStep

LEMMA EnvHeld ==
    ASSUME TypeInv, [Next]_vars, ~ \E q \in Procs : Acts(q), NEW o \in Procs
    PROVE  Held(o) /\ proc'[o] = proc[o]
<1>1. \A r \in Rows : r \in BuildIds \/ r \in Packages
  BY DEF Rows
<1>q. QED
  BY <1>1, NextActs, ProcsAssumption DEF Held

-----------------------------------------------------------------------------
(* Koji. A task that has ended stays as it is, and no task is created twice *)
Ended == {"CLOSED", "FAILED", "FAULT", "NOREPO", "CANCELED"}

ClockFresh == \A t \in Stamps : t >= clock => koji[t] = NULL

RealEnded ==
    \A p \in Packages, v \in Versions :
        real[p][v] # NULL => koji[real[p][v]] \in {"CLOSED", "NOREPO"}

KojiInv == ClockFresh /\ RealEnded

EndedStay == \A t \in Stamps : koji[t] \in Ended => koji'[t] = koji[t]

LEMMA KojiUnchanged ==
    ASSUME KojiInv, UNCHANGED <<clock, koji, real>>
    PROVE  KojiInv' /\ EndedStay
BY DEF KojiInv, ClockFresh, RealEnded, EndedStay

(* Only one task changes, from an unfinished state *)
LEMMA KojiTaskInv ==
    ASSUME TypeInv, KojiInv, NEW t \in Stamps, koji[t] \in Unfinished, NEW s,
           koji' = [koji EXCEPT ![t] = s], UNCHANGED <<clock, real>>
    PROVE  KojiInv' /\ EndedStay
<1>1. koji \in [Stamps -> TaskStates \cup {NULL}] /\ clock \in Int
  BY DEF TypeInv, KojiType
<1>2. koji[t] # NULL
  BY TaskStatesAssumption DEF TaskStates
<1>3. ClockFresh'
  BY <1>1, <1>2 DEF KojiInv, ClockFresh
<1>4. RealEnded'
  BY <1>1 DEF KojiInv, RealEnded, Unfinished
<1>5. EndedStay
  BY <1>1 DEF EndedStay, Ended, Unfinished
<1>q. QED
  BY <1>3, <1>4, <1>5 DEF KojiInv

(* A new task *)
LEMMA KojiNewInv ==
    ASSUME TypeInv, KojiInv, clock \in Stamps, NEW s, koji' = [koji EXCEPT ![clock] = s],
           clock' = clock + 1,
           \A p \in Packages, v \in Versions :
               real'[p][v] = real[p][v] \/ (real'[p][v] = clock /\ s \in {"CLOSED", "NOREPO"})
    PROVE  KojiInv' /\ EndedStay
<1>1. /\ koji \in [Stamps -> TaskStates \cup {NULL}]
      /\ \A p \in Packages, v \in Versions : real[p][v] \in Stamps \cup {NULL}
      /\ clock \in Int /\ \A t \in Stamps : t \in Int
  BY DEF TypeInv, KojiType, Stamps
<1>2. koji[clock] = NULL /\ \A t \in Stamps : koji'[t] = IF t = clock THEN s ELSE koji[t]
  BY <1>1 DEF KojiInv, ClockFresh
<1>3. NULL \notin Ended
  BY TaskStatesAssumption DEF Ended, TaskStates
<1>4. ClockFresh'
  BY <1>1, <1>2 DEF KojiInv, ClockFresh
<1>5. RealEnded'
  <2>1. SUFFICES ASSUME NEW p \in Packages, NEW v \in Versions, real'[p][v] # NULL
                 PROVE  koji'[real'[p][v]] \in {"CLOSED", "NOREPO"}
    BY DEF RealEnded
  <2>2. CASE real'[p][v] = clock /\ s \in {"CLOSED", "NOREPO"}
    BY <1>2, <2>2
  <2>3. CASE real'[p][v] = real[p][v]
    <3>1. koji[real[p][v]] \in {"CLOSED", "NOREPO"} /\ real[p][v] \in Stamps
      BY <1>1, <2>1, <2>3 DEF KojiInv, RealEnded
    <3>q. QED
      BY <1>2, <1>3, <2>3, <3>1 DEF Ended
  <2>q. QED
    BY <2>2, <2>3
<1>6. EndedStay
  BY <1>2, <1>3 DEF EndedStay
<1>q. QED
  BY <1>4, <1>5, <1>6 DEF KojiInv

LEMMA KojiStepInv ==
    ASSUME TypeInv, KojiInv, KojiStep
    PROVE  KojiInv' /\ EndedStay
<1>1. ASSUME NEW t \in Stamps, KojiOpenTask(t) \/ KojiEndTask(t)
      PROVE  KojiInv' /\ EndedStay
  <2>1. koji[t] \in Unfinished /\ UNCHANGED <<clock, real>>
    BY <1>1 DEF KojiOpenTask, KojiEndTask, Unfinished
  <2>2. \E s : koji' = [koji EXCEPT ![t] = s]
    BY <1>1 DEF KojiOpenTask, KojiEndTask
  <2>q. QED
    BY <2>1, <2>2, KojiTaskInv
<1>2. ASSUME NEW p \in Packages, KojiRealBuild(p)
      PROVE  KojiInv' /\ EndedStay
  <2>1. PICK v \in Versions, s \in {"CLOSED", "NOREPO"} :
           /\ real' = [real EXCEPT ![p][v] = clock]
           /\ koji' = [koji EXCEPT ![clock] = s]
    BY <1>2 DEF KojiRealBuild
  <2>2. \A x \in Packages, w \in Versions : real'[x][w] = real[x][w] \/ real'[x][w] = clock
    BY <2>1 DEF TypeInv, KojiType
  <2>q. QED
    BY ZenonT(60), <1>2, <2>1, <2>2, KojiNewInv DEF KojiRealBuild
<1>3. ASSUME NEW p \in Packages, KojiTag(p)
      PROVE  KojiInv' /\ EndedStay
  BY <1>3, KojiUnchanged DEF KojiTag
<1>q. QED
  BY <1>1, <1>2, <1>3 DEF KojiStep

LEMMA DecideKoji ==
    ASSUME TypeInv, KojiInv, NEW q \in Procs, Decide(q)
    PROVE  KojiInv' /\ EndedStay
<1>1. proc[q].b \in BuildIds /\ UNCHANGED <<clock, real>>
  BY UpdateLocals DEF Decide, UpdatePCs
<1>2. db[proc[q].b].task \in Stamps
  BY <1>1, CommittedRow DEF Decide
<1>3. UNCHANGED koji \/ CancelTask(db[proc[q].b].task)
  BY DEF Decide, AbandonTask
<1>q. QED
  BY <1>1, <1>2, <1>3, KojiTaskInv, KojiUnchanged DEF CancelTask

LEMMA SubmitTaskKoji ==
    ASSUME TypeInv, KojiInv, NEW q, NEW p, SubmitTask(q, p)
    PROVE  KojiInv' /\ EndedStay
<1>1. CASE UNCHANGED kojiVars
  BY <1>1, KojiUnchanged DEF kojiVars
<1>2. CASE NewScratchTask /\ clock + 1 \in Stamps /\ UNCHANGED real
  <2>1. clock \in Stamps
    BY <1>2, BoundsAssumption DEF TypeInv, KojiType, Stamps
  <2>q. QED
    BY <1>2, <2>1, KojiNewInv DEF NewScratchTask
<1>q. QED
  BY <1>1, <1>2 DEF SubmitTask

(* Of all steps of the services only two change what Koji knows *)
LEMMA StepKoji ==
    ASSUME NEW q, Step(q)
    PROVE  \/ Decide(q)
           \/ \E p \in Packages : SubmitTask(q, p)
           \/ InsertBuild(q) /\ UNCHANGED <<koji, real>> /\ clock' = clock + 1
           \/ UNCHANGED <<clock, koji, real>>
<1>1. CASE UpdateBuildState(q)
  BY <1>1 DEF UpdateBuildState, DecideDeleted, LockBuildDone, LockBuild, DeleteBuild, LockPackage,
              SyncRunning, SyncDeleted, CommitBuild, Emit, kojiVars
<1>2. CASE PollStep(q)
  BY <1>1, <1>2 DEF PollStep, PollInfos, PollRows, PollNext, kojiVars
<1>3. CASE RealStep(q)
  BY <1>3 DEF RealStep, RegisterRealBuilds, RefreshLatestBuilds, RegisterNoRepo, RegisterLock,
              RegisterCommit, Untag, UntagRegistered, Retag, UpdateRow, RefreshCommit, kojiVars
<1>4. CASE Schedule(q)
  BY <1>4 DEF Schedule, CountBuilds, ReadPriorities, Stop, NoAllowedArch, NoSrpmHeaders,
              FlushSkipped, InsertBuild, ResetPriority, SubmitCommit, SkipPackage, SkipFlags,
              SkipCommit, kojiVars
<1>q. QED
  BY <1>1, <1>2, <1>3, <1>4 DEF Step, RefreshPackage, WatchTask, WatchTag, kojiVars

LEMMA NextKoji ==
    ASSUME TypeInv, KojiInv, [Next]_vars
    PROVE  KojiInv' /\ EndedStay
<1>1. ASSUME NEW q \in Procs, Step(q)
      PROVE  KojiInv' /\ EndedStay
  <2>1. CASE UNCHANGED <<koji, real>> /\ clock' = clock + 1
    <3>1. \A t \in Stamps : t >= clock + 1 => t >= clock
      BY DEF TypeInv, KojiType, Stamps
    <3>q. QED
      BY <2>1, <3>1 DEF KojiInv, ClockFresh, RealEnded, EndedStay
  <2>q. QED
    BY <1>1, <2>1, StepKoji, DecideKoji, SubmitTaskKoji, KojiUnchanged
<1>q. QED
  BY <1>1, KojiStepInv, KojiUnchanged
     DEF Next, Crash, DeadlockAbort, Die, Resolve, PassTimeout, kojiVars, vars


-----------------------------------------------------------------------------
(* What has been heard of the end of a task stays true of the build *)
TaskIn(b, S) ==
    /\ b < nextId
    /\ db[b] # NULL => koji[db[b].task] \in S
    /\ work[b] # NULL => koji[work[b].task] \in S

Means(ts) == {s \in Ended : StateName(s) = ts}

Heard(b, ts) == ts \in {"CLOSED", "FAILED", "CANCELED"} => TaskIn(b, Means(ts))

LEMMA StepId ==
    ASSUME NEW q, Step(q)
    PROVE  UNCHANGED nextId \/ nextId' = nextId + 1
<1>1. CASE UpdateBuildState(q)
  BY <1>1 DEF UpdateBuildState, Decide, DecideDeleted, LockBuildDone, LockBuild, DeleteBuild,
              LockPackage, SyncRunning, SyncDeleted, CommitBuild, Emit
<1>2. CASE PollStep(q)
  BY <1>1, <1>2 DEF PollStep, PollInfos, PollRows, PollNext
<1>3. CASE RealStep(q)
  BY <1>3 DEF RealStep, RegisterRealBuilds, RefreshLatestBuilds, RegisterNoRepo, RegisterLock,
              RegisterCommit, Untag, UntagRegistered, Retag, UpdateRow, RefreshCommit
<1>4. CASE Schedule(q)
  BY <1>4 DEF Schedule, CountBuilds, ReadPriorities, Stop, NoAllowedArch, NoSrpmHeaders,
              SubmitTask, FlushSkipped, InsertBuild, ResetPriority, SubmitCommit, SkipPackage,
              SkipFlags, SkipCommit
<1>5. CASE Trigger(q) \/ ServeRequest(q)
  BY <1>5 DEF Trigger, TriggerRead, TriggerPackage, TriggerFlags, TriggerIntegrityError,
              ServeRequest, RequestCancel, MarkCanceled, EditPriority
<1>q. QED
  BY <1>1, <1>2, <1>3, <1>4, <1>5 DEF Step, RefreshPackage, WatchTask, WatchTag, TriggerStep

LEMMA NextIdGrows ==
    ASSUME TypeInv, [Next]_vars
    PROVE  nextId \in Int /\ nextId' \in Int /\ nextId =< nextId'
<1>1. nextId \in Int
  BY DEF TypeInv, CountType
<1>2. UNCHANGED nextId \/ nextId' = nextId + 1
  BY StepId DEF Next, Crash, DeadlockAbort, Die, Resolve, PassTimeout, vars
<1>q. QED
  BY <1>1, <1>2

LEMMA TaskKept ==
    ASSUME TypeInv, [Next]_vars, NEW b \in BuildIds, b < nextId,
           NEW row, row \in {db'[b], work'[b]}, row # NULL
    PROVE  \/ db[b] # NULL /\ row.task = db[b].task
           \/ work[b] # NULL /\ row.task = work[b].task
<1>1. b # nextId
  BY DEF TypeInv, CountType, BuildIds
<1>q. QED
  BY <1>1, NextRows DEF RowStep, BuildStep, Finishes, Deletes, Inserts, Registers, Kept, SameIdent

LEMMA TaskInStays ==
    ASSUME TypeInv, KojiInv, [Next]_vars, NEW b \in BuildIds, NEW S \in SUBSET Ended, TaskIn(b, S)
    PROVE  TaskIn(b, S)'
<1>1. b < nextId'
  <2>1. b \in Int
    BY DEF BuildIds
  <2>q. QED
    BY <2>1, NextIdGrows DEF TaskIn
<1>2. ASSUME NEW row, row \in {db'[b], work'[b]}, row # NULL
      PROVE  koji'[row.task] \in S
  <2>1. \/ db[b] # NULL /\ row.task = db[b].task
        \/ work[b] # NULL /\ row.task = work[b].task
    BY <1>2, TaskKept DEF TaskIn
  <2>2. koji[row.task] \in Ended /\ koji[row.task] \in S
    BY <2>1 DEF TaskIn
  <2>3. row.task \in Stamps
    BY <2>1 DEF TypeInv, DbType, TypeTable, BuildRow
  <2>q. QED
    BY <2>2, <2>3, NextKoji DEF EndedStay
<1>q. QED
  BY <1>1, <1>2 DEF TaskIn

LEMMA HeardStays ==
    ASSUME TypeInv, KojiInv, [Next]_vars, NEW b \in BuildIds, NEW ts, Heard(b, ts)
    PROVE  Heard(b, ts)'
BY TaskInStays DEF Heard, Means

-----------------------------------------------------------------------------
(* How a step changes the local variables of its process *)

(* back to the beginning: of the handler, or of the service *)
Resets(q) ==
    /\ proc'[q].pc \in {"idle", "poll", "pick"}
    /\ proc'[q].infos = {}
    /\ proc'[q].list \subseteq proc[q].list
    /\ proc'[q].prev = "none"

(* on, inside a trigger or to where it returns *)
Fires(q) ==
    /\ proc[q].pc \in TriggerPCs
    /\ proc'[q].pc \in TriggerPCs \cup {proc[q].ret}
    /\ proc'[q].ret = proc[q].ret
    /\ proc'[q].infos = proc[q].infos
    /\ proc'[q].list = proc[q].list
    /\ proc'[q].prev = proc[q].prev
    /\ proc'[q].b = proc[q].b
    /\ proc'[q].p = proc[q].p

(* on, in a handler other than update_build_state *)
Aside(q) ==
    /\ At(proc[q]) \notin UpdatePCs
    /\ At(proc'[q]) \notin UpdatePCs
    /\ proc'[q].infos = proc[q].infos
    /\ proc'[q].list = proc[q].list
    /\ proc'[q].prev = proc[q].prev

(* from the beginning of update_build_state to the lock of the package *)
Handles(q) ==
    \/ PollInfos(q) \/ PollRows(q) \/ PollNext(q)
    \/ \E b \in BuildIds : WatchTask(q, b)
    \/ Decide(q) \/ LockBuild(q) \/ LockPackage(q) \/ SyncRunning(q)


DeletesRow(q) == proc[q].pc = "delete" /\ Delete(q, proc[q].b, proc[q].p)

(* The commit after which an event is dispatched *)
EmitsNext(q) ==
    /\ CommitBuild(q)
    /\ proc[q].prev \notin {"none", MsgState(View(q)[proc[q].p])}
    /\ proc' = [proc EXCEPT ![q].new = MsgState(View(q)[proc[q].p]), ![q].pc = "emit"]

LEMMA EndResets ==
    ASSUME TypeInv, NEW q \in Procs, EndHandler(q) \/ EndService(q)
    PROVE  Resets(q)
<1>1. proc \in [Procs -> Local] /\ proc[q].list \subseteq proc[q].list
  BY DEF TypeInv, Locals
<1>2. CASE EndHandler(q)
  BY <1>1, <1>2 DEF EndHandler, IdleProc, Resets
<1>3. CASE EndService(q)
  BY <1>1, <1>3 DEF EndService, IdleProc, Resets
<1>q. QED
  BY <1>2, <1>3

LEMMA TriggerMoves ==
    ASSUME TypeInv, NEW q \in Procs, Trigger(q)
    PROVE  IF TriggerIntegrityError(q) THEN Resets(q) ELSE Fires(q)
<1>1. proc \in [Procs -> Local] /\ proc[q] \in Local
  BY DEF TypeInv, Locals
<1>2. ASSUME proc[q].pc \in TriggerPCs, NextFiring(q)
      PROVE  Fires(q)
  BY <1>1, <1>2 DEF NextFiring, Fires, TriggerPCs, Local
<1>3. ASSUME TriggerRead(q)
      PROVE  Fires(q)
  <2> DEFINE v   == View(q)
             p   == proc[q].p
             lb  == LastBuildOf(v, p)
             lcb == LastCompleteBuildOf(v, p)
             x   == IF lb = v[p].last_build THEN Keep ELSE lb
             y   == IF lcb = v[p].last_complete_build THEN Keep ELSE lcb
             z   == IF lcb = v[p].last_complete_build \/ lcb = NULL THEN NULL ELSE v[lcb].state
  <2>1. CASE NextFiring(q)
    BY <1>2, <1>3, <2>1 DEF TriggerRead, TriggerPCs
  <2>2. CASE proc' = [proc EXCEPT ![q].pc = "trigger_package", ![q].lb = x, ![q].lcb = y,
                                  ![q].lcs = z]
    BY <1>1, <1>3, <2>2 DEF TriggerRead, Fires, TriggerPCs, Local
  <2>q. QED
    BY <1>3, <2>1, <2>2 DEF TriggerRead
<1>4. ASSUME TriggerPackage(q)
      PROVE  Fires(q)
  BY <1>1, <1>4 DEF TriggerPackage, Goto, Fires, TriggerPCs, Local
<1>5. ASSUME TriggerFlags(q)
      PROVE  Fires(q)
  BY <1>2, <1>5 DEF TriggerFlags, TriggerPCs
<1>6. ASSUME TriggerIntegrityError(q)
      PROVE  Resets(q)
  BY <1>6, EndResets DEF TriggerIntegrityError
<1>q. QED
  BY <1>3, <1>4, <1>5, <1>6 DEF Trigger

LEMMA UpdateMoves ==
    ASSUME TypeInv, NEW q \in Procs, UpdateBuildState(q)
    PROVE  \/ Resets(q) \/ Handles(q)
           \/ DeletesRow(q) \/ EmitsNext(q)
BY EndResets
   DEF UpdateBuildState, Handles, DeletesRow, EmitsNext, DecideDeleted, LockBuildDone, SyncDeleted, DeleteBuild,
       DeleteRefused, CommitBuild, Emit

(* The other handlers *)
LEMMA GotoAside ==
    ASSUME TypeInv, NEW q \in Procs, At(proc[q]) \notin UpdatePCs, NEW l,
           l \notin UpdatePCs \cup TriggerPCs, Goto(q, l)
    PROVE  Aside(q)
<1>1. proc \in [Procs -> Local] /\ proc[q] \in Local
  BY DEF TypeInv, Locals
<1>q. QED
  BY <1>1 DEF Goto, Aside, At, Local

LEMMA BeginUpdateAside ==
    ASSUME TypeInv, NEW q \in Procs, NEW S, NEW pc, NEW next, At(proc[q]) \notin UpdatePCs,
           {pc, next} \cap (UpdatePCs \cup TriggerPCs) = {}, BeginUpdate(q, S, pc, next)
    PROVE  Aside(q)
<1>1. proc \in [Procs -> Local] /\ proc[q] \in Local
  BY DEF TypeInv, Locals
<1>2. PICK l \in {pc, next} :
         proc' = [proc EXCEPT ![q].todo = S, ![q].ret = next, ![q].fires = 0, ![q].pc = l]
  BY DEF BeginUpdate
<1>q. QED
  BY <1>1, <1>2 DEF Aside, At, Local

LEMMA RealMoves ==
    ASSUME TypeInv, NEW q \in Procs,
           RealStep(q) \/ \E p \in Packages : RefreshPackage(q, p) \/ WatchTag(q, p)
    PROVE  Resets(q) \/ Aside(q)
<1>1. proc \in [Procs -> Local] /\ proc[q] \in Local
  BY DEF TypeInv, Locals
<1>2. proc[q].pc \in RefreshPCs =>
         /\ At(proc[q]) \notin UpdatePCs
         /\ proc[q].cont \in {"done", "untag", "untag_registered"}
  BY RefreshLocals DEF At, RefreshPCs, UpdatePCs, TriggerPCs
<1>3. ASSUME NEW p \in Packages, RefreshPackage(q, p) \/ WatchTag(q, p)
      PROVE  Aside(q)
  <2>1. CASE WatchTag(q, p)
    BY ZenonT(60), <1>1, <2>1 DEF WatchTag, Aside, At, UpdatePCs, TriggerPCs, Local
  <2>2. CASE RefreshPackage(q, p)
    <3> DEFINE new == /\ real[p][tagged[p]] \notin RegisteredTasks(db, p)
                      /\ IsBuildNewer(LastBuildVersion(db, p), tagged[p])
               l == IF new THEN "register" ELSE "untag"
    <3>1. /\ proc' = [proc EXCEPT ![q].p = p, ![q].info = tagged[p],
                                  ![q].last = LastBuildVersion(db, p), ![q].pc = l,
                                  ![q].cont = "untag"]
          /\ l \in {"register", "untag"} /\ proc[q].pc = "idle"
      BY <2>2 DEF RefreshPackage
    <3> HIDE DEF l
    <3>q. QED
      BY <1>1, <3>1 DEF Aside, At, UpdatePCs, TriggerPCs, Local
  <2>q. QED
    BY <1>3, <2>1, <2>2
<1>4. CASE RegisterNoRepo(q)
  BY <1>2, <1>4, EndResets, GotoAside DEF RegisterNoRepo, RefreshPCs, UpdatePCs, TriggerPCs
<1>5. CASE RegisterLock(q)
  <2> DEFINE new == InfoTask(q) \notin RegisteredTasks(View(q), proc[q].p)
             x == IF new THEN 1 ELSE 0
             l == IF new THEN "trigger" ELSE "registered"
  <2>1. /\ proc' = [proc EXCEPT ![q].fires = x, ![q].ret = "registered", ![q].pc = l]
        /\ l \in {"trigger", "registered"}
    BY <1>5 DEF RegisterLock
  <2> HIDE DEF x, l
  <2>q. QED
    BY <1>1, <1>2, <1>5, <2>1 DEF RegisterLock, Aside, At, UpdatePCs, TriggerPCs, RefreshPCs, Local
<1>6. CASE RegisterCommit(q)
  BY <1>1, <1>2, <1>6, EndResets
     DEF RegisterCommit, Aside, At, UpdatePCs, TriggerPCs, RefreshPCs, Local
<1>7. CASE Untag(q)
  <2>1. CASE Goto(q, "retag")
    BY <1>2, <1>7, <2>1, GotoAside DEF Untag, RefreshPCs, UpdatePCs, TriggerPCs
  <2>2. CASE proc' = [proc EXCEPT ![q].pc = "register", ![q].cont = "untag_registered"]
    BY <1>1, <1>2, <1>7, <2>2 DEF Untag, RefreshPCs, Aside, At, UpdatePCs, TriggerPCs, Local
  <2>3. CASE \E S : BeginUpdate(q, S, "untag_rows", "retag")
    BY <1>2, <1>7, <2>3, BeginUpdateAside DEF Untag, RefreshPCs, UpdatePCs, TriggerPCs
  <2>q. QED
    BY <1>7, <2>1, <2>2, <2>3 DEF Untag
<1>8. CASE UntagRegistered(q) \/ Retag(q)
  <2>1. \E S, pc, next : /\ BeginUpdate(q, S, pc, next)
                         /\ {pc, next} \cap (UpdatePCs \cup TriggerPCs) = {}
    BY <1>8 DEF UntagRegistered, Retag, UpdatePCs, TriggerPCs
  <2>q. QED
    BY <1>2, <1>8, <2>1, BeginUpdateAside DEF UntagRegistered, Retag, RefreshPCs
<1>9. CASE UpdateRow(q)
  <2>1. proc[q].ret \in {"retag", "refreshed"}
    BY <1>9 DEF UpdateRow, TypeInv, ProcInv, LocalOK
  <2> DEFINE b == NextRow(q)
             val == proc[q].pc = "untag_rows"
             row == View(q)[b]
             hit == row # NULL /\ (val \/ row.untagged)
             x == IF hit /\ row.untagged # val THEN proc[q].fires + 1 ELSE proc[q].fires
             S == proc[q].todo \ {b}
             l == IF S # {} THEN proc[q].pc ELSE IF x > 0 THEN "trigger" ELSE proc[q].ret
  <2>2. /\ proc' = [proc EXCEPT ![q].todo = S, ![q].fires = x, ![q].pc = l]
        /\ l \in {proc[q].pc, "trigger", proc[q].ret}
    BY <1>9 DEF UpdateRow
  <2> HIDE DEF x, S, l
  <2>q. QED
    BY <1>1, <1>2, <1>9, <2>1, <2>2
       DEF UpdateRow, Aside, At, UpdatePCs, TriggerPCs, RefreshPCs, Local
<1>10. CASE RefreshCommit(q)
  BY <1>10, EndResets DEF RefreshCommit
<1>q. QED
  BY <1>3, <1>4, <1>5, <1>6, <1>7, <1>8, <1>9, <1>10
     DEF RealStep, RegisterRealBuilds, RefreshLatestBuilds


LEMMA ScheduleMoves ==
    ASSUME TypeInv, NEW q \in Procs, Schedule(q)
    PROVE  Resets(q) \/ Aside(q)
<1>1. proc \in [Procs -> Local] /\ proc[q] \in Local
  BY DEF TypeInv, Locals
<1>2. CASE CountBuilds(q) \/ FlushSkipped(q) \/ ResetPriority(q) \/ SkipPackage(q) \/ SkipFlags(q)
  BY <1>1, <1>2 DEF CountBuilds, FlushSkipped, ResetPriority, SkipPackage, SkipFlags, Goto,
                    Aside, At, UpdatePCs, TriggerPCs, Local
<1>3. CASE ReadPriorities(q)
  <2>1. PICK C \in SUBSET {p \in Packages : HasPriority(db[p])} :
           proc' = [proc EXCEPT ![q].todo = C, ![q].pc = IF C = {} THEN "idle" ELSE "pick"]
    BY <1>3 DEF ReadPriorities
  <2>q. QED
    BY <1>1, <1>3, <2>1 DEF ReadPriorities, Aside, At, UpdatePCs, TriggerPCs, Local
<1>4. CASE Stop(q) \/ SubmitCommit(q)
  BY <1>4, EndResets DEF Stop, SubmitCommit
<1>5. ASSUME NEW p \in Packages, NoAllowedArch(q, p) \/ NoSrpmHeaders(q, p) \/ SubmitTask(q, p)
      PROVE  Aside(q)
  BY <1>1, <1>5 DEF NoAllowedArch, NoSrpmHeaders, SubmitTask, Aside, At, UpdatePCs, TriggerPCs,
                    Local
<1>6. CASE InsertBuild(q)
  BY <1>1, <1>6 DEF InsertBuild, Aside, At, UpdatePCs, TriggerPCs, Local
<1>7. CASE SkipCommit(q)
  <2> DEFINE rest == proc[q].todo \ {proc[q].p}
             pc == IF rest = {} THEN "idle" ELSE "pick"
  <2>1. proc' = [proc EXCEPT ![q] = [IdleProc EXCEPT !.todo = rest, !.pc = pc]]
    BY <1>7 DEF SkipCommit
  <2>2. pc \in {"idle", "pick"}
    OBVIOUS
  <2> HIDE DEF rest, pc
  <2>q. QED
    BY <1>1, <2>1, <2>2 DEF IdleProc, Resets
<1>q. QED
  BY <1>2, <1>3, <1>4, <1>5, <1>6, <1>7 DEF Schedule

LEMMA ServeMoves ==
    ASSUME TypeInv, NEW q \in Procs, ServeRequest(q)
    PROVE  Resets(q) \/ Aside(q) \/ (UNCHANGED proc /\ proc[q].pc = "idle")
<1>1. proc \in [Procs -> Local] /\ proc[q] \in Local
  BY DEF TypeInv, Locals
<1>2. ASSUME NEW b \in BuildIds, RequestCancel(q, b)
      PROVE  Aside(q)
  BY <1>1, <1>2 DEF RequestCancel, Aside, At, UpdatePCs, TriggerPCs, Local
<1>3. CASE MarkCanceled(q)
  BY <1>3, EndResets DEF MarkCanceled
<1>q. QED
  BY <1>2, <1>3 DEF ServeRequest, EditPriority

LEMMA Moves ==
    ASSUME TypeInv, NEW q \in Procs, Acts(q)
    PROVE  \/ Resets(q) \/ Aside(q) \/ Handles(q) \/ DeletesRow(q) \/ EmitsNext(q)
           \/ Fires(q) /\ (Updating(q) \/ UNCHANGED <<db, work, xlock>>)
           \/ UNCHANGED proc /\ proc[q].pc = "idle"
<1>1. CASE Crash(q) \/ DeadlockAbort(q)
  BY <1>1, EndResets DEF Crash, DeadlockAbort, Die
<1>2. CASE PollStep(q) \/ UpdateBuildState(q)
  BY <1>2, UpdateMoves DEF PollStep, Handles
<1>3. CASE Trigger(q)
  BY <1>3, TriggerMoves, TriggerShape
<1>q. QED
  BY <1>1, <1>2, <1>3, TriggerMoves, RealMoves, ScheduleMoves, ServeMoves
     DEF Acts, Step, Handles, TriggerStep


(* The local variables in Handles *)
LEMMA HandlesFields ==
    ASSUME TypeInv, NEW q \in Procs, Handles(q)
    PROVE  /\ proc[q].pc \in {"idle", "poll", "poll_rows", "decide", "lock", "lock_package", "sync"}
           /\ LockPackage(q) \/ proc'[q].prev = proc[q].prev
           /\ proc'[q].pc = "lock_package" => LockBuild(q)
           /\ proc'[q].pc = "delete" => LockBuild(q)
           /\ proc'[q].pc = "lock" => Decide(q)
           /\ proc'[q].pc = "decide" => PollNext(q) \/ \E b \in BuildIds : WatchTask(q, b)
           /\ proc'[q].pc # "emit"
           /\ LockPackage(q) \/ proc'[q].pc \notin TriggerPCs
           /\ \/ PollInfos(q) \/ PollRows(q)
              \/ proc'[q].infos = proc[q].infos /\ proc'[q].list \subseteq proc[q].list
           /\ Decide(q) \/ LockBuild(q) \/ LockPackage(q) =>
                 proc'[q].b = proc[q].b /\ proc'[q].ts = proc[q].ts
           /\ LockBuild(q) => proc'[q].p = proc[q].p
           /\ Decide(q) => proc'[q].pc # "decide" /\ proc'[q].pc # "commit"
<1>1. proc \in [Procs -> Local] /\ proc[q] \in Local
  BY DEF TypeInv, Locals
<1>2. CASE PollInfos(q)
  <2> DEFINE S == RunningBuilds(db)
             infos == IF PollAligned THEN {}
                      ELSE {<<Rank(b, S), StateName(koji[db[b].task])>> : b \in S}
             list == IF PollAligned
                     THEN {<<b, StateName(koji[db[b].task])>> : b \in S} ELSE {}
             pc == IF PollAligned THEN "poll" ELSE "poll_rows"
  <2>1. /\ proc' = [proc EXCEPT ![q].infos = infos, ![q].list = list, ![q].pc = pc]
        /\ pc \in {"poll", "poll_rows"} /\ proc[q].pc = "idle"
    BY <1>2 DEF PollInfos
  <2> HIDE DEF infos, list, pc
  <2>2. proc'[q].prev = proc[q].prev /\ proc'[q].pc = pc
    BY <1>1, <2>1 DEF Local
  <2>q. QED
    BY <1>2, <2>1, <2>2 DEF TriggerPCs, Decide, LockBuild, LockPackage
<1>3. CASE PollRows(q)
  <2> DEFINE pc == IF PollPairs(q) = {} THEN "idle" ELSE "poll"
  <2>1. /\ proc' = [proc EXCEPT ![q].list = PollPairs(q), ![q].infos = {}, ![q].pc = pc]
        /\ pc \in {"idle", "poll"} /\ proc[q].pc = "poll_rows"
    BY <1>3 DEF PollRows
  <2> HIDE DEF pc
  <2>2. proc'[q].prev = proc[q].prev /\ proc'[q].pc = pc
    BY <1>1, <2>1 DEF Local
  <2>q. QED
    BY <1>3, <2>1, <2>2 DEF TriggerPCs, Decide, LockBuild, LockPackage
<1>4. CASE PollNext(q)
  <2>1. PICK x \in proc[q].list :
           proc' = [proc EXCEPT ![q].list = proc[q].list \ {x},
                                ![q].b = x[1], ![q].ts = x[2], ![q].pc = "decide"]
    BY <1>4 DEF PollNext
  <2>2. /\ proc'[q].pc = "decide" /\ proc'[q].prev = proc[q].prev
        /\ proc'[q].infos = proc[q].infos /\ proc'[q].list = proc[q].list \ {x}
    BY <1>1, <2>1 DEF Local
  <2>q. QED
    BY <1>4, <2>2 DEF PollNext, TriggerPCs, Decide, LockBuild, LockPackage
<1>5. ASSUME NEW b \in BuildIds, WatchTask(q, b)
      PROVE  /\ proc'[q].pc = "decide" /\ proc'[q].prev = proc[q].prev /\ proc[q].pc = "idle"
             /\ proc'[q].infos = proc[q].infos /\ proc'[q].list = proc[q].list
  BY <1>1, <1>5 DEF WatchTask, Local
<1>6. CASE Decide(q)
  <2> DEFINE final    == KojiStateMap(proc[q].ts) # NULL
             canceled == proc[q].ts = "CANCELED"
             giveup   == ~ canceled /\ ~ final /\ GiveUp(proc[q].b)
             c == canceled \/ giveup
             pc == IF canceled \/ giveup \/ final THEN "lock" ELSE "sync"
  <2>1. /\ proc' = [proc EXCEPT ![q].canceled = c, ![q].p = db[proc[q].b].package, ![q].pc = pc]
        /\ pc \in {"lock", "sync"} /\ proc[q].pc = "decide"
    BY <1>6 DEF Decide
  <2> HIDE DEF c, pc
  <2>2. /\ proc'[q].pc = pc /\ proc'[q].prev = proc[q].prev
        /\ proc'[q].infos = proc[q].infos /\ proc'[q].list = proc[q].list
        /\ proc'[q].b = proc[q].b /\ proc'[q].ts = proc[q].ts
    BY <1>1, <2>1 DEF Local
  <2>q. QED
    BY <1>6, <2>1, <2>2 DEF TriggerPCs, LockBuild, LockPackage
<1>7. CASE LockBuild(q)
  <2> DEFINE ins == ~ MustDelete(q) /\ arch[proc[q].b] = 0
             pc == IF MustDelete(q) THEN "delete" ELSE "lock_package"
  <2>1. /\ proc' = [proc EXCEPT ![q].ins = ins, ![q].pc = pc]
        /\ pc \in {"delete", "lock_package"} /\ proc[q].pc = "lock"
    BY <1>7 DEF LockBuild
  <2> HIDE DEF ins, pc
  <2>2. /\ proc'[q].pc = pc /\ proc'[q].prev = proc[q].prev
        /\ proc'[q].infos = proc[q].infos /\ proc'[q].list = proc[q].list
        /\ proc'[q].b = proc[q].b /\ proc'[q].ts = proc[q].ts /\ proc'[q].p = proc[q].p
    BY <1>1, <2>1 DEF Local
  <2>q. QED
    BY <1>7, <2>1, <2>2 DEF TriggerPCs, Decide, LockPackage
<1>8. CASE LockPackage(q)
  <2>1. /\ proc' = [proc EXCEPT ![q].prev = MsgState(View(q)[proc[q].p]), ![q].fires = 1,
                                ![q].ret = "commit", ![q].pc = "trigger"]
        /\ proc[q].pc = "lock_package"
    BY <1>8 DEF LockPackage
  <2>2. /\ proc'[q].pc = "trigger"
        /\ proc'[q].infos = proc[q].infos /\ proc'[q].list = proc[q].list
        /\ proc'[q].b = proc[q].b /\ proc'[q].ts = proc[q].ts
    BY <1>1, <2>1 DEF Local
  <2>q. QED
    BY <1>8, <2>1, <2>2 DEF TriggerPCs, Decide, LockBuild
<1>9. CASE SyncRunning(q)
  <2>1. PICK x : proc' = [proc EXCEPT ![q].ins = x, ![q].pc = "commit"]
    BY <1>9 DEF SyncRunning
  <2>2. /\ proc'[q].pc = "commit" /\ proc'[q].prev = proc[q].prev
        /\ proc'[q].infos = proc[q].infos /\ proc'[q].list = proc[q].list
    BY <1>1, <2>1 DEF Local
  <2>q. QED
    BY <1>9, <2>2 DEF SyncRunning, TriggerPCs, Decide, LockBuild, LockPackage
<1>10. CASE \E b \in BuildIds : WatchTask(q, b)
  BY <1>5, <1>10 DEF TriggerPCs, Decide, LockBuild, LockPackage
<1>11. \/ PollInfos(q) \/ PollRows(q) \/ PollNext(q) \/ (\E b \in BuildIds : WatchTask(q, b))
       \/ Decide(q) \/ LockBuild(q) \/ LockPackage(q) \/ SyncRunning(q)
  BY DEF Handles
<1>q. QED
  BY <1>2, <1>3, <1>4, <1>6, <1>7, <1>8, <1>9, <1>10, <1>11


-----------------------------------------------------------------------------
(* From the lock of the package to the commit, prev is the state of the     *)
(* package in the database: nobody else can write it, and the handler that  *)
(* locks it has not written it yet                                          *)
Noticing(q) ==
    LET l == proc[q]
    IN  /\ l.pc = "lock_package" => xlock[l.p] # q
        /\ l.prev # "none" /\ l.pc # "emit" =>
              /\ At(l) = "commit"
              /\ xlock[l.p] = q
              /\ l.prev = MsgState(db[l.p])

NoticeInv == \A q \in Procs : Noticing(q)

LEMMA NoticingHeld ==
    ASSUME TypeInv, NEW o \in Procs, Noticing(o), Held(o), proc'[o] = proc[o]
    PROVE  Noticing(o)'
<1>1. proc[o].pc = "lock_package" \/ At(proc[o]) = "commit" => proc[o].p \in Rows
  BY DEF TypeInv, ProcInv, LocalOK, At, TriggerPCs, NoPackagePCs, Rows
<1>q. QED
  BY <1>1 DEF Noticing, Held

LEMMA FiresKeepsLocks ==
    ASSUME NEW q \in Procs, Updating(q) \/ UNCHANGED <<db, work, xlock>>
    PROVE  \A r \in Rows : db'[r] = db[r] /\ (xlock[r] = q => xlock'[r] = q)
BY DEF Updating, Write

LEMMA NoticingActs ==
    ASSUME TypeInv, NEW q \in Procs, Noticing(q), Acts(q)
    PROVE  Noticing(q)'
<1>1. CASE Resets(q)
  BY <1>1 DEF Resets, Noticing
<1>2. CASE Aside(q)
  <2>1. proc[q].prev = "none"
    BY <1>2 DEF Aside, Noticing, At, UpdatePCs, TriggerPCs
  <2>q. QED
    BY <1>2, <2>1 DEF Aside, Noticing, At, UpdatePCs, TriggerPCs
<1>3. CASE LockBuild(q)
  <2>1. proc[q].pc = "lock" /\ proc[q].b \in BuildIds /\ proc[q].p \in Packages
    BY <1>3, UpdateLocals DEF LockBuild, UpdatePCs
  <2>2. proc[q].prev = "none"
    BY <2>1 DEF Noticing, At, TriggerPCs
  <2>3. proc'[q].p = proc[q].p /\ proc'[q].prev = "none"
    BY <1>3, <2>2, HandlesFields DEF Handles, LockPackage, LockBuild
  <2>4. xlock[proc[q].p] # q
    BY <2>1 DEF TypeInv, ProcInv, NoLocks, LockFreePCs, Rows
  <2>5. proc[q].p # proc[q].b /\ proc[q].p \in Rows
    BY <2>1, RowsAssumption DEF BuildIds, Rows
  <2>6. xlock'[proc[q].p] # q
    BY <1>3, <2>4, <2>5 DEF LockBuild, Write
  <2>q. QED
    BY <2>3, <2>6 DEF Noticing
<1>4. CASE LockPackage(q)
  <2>1. /\ proc[q].p \in Packages /\ proc[q].p \in Rows /\ proc \in [Procs -> Local]
        /\ proc[q] \in Local
    BY <1>4, UpdateLocals DEF LockPackage, UpdatePCs, Rows, Locals
  <2>2. /\ proc'[q].prev = MsgState(View(q)[proc[q].p]) /\ proc'[q].p = proc[q].p
        /\ proc'[q].pc = "trigger" /\ proc'[q].ret = "commit"
    BY <1>4, <2>1 DEF LockPackage, Local
  <2>3. View(q)[proc[q].p] = db[proc[q].p]
    BY <1>4, <2>1 DEF View, Noticing, LockPackage
  <2>4. xlock'[proc[q].p] = q /\ db' = db
    BY <1>4, <2>1 DEF LockPackage, Write
  <2>q. QED
    BY <2>2, <2>3, <2>4 DEF Noticing, At, TriggerPCs
<1>5. CASE Handles(q) /\ ~ LockBuild(q) /\ ~ LockPackage(q)
  <2>1. proc[q].prev = "none"
    BY <1>5, HandlesFields DEF Noticing, At, TriggerPCs
  <2>q. QED
    BY <1>5, <2>1, HandlesFields DEF Noticing
<1>6. CASE DeletesRow(q)
  <2>1. proc[q].prev = "none" /\ proc \in [Procs -> Local] /\ proc[q] \in Local
    BY <1>6 DEF DeletesRow, Noticing, At, TriggerPCs, TypeInv, Locals
  <2>2. PICK x, l : /\ proc' = [proc EXCEPT ![q].fires = x, ![q].ret = "commit", ![q].pc = l]
                    /\ l \in {"trigger", "commit"}
    BY <1>6 DEF DeletesRow, Delete
  <2>3. proc'[q].prev = "none" /\ proc'[q].pc = l
    BY <2>1, <2>2 DEF Local
  <2>q. QED
    BY <2>2, <2>3 DEF Noticing
<1>7. CASE EmitsNext(q)
  <2>1. proc'[q].pc = "emit"
    BY <1>7 DEF EmitsNext, TypeInv, Locals, Local
  <2>q. QED
    BY <2>1 DEF Noticing
<1>8. CASE Fires(q) /\ (Updating(q) \/ UNCHANGED <<db, work, xlock>>)
  <2>1. /\ proc[q].p \in Rows
        /\ proc[q].ret \notin TriggerPCs /\ proc[q].ret # "emit" /\ proc[q].ret # "lock_package"
    BY <1>8 DEF Fires, TypeInv, ProcInv, LocalOK, TriggerPCs, NoPackagePCs, Rows
  <2>2. /\ db'[proc[q].p] = db[proc[q].p]
        /\ xlock[proc[q].p] = q => xlock'[proc[q].p] = q
    BY <1>8, <2>1, FiresKeepsLocks
  <2>3. At(proc'[q]) = At(proc[q]) /\ proc'[q].pc # "lock_package" /\ proc[q].pc # "emit"
    BY <1>8, <2>1 DEF Fires, At, TriggerPCs
  <2>q. QED
    BY <1>8, <2>2, <2>3 DEF Fires, Noticing
<1>9. CASE UNCHANGED proc /\ proc[q].pc = "idle"
  BY <1>9 DEF Noticing, At, TriggerPCs
<1>q. QED
  BY <1>1, <1>2, <1>3, <1>4, <1>5, <1>6, <1>7, <1>8, <1>9, Moves

LEMMA NextNotice ==
    ASSUME TypeInv, NoticeInv, [Next]_vars
    PROVE  NoticeInv'
<1>1. ASSUME NEW q \in Procs, Acts(q), NEW o \in Procs
      PROVE  Noticing(o)'
  BY <1>1, NoticingActs, NoticingHeld, OthersHeld DEF NoticeInv
<1>2. ASSUME ~ \E q \in Procs : Acts(q), NEW o \in Procs
      PROVE  Noticing(o)'
  BY <1>2, EnvHeld, NoticingHeld DEF NoticeInv
<1>q. QED
  BY <1>1, <1>2 DEF NoticeInv

LEMMA StepTells ==
    ASSUME TypeInv, NoticeInv, [Next]_vars, NEW q \in Workers,
           proc[q].pc = "commit", proc'[q].pc = "emit"
    PROVE  /\ proc[q].prev = MsgState(db[proc[q].p])
           /\ proc'[q].new = MsgState(db'[proc[q].p])
<1>1. q \in Procs /\ proc[q] \in Local /\ proc \in [Procs -> Local]
  BY DEF Procs, TypeInv, Locals
<1>2. Acts(q)
  <2>1. ASSUME ~ Acts(q)
        PROVE  proc'[q] = proc[q]
    BY <1>1, <2>1, OthersHeld, EnvHeld
  <2>q. QED
    BY <2>1
<1>3. EmitsNext(q)
  BY <1>1, <1>2, Moves, HandlesFields
     DEF Resets, Aside, Fires, DeletesRow, At, UpdatePCs, TriggerPCs
<1>4. proc[q].p \in Rows
  BY <1>1, UpdateLocals DEF UpdatePCs, Rows
<1>5. proc'[q].new = MsgState(View(q)[proc[q].p]) /\ db' = View(q)
  BY <1>1, <1>3 DEF EmitsNext, CommitBuild, Commit, Local
<1>q. QED
  BY <1>1, <1>3, <1>5 DEF NoticeInv, Noticing, EmitsNext

(* The event about a build names the states of its package just before and  *)
(* just after the commit that finished the build, whatever other services   *)
(* do meanwhile (update_build_state: the package is locked before its state *)
(* is read).                                                                *)
THEOREM EventsTellTransitions == Spec => EventTellsTransition
<1>1. Init => TypeInv /\ NoticeInv
  <2>1. ASSUME Init
        PROVE  NoticeInv
    BY <2>1 DEF Init, NoticeInv, Noticing, IdleProc
  <2>q. QED
    BY <2>1, InitTypes
<1>2. TypeInv /\ NoticeInv /\ [Next]_vars => TypeInv' /\ NoticeInv'
  BY NextTypes, StutterTypes, NextNotice
<1>3. TypeInv /\ NoticeInv /\ [Next]_vars
      => \A q \in Workers : (proc[q].pc = "commit" /\ proc'[q].pc = "emit")
            => /\ proc[q].prev = MsgState(db[proc[q].p])
               /\ proc'[q].new = MsgState(db'[proc[q].p])
  BY StepTells
<1>q. QED
  BY <1>1, <1>2, <1>3, PTL DEF Spec, EventTellsTransition


-----------------------------------------------------------------------------
(* What the database says of the end of a build is what Koji says of its    *)
(* task, in both versions of the row, and a finished build is not changed   *)
RowMatches(row) ==
    row # NULL /\ row.state \in FinishedStates
        => koji[row.task] = IF row.state = COMPLETE THEN "CLOSED" ELSE "FAILED"

RowsMatch == \A b \in BuildIds : RowMatches(db[b]) /\ RowMatches(work[b])

StateKept ==
    \A b \in BuildIds :
        (db[b] # NULL /\ work[b] # NULL /\ db[b].state \in FinishedStates)
            => work[b].state = db[b].state

(* Whatever a process still has to handle is true *)
Hearing(q) ==
    LET l == proc[q]
    IN  /\ l.infos = {}
        /\ \A x \in l.list : Heard(x[1], x[2])
        /\ l.pc \in {"decide", "lock", "lock_package"} => Heard(l.b, l.ts)

(* A build that a process is about to finish, or has finished without       *)
(* having committed it, is running in the database                          *)
Finishing(q) ==
    LET l == proc[q]
    IN  /\ l.pc = "lock_package" =>
              /\ TaskIn(l.b, {"CLOSED", "FAILED"})
              /\ db[l.b] # NULL /\ db[l.b].state = RUNNING
        /\ l.prev # "none" /\ l.pc # "emit" =>
              /\ At(l) = "commit" /\ xlock[l.b] = q
              /\ db[l.b] # NULL /\ db[l.b].state = RUNNING
              /\ work[l.b] # NULL /\ work[l.b].state \in FinishedStates

FinishInv ==
    /\ KojiInv /\ RowsMatch /\ StateKept
    /\ \A q \in Procs : Hearing(q) /\ Finishing(q)

LEMMA RowMatchStays ==
    ASSUME TypeInv, KojiInv, [Next]_vars, NEW x, RowMatches(x), NEW row, row # NULL => x # NULL,
           x # NULL => x.task \in Stamps, row # NULL => row.task = x.task /\ row.state = x.state
    PROVE  row # NULL /\ row.state \in FinishedStates
              => koji'[row.task] = IF row.state = COMPLETE THEN "CLOSED" ELSE "FAILED"
<1>1. EndedStay
  BY NextKoji
<1>q. QED
  BY <1>1 DEF RowMatches, EndedStay, Ended

LEMMA NextRowsMatch ==
    ASSUME TypeInv, UniqueInv, FinishInv, [Next]_vars
    PROVE  RowsMatch' /\ StateKept'
<1>1. SUFFICES ASSUME NEW b \in BuildIds
               PROVE  /\ RowMatches(db[b])' /\ RowMatches(work[b])'
                      /\ (db'[b] # NULL /\ work'[b] # NULL /\ db'[b].state \in FinishedStates)
                            => work'[b].state = db'[b].state
  BY DEF RowsMatch, StateKept
<1>2. /\ KojiInv /\ RowMatches(db[b]) /\ RowMatches(work[b])
      /\ (db[b] # NULL /\ work[b] # NULL /\ db[b].state \in FinishedStates)
            => work[b].state = db[b].state
  BY DEF FinishInv, RowsMatch, StateKept
<1>3. (db[b] # NULL => db[b].task \in Stamps) /\ (work[b] # NULL => work[b].task \in Stamps)
  BY DEF TypeInv, DbType, TypeTable, BuildRow
<1>4. ASSUME NEW row, \/ row = NULL
                      \/ db[b] # NULL /\ row.task = db[b].task /\ row.state = db[b].state
                      \/ work[b] # NULL /\ row.task = work[b].task /\ row.state = work[b].state
      PROVE  row # NULL /\ row.state \in FinishedStates
                => koji'[row.task] = IF row.state = COMPLETE THEN "CLOSED" ELSE "FAILED"
  BY <1>2, <1>3, <1>4, RowMatchStays
<1>5. CASE RowStep(b)
  <2>1. \A row \in {db'[b], work'[b]} :
           \/ row = NULL
           \/ db[b] # NULL /\ row.task = db[b].task /\ row.state = db[b].state
           \/ work[b] # NULL /\ row.task = work[b].task /\ row.state = work[b].state
    BY <1>5 DEF RowStep, Kept, SameIdent
  <2>2. RowMatches(db[b])' /\ RowMatches(work[b])'
    BY <1>4, <2>1 DEF RowMatches
  <2>q. QED
    BY <1>2, <1>5, <2>2 DEF RowStep, Kept
<1>6. ASSUME NEW q \in Procs, Finishes(q, b)
      PROVE  /\ RowMatches(db[b])' /\ RowMatches(work[b])'
             /\ db'[b] # NULL => db'[b].state \notin FinishedStates
  <2>1. proc[q].pc = "lock_package" /\ b = proc[q].b /\ UNCHANGED koji
    BY <1>6 DEF Finishes, LockPackage, kojiVars
  <2>2. ~ proc[q].canceled /\ KojiStateMap(proc[q].ts) # NULL
    BY <2>1 DEF TypeInv, ProcInv, LocalOK
  <2>3. Heard(b, proc[q].ts) /\ TaskIn(b, {"CLOSED", "FAILED"}) /\ db[b].state = RUNNING
    BY <2>1 DEF FinishInv, Hearing, Finishing
  <2>4. koji[work[b].task] = proc[q].ts /\ proc[q].ts \in {"CLOSED", "FAILED"}
    BY <1>6, <2>2, <2>3 DEF Finishes, Heard, TaskIn, Means, StateName, KojiStateMap
  <2>5. work'[b].state = IF proc[q].ts = "CLOSED" THEN COMPLETE ELSE FAILED
    BY <1>6, <2>2, <2>4 DEF Finishes, BuildState, KojiStateMap
  <2>6. work'[b].task = work[b].task /\ db'[b] = db[b]
    BY <1>6 DEF Finishes, SameIdent
  <2>q. QED
    BY <1>2, <2>1, <2>3, <2>4, <2>5, <2>6
       DEF RowMatches, COMPLETE, FAILED, RUNNING, FinishedStates
<1>7. ASSUME NEW q \in Procs, Registers(q, b)
      PROVE  db'[b] = NULL /\ RowMatches(work[b])'
  <2>1. /\ proc[q].p \in Packages /\ proc[q].info \in Versions
        /\ InfoTask(q) # NULL /\ HasSubtasks(koji[InfoTask(q)]) /\ UNCHANGED koji
    BY <1>7, RefreshLocals, RowsAssumption
       DEF Registers, RegisterLock, RefreshPCs, kojiVars, Stamps
  <2>2. koji[InfoTask(q)] = "CLOSED"
    BY <1>2, <2>1 DEF KojiInv, RealEnded, InfoTask, HasSubtasks
  <2>q. QED
    BY <1>7, <2>1, <2>2 DEF Registers, RowMatches
<1>8. ASSUME NEW q \in Procs, Inserts(q, b)
      PROVE  db'[b] = NULL /\ RowMatches(work[b])'
  BY <1>8 DEF Inserts, RowMatches, RUNNING, COMPLETE, FAILED, FinishedStates
<1>9. ASSUME NEW q \in Procs, Deletes(q, b)
      PROVE  RowMatches(db[b])' /\ work'[b] = NULL
  BY <1>4, <1>9 DEF Deletes, RowMatches
<1>q. QED
  BY <1>5, <1>6, <1>7, <1>8, <1>9, NextRows DEF BuildStep, RowMatches


(* The local variables after the deletion, and at the event *)
LEMMA DeletesFields ==
    ASSUME TypeInv, NEW q \in Procs, DeletesRow(q)
    PROVE  /\ proc'[q].infos = proc[q].infos /\ proc'[q].list = proc[q].list
           /\ proc'[q].prev = proc[q].prev /\ proc'[q].pc \in {"trigger", "commit"}
<1>1. proc \in [Procs -> Local] /\ proc[q] \in Local
  BY DEF TypeInv, Locals
<1>2. PICK x, l : /\ proc' = [proc EXCEPT ![q].fires = x, ![q].ret = "commit", ![q].pc = l]
                  /\ l \in {"trigger", "commit"}
  BY DEF DeletesRow, Delete
<1>q. QED
  BY <1>1, <1>2 DEF Local

LEMMA EmitsFields ==
    ASSUME TypeInv, NEW q \in Procs, EmitsNext(q)
    PROVE  /\ proc'[q].infos = proc[q].infos /\ proc'[q].list = proc[q].list
           /\ proc'[q].prev = proc[q].prev /\ proc'[q].pc = "emit" /\ proc'[q].b = proc[q].b
           /\ proc[q].pc = "commit" /\ proc[q].prev # "none"
<1>1. proc \in [Procs -> Local] /\ proc[q] \in Local
  BY DEF TypeInv, Locals
<1>q. QED
  BY <1>1 DEF EmitsNext, CommitBuild, Local

LEMMA FiresFields ==
    ASSUME TypeInv, NEW q \in Procs, Fires(q)
    PROVE  /\ proc'[q].pc \in TriggerPCs
                \cup {"commit", "registered", "retag", "refreshed", "reset"}
           /\ At(proc'[q]) = At(proc[q])
BY DEF Fires, TypeInv, ProcInv, LocalOK, At, TriggerPCs

LEMMA HearingHeld ==
    ASSUME TypeInv, KojiInv, [Next]_vars, NEW o \in Procs, Hearing(o),
           proc'[o].infos = {}, proc'[o].list \subseteq proc[o].list,
           proc'[o].pc \in {"decide", "lock", "lock_package"} =>
               /\ proc[o].pc \in {"decide", "lock", "lock_package"}
               /\ proc'[o].b = proc[o].b /\ proc'[o].ts = proc[o].ts
    PROVE  Hearing(o)'
<1>1. proc[o].list \in SUBSET (BuildIds \X StateNames)
  BY DEF TypeInv, Locals, Local
<1>2. proc[o].pc \in {"decide", "lock", "lock_package"} => proc[o].b \in BuildIds
  BY UpdateLocals DEF UpdatePCs
<1>3. \A x \in proc'[o].list : Heard(x[1], x[2])'
  <2>1. SUFFICES ASSUME NEW x \in proc[o].list
                 PROVE  Heard(x[1], x[2])'
    OBVIOUS
  <2>2. x[1] \in BuildIds /\ Heard(x[1], x[2])
    BY <1>1, <2>1 DEF Hearing
  <2>q. QED
    BY <2>2, HeardStays
<1>4. proc'[o].pc \in {"decide", "lock", "lock_package"} => Heard(proc[o].b, proc[o].ts)'
  <2>1. SUFFICES ASSUME proc'[o].pc \in {"decide", "lock", "lock_package"}
                 PROVE  Heard(proc[o].b, proc[o].ts)'
    OBVIOUS
  <2>2. PICK b \in BuildIds : b = proc[o].b
    BY <1>2, <2>1
  <2>3. PICK ts : ts = proc[o].ts
    OBVIOUS
  <2>4. Heard(b, ts)'
    BY <2>1, <2>2, <2>3, HeardStays DEF Hearing
  <2>q. QED
    BY <2>1, <2>2, <2>3, <2>4
<1>q. QED
  BY <1>3, <1>4 DEF Hearing


(* The names the polling service reads, and those of messages, are true *)
LEMMA NamesHeard ==
    ASSUME TypeInv, UniqueInv, NEW b \in BuildIds, db[b] # NULL, NEW ts,
           ts \in ReportedNames(koji[db[b].task]) \cup {StateName(koji[db[b].task])}
    PROVE  Heard(b, ts)
<1>1. b < nextId /\ koji[db[b].task] \in TaskStates
  BY CommittedRow
<1>2. work[b] # NULL => work[b].task = db[b].task
  BY DEF UniqueInv, IdentKept, SameIdent
<1>3. SUFFICES ASSUME ts \in {"CLOSED", "FAILED", "CANCELED"}
               PROVE  koji[db[b].task] \in Means(ts)
  BY <1>1, <1>2 DEF Heard, TaskIn
<1>4. ts = StateName(koji[db[b].task])
  BY <1>3 DEF ReportedNames
<1>q. QED
  BY <1>1, <1>3, <1>4 DEF Means, Ended, StateName, TaskStates, Unfinished

LEMMA PollInfosHearing ==
    ASSUME PollAligned, TypeInv, UniqueInv, KojiInv, [Next]_vars, NEW q \in Procs, PollInfos(q)
    PROVE  Hearing(q)'
<1> DEFINE S == RunningBuilds(db)
           list == {<<b, StateName(koji[db[b].task])>> : b \in S}
<1>1. proc \in [Procs -> Local] /\ proc[q] \in Local
  BY DEF TypeInv, Locals
<1>2. proc' = [proc EXCEPT ![q].infos = {}, ![q].list = list, ![q].pc = "poll"]
  BY DEF PollInfos
<1>3. \A x \in list : x[1] \in BuildIds /\ Heard(x[1], x[2])
  <2>1. SUFFICES ASSUME NEW b \in S
                 PROVE  b \in BuildIds /\ Heard(b, StateName(koji[db[b].task]))
    OBVIOUS
  <2>q. QED
    BY <2>1, NamesHeard DEF RunningBuilds
<1> HIDE DEF list
<1>4. \A x \in list : Heard(x[1], x[2])'
  BY <1>3, HeardStays
<1>5. proc'[q].infos = {} /\ proc'[q].list = list /\ proc'[q].pc = "poll"
  BY <1>1, <1>2 DEF Local
<1>q. QED
  BY <1>4, <1>5 DEF Hearing

LEMMA PollRowsHearing ==
    ASSUME NEW q \in Procs, TypeInv, Hearing(q), PollRows(q)
    PROVE  Hearing(q)'
<1>1. proc \in [Procs -> Local] /\ proc[q] \in Local
  BY DEF TypeInv, Locals
<1>2. PollPairs(q) = {}
  BY DEF PollPairs, Hearing
<1>3. proc' = [proc EXCEPT ![q].list = {}, ![q].infos = {}, ![q].pc = "idle"]
  BY <1>2 DEF PollRows
<1>q. QED
  BY <1>1, <1>3 DEF Hearing, Local

LEMMA DecideHearing ==
    ASSUME TypeInv, UniqueInv, KojiInv, [Next]_vars, NEW q \in Procs, Hearing(q),
           PollNext(q) \/ \E b \in BuildIds : WatchTask(q, b)
    PROVE  Hearing(q)'
<1>1. /\ proc \in [Procs -> Local] /\ proc[q] \in Local
      /\ proc[q].list \in SUBSET (BuildIds \X StateNames)
  BY DEF TypeInv, Locals, Local
<1>2. PICK b, ts :
         /\ b \in BuildIds /\ Heard(b, ts)
         /\ proc'[q].b = b /\ proc'[q].ts = ts /\ proc'[q].pc = "decide"
         /\ proc'[q].infos = proc[q].infos /\ proc'[q].list \subseteq proc[q].list
  <2>1. CASE PollNext(q)
    <3>1. PICK x \in proc[q].list :
             proc' = [proc EXCEPT ![q].list = proc[q].list \ {x},
                                  ![q].b = x[1], ![q].ts = x[2], ![q].pc = "decide"]
      BY <2>1 DEF PollNext
    <3>2. x[1] \in BuildIds /\ Heard(x[1], x[2])
      BY <1>1, <3>1 DEF Hearing
    <3>3. /\ proc'[q].b = x[1] /\ proc'[q].ts = x[2] /\ proc'[q].pc = "decide"
          /\ proc'[q].infos = proc[q].infos /\ proc'[q].list \subseteq proc[q].list
      BY <1>1, <3>1 DEF Local
    <3>q. QED
      BY <3>2, <3>3
  <2>2. ASSUME NEW c \in BuildIds, WatchTask(q, c)
        PROVE  \E ts : /\ Heard(c, ts)
                       /\ proc'[q].b = c /\ proc'[q].ts = ts /\ proc'[q].pc = "decide"
                       /\ proc'[q].infos = proc[q].infos /\ proc'[q].list \subseteq proc[q].list
    <3>1. PICK name \in ReportedNames(koji[db[c].task]) :
             proc' = [proc EXCEPT ![q].b = c, ![q].ts = name, ![q].pc = "decide"]
      BY <2>2 DEF WatchTask
    <3>2. Heard(c, name)
      BY <2>2, <3>1, NamesHeard DEF WatchTask
    <3>3. /\ proc'[q].b = c /\ proc'[q].ts = name /\ proc'[q].pc = "decide"
          /\ proc'[q].infos = proc[q].infos /\ proc'[q].list \subseteq proc[q].list
      BY <1>1, <3>1 DEF Local
    <3>q. QED
      BY <3>2, <3>3
  <2>q. QED
    BY <2>1, <2>2
<1>3. Heard(b, ts)' /\ proc'[q].infos = {}
  BY <1>2, HeardStays DEF Hearing
<1>4. \A x \in proc'[q].list : Heard(x[1], x[2])'
  <2>1. SUFFICES ASSUME NEW x \in proc[q].list
                 PROVE  Heard(x[1], x[2])'
    BY <1>2
  <2>2. x[1] \in BuildIds /\ Heard(x[1], x[2])
    BY <1>1, <2>1 DEF Hearing
  <2>q. QED
    BY <2>2, HeardStays
<1>q. QED
  BY <1>2, <1>3, <1>4 DEF Hearing

LEMMA HearingActs ==
    ASSUME PollAligned, TypeInv, UniqueInv, KojiInv, [Next]_vars, NEW q \in Procs, Hearing(q),
           Acts(q)
    PROVE  Hearing(q)'
<1>1. proc[q].infos = {}
  BY DEF Hearing
<1>2. CASE Resets(q)
  BY <1>2, HearingHeld DEF Resets
<1>3. CASE Aside(q)
  BY <1>1, <1>3, HearingHeld DEF Aside, At, UpdatePCs, TriggerPCs
<1>4. CASE DeletesRow(q)
  BY <1>1, <1>4, HearingHeld, DeletesFields
<1>5. CASE EmitsNext(q)
  BY <1>1, <1>5, HearingHeld, EmitsFields
<1>6. CASE Fires(q)
  BY <1>1, <1>6, HearingHeld, FiresFields DEF Fires, TriggerPCs
<1>7. CASE UNCHANGED proc
  BY <1>1, <1>7, HearingHeld
<1>8. CASE Handles(q)
  <2>1. CASE PollInfos(q) \/ PollRows(q)
    BY <2>1, PollInfosHearing, PollRowsHearing
  <2>2. CASE PollNext(q) \/ \E b \in BuildIds : WatchTask(q, b)
    BY <2>2, DecideHearing
  <2>3. CASE Decide(q) \/ LockBuild(q) \/ LockPackage(q)
    <3>1. proc[q].pc \in {"decide", "lock", "lock_package"} /\ ~ PollInfos(q) /\ ~ PollRows(q)
      BY <2>3 DEF Decide, LockBuild, LockPackage, PollInfos, PollRows
    <3>q. QED
      BY <1>1, <1>8, <2>3, <3>1, HandlesFields, HearingHeld
  <2>4. CASE SyncRunning(q)
    <3>1. proc[q].pc = "sync" /\ ~ PollInfos(q) /\ ~ PollRows(q) /\ ~ Decide(q) /\ ~ LockBuild(q)
          /\ ~ PollNext(q) /\ ~ \E b \in BuildIds : WatchTask(q, b)
      BY <2>4 DEF SyncRunning, Decide, LockBuild, PollInfos, PollRows, PollNext, WatchTask
    <3>q. QED
      BY <1>1, <1>8, <3>1, HandlesFields, HearingHeld
  <2>q. QED
    BY <1>8, <2>1, <2>2, <2>3, <2>4 DEF Handles
<1>q. QED
  BY <1>2, <1>3, <1>4, <1>5, <1>6, <1>7, <1>8, Moves


(* A build whose end is known and that is not in that state is running *)
LEMMA LockedRunning ==
    ASSUME TypeInv, UniqueInv, RowsMatch, NEW q \in Procs, Hearing(q), LockBuild(q),
           proc'[q].pc = "lock_package"
    PROVE  /\ TaskIn(proc[q].b, {"CLOSED", "FAILED"})
           /\ db[proc[q].b] # NULL /\ db[proc[q].b].state = RUNNING
<1> DEFINE b == proc[q].b
           ts == proc[q].ts
           s == koji[db[b].task]
<1>1. proc[q].pc = "lock" /\ b \in BuildIds /\ db[b] # NULL /\ db[b].state # BuildState(q)
  BY UpdateLocals DEF LockBuild, UpdatePCs, AlreadyDone
<1>2. ~ MustDelete(q)
  <2>1. proc[q] \in Local /\ proc \in [Procs -> Local]
    BY DEF TypeInv, Locals
  <2>2. ASSUME MustDelete(q)
        PROVE  proc'[q].pc = "delete"
    BY <2>1, <2>2 DEF LockBuild, Local
  <2>q. QED
    BY <2>2
<1>3. ~ proc[q].canceled /\ ts \in {"CLOSED", "FAILED"} /\ BuildState(q) = KojiStateMap(ts)
  BY <1>1, <1>2 DEF MustDelete, TypeInv, ProcInv, LocalOK, KojiStateMap, BuildState
<1>4. TaskIn(b, Means(ts))
  BY <1>1, <1>3 DEF Hearing, Heard
<1>5. s = ts
  BY <1>1, <1>2, <1>3, <1>4 DEF TaskIn, Means, StateName, Ended, MustDelete, HasSubtasks
<1>6. work[b] # NULL => work[b].task = db[b].task
  BY <1>1 DEF UniqueInv, IdentKept, SameIdent
<1>7. TaskIn(b, {"CLOSED", "FAILED"})
  BY <1>3, <1>4, <1>5, <1>6 DEF TaskIn
<1>8. db[b].state \in {RUNNING} \cup FinishedStates
  BY <1>1, CommittedRow DEF BuildRow
<1>9. db[b].state \in FinishedStates => db[b].state = BuildState(q)
  BY <1>1, <1>3, <1>5 DEF RowsMatch, RowMatches, FinishedStates, COMPLETE, FAILED, KojiStateMap
<1>q. QED
  BY <1>1, <1>7, <1>8, <1>9

LEMMA FinishingHeld ==
    ASSUME TypeInv, KojiInv, [Next]_vars, NEW o \in Procs, Finishing(o), Held(o),
           proc'[o] = proc[o]
    PROVE  Finishing(o)'
<1>1. /\ proc[o].pc = "lock_package" \/ At(proc[o]) = "commit" =>
            proc[o].b \in BuildIds /\ proc[o].b \in Rows
      /\ proc[o].pc = "lock_package" => xlock[proc[o].b] = o
  BY DEF TypeInv, ProcInv, LocalOK, BuildLocked, At, TriggerPCs, UpdatePCs, Rows
<1>2. proc[o].pc = "lock_package" => TaskIn(proc[o].b, {"CLOSED", "FAILED"})'
  <2>1. SUFFICES ASSUME proc[o].pc = "lock_package"
                 PROVE  TaskIn(proc[o].b, {"CLOSED", "FAILED"})'
    OBVIOUS
  <2>2. PICK b \in BuildIds : b = proc[o].b
    BY <1>1, <2>1
  <2>3. TaskIn(b, {"CLOSED", "FAILED"})'
    BY <2>1, <2>2, TaskInStays DEF Finishing, Ended
  <2>q. QED
    BY <2>2, <2>3
<1>q. QED
  BY <1>1, <1>2 DEF Finishing, Held

LEMMA FinishingActs ==
    ASSUME TypeInv, UniqueInv, FinishInv, [Next]_vars, NEW q \in Procs, Acts(q)
    PROVE  Finishing(q)'
<1>1. Finishing(q) /\ Hearing(q) /\ KojiInv /\ RowsMatch
  BY DEF FinishInv
<1>2. CASE Resets(q)
  BY <1>2 DEF Resets, Finishing
<1>3. CASE Aside(q)
  <2>1. proc[q].prev = "none"
    BY <1>1, <1>3 DEF Aside, Finishing, At, UpdatePCs, TriggerPCs
  <2>q. QED
    BY <1>3, <2>1 DEF Aside, Finishing, At, UpdatePCs, TriggerPCs
<1>4. CASE LockBuild(q)
  <2>1. proc[q].pc = "lock" /\ proc[q].b \in BuildIds /\ db' = db
    BY <1>4, UpdateLocals DEF LockBuild, UpdatePCs, Write
  <2>2. proc[q].prev = "none"
    BY <1>1, <2>1 DEF Finishing, At, TriggerPCs
  <2>3. proc'[q].b = proc[q].b /\ proc'[q].prev = "none"
    BY <1>4, <2>2, HandlesFields DEF Handles, LockPackage, LockBuild
  <2>4. ASSUME proc'[q].pc = "lock_package"
        PROVE  /\ TaskIn(proc[q].b, {"CLOSED", "FAILED"})'
               /\ db'[proc'[q].b] # NULL /\ db'[proc'[q].b].state = RUNNING
    <3>1. PICK b \in BuildIds : b = proc[q].b
      BY <2>1
    <3>2. TaskIn(b, {"CLOSED", "FAILED"}) /\ db[b] # NULL /\ db[b].state = RUNNING
      BY <1>1, <1>4, <2>4, <3>1, LockedRunning
    <3>3. TaskIn(b, {"CLOSED", "FAILED"})'
      BY <1>1, <3>2, TaskInStays DEF Ended
    <3>q. QED
      BY <2>1, <2>3, <3>1, <3>2, <3>3
  <2>q. QED
    BY <2>3, <2>4 DEF Finishing
<1>5. CASE LockPackage(q)
  <2>1. /\ proc[q].b \in BuildIds /\ proc[q].b \in Rows /\ proc \in [Procs -> Local]
        /\ proc[q] \in Local
    BY <1>5, UpdateLocals DEF LockPackage, UpdatePCs, Rows, Locals
  <2>2. proc'[q].b = proc[q].b /\ proc'[q].pc = "trigger" /\ proc'[q].ret = "commit"
    BY <1>5, <2>1 DEF LockPackage, Local
  <2>3. Finishes(q, proc[q].b) /\ xlock'[proc[q].b] = q
    BY <1>5, <2>1, LockPackageRows DEF LockPackage, Write
  <2>4. BuildState(q) \in FinishedStates
    BY <1>5 DEF LockPackage, TypeInv, ProcInv, LocalOK, BuildState, KojiStateMap, FinishedStates
  <2>5. db[proc[q].b] # NULL /\ db[proc[q].b].state = RUNNING
    BY <1>1, <1>5 DEF Finishing, LockPackage
  <2>q. QED
    BY <2>2, <2>3, <2>4, <2>5 DEF Finishing, Finishes, At, TriggerPCs
<1>6. CASE Handles(q) /\ ~ LockBuild(q) /\ ~ LockPackage(q)
  <2>1. proc[q].prev = "none"
    BY <1>1, <1>6, HandlesFields DEF Finishing, At, TriggerPCs
  <2>q. QED
    BY <1>6, <2>1, HandlesFields DEF Finishing
<1>7. CASE DeletesRow(q)
  <2>1. proc[q].prev = "none"
    BY <1>1, <1>7 DEF DeletesRow, Finishing, At, TriggerPCs
  <2>q. QED
    BY <1>7, <2>1, DeletesFields DEF Finishing
<1>8. CASE EmitsNext(q)
  BY <1>8, EmitsFields DEF Finishing
<1>9. CASE Fires(q) /\ (Updating(q) \/ UNCHANGED <<db, work, xlock>>)
  <2>1. SUFFICES ASSUME proc'[q].prev # "none"
                 PROVE  /\ At(proc'[q]) = "commit" /\ xlock'[proc'[q].b] = q
                        /\ db'[proc'[q].b] # NULL /\ db'[proc'[q].b].state = RUNNING
                        /\ work'[proc'[q].b] # NULL /\ work'[proc'[q].b].state \in FinishedStates
    BY <1>9, FiresFields DEF Finishing, TriggerPCs
  <2>2. /\ At(proc[q]) = "commit" /\ xlock[proc[q].b] = q
        /\ db[proc[q].b] # NULL /\ db[proc[q].b].state = RUNNING
        /\ work[proc[q].b] # NULL /\ work[proc[q].b].state \in FinishedStates
    BY <1>1, <1>9, <2>1 DEF Finishing, Fires, TriggerPCs
  <2>3. PICK b \in BuildIds : b = proc[q].b
    BY <2>2 DEF TypeInv, ProcInv, LocalOK, UpdatePCs
  <2>4. b \in Rows
    BY DEF Rows
  <2>5. db'[b] = db[b] /\ xlock'[b] = q
    BY <1>9, <2>2, <2>3, <2>4, FiresKeepsLocks
  <2>6. work'[b] # NULL /\ work'[b].state \in FinishedStates
    BY <1>9, <2>2, <2>3, UpdatingRows DEF Kept
  <2>q. QED
    BY <1>9, <2>2, <2>3, <2>5, <2>6, FiresFields DEF Fires
<1>10. CASE UNCHANGED proc /\ proc[q].pc = "idle"
  BY <1>1, <1>10 DEF Finishing, At, TriggerPCs
<1>q. QED
  BY <1>2, <1>3, <1>4, <1>5, <1>6, <1>7, <1>8, <1>9, <1>10, Moves

LEMMA NextFinish ==
    ASSUME PollAligned, TypeInv, UniqueInv, FinishInv, [Next]_vars
    PROVE  FinishInv'
<1>1. KojiInv /\ KojiInv' /\ RowsMatch' /\ StateKept'
  BY NextKoji, NextRowsMatch DEF FinishInv
<1>2. ASSUME NEW o \in Procs, Held(o), proc'[o] = proc[o]
      PROVE  Hearing(o)' /\ Finishing(o)'
  <2>1. Hearing(o) /\ Finishing(o) /\ proc'[o].infos = {}
    BY <1>2 DEF FinishInv, Hearing
  <2>q. QED
    BY <1>1, <1>2, <2>1, HearingHeld, FinishingHeld
<1>3. ASSUME NEW q \in Procs, Acts(q), NEW o \in Procs
      PROVE  Hearing(o)' /\ Finishing(o)'
  BY <1>1, <1>2, <1>3, HearingActs, FinishingActs, OthersHeld DEF FinishInv
<1>4. ASSUME ~ \E q \in Procs : Acts(q), NEW o \in Procs
      PROVE  Hearing(o)' /\ Finishing(o)'
  BY <1>2, <1>4, EnvHeld
<1>q. QED
  BY <1>1, <1>3, <1>4 DEF FinishInv


LEMMA InitFinish ==
    ASSUME Init
    PROVE  UniqueInv /\ FinishInv
<1>1. \A b \in BuildIds : db[b] = NULL /\ work[b] = NULL
  BY RowsAssumption DEF Init, Rows, BuildIds
<1>2. UniqueInv
  BY <1>1 DEF UniqueInv, IdentKept, NoClash, InsertLocked, Clash
<1>3. KojiInv /\ RowsMatch /\ StateKept
  BY <1>1 DEF Init, KojiInit, KojiInv, ClockFresh, RealEnded, RowsMatch, RowMatches, StateKept
<1>4. \A q \in Procs : Hearing(q) /\ Finishing(q)
  BY DEF Init, IdleProc, Hearing, Finishing
<1>q. QED
  BY <1>2, <1>3, <1>4 DEF FinishInv

(* Whatever the polling service, the watcher and their delays and crashes,  *)
(* a build recorded as complete has a task that Koji closed, a build        *)
(* recorded as failed one that failed without a fault (poll_builds,         *)
(* Watcher.update_build_state, update_build_state), provided that the two   *)
(* queries of poll_builds see the same rows.                                *)
THEOREM RecordedStatesMatch ==
    ASSUME PollAligned
    PROVE  Spec => []RecordedStateMatchesTask
<1>1. Init => TypeInv /\ UniqueInv /\ FinishInv
  BY InitTypes, InitFinish
<1>2. TypeInv /\ UniqueInv /\ FinishInv /\ [Next]_vars => TypeInv' /\ UniqueInv' /\ FinishInv'
  BY NextTypes, StutterTypes, NextUnique, NextFinish
<1>3. FinishInv => RecordedStateMatchesTask
  BY DEF FinishInv, RowsMatch, RowMatches, RecordedStateMatchesTask
<1>q. QED
  BY <1>1, <1>2, <1>3, PTL DEF Spec

LEMMA StepKeepsFinished ==
    ASSUME TypeInv, FinishInv, [Next]_vars, NEW b \in BuildIds,
           db[b] # NULL, db[b].state \in FinishedStates, db'[b] # NULL
    PROVE  db'[b].state = db[b].state
<1>1. work[b] # NULL => work[b].state = db[b].state
  BY DEF FinishInv, StateKept
<1>q. QED
  BY <1>1, NextRows DEF RowStep, BuildStep, Finishes, Deletes, Inserts, Registers, Kept

(* A late or repeated report never changes the state of a build that has    *)
(* been recorded as finished (update_build_state compares it again under    *)
(* the lock of the build).                                                  *)
THEOREM FinishedStatesStay ==
    ASSUME PollAligned
    PROVE  Spec => FinishedStateStable
<1>1. Init => TypeInv /\ UniqueInv /\ FinishInv
  BY InitTypes, InitFinish
<1>2. TypeInv /\ UniqueInv /\ FinishInv /\ [Next]_vars => TypeInv' /\ UniqueInv' /\ FinishInv'
  BY NextTypes, StutterTypes, NextUnique, NextFinish
<1>3. TypeInv /\ FinishInv /\ [Next]_vars
      => \A b \in BuildIds :
            (db[b] # NULL /\ db[b].state \in FinishedStates /\ db'[b] # NULL)
                => db'[b].state = db[b].state
  BY StepKeepsFinished
<1>q. QED
  BY <1>1, <1>2, <1>3, PTL DEF Spec, FinishedStateStable

-----------------------------------------------------------------------------
(* A build that has been announced, or is about to be, never runs again *)
Over(row) == row # NULL => row.state \in FinishedStates

Closed(b) == b < nextId /\ Over(db[b]) /\ Over(work[b])

EmitInv ==
    /\ \A b \in BuildIds : sent[b] # 0 => sent[b] = 1 /\ Closed(b)
    /\ \A q \in Procs : proc[q].pc = "emit" => sent[proc[q].b] = 0 /\ Closed(proc[q].b)
    /\ \A q, o \in Procs :
          (proc[q].pc = "emit" /\ proc[o].pc = "emit" /\ proc[q].b = proc[o].b) => q = o

LEMMA ClosedStays ==
    ASSUME TypeInv, [Next]_vars, NEW b \in BuildIds, Closed(b)
    PROVE  Closed(b)'
<1>1. b < nextId' /\ b # nextId
  <2>1. b \in Int /\ b < nextId
    BY DEF BuildIds, Closed
  <2>q. QED
    BY <2>1, NextIdGrows
<1>2. ASSUME NEW q \in Procs, LockPackage(q)
      PROVE  BuildState(q) \in FinishedStates
  BY <1>2 DEF LockPackage, TypeInv, ProcInv, LocalOK, BuildState, KojiStateMap, FinishedStates
<1>q. QED
  BY <1>1, <1>2, NextRows
     DEF Closed, Over, RowStep, BuildStep, Finishes, Deletes, Inserts, Registers, Kept

LEMMA ActsSent ==
    ASSUME NEW q, Acts(q)
    PROVE  Emit(q) \/ UNCHANGED sent
<1>1. CASE UpdateBuildState(q)
  BY <1>1 DEF UpdateBuildState, Decide, DecideDeleted, LockBuildDone, LockBuild, DeleteBuild,
              LockPackage, SyncRunning, SyncDeleted, CommitBuild, stateVars
<1>2. CASE PollStep(q)
  BY <1>1, <1>2 DEF PollStep, PollInfos, PollRows, PollNext, stateVars
<1>q. QED
  BY <1>1, <1>2 DEF Acts, Crash, DeadlockAbort, Die, Step, WatchTask, stateVars

LEMMA BeginsEmit ==
    ASSUME TypeInv, NEW q \in Procs, Acts(q), proc'[q].pc = "emit"
    PROVE  EmitsNext(q)
BY Moves, HandlesFields, FiresFields, DeletesFields
   DEF Resets, Aside, At, UpdatePCs, TriggerPCs

LEMMA EmittedRow ==
    ASSUME TypeInv, FinishInv, [Next]_vars, NEW q \in Procs, EmitsNext(q)
    PROVE  proc[q].b \in BuildIds /\ ~ Closed(proc[q].b) /\ Closed(proc[q].b)'
<1>1. proc[q].pc = "commit" /\ proc[q].prev # "none" /\ proc'[q].b = proc[q].b
  BY EmitsFields
<1>2. PICK b \in BuildIds : b = proc[q].b
  BY <1>1, UpdateLocals DEF UpdatePCs
<1>3. /\ xlock[b] = q /\ db[b] # NULL /\ db[b].state = RUNNING
      /\ work[b] # NULL /\ work[b].state \in FinishedStates
  BY <1>1, <1>2 DEF FinishInv, Finishing
<1>4. db'[b] = work[b] /\ work'[b] = work[b]
  BY <1>3 DEF EmitsNext, CommitBuild, Commit, View, Rows
<1>5. b < nextId'
  <2>1. b \in Int /\ b < nextId
    BY <1>3, CommittedRow DEF BuildIds
  <2>q. QED
    BY <2>1, NextIdGrows
<1>6. ~ Closed(b) /\ Closed(b)'
  BY <1>3, <1>4, <1>5 DEF Closed, Over, FinishedStates, RUNNING, COMPLETE, FAILED
<1>q. QED
  BY <1>1, <1>2, <1>6

LEMMA NextEmit ==
    ASSUME PollAligned, TypeInv, UniqueInv, FinishInv, EmitInv, [Next]_vars
    PROVE  EmitInv'
<1>1. \A q \in Procs : proc[q].pc = "emit" => proc[q].b \in BuildIds
  BY UpdateLocals DEF UpdatePCs
<1>2. ASSUME NEW o \in Procs, proc[o].pc = "emit", proc'[o] = proc[o]
      PROVE  Closed(proc[o].b)'
  <2>1. PICK b \in BuildIds : b = proc[o].b
    BY <1>1, <1>2
  <2>2. Closed(b)'
    BY <1>2, <2>1, ClosedStays DEF EmitInv
  <2>q. QED
    BY <1>2, <2>1, <2>2
<1>3. ASSUME UNCHANGED sent, \A o \in Procs : proc'[o].pc = "emit" => proc'[o] = proc[o]
      PROVE  EmitInv'
  BY <1>2, <1>3, ClosedStays DEF EmitInv
<1>4. ASSUME NEW q \in Procs, Acts(q)
      PROVE  EmitInv'
  <2>1. \A o \in Procs \ {q} : proc'[o] = proc[o]
    BY <1>4, OthersHeld
  <2>2. CASE Emit(q)
    <3>1. proc[q].b \in BuildIds /\ proc[q].pc = "emit" /\ proc'[q].pc # "emit"
      BY <1>1, <2>2, EndResets DEF Emit, Resets
    <3>2. sent' = [sent EXCEPT ![proc[q].b] = sent[proc[q].b] + 1] /\ sent \in [BuildIds -> Nat]
      BY <2>2 DEF Emit, TypeInv, CountType
    <3>3. PICK c \in BuildIds : c = proc[q].b
      BY <3>1
    <3>4. \A b \in BuildIds : sent'[b] = IF b = c THEN 1 ELSE sent[b]
      BY <3>1, <3>2, <3>3 DEF EmitInv
    <3>5. Closed(c)'
      BY <3>1, <3>3, ClosedStays DEF EmitInv
    <3>6. \A b \in BuildIds : sent'[b] # 0 => sent'[b] = 1 /\ Closed(b)'
      BY <3>4, <3>5, ClosedStays DEF EmitInv
    <3>7. ASSUME NEW o \in Procs, proc'[o].pc = "emit"
          PROVE  sent'[proc'[o].b] = 0 /\ Closed(proc[o].b)'
      BY <1>1, <1>2, <2>1, <3>1, <3>3, <3>4, <3>7 DEF EmitInv
    <3>q. QED
      BY <2>1, <3>1, <3>6, <3>7 DEF EmitInv
  <2>3. CASE UNCHANGED sent /\ proc'[q].pc = "emit"
    <3>1. PICK c \in BuildIds : c = proc[q].b
      BY <1>4, <2>3, BeginsEmit, EmittedRow
    <3>2. proc'[q].b = c /\ ~ Closed(c) /\ Closed(c)'
      BY <1>4, <2>3, <3>1, BeginsEmit, EmitsFields, EmittedRow
    <3>3. sent'[c] = 0 /\ \A o \in Procs : proc[o].pc = "emit" => proc[o].b # c
      BY <2>3, <3>2 DEF EmitInv
    <3>4. \A b \in BuildIds : sent'[b] # 0 => sent'[b] = 1 /\ Closed(b)'
      BY <2>3, ClosedStays DEF EmitInv
    <3>5. ASSUME NEW o \in Procs \ {q}, proc'[o].pc = "emit"
          PROVE  sent'[proc'[o].b] = 0 /\ Closed(proc[o].b)' /\ proc'[o].b # c
      BY <1>2, <2>1, <2>3, <3>3, <3>5 DEF EmitInv
    <3>6. \A x, o \in Procs :
             (proc'[x].pc = "emit" /\ proc'[o].pc = "emit" /\ proc'[x].b = proc'[o].b) => x = o
      BY <2>1, <3>2, <3>5 DEF EmitInv
    <3>q. QED
      BY <3>2, <3>3, <3>4, <3>5, <3>6 DEF EmitInv
  <2>4. CASE UNCHANGED sent /\ proc'[q].pc # "emit"
    BY <1>3, <2>1, <2>4
  <2>q. QED
    BY <1>4, <2>2, <2>3, <2>4, ActsSent
<1>q. QED
  BY <1>3, <1>4, EnvHeld, NextActs

(* However many polling services and watchers hear of the end of a task, in *)
(* whatever order and however late, its build is announced at most once     *)
(* (update_build_state reads the build again under its lock), provided that *)
(* the two queries of poll_builds see the same rows.                        *)
THEOREM OneEventForBuild ==
    ASSUME PollAligned
    PROVE  Spec => []OneEventPerBuild
<1>1. Init => TypeInv /\ UniqueInv /\ FinishInv /\ EmitInv
  <2>1. Init => EmitInv
    BY DEF Init, IdleProc, EmitInv
  <2>q. QED
    BY <2>1, InitTypes, InitFinish
<1>2. TypeInv /\ UniqueInv /\ FinishInv /\ EmitInv /\ [Next]_vars
      => TypeInv' /\ UniqueInv' /\ FinishInv' /\ EmitInv'
  BY NextTypes, StutterTypes, NextUnique, NextFinish, NextEmit
<1>3. EmitInv => OneEventPerBuild
  BY DEF EmitInv, OneEventPerBuild
<1>q. QED
  BY <1>1, <1>2, <1>3, PTL DEF Spec

-----------------------------------------------------------------------------
(* The refinement of BuildLife. What the two versions of a row say of its   *)
(* build                                                                    *)
StatusFrom(row, written, drawn) ==
    IF row # NULL
    THEN CASE row.state = RUNNING  -> "running"
           [] row.state = COMPLETE -> "complete"
           [] OTHER                -> "failed"
    ELSE IF drawn /\ written = NULL THEN "gone" ELSE "none"

(* A build that is not public yet was submitted or imported; update_build_  *)
(* state finishes public builds only                                        *)
NewRows == \A b \in BuildIds : db[b] = NULL /\ work[b] # NULL => work[b].state # FAILED

EndedInv == \A q \in Procs : proc[q].pc = "emit" => Status[proc[q].b] \in Life!Ended

LEMMA StatusRows ==
    ASSUME NEW b \in BuildIds
    PROVE  /\ Status[b] = StatusFrom(db[b], work[b], b < nextId)
           /\ Status'[b] = StatusFrom(db'[b], work'[b], b < nextId')
BY DEF Status, StatusFrom

LEMMA StatusMoves ==
    ASSUME TypeInv, UniqueInv, FinishInv, NewRows, [Next]_vars, NEW b \in BuildIds
    PROVE  Life!Change(b) \/ Status'[b] = Status[b]
<1>1. PICK s, t : /\ s = Status[b] /\ t = Status'[b]
                  /\ s = StatusFrom(db[b], work[b], b < nextId)
                  /\ t = StatusFrom(db'[b], work'[b], b < nextId')
  BY StatusRows
<1>2. /\ db[b] # NULL => db[b].state \in {RUNNING, COMPLETE, FAILED}
      /\ work[b] # NULL => work[b].state \in {RUNNING, COMPLETE, FAILED}
  BY DEF TypeInv, DbType, TypeTable, BuildRow, FinishedStates
<1>3. (b < nextId => b < nextId') /\ (db[b] # NULL => b < nextId)
  BY NextIdGrows, CommittedRow DEF BuildIds
<1>4. /\ (db[b] # NULL /\ db[b].state \in FinishedStates /\ db'[b] # NULL)
             => db'[b].state = db[b].state
      /\ db[b] = NULL /\ work[b] # NULL => work[b].state # FAILED
  BY StepKeepsFinished DEF NewRows
<1>5. \/ s = t
      \/ s = "none" /\ t \in {"running", "complete", "gone"}
      \/ s = "running" /\ t \in {"complete", "failed"}
      \/ s \in {"running", "complete", "failed"} /\ t = "gone"
  <2>1. CASE RowStep(b)
    <3>1. CASE db'[b] = db[b]
      BY <1>1, <1>2, <1>3, <2>1, <3>1
         DEF StatusFrom, RowStep, Kept, RUNNING, COMPLETE, FAILED
    <3>2. CASE db'[b] = work[b] /\ work'[b] = work[b]
      BY <1>1, <1>2, <1>3, <1>4, <3>2
         DEF StatusFrom, FinishedStates, RUNNING, COMPLETE, FAILED
    <3>3. CASE db[b] # NULL /\ Kept(db'[b], db[b])
      BY <1>1, <1>2, <3>3 DEF StatusFrom, Kept
    <3>q. QED
      BY <2>1, <3>1, <3>2, <3>3 DEF RowStep
  <2>2. ASSUME NEW q \in Procs, BuildStep(q, b)
        PROVE  s = t \/ (s = "none" /\ t = "gone")
    <3>1. db'[b] = db[b]
      BY <2>2 DEF BuildStep, Finishes, Deletes, Inserts, Registers
    <3>2. CASE b = nextId
      <4>1. nextId \in Int /\ ~ (b < nextId)
        BY <3>2 DEF TypeInv, CountType
      <4>q. QED
        BY <1>1, <1>3, <3>1, <4>1 DEF StatusFrom
    <3>3. CASE Finishes(q, b) \/ Deletes(q, b)
      BY <1>1, <1>2, <1>3, <3>1, <3>3
         DEF StatusFrom, Finishes, Deletes, Delete, Write, Rows
    <3>q. QED
      BY <2>2, <3>2, <3>3 DEF BuildStep, Inserts, Registers
  <2>q. QED
    BY <2>1, <2>2, NextRows
<1>q. QED
  BY <1>1, <1>5 DEF Life!Change, Life!Submit, Life!Register, Life!Abandon, Life!Finish, Life!Delete

LEMMA NextNewRows ==
    ASSUME TypeInv, UniqueInv, FinishInv, NewRows, [Next]_vars
    PROVE  NewRows'
<1>1. ASSUME NEW b \in BuildIds, db'[b] = NULL, work'[b] # NULL
      PROVE  work'[b].state # FAILED
  <2>1. db[b] = NULL /\ work[b] # NULL => work[b].state # FAILED
    BY DEF NewRows
  <2>2. CASE RowStep(b)
    BY <1>1, <2>1, <2>2 DEF RowStep, Kept
  <2>3. ASSUME NEW q \in Procs, BuildStep(q, b)
        PROVE  work'[b].state # FAILED
    <3>1. CASE Finishes(q, b)
      BY <1>1, <3>1 DEF Finishes, LockPackage, FinishInv, Finishing
    <3>2. CASE Inserts(q, b) \/ Registers(q, b)
      BY <3>2 DEF Inserts, Registers, RUNNING, COMPLETE, FAILED
    <3>q. QED
      BY <1>1, <2>3, <3>1, <3>2 DEF BuildStep, Deletes
  <2>q. QED
    BY <2>2, <2>3, NextRows
<1>q. QED
  BY <1>1 DEF NewRows

LEMMA EndedStays ==
    ASSUME TypeInv, UniqueInv, FinishInv, NewRows, [Next]_vars, NEW b \in BuildIds,
           Status[b] \in Life!Ended
    PROVE  Status'[b] \in Life!Ended
BY StatusMoves DEF Life!Ended, Life!Change, Life!Submit, Life!Register, Life!Abandon,
                   Life!Finish, Life!Delete

LEMMA NextEnded ==
    ASSUME TypeInv, UniqueInv, FinishInv, NewRows, EndedInv, [Next]_vars
    PROVE  EndedInv'
<1>1. ASSUME NEW o \in Procs, proc'[o] = proc[o], proc[o].pc = "emit"
      PROVE  Status'[proc'[o].b] \in Life!Ended
  BY <1>1, UpdateLocals, EndedStays DEF UpdatePCs, EndedInv
<1>2. ASSUME NEW q \in Procs, Acts(q), proc'[q].pc = "emit"
      PROVE  Status'[proc'[q].b] \in Life!Ended
  <2>1. EmitsNext(q)
    BY <1>2, BeginsEmit
  <2>2. proc[q].b \in BuildIds /\ proc'[q].b = proc[q].b /\ Closed(proc[q].b)'
    BY <2>1, EmittedRow, EmitsFields
  <2>3. PICK b \in BuildIds : b = proc[q].b
    BY <2>2
  <2>4. db'[b] # NULL /\ db'[b].state \in FinishedStates
    <3>1. proc[q].pc = "commit" /\ proc[q].prev # "none"
      BY <2>1, EmitsFields
    <3>2. xlock[b] = q /\ work[b] # NULL /\ work[b].state \in FinishedStates
      BY <2>3, <3>1 DEF FinishInv, Finishing
    <3>q. QED
      BY <2>1, <3>2 DEF EmitsNext, CommitBuild, Commit, View, Rows
  <2>5. Status'[b] \in {"complete", "failed"}
    BY <2>4, StatusRows DEF StatusFrom, FinishedStates, RUNNING, COMPLETE, FAILED
  <2>q. QED
    BY <2>2, <2>3, <2>5 DEF Life!Ended
<1>3. ASSUME NEW q \in Procs, Acts(q)
      PROVE  EndedInv'
  <2>1. \A o \in Procs \ {q} : proc'[o] = proc[o]
    BY <1>3, OthersHeld
  <2>q. QED
    BY <1>1, <1>2, <1>3, <2>1 DEF EndedInv
<1>4. CASE UNCHANGED proc
  BY <1>1, <1>4 DEF EndedInv
<1>q. QED
  BY <1>3, <1>4, NextActs

LEMMA EventMoves ==
    ASSUME TypeInv, EmitInv, EndedInv, [Next]_vars, NEW b \in BuildIds
    PROVE  Life!Announce(b) \/ sent'[b] = sent[b]
<1>1. ASSUME NEW q \in Procs, Emit(q), proc[q].b = b
      PROVE  Life!Announce(b)
  <2>1. sent[b] = 0 /\ Status[b] \in Life!Ended
    BY <1>1 DEF Emit, EmitInv, EndedInv
  <2>2. sent'[b] = sent[b] + 1
    BY <1>1 DEF Emit, TypeInv, CountType
  <2>q. QED
    BY <2>1, <2>2 DEF Life!Announce
<1>2. ASSUME NEW q \in Procs, Emit(q), proc[q].b # b
      PROVE  sent'[b] = sent[b]
  BY <1>2 DEF Emit, TypeInv, CountType
<1>q. QED
  BY <1>1, <1>2, NextActs, ActsSent

(* Koschei implements BuildLife, for aligned polls: a build becomes public  *)
(* once, ends once, never comes back under its number, and is announced at  *)
(* most once, after its end was committed, whatever services, transactions, *)
(* crashes and deadlocks interleave (update_build_state,                    *)
(* register_real_builds, Scheduler.main).                                   *)
THEOREM BuildsImplementLife ==
    ASSUME PollAligned
    PROVE  Spec => BuildsLive
<1>1. Init => Life!LifeInit
  <2>1. Init => \A b \in BuildIds : db[b] = NULL /\ ~ (b < nextId) /\ sent[b] = 0
    BY RowsAssumption DEF Init, Rows, BuildIds
  <2>2. Init => sent = [b \in BuildIds |-> 0]
    BY DEF Init
  <2>q. QED
    BY <2>1, <2>2 DEF Life!LifeInit, Status
<1>2. Init => TypeInv /\ UniqueInv /\ FinishInv /\ EmitInv /\ NewRows /\ EndedInv
  <2>1. Init => EmitInv /\ EndedInv
    BY DEF Init, IdleProc, EmitInv, EndedInv
  <2>2. Init => NewRows
    BY DEF Init, NewRows
  <2>q. QED
    BY <2>1, <2>2, InitTypes, InitFinish
<1>3. TypeInv /\ UniqueInv /\ FinishInv /\ EmitInv /\ NewRows /\ EndedInv /\ [Next]_vars
      => TypeInv' /\ UniqueInv' /\ FinishInv' /\ EmitInv' /\ NewRows' /\ EndedInv'
  BY NextTypes, StutterTypes, NextUnique, NextFinish, NextEmit, NextNewRows, NextEnded
<1>4. TypeInv /\ UniqueInv /\ FinishInv /\ EmitInv /\ NewRows /\ EndedInv /\ [Next]_vars
      => Life!LifeNext
  BY StatusMoves, EventMoves DEF Life!LifeNext
<1>q. QED
  BY <1>1, <1>2, <1>3, <1>4, PTL DEF Spec, BuildsLive, Life!LifeSpec
=============================================================================
