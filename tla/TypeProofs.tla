----------------------------- MODULE TypeProofs -----------------------------
(****************************************************************************)
(* Type correctness of Koschei, for every number of packages, builds,       *)
(* services and points in time: every action guarantees StepOK, hence       *)
(* TypeInv is an invariant, and it implies TypeOK. One lemma per action, in *)
(* the order of the modules.                                                *)
(****************************************************************************)
EXTENDS TypeInvariant, TLAPS, WellFoundedInduction, FiniteSetTheorems

-----------------------------------------------------------------------------
(* Assigning a value of its type to one local variable keeps Local. An      *)
(* EXCEPT with several updates is a chain of these.                         *)
LEMMA SetPc ==
    \A f \in Locals, q \in Procs, x \in PCs : [f EXCEPT ![q].pc = x] \in Locals
BY DEF Locals, Local

LEMMA SetRet ==
    \A f \in Locals, q \in Procs, x \in PCs : [f EXCEPT ![q].ret = x] \in Locals
BY DEF Locals, Local

LEMMA SetCont ==
    \A f \in Locals, q \in Procs, x \in PCs : [f EXCEPT ![q].cont = x] \in Locals
BY DEF Locals, Local

LEMMA SetP ==
    \A f \in Locals, q \in Procs, x \in Packages \cup {NULL} : [f EXCEPT ![q].p = x] \in Locals
BY DEF Locals, Local

LEMMA SetB ==
    \A f \in Locals, q \in Procs, x \in BuildIds \cup {NULL} : [f EXCEPT ![q].b = x] \in Locals
BY DEF Locals, Local

LEMMA SetTs ==
    \A f \in Locals, q \in Procs, x \in StateNames \cup {"none"} : [f EXCEPT ![q].ts = x] \in Locals
BY DEF Locals, Local

LEMMA SetCanceled ==
    \A f \in Locals, q \in Procs, x \in BOOLEAN : [f EXCEPT ![q].canceled = x] \in Locals
BY DEF Locals, Local

LEMMA SetIns ==
    \A f \in Locals, q \in Procs, x \in BOOLEAN : [f EXCEPT ![q].ins = x] \in Locals
BY DEF Locals, Local

LEMMA SetPrev ==
    \A f \in Locals, q \in Procs, x \in MsgStates \cup {"none"} : [f EXCEPT ![q].prev = x] \in Locals
BY DEF Locals, Local

LEMMA SetNew ==
    \A f \in Locals, q \in Procs, x \in MsgStates \cup {"none"} : [f EXCEPT ![q].new = x] \in Locals
BY DEF Locals, Local

LEMMA SetInfo ==
    \A f \in Locals, q \in Procs, x \in Versions \cup {NULL} : [f EXCEPT ![q].info = x] \in Locals
BY DEF Locals, Local

LEMMA SetLast ==
    \A f \in Locals, q \in Procs, x \in 0..MaxVersion \cup {NULL} : [f EXCEPT ![q].last = x] \in Locals
<1>1. SUFFICES ASSUME NEW f \in Locals, NEW q \in Procs, NEW x \in 0..MaxVersion \cup {NULL}
               PROVE  [f EXCEPT ![q].last = x] \in Locals
  OBVIOUS
<1>2. f[q] \in Local
  BY DEF Locals
<1>3. [f[q] EXCEPT !.last = x] \in Local
  BY <1>2, BoundsAssumption DEF Local
<1>q. QED
  BY <1>3 DEF Locals

LEMMA SetTask ==
    \A f \in Locals, q \in Procs, x \in Stamps \cup {NULL} : [f EXCEPT ![q].task = x] \in Locals
BY DEF Locals, Local

LEMMA SetLb ==
    \A f \in Locals, q \in Procs, x \in 0..MaxBuildId \cup {NULL} : [f EXCEPT ![q].lb = x] \in Locals
BY DEF Locals, Local

LEMMA SetLcb ==
    \A f \in Locals, q \in Procs, x \in 0..MaxBuildId \cup {NULL} : [f EXCEPT ![q].lcb = x] \in Locals
BY DEF Locals, Local

LEMMA SetLcs ==
    \A f \in Locals, q \in Procs, x \in FinishedStates \cup {NULL} : [f EXCEPT ![q].lcs = x] \in Locals
BY DEF Locals, Local

LEMMA SetFires ==
    \A f \in Locals, q \in Procs, x \in Nat : [f EXCEPT ![q].fires = x] \in Locals
BY DEF Locals, Local

LEMMA SetTodo ==
    \A f \in Locals, q \in Procs, x \in SUBSET Rows : [f EXCEPT ![q].todo = x] \in Locals
BY DEF Locals, Local

LEMMA SetList ==
    \A f \in Locals, q \in Procs, x \in SUBSET (BuildIds \X StateNames) : [f EXCEPT ![q].list = x] \in Locals
BY DEF Locals, Local

LEMMA SetInfos ==
    \A f \in Locals, q \in Procs, x \in SUBSET (Nat \X StateNames) : [f EXCEPT ![q].infos = x] \in Locals
BY DEF Locals, Local

LEMMA IdleType == IdleProc \in Local
BY BoundsAssumption DEF IdleProc, Local, PCs, Keep
-----------------------------------------------------------------------------
(* A step that does what it owes to everybody keeps the invariant *)
LEMMA StepOKInv ==
    ASSUME TypeInv, NEW q, StepOK(q)
    PROVE  TypeInv'
<1>1. ASSUME NEW o \in Procs, o # q
      PROVE  ProcInv(o)'
  <2>1. proc'[o] = proc[o] /\ proc[o] \in Local
    BY <1>1 DEF StepOK, ProcStep, TypeInv, Locals
  <2>2. LocalOK(proc[o]) /\ InfoOK(o) /\ BuildLocked(o) /\ NoLocks(o)
    BY DEF TypeInv, ProcInv
  <2>3. LocalOK(proc'[o])
    BY <2>1, <2>2
  <2>4. InfoOK(o)'
    <3>1. ASSUME At(proc[o]) \in RefreshPCs
          PROVE  proc[o].p \in Packages /\ proc[o].info \in Versions
      BY <2>2, <3>1 DEF LocalOK, At, RefreshPCs, NoPackagePCs, TriggerPCs
    <3>2. proc[o].pc = "insert" => proc[o].task \in Stamps
      BY <2>2 DEF LocalOK
    <3>q. QED
      BY <2>1, <2>2, <3>1, <3>2 DEF InfoOK, StepOK, KojiStepOK, KojiKeeps
  <2>5. BuildLocked(o)'
    <3>1. proc[o].pc \in {"lock_package", "delete"} => proc[o].b \in Rows
      BY <2>2 DEF LocalOK, At, UpdatePCs, TriggerPCs, Rows
    <3>q. QED
      BY <1>1, <2>1, <2>2, <3>1 DEF BuildLocked, StepOK, DbStep, Respects
  <2>6. NoLocks(o)'
    BY <1>1, <2>1, <2>2 DEF NoLocks, StepOK, DbStep, Respects
  <2>q. QED
    BY <2>1, <2>3, <2>4, <2>5, <2>6 DEF ProcInv
<1>2. \A o \in Procs : ProcInv(o)'
  BY <1>1 DEF StepOK, ProcStep
<1>q. QED
  BY <1>2 DEF TypeInv, StepOK, DbStep, KojiStepOK, ProcStep

-----------------------------------------------------------------------------
(* What a process sees is typed, refers to known tasks and has no row that  *)
(* was not inserted.                                                        *)
LEMMA ViewType ==
    ASSUME TypeInv, NEW q
    PROVE  /\ TypeTable(View(q))
           /\ \A b \in BuildIds : RowKnown(View(q)[b])
BY DEF TypeInv, DbType, TypeTable, View, Rows, RowsKnown, RowKnown

LEMMA ViewFresh ==
    ASSUME TypeInv, NEW q \in Procs, NEW b \in BuildIds, View(q)[b] # NULL
    PROVE  b < nextId
BY BoundsAssumption, ProcsAssumption
   DEF TypeInv, Fresh, View, Rows, BuildIds, CountType

(* The steps that leave Koji, or the database, or the counters alone *)
LEMMA KojiQuiet ==
    ASSUME TypeInv, UNCHANGED kojiVars
    PROVE  KojiStepOK
BY DEF TypeInv, kojiVars, KojiStepOK, KojiType, RealKnown, TaggedOK, KojiKeeps

LEMMA DbQuiet ==
    ASSUME TypeInv, NEW q, UNCHANGED dbVars, UNCHANGED nextId, KojiKeeps
    PROVE  DbStep(q)
<1>1. RowsKnown'
  <2>1. \A b \in BuildIds : db[b] # NULL => db[b].task \in Stamps
    BY DEF TypeInv, DbType, TypeTable, BuildRow
  <2>2. \A b \in BuildIds : work[b] # NULL => work[b].task \in Stamps
    BY DEF TypeInv, DbType, TypeTable, BuildRow
  <2>q. QED
    BY <2>1, <2>2 DEF TypeInv, RowsKnown, RowKnown, KojiKeeps, dbVars
<1>q. QED
  BY <1>1 DEF TypeInv, dbVars, DbStep, DbType, TypeTable, Settled, Fresh, Respects

LEMMA CountQuiet ==
    ASSUME TypeInv, UNCHANGED nextId, UNCHANGED stateVars
    PROVE  CountType'
BY DEF TypeInv, stateVars, CountType

LEMMA WriteStep ==
    ASSUME TypeInv, NEW q \in Procs, NEW f, NEW key \in SUBSET Rows,
           DOMAIN f \subseteq Rows,
           \A r \in DOMAIN f : Writable(q, r, f[r]),
           Write(q, f, key), UNCHANGED koji,
           share' \subseteq Procs \X Rows,
           nextId' \in Int, nextId =< nextId'
    PROVE  DbStep(q)
<1>1. \A r \in Rows : /\ work'[r] = IF r \in DOMAIN f THEN f[r] ELSE work[r]
                      /\ xlock'[r] = IF r \in DOMAIN f THEN q ELSE xlock[r]
  BY DEF Write
<1>2. DbType'
  <2>1. TypeTable(work)'
    BY <1>1 DEF Write, TypeInv, DbType, TypeTable, Writable, Rows
  <2>q. QED
    BY <2>1, <1>1 DEF Write, TypeInv, DbType, TypeTable
<1>3. RowsKnown'
  BY <1>1 DEF Write, TypeInv, RowsKnown, RowKnown, Writable, Rows
<1>4. Settled'
  BY <1>1, ProcsAssumption DEF Write, TypeInv, Settled
<1>5. Fresh'
  <2>1. nextId \in Int
    BY DEF TypeInv, CountType
  <2>2. \A b \in BuildIds : b \in Int
    BY DEF BuildIds
  <2>3. ASSUME NEW b \in BuildIds, b >= nextId'
        PROVE  b \notin DOMAIN f /\ b >= nextId
    BY <2>1, <2>2, <2>3 DEF Writable
  <2>q. QED
    BY <1>1, <2>3 DEF Write, TypeInv, Fresh, Rows
<1>6. Respects(q)
  BY <1>1, ProcsAssumption DEF Respects, Writable
<1>q. QED
  BY <1>2, <1>3, <1>4, <1>5, <1>6 DEF DbStep

LEMMA WriteOnly ==
    ASSUME TypeInv, NEW q \in Procs, NEW f, NEW key \in SUBSET Rows,
           DOMAIN f \subseteq Rows,
           \A r \in DOMAIN f : Writable(q, r, f[r]),
           Write(q, f, key), UNCHANGED <<koji, share, nextId>>
    PROVE  DbStep(q)
<1>1. nextId' \in Int /\ nextId =< nextId' /\ share' \subseteq Procs \X Rows
  BY DEF TypeInv, CountType, DbType
<1>q. QED
  BY <1>1, WriteStep

(* The end of a transaction releases every lock *)
LEMMA ReleaseStep ==
    ASSUME TypeInv, NEW q \in Procs, Release(q)
    PROVE  /\ xlock' \in [Rows -> Procs \cup {NULL}]
           /\ keyed' \subseteq Rows
           /\ share' \subseteq Procs \X Rows
           /\ Unlocked(q)'
           /\ \A r \in Rows : xlock'[r] = IF xlock[r] = q THEN NULL ELSE xlock[r]
BY ProcsAssumption DEF TypeInv, DbType, Release, Unlocked

LEMMA CommitStep ==
    ASSUME TypeInv, NEW q \in Procs, Commit(q), UNCHANGED koji, UNCHANGED nextId
    PROVE  DbStep(q) /\ Unlocked(q)'
<1>1. Release(q) /\ db' = View(q) /\ work' = work
  BY DEF Commit
<1>2. \A r \in Rows : xlock'[r] = IF xlock[r] = q THEN NULL ELSE xlock[r]
  BY <1>1, ReleaseStep
<1>3. \A r \in Rows : db'[r] = IF xlock[r] = q THEN work[r] ELSE db[r]
  BY <1>1 DEF View
<1>4. DbType'
  BY <1>1, ReleaseStep, ViewType DEF TypeInv, DbType, TypeTable
<1>5. RowsKnown'
  BY <1>1, <1>3, ViewType DEF TypeInv, RowsKnown, RowKnown, Rows
<1>6. Settled'
  BY <1>1, <1>2, <1>3, ProcsAssumption DEF TypeInv, Settled
<1>7. Fresh'
  BY <1>2, <1>3, ProcsAssumption DEF TypeInv, Fresh, Rows
<1>8. Respects(q)
  BY <1>1, <1>2, ProcsAssumption DEF Respects
<1>q. QED
  BY <1>1, <1>4, <1>5, <1>6, <1>7, <1>8, ReleaseStep DEF DbStep

LEMMA RollbackStep ==
    ASSUME TypeInv, NEW q \in Procs, Rollback(q), UNCHANGED koji, UNCHANGED nextId
    PROVE  DbStep(q) /\ Unlocked(q)'
<1>1. Release(q) /\ db' = db
  BY DEF Rollback
<1>2. \A r \in Rows : xlock'[r] = IF xlock[r] = q THEN NULL ELSE xlock[r]
  BY <1>1, ReleaseStep
<1>3. \A r \in Rows : work'[r] = IF xlock[r] = q THEN db[r] ELSE work[r]
  BY DEF Rollback
<1>4. DbType'
  <2>1. TypeTable(work)'
    BY <1>3 DEF Rollback, TypeInv, DbType, TypeTable, Rows
  <2>q. QED
    BY <2>1, <1>1, ReleaseStep DEF TypeInv, DbType, TypeTable
<1>5. RowsKnown'
  BY <1>1, <1>3 DEF TypeInv, RowsKnown, RowKnown, Rows
<1>6. Settled'
  BY <1>1, <1>2, <1>3, ProcsAssumption DEF TypeInv, Settled
<1>7. Fresh'
  BY <1>1, <1>2, ProcsAssumption DEF TypeInv, Fresh, Rows
<1>8. Respects(q)
  BY <1>1, <1>2, <1>3, ProcsAssumption DEF Respects
<1>q. QED
  BY <1>1, <1>4, <1>5, <1>6, <1>7, <1>8, ReleaseStep DEF DbStep

-----------------------------------------------------------------------------
(* A handler that ends, or is between two builds, needs no local variable *)
LEMMA RestStep ==
    ASSUME TypeInv, NEW q \in Procs, proc' \in Locals,
           \A o \in Procs \ {q} : proc'[o] = proc[o],
           proc'[q].pc \in {"idle", "poll", "poll_rows", "priorities"},
           Unlocked(q)'
    PROVE  ProcStep(q)
<1>1. LocalOK(proc'[q])
  BY DEF LocalOK, At, TriggerPCs, UpdatePCs, RefreshPCs, SkipPCs, NoPackagePCs
<1>2. InfoOK(q)' /\ BuildLocked(q)' /\ NoLocks(q)'
  BY DEF InfoOK, BuildLocked, NoLocks, Unlocked, At, TriggerPCs, RefreshPCs
<1>q. QED
  BY <1>1, <1>2 DEF ProcStep, ProcInv

LEMMA EndHandlerStep ==
    ASSUME TypeInv, NEW q \in Procs, EndHandler(q), Unlocked(q)'
    PROVE  ProcStep(q)
<1>1. proc \in Locals /\ proc[q] \in Local /\ proc[q].list \in SUBSET (BuildIds \X StateNames)
  BY DEF TypeInv, Locals, Local
<1>2. [IdleProc EXCEPT !.list = proc[q].list,
                       !.pc = IF proc[q].list = {} THEN "idle" ELSE "poll"] \in Local
  <2>1. (IF proc[q].list = {} THEN "idle" ELSE "poll") \in PCs
    BY DEF PCs
  <2>2. \A l \in Local, x \in SUBSET (BuildIds \X StateNames) : [l EXCEPT !.list = x] \in Local
    BY DEF Local
  <2>3. \A l \in Local, x \in PCs : [l EXCEPT !.pc = x] \in Local
    BY DEF Local
  <2>q. QED
    BY <1>1, <2>1, <2>2, <2>3, IdleType
<1>3. proc' \in Locals /\ \A o \in Procs \ {q} : proc'[o] = proc[o]
  BY <1>1, <1>2 DEF EndHandler, Locals
<1>4. proc'[q].pc \in {"idle", "poll"}
  BY <1>1, IdleType DEF EndHandler, Locals, Local
<1>q. QED
  BY <1>3, <1>4, RestStep

LEMMA EndServiceStep ==
    ASSUME TypeInv, NEW q \in Procs, EndService(q), Unlocked(q)'
    PROVE  ProcStep(q)
<1>1. proc' \in Locals /\ \A o \in Procs \ {q} : proc'[o] = proc[o]
  BY IdleType DEF TypeInv, EndService, Locals
<1>2. proc'[q].pc = "idle"
  BY DEF TypeInv, EndService, Locals, IdleProc
<1>q. QED
  BY <1>1, <1>2, RestStep

(* A process that moves on with its local variables *)
GotoFrame(q, l) ==
    /\ proc' \in Locals
    /\ \A o \in Procs \ {q} : proc'[o] = proc[o]
    /\ proc'[q].pc = l
    /\ proc'[q].fires = proc[q].fires
    /\ proc'[q].ret = proc[q].ret
    /\ proc'[q].cont = proc[q].cont
    /\ proc'[q].p = proc[q].p
    /\ proc'[q].b = proc[q].b
    /\ proc'[q].info = proc[q].info
    /\ proc'[q].task = proc[q].task
    /\ proc'[q].todo = proc[q].todo

LEMMA GotoStep ==
    ASSUME TypeInv, NEW q \in Procs, NEW l \in PCs, Goto(q, l)
    PROVE  GotoFrame(q, l)
<1>1. proc \in Locals /\ proc[q] \in Local
  BY DEF TypeInv, Locals
<1>2. proc' \in Locals
  BY <1>1, SetPc DEF Goto
<1>3. /\ proc'[q] = [proc[q] EXCEPT !.pc = l]
      /\ \A o \in Procs \ {q} : proc'[o] = proc[o]
  BY <1>1 DEF Goto, Locals
<1>q. QED
  BY <1>1, <1>2, <1>3 DEF GotoFrame, Local

(* A process with nothing locked that changes no lock *)
LEMMA StaysUnlocked ==
    ASSUME TypeInv, NEW q \in Procs, proc[q].pc \in LockFreePCs, UNCHANGED xlock
    PROVE  Unlocked(q)'
BY DEF TypeInv, ProcInv, NoLocks, Unlocked

LEMMA NotBlocked ==
    ASSUME TypeInv, NEW q \in Procs, NEW r \in Rows, WriteBlockers(q, r) = {}
    PROVE  xlock[r] \in {q, NULL}
BY DEF WriteBlockers

(* Latest and NextRow choose from a set of builds *)
LEMMA LatestIn ==
    ASSUME NEW v, NEW S \in SUBSET BuildIds, \A b \in S : v[b].started \in Stamps
    PROVE  /\ S = {} => Latest(v, S) = NULL
           /\ S # {} => Latest(v, S) \in S
<1>1. ASSUME S # {}
      PROVE  \E b \in S : \A c \in S : v[c].started =< v[b].started
  <2> DEFINE T == {MaxStamp - v[b].started : b \in S}
  <2>1. \A b \in S : v[b].started \in Int /\ MaxStamp - v[b].started \in Nat
    BY BoundsAssumption DEF Stamps
  <2>2. T \subseteq Nat /\ T # {}
    BY <1>1, <2>1
  <2>3. PICK x \in T : \A y \in T : ~ (<<y, x>> \in OpToRel(<, Nat))
    BY <2>2, WFMin, NatLessThanWellFounded
  <2>4. PICK b \in S : x = MaxStamp - v[b].started
    BY <2>3
  <2>5. \A y \in T : ~ (y < x)
    BY <2>2, <2>3 DEF OpToRel
  <2>6. ASSUME NEW c \in S
        PROVE  v[c].started =< v[b].started
    <3>1. MaxStamp - v[c].started \in T
      OBVIOUS
    <3>2. ~ (MaxStamp - v[c].started < MaxStamp - v[b].started)
      BY <3>1, <2>4, <2>5
    <3>q. QED
      BY <3>2, <2>1, BoundsAssumption
  <2>q. QED
    BY <2>6
<1>q. QED
  BY <1>1 DEF Latest

LEMMA LeastIn ==
    ASSUME NEW S \in SUBSET BuildIds, S # {}
    PROVE  (CHOOSE r \in S : \A s \in S : r =< s) \in S
<1>1. S \subseteq Nat
  BY DEF BuildIds
<1>2. PICK r \in S : \A s \in S : ~ (<<s, r>> \in OpToRel(<, Nat))
  BY <1>1, WFMin, NatLessThanWellFounded
<1>3. \A s \in S : ~ (s < r)
  BY <1>1, <1>2 DEF OpToRel
<1>4. \A s \in S : r =< s
  BY <1>1, <1>3
<1>q. QED
  BY <1>4

-----------------------------------------------------------------------------
(* Database *)
LEMMA LastBuildsIn ==
    ASSUME TypeInv, NEW q \in Procs, NEW p \in Packages
    PROVE  LET v == View(q)
               lb == LastBuildOf(v, p)
               lcb == LastCompleteBuildOf(v, p)
           IN  /\ lb \in BuildIds \cup {NULL}
               /\ lcb \in BuildIds \cup {NULL}
               /\ lcb # NULL => v[lcb].state \in FinishedStates
<1> DEFINE v == View(q)
           lb == LastBuildOf(v, p)
           S == {b \in TaggedBuildsOf(v, p) : v[b].state \in FinishedStates}
<1>1. \A b \in TaggedBuildsOf(v, p) : b \in BuildIds /\ v[b] \in BuildRow
  BY ViewType DEF TaggedBuildsOf, BuildsOf, TypeTable
<1>2. \A b \in TaggedBuildsOf(v, p) :
         v[b].started \in Stamps /\ v[b].state \in {RUNNING} \cup FinishedStates
  BY <1>1 DEF BuildRow
<1>3. lb = NULL \/ lb \in TaggedBuildsOf(v, p)
  <2>1. TaggedBuildsOf(v, p) \in SUBSET BuildIds
    BY <1>1
  <2>q. QED
    BY <1>2, <2>1, LatestIn DEF LastBuildOf
<1>4. Latest(v, S) = NULL \/ Latest(v, S) \in S
  <2>1. S \in SUBSET BuildIds /\ \A b \in S : v[b].started \in Stamps
    BY <1>1, <1>2
  <2> HIDE DEF S
  <2>q. QED
    BY <2>1, LatestIn
<1>5. LastCompleteBuildOf(v, p) =
        IF lb # NULL /\ v[lb].state = RUNNING THEN Latest(v, S) ELSE lb
  BY DEF LastCompleteBuildOf
<1>6. LastCompleteBuildOf(v, p) = NULL \/ LastCompleteBuildOf(v, p) \in S
  BY <1>2, <1>3, <1>4, <1>5
<1>q. QED
  BY <1>1, <1>3, <1>6

LEMMA NextFiringStep ==
    ASSUME TypeInv, NEW q \in Procs, proc[q].pc \in TriggerPCs, NextFiring(q),
           UNCHANGED <<koji, real>>
    PROVE  ProcStep(q)
<1> DEFINE pc == IF proc[q].fires > 1 THEN "trigger" ELSE proc[q].ret
<1>1. proc \in Locals /\ proc[q] \in Local
  BY DEF TypeInv, Locals
<1>2. LocalOK(proc[q]) /\ InfoOK(q)
  BY DEF TypeInv, ProcInv
<1>3. proc[q].fires \in Nat /\ proc[q].fires # 0 /\ proc[q].fires - 1 \in Nat
  BY <1>1, <1>2 DEF LocalOK, Local
<1>4. pc \in PCs /\ pc \in {"trigger", "commit", "registered", "retag", "refreshed", "reset"}
  BY <1>2 DEF LocalOK, PCs
<1>5. Keep \in 0..MaxBuildId \cup {NULL} /\ NULL \in FinishedStates \cup {NULL}
  BY BoundsAssumption DEF Keep
<1>6. proc' = [proc EXCEPT ![q].fires = proc[q].fires - 1, ![q].lb = Keep, ![q].lcb = Keep,
                           ![q].lcs = NULL, ![q].pc = pc]
  BY DEF NextFiring
<1> HIDE DEF pc
<1>7. proc' \in Locals
  BY <1>1, <1>3, <1>4, <1>5, <1>6, SetFires, SetLb, SetLcb, SetLcs, SetPc
<1>8. /\ proc'[q].pc = pc
      /\ proc'[q].fires = proc[q].fires - 1
      /\ proc'[q].ret = proc[q].ret
      /\ proc'[q].cont = proc[q].cont
      /\ proc'[q].p = proc[q].p
      /\ proc'[q].b = proc[q].b
      /\ proc'[q].info = proc[q].info
      /\ \A o \in Procs \ {q} : proc'[o] = proc[o]
  BY <1>1, <1>6 DEF Locals, Local
<1>9. pc = "trigger" => proc'[q].fires # 0
  BY <1>2, <1>3, <1>8 DEF pc, LocalOK, TriggerPCs
<1>10. LocalOK(proc'[q])
  BY <1>2, <1>4, <1>8, <1>9
     DEF LocalOK, At, TriggerPCs, UpdatePCs, RefreshPCs, SkipPCs, NoPackagePCs, pc
<1>11. InfoOK(q)'
  BY <1>2, <1>4, <1>8 DEF InfoOK, LocalOK, At, TriggerPCs, RefreshPCs, pc
<1>12. BuildLocked(q)' /\ NoLocks(q)'
  BY <1>4, <1>8 DEF BuildLocked, NoLocks, LockFreePCs
<1>q. QED
  BY <1>7, <1>8, <1>10, <1>11, <1>12 DEF ProcStep, ProcInv

LEMMA TriggerReadStep ==
    ASSUME TypeInv, NEW q \in Procs, TriggerRead(q), UNCHANGED <<kojiVars, stateVars>>
    PROVE  StepOK(q)
<1> DEFINE v == View(q)
           p == proc[q].p
           lb == LastBuildOf(v, p)
           lcb == LastCompleteBuildOf(v, p)
           newLb == IF lb = v[p].last_build THEN Keep ELSE lb
           newLcb == IF lcb = v[p].last_complete_build THEN Keep ELSE lcb
           newLcs == IF lcb = v[p].last_complete_build \/ lcb = NULL
                     THEN NULL ELSE v[lcb].state
<1>1. proc \in Locals /\ proc[q] \in Local /\ LocalOK(proc[q]) /\ InfoOK(q) /\ p \in Packages
  BY DEF TypeInv, ProcInv, Locals, TriggerRead, LocalOK, NoPackagePCs
<1>2. /\ newLb \in 0..MaxBuildId \cup {NULL}
      /\ newLcb \in 0..MaxBuildId \cup {NULL}
      /\ newLcs \in FinishedStates \cup {NULL}
  BY <1>1, LastBuildsIn, BoundsAssumption DEF BuildIds, Keep
<1>3. ASSUME proc' = [proc EXCEPT ![q].pc = "trigger_package", ![q].lb = newLb,
                                  ![q].lcb = newLcb, ![q].lcs = newLcs]
      PROVE  ProcStep(q)
  <2> HIDE DEF newLb, newLcb, newLcs
  <2>1. "trigger_package" \in PCs
    BY DEF PCs
  <2>2. proc' \in Locals
    BY <1>1, <1>2, <1>3, <2>1, SetPc, SetLb, SetLcb, SetLcs
  <2>3. /\ proc'[q].pc = "trigger_package"
        /\ proc'[q].fires = proc[q].fires
        /\ proc'[q].ret = proc[q].ret
        /\ proc'[q].cont = proc[q].cont
        /\ proc'[q].p = proc[q].p
        /\ proc'[q].b = proc[q].b
        /\ proc'[q].info = proc[q].info
        /\ \A o \in Procs \ {q} : proc'[o] = proc[o]
    BY <1>1, <1>3 DEF Locals, Local
  <2>4. LocalOK(proc'[q])
    BY <1>1, <2>3
       DEF TriggerRead, LocalOK, At, TriggerPCs, UpdatePCs, RefreshPCs, SkipPCs, NoPackagePCs
  <2>5. InfoOK(q)'
    BY <1>1, <2>3 DEF TriggerRead, InfoOK, At, TriggerPCs, RefreshPCs, kojiVars
  <2>6. BuildLocked(q)' /\ NoLocks(q)'
    BY <2>3 DEF BuildLocked, NoLocks, LockFreePCs
  <2>q. QED
    BY <2>2, <2>3, <2>4, <2>5, <2>6 DEF ProcStep, ProcInv
<1>4. ProcStep(q)
  <2>1. CASE NextFiring(q)
    BY <2>1, NextFiringStep DEF TriggerRead, TriggerPCs, kojiVars
  <2>q. QED
    BY <1>3, <2>1 DEF TriggerRead
<1>q. QED
  BY <1>4, KojiQuiet, DbQuiet, CountQuiet DEF TriggerRead, StepOK, KojiStepOK

LEMMA TriggerPackageStep ==
    ASSUME TypeInv, NEW q \in Procs, TriggerPackage(q), UNCHANGED <<kojiVars, stateVars>>
    PROVE  StepOK(q)
<1> DEFINE l == proc[q]
           row == View(q)[l.p]
           new == [row EXCEPT !.last_build = IF l.lb = Keep THEN @ ELSE l.lb,
                              !.last_complete_build = IF l.lcb = Keep THEN @ ELSE l.lcb,
                              !.last_complete_build_state = IF l.lcb = Keep THEN @ ELSE l.lcs]
<1>1. proc \in Locals /\ l \in Local /\ LocalOK(l) /\ InfoOK(q) /\ l.p \in Packages
  BY DEF TypeInv, ProcInv, Locals, TriggerPackage, LocalOK, NoPackagePCs
<1>2. DbStep(q)
  <2>1. row \in PackageRow
    BY <1>1, ViewType DEF TypeTable
  <2>2. new \in PackageRow
    <3>1. /\ l.lb # Keep => l.lb \in BuildIds \cup {NULL}
          /\ l.lcb # Keep => l.lcb \in BuildIds \cup {NULL}
          /\ l.lcs \in FinishedStates \cup {NULL}
      BY <1>1, BoundsAssumption DEF Local, BuildIds, Keep
    <3>q. QED
      BY ZenonT(60), <2>1, <3>1 DEF PackageRow
  <2> DEFINE f == [r \in {l.p} |-> new]
  <2> HIDE DEF new
  <2>3. xlock[l.p] \in {q, NULL} /\ l.p \in Rows /\ l.p \notin BuildIds
    BY <1>1, NotBlocked, RowsAssumption DEF TriggerPackage, Rows, BuildIds
  <2>4. \A r \in DOMAIN f : Writable(q, r, f[r])
    BY <2>2, <2>3 DEF Writable
  <2>5. Write(q, f, {}) /\ UNCHANGED <<koji, share, nextId>>
    BY DEF TriggerPackage, kojiVars, new
  <2>6. DOMAIN f \subseteq Rows
    BY <2>3
  <2> HIDE DEF f
  <2>q. QED
    BY <2>4, <2>5, <2>6, WriteOnly
<1>3. ProcStep(q)
  <2>1. "trigger_flags" \in PCs
    BY DEF PCs
  <2>4. GotoFrame(q, "trigger_flags")
    BY <2>1, GotoStep DEF TriggerPackage
  <2>5. LocalOK(proc'[q])
    BY <1>1, <2>4
       DEF GotoFrame, TriggerPackage, LocalOK, At, TriggerPCs, UpdatePCs, RefreshPCs, SkipPCs, NoPackagePCs
  <2>6. InfoOK(q)'
    BY <1>1, <2>4 DEF GotoFrame, TriggerPackage, InfoOK, At, TriggerPCs, RefreshPCs, kojiVars
  <2>7. BuildLocked(q)' /\ NoLocks(q)'
    BY <2>4 DEF GotoFrame, BuildLocked, NoLocks, LockFreePCs
  <2>q. QED
    BY <2>4, <2>5, <2>6, <2>7 DEF GotoFrame, ProcStep, ProcInv
<1>q. QED
  BY <1>2, <1>3, KojiQuiet, CountQuiet DEF TriggerPackage, StepOK

LEMMA TriggerFlagsStep ==
    ASSUME TypeInv, NEW q \in Procs, TriggerFlags(q), UNCHANGED <<kojiVars, stateVars>>
    PROVE  StepOK(q)
<1> DEFINE l == proc[q]
           f == [r \in Flagged(q) |-> [View(q)[r] EXCEPT !.last_complete = (r = l.lcb)]]
<1>1. l \in Local /\ l.p \in Packages
  BY DEF TypeInv, ProcInv, Locals, TriggerFlags, LocalOK, NoPackagePCs
<1>2. Referenced(q) \subseteq BuildIds
  BY <1>1, BoundsAssumption DEF Referenced, Local, Keep, BuildIds
<1>3. \A r \in Flagged(q) : r \in BuildIds /\ View(q)[r] # NULL
  <2>1. \A r \in Flagged(q) : r \in BuildsOf(View(q), l.p) \/ r \in Referenced(q)
    BY DEF Flagged, Referenced
  <2>q. QED
    BY <1>2, <2>1 DEF TriggerFlags, BuildsOf
<1>4. DbStep(q)
  <2>1. \A r \in Flagged(q) : xlock[r] \in {q, NULL}
    <3>1. ASSUME NEW r \in Flagged(q), NEW o \in WriteBlockers(q, r)
          PROVE  o \in TriggerFlagsBlockers(q)
      BY <3>1 DEF TriggerFlagsBlockers
    <3>q. QED
      BY <3>1 DEF TriggerFlags, WriteBlockers
  <2>2. \A r \in Flagged(q) : View(q)[r] \in BuildRow /\ RowKnown(View(q)[r]) /\ r < nextId
    BY <1>3, ViewType, ViewFresh DEF TypeTable
  <2>3. ASSUME NEW r \in Flagged(q)
        PROVE  f[r] \in BuildRow /\ RowKnown(f[r])
    <3>1. (r = l.lcb) \in BOOLEAN
      OBVIOUS
    <3>2. \A row \in BuildRow, c \in BOOLEAN :
             /\ [row EXCEPT !.last_complete = c] \in BuildRow
             /\ [row EXCEPT !.last_complete = c].task = row.task
      BY DEF BuildRow
    <3>q. QED
      BY <2>2, <3>1, <3>2, NullAssumption DEF RowKnown
  <2>4. \A r \in Flagged(q) : r \in Rows /\ r \notin Packages
    BY <1>3, RowsAssumption DEF Rows, BuildIds
  <2>5. \A r \in DOMAIN f : Writable(q, r, f[r])
    BY <2>1, <2>2, <2>3, <2>4 DEF Writable, TriggerFlags
  <2>6. nextId' \in Int /\ nextId =< nextId' /\ share' \subseteq Procs \X Rows
    BY <1>2 DEF TypeInv, CountType, DbType, TriggerFlags, Rows
  <2>7. DOMAIN f \subseteq Rows /\ {} \in SUBSET Rows
    BY <2>4
  <2>8. Write(q, f, {}) /\ UNCHANGED koji
    BY DEF TriggerFlags, kojiVars
  <2> HIDE DEF f
  <2>q. QED
    BY <2>5, <2>6, <2>7, <2>8, WriteStep
<1>q. QED
  BY <1>4, NextFiringStep, KojiQuiet, CountQuiet
     DEF TriggerFlags, TriggerPCs, kojiVars, StepOK

LEMMA TriggerIntegrityErrorStep ==
    ASSUME TypeInv, NEW q \in Procs, TriggerIntegrityError(q), UNCHANGED <<kojiVars, stateVars>>
    PROVE  StepOK(q)
<1>1. DbStep(q) /\ Unlocked(q)'
  BY RollbackStep DEF TriggerIntegrityError, kojiVars
<1>2. ProcStep(q)
  BY <1>1, EndHandlerStep, EndServiceStep DEF TriggerIntegrityError
<1>q. QED
  BY <1>1, <1>2, KojiQuiet, CountQuiet DEF TriggerIntegrityError, StepOK

LEMMA TriggerTypes ==
    ASSUME TypeInv, NEW q \in Procs, Trigger(q), UNCHANGED <<kojiVars, stateVars>>
    PROVE  StepOK(q)
BY TriggerReadStep, TriggerPackageStep, TriggerFlagsStep, TriggerIntegrityErrorStep DEF Trigger

-----------------------------------------------------------------------------
(* BuildStates *)
LEMMA RunningType ==
    ASSUME TypeInv
    PROVE  \A b \in RunningBuilds(db) : b \in BuildIds /\ StateName(koji[db[b].task]) \in StateNames
BY DEF TypeInv, RowsKnown, RowKnown, RunningBuilds, StateName, StateNames, TaskStates, Unfinished

LEMMA RankType ==
    ASSUME NEW S \in SUBSET BuildIds, NEW b
    PROVE  Rank(b, S) \in Nat
<1>1. IsFiniteSet(BuildIds)
  BY FS_Interval, BoundsAssumption DEF BuildIds
<1>2. {c \in S : c =< b} \in SUBSET BuildIds
  OBVIOUS
<1>q. QED
  BY <1>1, <1>2, FS_Subset, FS_CardinalityType DEF Rank

LEMMA PollInfosStep ==
    ASSUME TypeInv, NEW q \in Procs, PollInfos(q)
    PROVE  StepOK(q)
<1> DEFINE S == RunningBuilds(db)
           infos == IF PollAligned THEN {}
                    ELSE {<<Rank(b, S), StateName(koji[db[b].task])>> : b \in S}
           list == IF PollAligned
                   THEN {<<b, StateName(koji[db[b].task])>> : b \in S} ELSE {}
           pc == IF PollAligned THEN "poll" ELSE "poll_rows"
<1>1. proc \in Locals
  BY DEF TypeInv
<1>2. /\ infos \in SUBSET (Nat \X StateNames)
      /\ list \in SUBSET (BuildIds \X StateNames)
      /\ pc \in PCs
  <2>1. S \in SUBSET BuildIds
    BY RunningType
  <2>2. \A b \in S : Rank(b, S) \in Nat
    BY <2>1, RankType
  <2>q. QED
    BY <2>2, RunningType DEF PCs
<1>3. proc' = [proc EXCEPT ![q].infos = infos, ![q].list = list, ![q].pc = pc]
  BY DEF PollInfos
<1>4. pc \in {"poll", "poll_rows"}
  OBVIOUS
<1> HIDE DEF infos, list, pc
<1>5. proc' \in Locals
  BY <1>1, <1>2, <1>3, SetInfos, SetList, SetPc
<1>6. proc'[q].pc = pc /\ \A o \in Procs \ {q} : proc'[o] = proc[o]
  BY <1>1, <1>3 DEF Locals, Local
<1>7. Unlocked(q)'
  BY StaysUnlocked DEF PollInfos, dbVars, LockFreePCs
<1>8. ProcStep(q)
  BY <1>4, <1>5, <1>6, <1>7, RestStep
<1>q. QED
  BY <1>8, KojiQuiet, DbQuiet, CountQuiet DEF PollInfos, StepOK, KojiStepOK

LEMMA PollRowsStep ==
    ASSUME TypeInv, NEW q \in Procs, PollRows(q)
    PROVE  StepOK(q)
<1> DEFINE list == PollPairs(q)
           pc == IF list = {} THEN "idle" ELSE "poll"
<1>1. proc \in Locals /\ proc[q].infos \in SUBSET (Nat \X StateNames)
  BY DEF TypeInv, Locals, Local
<1>2. list \in SUBSET (BuildIds \X StateNames) /\ pc \in PCs /\ pc \in {"idle", "poll"}
  BY <1>1, RunningType DEF PCs, PollPairs
<1>3. proc' = [proc EXCEPT ![q].list = list, ![q].infos = {}, ![q].pc = pc]
  BY DEF PollRows
<1> HIDE DEF list, pc
<1>4. {} \in SUBSET (Nat \X StateNames)
  OBVIOUS
<1>5. proc' \in Locals
  BY <1>1, <1>2, <1>3, <1>4, SetInfos, SetList, SetPc
<1>6. proc'[q].pc = pc /\ \A o \in Procs \ {q} : proc'[o] = proc[o]
  BY <1>1, <1>3 DEF Locals, Local
<1>7. Unlocked(q)'
  BY StaysUnlocked DEF PollRows, dbVars, LockFreePCs
<1>8. ProcStep(q)
  BY <1>2, <1>5, <1>6, <1>7, RestStep
<1>q. QED
  BY <1>8, KojiQuiet, DbQuiet, CountQuiet DEF PollRows, StepOK, KojiStepOK

(* The polling service and the watcher hand a build to update_build_state *)
LEMMA HandBuild ==
    ASSUME TypeInv, NEW q \in Procs, proc' \in Locals,
           \A o \in Procs \ {q} : proc'[o] = proc[o],
           proc'[q].pc \in {"decide", "cancel"}, proc'[q].b \in BuildIds,
           Unlocked(q)'
    PROVE  ProcStep(q)
<1>1. LocalOK(proc'[q])
  BY DEF LocalOK, At, TriggerPCs, UpdatePCs, RefreshPCs, SkipPCs, NoPackagePCs
<1>2. InfoOK(q)' /\ BuildLocked(q)' /\ NoLocks(q)'
  BY DEF InfoOK, BuildLocked, NoLocks, Unlocked, At, TriggerPCs, RefreshPCs
<1>q. QED
  BY <1>1, <1>2 DEF ProcStep, ProcInv

LEMMA PollNextStep ==
    ASSUME TypeInv, NEW q \in Procs, PollNext(q)
    PROVE  StepOK(q)
<1>1. proc \in Locals /\ proc[q].list \in SUBSET (BuildIds \X StateNames)
  BY DEF TypeInv, Locals, Local
<1>2. PICK x \in proc[q].list :
         proc' = [proc EXCEPT ![q].list = proc[q].list \ {x},
                              ![q].b = x[1], ![q].ts = x[2], ![q].pc = "decide"]
  BY DEF PollNext
<1>3. /\ x[1] \in BuildIds
      /\ x[2] \in StateNames
      /\ "decide" \in PCs
      /\ proc[q].list \ {x} \in SUBSET (BuildIds \X StateNames)
  BY <1>1 DEF PCs
<1>4. proc' \in Locals
  BY <1>1, <1>2, <1>3, SetList, SetB, SetTs, SetPc
<1>5. /\ proc'[q].pc = "decide" /\ proc'[q].b = x[1]
      /\ \A o \in Procs \ {q} : proc'[o] = proc[o]
  BY <1>1, <1>2 DEF Locals, Local
<1>6. Unlocked(q)'
  BY StaysUnlocked DEF PollNext, dbVars, LockFreePCs
<1>7. ProcStep(q)
  BY <1>3, <1>4, <1>5, <1>6, HandBuild
<1>q. QED
  BY <1>7, KojiQuiet, DbQuiet, CountQuiet DEF PollNext, StepOK, KojiStepOK

LEMMA WatchTaskStep ==
    ASSUME TypeInv, NEW q \in Procs, NEW b \in BuildIds, WatchTask(q, b)
    PROVE  StepOK(q)
<1>1. proc \in Locals
  BY DEF TypeInv
<1>2. PICK name \in ReportedNames(koji[db[b].task]) :
         proc' = [proc EXCEPT ![q].b = b, ![q].ts = name, ![q].pc = "decide"]
  BY DEF WatchTask
<1>3. name \in StateNames /\ "decide" \in PCs
  BY <1>2 DEF PCs, TypeInv, WatchTask, RowsKnown, RowKnown, ReportedNames, StateName,
              StateNames, TaskStates, Unfinished
<1>4. proc' \in Locals
  BY <1>1, <1>2, <1>3, SetB, SetTs, SetPc
<1>5. /\ proc'[q].pc = "decide" /\ proc'[q].b = b
      /\ \A o \in Procs \ {q} : proc'[o] = proc[o]
  BY <1>1, <1>2 DEF Locals, Local
<1>6. Unlocked(q)'
  BY StaysUnlocked DEF WatchTask, dbVars, LockFreePCs
<1>7. ProcStep(q)
  BY <1>4, <1>5, <1>6, HandBuild
<1>q. QED
  BY <1>7, KojiQuiet, DbQuiet, CountQuiet DEF WatchTask, StepOK, KojiStepOK

(* Inside update_build_state, and in a trigger that returns there *)
LEMMA InUpdate ==
    ASSUME TypeInv, NEW q \in Procs, proc' \in Locals,
           \A o \in Procs \ {q} : proc'[o] = proc[o],
           \/ proc'[q].pc \in UpdatePCs
           \/ proc'[q].pc = "trigger" /\ proc'[q].ret = "commit" /\ proc'[q].fires # 0,
           proc'[q].p \in Packages, proc'[q].b \in BuildIds,
           proc'[q].pc = "lock" => proc'[q].canceled \/ KojiStateMap(proc'[q].ts) # NULL,
           proc'[q].pc = "lock_package" =>
               ~ proc'[q].canceled /\ KojiStateMap(proc'[q].ts) # NULL,
           BuildLocked(q)', NoLocks(q)'
    PROVE  ProcStep(q)
<1>1. LocalOK(proc'[q])
  BY DEF LocalOK, At, TriggerPCs, UpdatePCs, RefreshPCs, SkipPCs, NoPackagePCs
<1>2. InfoOK(q)'
  BY DEF InfoOK, At, TriggerPCs, RefreshPCs, UpdatePCs
<1>q. QED
  BY <1>1, <1>2 DEF ProcStep, ProcInv

(* What a handler knows inside update_build_state *)
LEMMA UpdateLocals ==
    ASSUME TypeInv, NEW q \in Procs, proc[q].pc \in UpdatePCs
    PROVE  /\ proc \in Locals /\ proc[q] \in Local
           /\ proc[q].b \in BuildIds
           /\ proc[q].pc # "decide" => proc[q].p \in Packages
           /\ BuildLocked(q) /\ NoLocks(q)
BY DEF TypeInv, ProcInv, Locals, LocalOK, At, UpdatePCs, TriggerPCs, NoPackagePCs

LEMMA CommittedRow ==
    ASSUME TypeInv, NEW b \in BuildIds, db[b] # NULL
    PROVE  /\ db[b] \in BuildRow /\ koji[db[b].task] \in TaskStates
           /\ db[b].package \in Packages /\ db[b].task \in Stamps /\ db[b].started \in Stamps
           /\ b < nextId
BY BoundsAssumption
   DEF TypeInv, DbType, TypeTable, RowsKnown, RowKnown, BuildRow, Fresh, CountType, BuildIds

LEMMA DecideStep ==
    ASSUME TypeInv, NEW q \in Procs, Decide(q)
    PROVE  StepOK(q)
<1> DEFINE b == proc[q].b
           final == KojiStateMap(proc[q].ts) # NULL
           canceled == proc[q].ts = "CANCELED"
           giveup == ~ canceled /\ ~ final /\ GiveUp(b)
           c == canceled \/ giveup
           pc == IF canceled \/ giveup \/ final THEN "lock" ELSE "sync"
<1>1. proc \in Locals /\ b \in BuildIds /\ NoLocks(q) /\ db[b] # NULL
  BY UpdateLocals DEF Decide, UpdatePCs
<1>2. db[b].package \in Packages /\ db[b].task \in Stamps
  BY <1>1, CommittedRow
<1>3. KojiStepOK
  <2>1. koji \in [Stamps -> TaskStates \cup {NULL}]
    BY DEF TypeInv, KojiType
  <2>2. koji' = koji \/ koji' = [koji EXCEPT ![db[b].task] = "CANCELED"]
    BY DEF Decide, AbandonTask, CancelTask
  <2>3. /\ koji' \in [Stamps -> TaskStates \cup {NULL}]
        /\ \A t \in Stamps : koji[t] \in TaskStates => koji'[t] \in TaskStates
    BY <1>2, <2>1, <2>2 DEF TaskStates, Unfinished
  <2>4. UNCHANGED <<clock, real, tagged, moves>>
    BY DEF Decide
  <2>5. KojiType' /\ TaggedOK' /\ KojiKeeps
    BY <2>3, <2>4 DEF TypeInv, KojiType, TaggedOK, KojiKeeps
  <2>6. RealKnown'
    BY <2>3, <2>4 DEF TypeInv, KojiType, RealKnown
  <2>q. QED
    BY <2>5, <2>6 DEF KojiStepOK
<1>4. ProcStep(q)
  <2>1. c \in BOOLEAN /\ pc \in PCs /\ pc \in {"lock", "sync"}
    BY DEF PCs
  <2>2. proc' = [proc EXCEPT ![q].canceled = c, ![q].p = db[b].package, ![q].pc = pc]
    BY DEF Decide
  <2> HIDE DEF c, pc
  <2>3. proc' \in Locals
    BY <1>1, <1>2, <2>1, <2>2, SetCanceled, SetP, SetPc
  <2>4. /\ proc'[q].pc = pc /\ proc'[q].p = db[b].package /\ proc'[q].b = b
        /\ proc'[q].canceled = c /\ proc'[q].ts = proc[q].ts
        /\ \A o \in Procs \ {q} : proc'[o] = proc[o]
    BY <1>1, <2>2 DEF Locals, Local
  <2>5. BuildLocked(q)'
    BY <2>1, <2>4 DEF BuildLocked
  <2>6. NoLocks(q)'
    BY <1>1 DEF NoLocks, LockFreePCs, Decide, dbVars
  <2>7. proc'[q].pc \in UpdatePCs /\ proc'[q].p \in Packages /\ proc'[q].b \in BuildIds
    BY <1>1, <1>2, <2>1, <2>4 DEF UpdatePCs
  <2>8. /\ proc'[q].pc = "lock" => proc'[q].canceled \/ KojiStateMap(proc'[q].ts) # NULL
        /\ proc'[q].pc # "lock_package"
    BY <2>1, <2>4 DEF c, pc
  <2>q. QED
    BY <2>3, <2>4, <2>5, <2>6, <2>7, <2>8, InUpdate
<1>q. QED
  BY <1>3, <1>4, DbQuiet, CountQuiet DEF Decide, StepOK, KojiStepOK

LEMMA DecideDeletedStep ==
    ASSUME TypeInv, NEW q \in Procs, DecideDeleted(q)
    PROVE  StepOK(q)
<1>1. Unlocked(q)'
  BY StaysUnlocked DEF DecideDeleted, dbVars, LockFreePCs
<1>q. QED
  BY <1>1, EndHandlerStep, KojiQuiet, DbQuiet, CountQuiet DEF DecideDeleted, StepOK, KojiStepOK

LEMMA LockBuildDoneStep ==
    ASSUME TypeInv, NEW q \in Procs, LockBuildDone(q)
    PROVE  StepOK(q)
<1>1. DbStep(q) /\ Unlocked(q)'
  BY RollbackStep DEF LockBuildDone, kojiVars
<1>q. QED
  BY <1>1, EndHandlerStep, KojiQuiet, CountQuiet DEF LockBuildDone, StepOK

LEMMA LockBuildStep ==
    ASSUME TypeInv, NEW q \in Procs, LockBuild(q)
    PROVE  StepOK(q)
<1> DEFINE b == proc[q].b
           row == IF MustDelete(q) THEN db[b] ELSE [db[b] EXCEPT !.started = db[b].task]
           f == [r \in {b} |-> row]
           ins == ~ MustDelete(q) /\ arch[b] = 0
           pc == IF MustDelete(q) THEN "delete" ELSE "lock_package"
<1>1. proc \in Locals /\ b \in BuildIds /\ proc[q].p \in Packages
  BY UpdateLocals DEF LockBuild, UpdatePCs
<1>2. db[b] # NULL
  BY DEF LockBuild, AlreadyDone
<1>3. row \in BuildRow /\ row.task = db[b].task /\ row # NULL
  BY <1>1, <1>2, CommittedRow, NullAssumption DEF BuildRow
<1>4. b \in Rows /\ b \notin Packages /\ b < nextId
  BY <1>1, <1>2, CommittedRow, RowsAssumption DEF Rows, BuildIds
<1>5. Write(q, f, {b}) /\ UNCHANGED <<koji, share, nextId>>
  BY DEF LockBuild, kojiVars
<1>6. DbStep(q)
  <2>1. xlock[b] \in {q, NULL}
    BY <1>4, NotBlocked DEF LockBuild, ForUpdateBlockers
  <2> HIDE DEF row
  <2>2. \A r \in DOMAIN f : Writable(q, r, f[r])
    BY <1>1, <1>2, <1>3, <1>4, <1>5, <2>1, CommittedRow DEF Writable, RowKnown
  <2>3. DOMAIN f \subseteq Rows /\ {b} \in SUBSET Rows
    BY <1>4
  <2> HIDE DEF f
  <2>q. QED
    BY <1>5, <2>2, <2>3, WriteOnly
<1>7. ProcStep(q)
  <2>1. ins \in BOOLEAN /\ pc \in PCs /\ pc \in {"delete", "lock_package"}
    BY DEF PCs
  <2>2. proc' = [proc EXCEPT ![q].ins = ins, ![q].pc = pc]
    BY DEF LockBuild
  <2> HIDE DEF ins, pc, row
  <2>3. proc' \in Locals
    BY <1>1, <2>1, <2>2, SetIns, SetPc
  <2>4. /\ proc'[q].pc = pc /\ proc'[q].p = proc[q].p /\ proc'[q].b = b
        /\ proc'[q].canceled = proc[q].canceled /\ proc'[q].ts = proc[q].ts
        /\ \A o \in Procs \ {q} : proc'[o] = proc[o]
    BY <1>1, <2>2 DEF Locals, Local
  <2>5. xlock'[b] = q /\ work'[b] = row
    BY <1>4, <1>5 DEF Write
  <2>6. BuildLocked(q)' /\ NoLocks(q)'
    BY <1>3, <2>1, <2>4, <2>5 DEF BuildLocked, NoLocks, LockFreePCs
  <2>7. proc'[q].pc \in UpdatePCs
    BY <2>1, <2>4 DEF UpdatePCs
  <2>8. /\ proc'[q].pc # "lock"
        /\ proc'[q].pc = "lock_package" =>
               ~ proc'[q].canceled /\ KojiStateMap(proc'[q].ts) # NULL
    <3>1. proc[q].canceled \/ KojiStateMap(proc[q].ts) # NULL
      BY DEF TypeInv, ProcInv, LocalOK, LockBuild
    <3>2. pc = "lock_package" => ~ proc[q].canceled
      BY DEF pc, MustDelete
    <3>q. QED
      BY <2>1, <2>4, <3>1, <3>2
  <2>q. QED
    BY <1>1, <2>3, <2>4, <2>6, <2>7, <2>8, InUpdate
<1>q. QED
  BY <1>6, <1>7, KojiQuiet, CountQuiet DEF LockBuild, StepOK

LEMMA DeleteBuildStep ==
    ASSUME TypeInv, NEW q \in Procs, DeleteBuild(q)
    PROVE  StepOK(q)
<1> DEFINE b == proc[q].b
           p == proc[q].p
           pkg == View(q)[p]
           cleared == IF pkg.last_build = b THEN [pkg EXCEPT !.last_build = NULL] ELSE pkg
           f == [r \in {b} \cup (IF pkg.last_build = b THEN {p} ELSE {}) |->
                    IF r = b THEN NULL ELSE cleared]
           fires == IF cleared.last_build = NULL THEN 1 ELSE 0
           pc == IF cleared.last_build = NULL THEN "trigger" ELSE "commit"
<1>1. proc \in Locals /\ b \in BuildIds /\ p \in Packages /\ xlock[b] = q /\ work[b] # NULL
  BY UpdateLocals DEF DeleteBuild, UpdatePCs, BuildLocked
<1>2. ASSUME DeleteRefused(q, b, p)
      PROVE  StepOK(q)
  <2>1. DbStep(q) /\ Unlocked(q)'
    BY <1>2, RollbackStep DEF DeleteRefused, DeleteBuild, kojiVars
  <2>q. QED
    BY <1>2, <2>1, EndHandlerStep, KojiQuiet, CountQuiet DEF DeleteRefused, DeleteBuild, StepOK
<1>3. ASSUME Delete(q, b, p)
      PROVE  StepOK(q)
  <2>1. Write(q, f, {b}) /\ UNCHANGED <<koji, share, nextId>>
    BY <1>3 DEF Delete, DeleteBuild, kojiVars
  <2>2. pkg \in PackageRow /\ cleared \in PackageRow
    BY <1>1, ViewType DEF TypeTable, PackageRow
  <2>3. b \in Rows /\ p \in Rows /\ b \notin Packages /\ p \notin BuildIds
    BY <1>1, RowsAssumption DEF Rows, BuildIds
  <2>4. b < nextId
    <3>1. View(q)[b] = work[b]
      BY <1>1, <2>3 DEF View
    <3>q. QED
      BY <1>1, <3>1, ViewFresh
  <2>5. pkg.last_build = b => xlock[p] \in {q, NULL}
    BY <1>3, <2>3, NotBlocked DEF Delete, DeleteBlockers
  <2>6. proc' = [proc EXCEPT ![q].fires = fires, ![q].ret = "commit", ![q].pc = pc]
    BY <1>3 DEF Delete
  <2>7. /\ fires \in Nat /\ pc \in PCs /\ "commit" \in PCs
        /\ \/ pc = "commit"
           \/ pc = "trigger" /\ fires # 0
    BY DEF PCs
  <2> HIDE DEF cleared, fires, pc
  <2>8. DbStep(q)
    <3>1. \A r \in DOMAIN f : Writable(q, r, f[r])
      BY <1>1, <2>1, <2>2, <2>3, <2>4, <2>5 DEF Writable, RowKnown
    <3>2. DOMAIN f \subseteq Rows /\ {b} \in SUBSET Rows
      BY <2>3
    <3> HIDE DEF f
    <3>q. QED
      BY <2>1, <3>1, <3>2, WriteOnly
  <2>9. proc' \in Locals
    BY <1>1, <2>6, <2>7, SetFires, SetRet, SetPc
  <2>10. /\ proc'[q].pc = pc /\ proc'[q].ret = "commit" /\ proc'[q].fires = fires
         /\ proc'[q].p = p /\ proc'[q].b = b
         /\ \A o \in Procs \ {q} : proc'[o] = proc[o]
    BY <1>1, <2>6 DEF Locals, Local
  <2>11. BuildLocked(q)' /\ NoLocks(q)'
    BY <2>7, <2>10 DEF BuildLocked, NoLocks, LockFreePCs
  <2>12. \/ proc'[q].pc \in UpdatePCs
         \/ proc'[q].pc = "trigger" /\ proc'[q].ret = "commit" /\ proc'[q].fires # 0
    BY <2>7, <2>10 DEF UpdatePCs
  <2>13. ProcStep(q)
    BY <1>1, <2>7, <2>9, <2>10, <2>11, <2>12, InUpdate
  <2>q. QED
    BY <2>1, <2>8, <2>13, KojiQuiet, CountQuiet DEF DeleteBuild, StepOK
<1>q. QED
  BY <1>2, <1>3 DEF DeleteBuild

LEMMA MsgStateType ==
    \A pkg : MsgState(pkg) \in MsgStates \cup {"none"}
BY DEF MsgState, MsgStates

LEMMA SetManualPriority ==
    \A row \in PackageRow, n \in Int : [row EXCEPT !.manual_priority = n] \in PackageRow
BY DEF PackageRow

LEMMA SetPriorities ==
    \A row \in PackageRow, n \in Nat :
        [row EXCEPT !.manual_priority = 0, !.build_priority = n] \in PackageRow
<1>1. \A row \in PackageRow, n \in Nat : [row EXCEPT !.build_priority = n] \in PackageRow
  BY DEF PackageRow
<1>2. \A row \in PackageRow : [row EXCEPT !.manual_priority = 0] \in PackageRow
  BY SetManualPriority
<1>q. QED
  BY <1>1, <1>2

LEMMA LockPackageStep ==
    ASSUME TypeInv, NEW q \in Procs, LockPackage(q)
    PROVE  StepOK(q)
<1> DEFINE b == proc[q].b
           p == proc[q].p
           v == View(q)
           state == BuildState(q)
           prio == FailedBuildPriority(v, b, state)
           finished == [v[b] EXCEPT !.state = state]
           pkg == [v[p] EXCEPT !.manual_priority = 0, !.build_priority = prio]
           f == [r \in {b, p} |-> IF r = b THEN finished ELSE pkg]
<1>1. proc \in Locals /\ b \in BuildIds /\ p \in Packages /\ xlock[b] = q /\ work[b] # NULL
  BY UpdateLocals DEF LockPackage, UpdatePCs, BuildLocked
<1>2. b \in Rows /\ p \in Rows /\ b \notin Packages /\ p \notin BuildIds
  BY <1>1, RowsAssumption DEF Rows, BuildIds
<1>3. v[b] \in BuildRow /\ RowKnown(v[b]) /\ b < nextId /\ v[b] # NULL
  <2>1. v[b] = work[b]
    BY <1>1, <1>2 DEF View
  <2>q. QED
    BY <1>1, <2>1, ViewType, ViewFresh DEF TypeTable
<1>4. state \in FinishedStates
  BY DEF LockPackage, TypeInv, ProcInv, LocalOK, BuildState, KojiStateMap, FinishedStates
<1>5. prio \in Nat
  BY FailedPriorityAssumption DEF FailedBuildPriority
<1>6. finished \in BuildRow /\ RowKnown(finished)
  BY <1>3, <1>4 DEF BuildRow, RowKnown
<1>7. pkg \in PackageRow
  <2>1. v[p] \in PackageRow
    BY <1>1, ViewType DEF TypeTable
  <2> HIDE DEF prio, v
  <2>q. QED
    BY <1>5, <2>1, SetPriorities
<1>8. Write(q, f, {p}) /\ UNCHANGED <<koji, share, nextId>>
  BY DEF LockPackage, kojiVars
<1>9. xlock[p] \in {q, NULL}
  BY <1>2, NotBlocked DEF LockPackage, ForUpdateBlockers
<1>10. proc' = [proc EXCEPT ![q].prev = MsgState(v[p]), ![q].fires = 1,
                            ![q].ret = "commit", ![q].pc = "trigger"]
  BY DEF LockPackage
<1> HIDE DEF finished, pkg, prio, state, v
<1>11. DbStep(q)
  <2>1. \A r \in DOMAIN f : Writable(q, r, f[r])
    BY <1>1, <1>2, <1>3, <1>6, <1>7, <1>8, <1>9 DEF Writable
  <2>2. DOMAIN f \subseteq Rows /\ {p} \in SUBSET Rows
    BY <1>2
  <2> HIDE DEF f
  <2>q. QED
    BY <1>8, <2>1, <2>2, WriteOnly
<1>12. ProcStep(q)
  <2>1. "commit" \in PCs /\ "trigger" \in PCs /\ 1 \in Nat
    BY DEF PCs
  <2>2. proc' \in Locals
    BY <1>1, <1>10, <2>1, MsgStateType, SetPrev, SetFires, SetRet, SetPc
  <2>3. /\ proc'[q].pc = "trigger" /\ proc'[q].ret = "commit" /\ proc'[q].fires = 1
        /\ proc'[q].p = p /\ proc'[q].b = b
        /\ \A o \in Procs \ {q} : proc'[o] = proc[o]
    BY <1>1, <1>10 DEF Locals, Local
  <2>4. BuildLocked(q)' /\ NoLocks(q)'
    BY <2>3 DEF BuildLocked, NoLocks, LockFreePCs
  <2>q. QED
    BY <1>1, <2>2, <2>3, <2>4, InUpdate
<1>q. QED
  BY <1>8, <1>11, <1>12, KojiQuiet, CountQuiet DEF LockPackage, StepOK

LEMMA SyncRunningStep ==
    ASSUME TypeInv, NEW q \in Procs, SyncRunning(q)
    PROVE  StepOK(q)
<1> DEFINE b == proc[q].b
           t == db[b].task
           changed == db[b].started # t
           row == [db[b] EXCEPT !.started = t]
           f == [r \in (IF changed THEN {b} ELSE {}) |-> row]
           ins == HasSubtasks(koji[t]) /\ arch[b] = 0
<1>1. proc \in Locals /\ b \in BuildIds /\ proc[q].p \in Packages /\ db[b] # NULL
  BY UpdateLocals DEF SyncRunning, UpdatePCs
<1>2. row \in BuildRow /\ row.task = t /\ koji[t] \in TaskStates /\ b < nextId
  BY <1>1, CommittedRow DEF BuildRow
<1>3. b \in Rows /\ b \notin Packages
  BY <1>1, RowsAssumption DEF Rows, BuildIds
<1>4. /\ Write(q, f, {}) /\ UNCHANGED <<koji, nextId>>
      /\ share' = share \cup (IF arch[b] = 0 THEN {<<q, b>>} ELSE {})
      /\ proc' = [proc EXCEPT ![q].ins = ins, ![q].pc = "commit"]
  BY DEF SyncRunning, kojiVars
<1>5. DbStep(q)
  <2>1. changed => xlock[b] \in {q, NULL}
    BY <1>1, <1>3, NotBlocked DEF SyncRunning, SyncBlockers
  <2> HIDE DEF row
  <2>2. \A r \in DOMAIN f : Writable(q, r, f[r])
    BY <1>1, <1>2, <1>3, <1>4, <2>1 DEF Writable, RowKnown
  <2>3. DOMAIN f \subseteq Rows /\ {} \in SUBSET Rows
    BY <1>3
  <2>4. nextId' \in Int /\ nextId =< nextId' /\ share' \subseteq Procs \X Rows
    BY <1>3, <1>4 DEF TypeInv, CountType, DbType
  <2> HIDE DEF f
  <2>q. QED
    BY <1>4, <2>2, <2>3, <2>4, WriteStep
<1>6. ProcStep(q)
  <2>1. ins \in BOOLEAN /\ "commit" \in PCs
    BY DEF PCs
  <2> HIDE DEF ins
  <2>2. proc' \in Locals
    BY <1>1, <1>4, <2>1, SetIns, SetPc
  <2>3. /\ proc'[q].pc = "commit" /\ proc'[q].p = proc[q].p /\ proc'[q].b = b
        /\ \A o \in Procs \ {q} : proc'[o] = proc[o]
    BY <1>1, <1>4 DEF Locals, Local
  <2>4. BuildLocked(q)' /\ NoLocks(q)' /\ proc'[q].pc \in UpdatePCs
    BY <2>3 DEF BuildLocked, NoLocks, LockFreePCs, UpdatePCs
  <2>q. QED
    BY <1>1, <2>2, <2>3, <2>4, InUpdate
<1>q. QED
  BY <1>4, <1>5, <1>6, KojiQuiet, CountQuiet DEF SyncRunning, StepOK

LEMMA SyncDeletedStep ==
    ASSUME TypeInv, NEW q \in Procs, SyncDeleted(q)
    PROVE  StepOK(q)
<1>1. DbStep(q) /\ Unlocked(q)'
  BY RollbackStep DEF SyncDeleted, kojiVars
<1>q. QED
  BY <1>1, EndHandlerStep, KojiQuiet, CountQuiet DEF SyncDeleted, StepOK

LEMMA CommitBuildStep ==
    ASSUME TypeInv, NEW q \in Procs, CommitBuild(q)
    PROVE  StepOK(q)
<1> DEFINE b == proc[q].b
           new == MsgState(View(q)[proc[q].p])
<1>1. proc \in Locals /\ b \in BuildIds /\ proc[q].p \in Packages
  BY UpdateLocals DEF CommitBuild, UpdatePCs
<1>2. DbStep(q) /\ Unlocked(q)'
  BY CommitStep DEF CommitBuild, kojiVars
<1>3. CountType'
  <2>1. arch' = [arch EXCEPT ![b] = arch'[b]]
    BY <1>1 DEF CommitBuild, TypeInv, CountType
  <2>2. arch'[b] \in Nat
    BY <1>1 DEF CommitBuild, TypeInv, CountType
  <2>q. QED
    BY <1>1, <2>1, <2>2 DEF CommitBuild, TypeInv, CountType
<1>4. ProcStep(q)
  <2>1. CASE EndHandler(q)
    BY <1>2, <2>1, EndHandlerStep
  <2>2. ASSUME proc' = [proc EXCEPT ![q].new = new, ![q].pc = "emit"]
        PROVE  ProcStep(q)
    <3>1. new \in MsgStates \cup {"none"} /\ "emit" \in PCs
      BY MsgStateType DEF PCs
    <3> HIDE DEF new
    <3>2. proc' \in Locals
      BY <1>1, <2>2, <3>1, SetNew, SetPc
    <3>3. /\ proc'[q].pc = "emit" /\ proc'[q].p = proc[q].p /\ proc'[q].b = b
          /\ \A o \in Procs \ {q} : proc'[o] = proc[o]
      BY <1>1, <2>2 DEF Locals, Local
    <3>4. BuildLocked(q)' /\ NoLocks(q)' /\ proc'[q].pc \in UpdatePCs
      BY <1>2, <3>3 DEF BuildLocked, NoLocks, Unlocked, UpdatePCs
    <3>q. QED
      BY <1>1, <3>2, <3>3, <3>4, InUpdate
  <2>q. QED
    BY <2>1, <2>2 DEF CommitBuild
<1>q. QED
  BY <1>2, <1>3, <1>4, KojiQuiet DEF CommitBuild, StepOK

LEMMA EmitStep ==
    ASSUME TypeInv, NEW q \in Procs, Emit(q)
    PROVE  StepOK(q)
<1>1. proc[q].b \in BuildIds /\ Unlocked(q)'
  BY UpdateLocals, StaysUnlocked DEF Emit, UpdatePCs, dbVars, LockFreePCs
<1>2. CountType'
  BY <1>1 DEF Emit, TypeInv, CountType
<1>q. QED
  BY <1>1, <1>2, EndHandlerStep, KojiQuiet, DbQuiet DEF Emit, StepOK, KojiStepOK

LEMMA UpdateBuildStateTypes ==
    ASSUME TypeInv, NEW q \in Procs, UpdateBuildState(q)
    PROVE  StepOK(q)
BY DecideStep, DecideDeletedStep, LockBuildDoneStep, LockBuildStep, DeleteBuildStep,
   LockPackageStep, SyncRunningStep, SyncDeletedStep, CommitBuildStep, EmitStep
   DEF UpdateBuildState

LEMMA PassTimeoutStep ==
    ASSUME TypeInv, NEW b \in BuildIds, PassTimeout(b)
    PROVE  StepOK(NULL)
<1>1. CountType'
  <2>1. db[b].started \in Stamps
    BY CommittedRow DEF PassTimeout
  <2>q. QED
    BY <2>1, MaxDeadlineAssumption, BoundsAssumption DEF PassTimeout, TypeInv, CountType, Stamps
<1>2. ProcStep(NULL)
  BY ProcsAssumption DEF PassTimeout, TypeInv, ProcStep
<1>q. QED
  BY <1>1, <1>2, KojiQuiet, DbQuiet DEF PassTimeout, StepOK, KojiStepOK

-----------------------------------------------------------------------------
(* RealBuilds *)

(* Inside register_real_builds and refresh_latest_builds, and in a trigger  *)
(* that returns there                                                       *)
LEMMA InRefresh ==
    ASSUME TypeInv, NEW q \in Procs, proc' \in Locals,
           \A o \in Procs \ {q} : proc'[o] = proc[o],
           \/ proc'[q].pc \in RefreshPCs
           \/ /\ proc'[q].pc = "trigger" /\ proc'[q].fires # 0
              /\ proc'[q].ret \in {"registered", "retag", "refreshed"},
           proc'[q].p \in Packages, proc'[q].info \in Versions,
           proc'[q].cont \in {"done", "untag", "untag_registered"},
           real'[proc'[q].p][proc'[q].info] # NULL,
           proc'[q].pc \in {"untag_rows", "retag_rows"} =>
               /\ proc'[q].todo \subseteq BuildIds /\ proc'[q].todo # {}
               /\ proc'[q].ret \in {"retag", "refreshed"},
           NoLocks(q)'
    PROVE  ProcStep(q)
<1>1. LocalOK(proc'[q])
  BY DEF LocalOK, At, TriggerPCs, UpdatePCs, RefreshPCs, SkipPCs, NoPackagePCs
<1>2. InfoOK(q)'
  BY DEF InfoOK, At, TriggerPCs, RefreshPCs
<1>3. BuildLocked(q)'
  BY DEF BuildLocked, RefreshPCs
<1>q. QED
  BY <1>1, <1>2, <1>3 DEF ProcStep, ProcInv

(* What a handler knows there *)
LEMMA RefreshLocals ==
    ASSUME TypeInv, NEW q \in Procs, proc[q].pc \in RefreshPCs
    PROVE  /\ proc \in Locals /\ proc[q] \in Local
           /\ proc[q].p \in Packages /\ proc[q].info \in Versions
           /\ proc[q].cont \in {"done", "untag", "untag_registered"}
           /\ real[proc[q].p][proc[q].info] # NULL
           /\ InfoTask(q) \in Stamps /\ koji[InfoTask(q)] \in TaskStates
           /\ NoLocks(q)
<1>1. /\ proc \in Locals /\ proc[q] \in Local /\ LocalOK(proc[q]) /\ InfoOK(q) /\ NoLocks(q)
      /\ real \in [Packages -> [Versions -> Stamps \cup {NULL}]] /\ RealKnown
  BY DEF TypeInv, ProcInv, Locals, KojiType
<1>2. At(proc[q]) = proc[q].pc /\ proc[q].pc \notin NoPackagePCs
  BY DEF At, TriggerPCs, RefreshPCs, NoPackagePCs
<1>3. /\ proc[q].p \in Packages /\ proc[q].info \in Versions
      /\ proc[q].cont \in {"done", "untag", "untag_registered"}
      /\ real[proc[q].p][proc[q].info] # NULL
  BY <1>1, <1>2 DEF LocalOK, InfoOK
<1>q. QED
  BY <1>1, <1>3 DEF InfoTask, RealKnown

LEMMA LastBuildVersionType ==
    ASSUME NEW v, TypeTable(v), NEW p \in Packages
    PROVE  LastBuildVersion(v, p) \in 0..MaxVersion \cup {NULL}
<1>1. v[p].last_build \in BuildIds \cup {NULL}
  BY DEF TypeTable, PackageRow
<1>2. v[p].last_build # NULL /\ v[v[p].last_build] # NULL =>
         v[v[p].last_build].ver \in Versions
  BY <1>1 DEF TypeTable, BuildRow
<1>q. QED
  BY <1>2, BoundsAssumption DEF LastBuildVersion, Versions

LEMMA TaggedType ==
    ASSUME TypeInv, NEW p \in Packages, tagged[p] # 0
    PROVE  tagged[p] \in Versions /\ real[p][tagged[p]] # NULL
BY BoundsAssumption DEF TypeInv, KojiType, TaggedOK, Versions

LEMMA WatchTagStep ==
    ASSUME TypeInv, NEW q \in Procs, NEW p \in Packages, WatchTag(q, p), UNCHANGED stateVars
    PROVE  StepOK(q)
<1>1. proc \in Locals /\ tagged[p] \in Versions /\ real'[p][tagged[p]] # NULL
  BY TaggedType DEF TypeInv, WatchTag, kojiVars
<1>2. "register" \in PCs /\ "done" \in PCs
  BY DEF PCs
<1>3. proc' \in Locals
  BY <1>1, <1>2, SetP, SetInfo, SetPc, SetCont DEF WatchTag
<1>4. /\ proc'[q].pc = "register" /\ proc'[q].p = p /\ proc'[q].info = tagged[p]
      /\ proc'[q].cont = "done"
      /\ \A o \in Procs \ {q} : proc'[o] = proc[o]
  BY <1>1 DEF WatchTag, Locals, Local
<1>5. NoLocks(q)' /\ proc'[q].pc \in RefreshPCs
  BY <1>4, StaysUnlocked DEF WatchTag, NoLocks, Unlocked, LockFreePCs, RefreshPCs, dbVars
<1>6. ProcStep(q)
  BY <1>1, <1>3, <1>4, <1>5, InRefresh
<1>q. QED
  BY <1>6, KojiQuiet, DbQuiet, CountQuiet DEF WatchTag, StepOK, KojiStepOK

LEMMA RefreshPackageStep ==
    ASSUME TypeInv, NEW q \in Procs, NEW p \in Packages, RefreshPackage(q, p), UNCHANGED stateVars
    PROVE  StepOK(q)
<1> DEFINE isnew == /\ real[p][tagged[p]] \notin RegisteredTasks(db, p)
                    /\ IsBuildNewer(LastBuildVersion(db, p), tagged[p])
           pc == IF isnew THEN "register" ELSE "untag"
           last == LastBuildVersion(db, p)
<1>1. proc \in Locals /\ tagged[p] \in Versions /\ real'[p][tagged[p]] # NULL
  BY TaggedType DEF TypeInv, RefreshPackage, kojiVars
<1>2. last \in 0..MaxVersion \cup {NULL}
  BY LastBuildVersionType DEF TypeInv, DbType
<1>3. pc \in PCs /\ pc \in {"register", "untag"} /\ "untag" \in PCs
  BY DEF PCs
<1>4. proc' = [proc EXCEPT ![q].p = p, ![q].info = tagged[p], ![q].last = last,
                           ![q].pc = pc, ![q].cont = "untag"]
  BY DEF RefreshPackage
<1> HIDE DEF pc, last
<1>5. proc' \in Locals
  BY <1>1, <1>2, <1>3, <1>4, SetP, SetInfo, SetLast, SetPc, SetCont
<1>6. /\ proc'[q].pc = pc /\ proc'[q].p = p /\ proc'[q].info = tagged[p]
      /\ proc'[q].cont = "untag"
      /\ \A o \in Procs \ {q} : proc'[o] = proc[o]
  BY <1>1, <1>4 DEF Locals, Local
<1>7. NoLocks(q)' /\ proc'[q].pc \in RefreshPCs /\ proc'[q].pc \notin {"untag_rows", "retag_rows"}
  BY <1>3, <1>6, StaysUnlocked
     DEF RefreshPackage, NoLocks, Unlocked, LockFreePCs, RefreshPCs, dbVars
<1>8. ProcStep(q)
  BY <1>1, <1>5, <1>6, <1>7, InRefresh
<1>q. QED
  BY <1>8, KojiQuiet, DbQuiet, CountQuiet DEF RefreshPackage, StepOK, KojiStepOK

LEMMA RegisterNoRepoStep ==
    ASSUME TypeInv, NEW q \in Procs, RegisterNoRepo(q), UNCHANGED stateVars
    PROVE  StepOK(q)
<1>1. Unlocked(q)'
  BY StaysUnlocked DEF RegisterNoRepo, dbVars, LockFreePCs
<1>2. CASE EndHandler(q)
  BY <1>1, <1>2, EndHandlerStep, KojiQuiet, DbQuiet, CountQuiet
     DEF RegisterNoRepo, StepOK, KojiStepOK
<1>3. ASSUME Goto(q, proc[q].cont), proc[q].cont # "done"
      PROVE  StepOK(q)
  <2>1. /\ proc[q].p \in Packages /\ proc[q].info \in Versions
        /\ proc[q].cont \in {"done", "untag", "untag_registered"}
        /\ real'[proc[q].p][proc[q].info] # NULL
    BY RefreshLocals DEF RegisterNoRepo, RefreshPCs, kojiVars
  <2>2. proc[q].cont \in PCs
    BY <2>1 DEF PCs
  <2>3. GotoFrame(q, proc[q].cont)
    BY <1>3, <2>2, GotoStep
  <2>4. /\ proc'[q].pc \in RefreshPCs /\ proc'[q].pc \notin {"untag_rows", "retag_rows"}
        /\ NoLocks(q)'
    BY <1>1, <1>3, <2>1, <2>3 DEF GotoFrame, RefreshPCs, NoLocks, Unlocked
  <2>5. ProcStep(q)
    BY <2>1, <2>3, <2>4, InRefresh DEF GotoFrame
  <2>q. QED
    BY <2>5, KojiQuiet, DbQuiet, CountQuiet DEF RegisterNoRepo, StepOK, KojiStepOK
<1>q. QED
  BY <1>2, <1>3 DEF RegisterNoRepo

LEMMA RegisterLockStep ==
    ASSUME TypeInv, NEW q \in Procs, RegisterLock(q), UNCHANGED stateVars
    PROVE  StepOK(q)
<1> DEFINE p == proc[q].p
           new == InfoTask(q) \notin RegisteredTasks(View(q), p)
           ids == IF new THEN {nextId} ELSE {}
           pkg == [View(q)[p] EXCEPT !.manual_priority = 0, !.build_priority = 0]
           row == NewRealBuild(q)
           f == [r \in {p} \cup ids |-> IF r = p THEN pkg ELSE row]
           fires == IF new THEN 1 ELSE 0
           pc == IF new THEN "trigger" ELSE "registered"
<1>1. /\ proc \in Locals /\ p \in Packages /\ proc[q].info \in Versions
      /\ proc[q].cont \in {"done", "untag", "untag_registered"}
      /\ real'[p][proc[q].info] # NULL
      /\ InfoTask(q) \in Stamps /\ koji[InfoTask(q)] \in TaskStates
  BY RefreshLocals DEF RegisterLock, RefreshPCs, kojiVars
<1>2. /\ Write(q, f, {p}) /\ UNCHANGED <<koji, share>>
      /\ new => nextId \in BuildIds
      /\ nextId' = IF new THEN nextId + 1 ELSE nextId
      /\ proc' = [proc EXCEPT ![q].fires = fires, ![q].ret = "registered", ![q].pc = pc]
  BY DEF RegisterLock, kojiVars
<1>3. /\ nextId \in 1..(MaxBuildId + 1) /\ nextId' \in 1..(MaxBuildId + 1)
      /\ nextId =< nextId' /\ (new => nextId < nextId')
  BY <1>2, BoundsAssumption DEF TypeInv, CountType, BuildIds
<1>4. row \in BuildRow /\ row.task = InfoTask(q)
  BY <1>1 DEF NewRealBuild, BuildRow, FinishedStates
<1>5. pkg \in PackageRow
  <2>1. View(q)[p] \in PackageRow
    BY <1>1, ViewType DEF TypeTable
  <2>q. QED
    BY <2>1, SetPriorities
<1>6. p \in Rows /\ p \notin BuildIds /\ xlock[p] \in {q, NULL}
  <2>1. p \in Rows /\ p \notin BuildIds
    BY <1>1, RowsAssumption DEF Rows, BuildIds
  <2>2. WriteBlockers(q, p) = {}
    BY DEF RegisterLock, ForUpdateBlockers
  <2>q. QED
    BY <2>1, <2>2, NotBlocked
<1>7. new => /\ nextId \in BuildIds /\ nextId \in Rows /\ nextId \notin Packages
             /\ xlock[nextId] = NULL
  BY <1>2, <1>3, RowsAssumption DEF TypeInv, Fresh, Rows, BuildIds
<1>8. /\ fires \in Nat /\ pc \in PCs /\ "registered" \in PCs
      /\ \/ pc = "registered"
         \/ pc = "trigger" /\ fires # 0
  BY DEF PCs
<1> HIDE DEF row, pkg, fires, pc, new
<1>9. DbStep(q)
  <2>1. \A r \in DOMAIN f : Writable(q, r, f[r])
    <3>1. Writable(q, p, pkg)
      BY <1>5, <1>6 DEF Writable
    <3>2. RowKnown(row)
      BY <1>1, <1>4 DEF RowKnown
    <3>3. new => Writable(q, nextId, row)
      BY <1>3, <1>4, <1>7, <3>2 DEF Writable
    <3>q. QED
      BY <1>6, <1>7, <3>1, <3>3
  <2>2. DOMAIN f \subseteq Rows /\ {p} \in SUBSET Rows
    BY <1>6, <1>7
  <2>3. share' \subseteq Procs \X Rows /\ nextId' \in Int
    BY <1>2, <1>3 DEF TypeInv, DbType
  <2> HIDE DEF f
  <2>q. QED
    BY <1>2, <1>3, <2>1, <2>2, <2>3, WriteStep
<1>10. CountType'
  BY <1>3 DEF TypeInv, CountType, stateVars
<1>11. ProcStep(q)
  <2>1. proc' \in Locals
    BY <1>1, <1>2, <1>8, SetFires, SetRet, SetPc
  <2>2. /\ proc'[q].pc = pc /\ proc'[q].ret = "registered" /\ proc'[q].fires = fires
        /\ proc'[q].p = p /\ proc'[q].info = proc[q].info /\ proc'[q].cont = proc[q].cont
        /\ \A o \in Procs \ {q} : proc'[o] = proc[o]
    BY <1>1, <1>2 DEF Locals, Local
  <2>3. NoLocks(q)'
    BY <1>8, <2>2 DEF NoLocks, LockFreePCs
  <2>4. \/ proc'[q].pc = "registered" /\ proc'[q].pc \in RefreshPCs
        \/ proc'[q].pc = "trigger" /\ proc'[q].fires # 0
    BY <1>8, <2>2 DEF RefreshPCs
  <2>q. QED
    BY <1>1, <2>1, <2>2, <2>3, <2>4, InRefresh
<1>q. QED
  BY <1>9, <1>10, <1>11, KojiQuiet DEF RegisterLock, StepOK

LEMMA RegisterCommitStep ==
    ASSUME TypeInv, NEW q \in Procs, RegisterCommit(q), UNCHANGED stateVars
    PROVE  StepOK(q)
<1>1. DbStep(q) /\ Unlocked(q)'
  BY CommitStep DEF RegisterCommit, kojiVars
<1>2. CASE EndHandler(q)
  BY <1>1, <1>2, EndHandlerStep, KojiQuiet, CountQuiet DEF RegisterCommit, StepOK
<1>3. ASSUME proc' = [proc EXCEPT ![q].pc = proc[q].cont, ![q].last = Expired],
             proc[q].cont # "done"
      PROVE  StepOK(q)
  <2>1. /\ proc \in Locals /\ proc[q].p \in Packages /\ proc[q].info \in Versions
        /\ proc[q].cont \in {"done", "untag", "untag_registered"}
        /\ real'[proc[q].p][proc[q].info] # NULL
    BY RefreshLocals DEF RegisterCommit, RefreshPCs, kojiVars
  <2>2. proc[q].cont \in PCs /\ Expired \in 0..MaxVersion \cup {NULL}
    BY <2>1, BoundsAssumption DEF PCs, Expired
  <2>3. proc' \in Locals
    BY <1>3, <2>1, <2>2, SetPc, SetLast
  <2>4. /\ proc'[q].pc = proc[q].cont /\ proc'[q].p = proc[q].p
        /\ proc'[q].info = proc[q].info /\ proc'[q].cont = proc[q].cont
        /\ \A o \in Procs \ {q} : proc'[o] = proc[o]
    BY <1>3, <2>1 DEF Locals, Local
  <2>5. /\ proc'[q].pc \in RefreshPCs /\ proc'[q].pc \notin {"untag_rows", "retag_rows"}
        /\ NoLocks(q)'
    BY <1>1, <1>3, <2>1, <2>4 DEF RefreshPCs, NoLocks, Unlocked
  <2>6. ProcStep(q)
    BY <2>1, <2>3, <2>4, <2>5, InRefresh
  <2>q. QED
    BY <1>1, <2>6, KojiQuiet, CountQuiet DEF RegisterCommit, StepOK
<1>q. QED
  BY <1>2, <1>3 DEF RegisterCommit

LEMMA BeginUpdateStep ==
    ASSUME TypeInv, NEW q \in Procs, proc[q].pc \in {"untag", "untag_registered", "retag"},
           NEW S \in SUBSET BuildIds, NEW pc, NEW next,
           pc \in {"untag_rows", "retag_rows"}, next \in {"retag", "refreshed"},
           BeginUpdate(q, S, pc, next), UNCHANGED real
    PROVE  ProcStep(q)
<1> DEFINE to == IF S = {} THEN next ELSE pc
<1>1. /\ proc \in Locals /\ proc[q].p \in Packages /\ proc[q].info \in Versions
      /\ proc[q].cont \in {"done", "untag", "untag_registered"}
      /\ real'[proc[q].p][proc[q].info] # NULL
  BY RefreshLocals DEF RefreshPCs
<1>2. S \in SUBSET Rows /\ next \in PCs /\ to \in PCs /\ 0 \in Nat
  BY DEF Rows, PCs
<1>3. proc' = [proc EXCEPT ![q].todo = S, ![q].ret = next, ![q].fires = 0, ![q].pc = to]
  BY DEF BeginUpdate
<1>4. to \in RefreshPCs /\ to \notin LockFreePCs /\ (to \in {"untag_rows", "retag_rows"} => S # {})
  BY DEF RefreshPCs, LockFreePCs
<1> HIDE DEF to
<1>5. proc' \in Locals
  BY <1>1, <1>2, <1>3, SetTodo, SetRet, SetFires, SetPc
<1>6. /\ proc'[q].pc = to /\ proc'[q].p = proc[q].p /\ proc'[q].todo = S /\ proc'[q].ret = next
      /\ proc'[q].info = proc[q].info /\ proc'[q].cont = proc[q].cont
      /\ \A o \in Procs \ {q} : proc'[o] = proc[o]
  BY <1>1, <1>3 DEF Locals, Local
<1>7. NoLocks(q)'
  BY <1>4, <1>6 DEF NoLocks
<1>q. QED
  BY <1>1, <1>4, <1>5, <1>6, <1>7, InRefresh

LEMMA UntagStep ==
    ASSUME TypeInv, NEW q \in Procs, Untag(q), UNCHANGED stateVars
    PROVE  StepOK(q)
<1>1. /\ proc \in Locals /\ proc[q].p \in Packages /\ proc[q].info \in Versions
      /\ proc[q].cont \in {"done", "untag", "untag_registered"}
      /\ real'[proc[q].p][proc[q].info] # NULL
  BY RefreshLocals DEF Untag, RefreshPCs, kojiVars
<1>2. Unlocked(q)'
  BY StaysUnlocked DEF Untag, dbVars, LockFreePCs
<1>3. ASSUME Goto(q, "retag")
      PROVE  ProcStep(q)
  <2>1. GotoFrame(q, "retag")
    BY <1>3, GotoStep DEF PCs
  <2>2. proc'[q].pc \in RefreshPCs /\ proc'[q].pc \notin {"untag_rows", "retag_rows"} /\ NoLocks(q)'
    BY <2>1 DEF GotoFrame, RefreshPCs, NoLocks, LockFreePCs
  <2>q. QED
    BY <1>1, <2>1, <2>2, InRefresh DEF GotoFrame
<1>4. ASSUME proc' = [proc EXCEPT ![q].pc = "register", ![q].cont = "untag_registered"]
      PROVE  ProcStep(q)
  <2>1. proc' \in Locals
    BY <1>1, <1>4, SetPc, SetCont DEF PCs
  <2>2. /\ proc'[q].pc = "register" /\ proc'[q].p = proc[q].p
        /\ proc'[q].info = proc[q].info /\ proc'[q].cont = "untag_registered"
        /\ \A o \in Procs \ {q} : proc'[o] = proc[o]
    BY <1>1, <1>4 DEF Locals, Local
  <2>3. proc'[q].pc \in RefreshPCs /\ NoLocks(q)'
    BY <1>2, <2>2 DEF RefreshPCs, NoLocks, Unlocked
  <2>q. QED
    BY <1>1, <2>1, <2>2, <2>3, InRefresh
<1>5. \A valid : BuildsAfter(View(q), proc[q].p, valid) \in SUBSET BuildIds
  BY DEF BuildsAfter, BuildsOf
<1>6. ProcStep(q)
  BY <1>3, <1>4, <1>5, BeginUpdateStep DEF Untag, kojiVars
<1>q. QED
  BY <1>6, KojiQuiet, DbQuiet, CountQuiet DEF Untag, StepOK, KojiStepOK

LEMMA UntagRegisteredStep ==
    ASSUME TypeInv, NEW q \in Procs, UntagRegistered(q), UNCHANGED stateVars
    PROVE  StepOK(q)
<1>1. \A valid : BuildsAfter(View(q), proc[q].p, valid) \in SUBSET BuildIds
  BY DEF BuildsAfter, BuildsOf
<1>2. ProcStep(q)
  BY <1>1, BeginUpdateStep DEF UntagRegistered, kojiVars
<1>q. QED
  BY <1>2, KojiQuiet, DbQuiet, CountQuiet DEF UntagRegistered, StepOK, KojiStepOK

LEMMA RetagStep ==
    ASSUME TypeInv, NEW q \in Procs, Retag(q), UNCHANGED stateVars
    PROVE  StepOK(q)
<1> DEFINE S == {b \in BuildsOf(View(q), proc[q].p) :
                    View(q)[b].ver = proc[q].info /\ View(q)[b].untagged}
<1>1. S \in SUBSET BuildIds
  BY DEF BuildsOf
<1>2. BeginUpdate(q, S, "retag_rows", "refreshed")
  BY DEF Retag
<1> HIDE DEF S
<1>3. ProcStep(q)
  BY <1>1, <1>2, BeginUpdateStep DEF Retag, kojiVars
<1>q. QED
  BY <1>3, KojiQuiet, DbQuiet, CountQuiet DEF Retag, StepOK, KojiStepOK

LEMMA UpdateRowStep ==
    ASSUME TypeInv, NEW q \in Procs, UpdateRow(q), UNCHANGED stateVars
    PROVE  StepOK(q)
<1> DEFINE b == NextRow(q)
           val == proc[q].pc = "untag_rows"
           row == View(q)[b]
           hit == row # NULL /\ (val \/ row.untagged)
           new == [row EXCEPT !.untagged = val]
           f == [r \in (IF hit THEN {b} ELSE {}) |-> new]
           fires == IF hit /\ row.untagged # val THEN proc[q].fires + 1 ELSE proc[q].fires
           rest == proc[q].todo \ {b}
           pc == IF rest # {} THEN proc[q].pc
                 ELSE IF fires > 0 THEN "trigger" ELSE proc[q].ret
<1>1. /\ proc \in Locals /\ proc[q] \in Local /\ proc[q].p \in Packages
      /\ proc[q].info \in Versions /\ proc[q].cont \in {"done", "untag", "untag_registered"}
      /\ real'[proc[q].p][proc[q].info] # NULL
  BY RefreshLocals DEF UpdateRow, RefreshPCs, kojiVars
<1>2. /\ proc[q].todo \in SUBSET BuildIds /\ proc[q].todo # {}
      /\ proc[q].ret \in {"retag", "refreshed"}
      /\ proc[q].pc \in {"untag_rows", "retag_rows"}
  BY DEF TypeInv, ProcInv, LocalOK, UpdateRow
<1>3. b \in proc[q].todo /\ b \in BuildIds
  BY <1>2, LeastIn DEF NextRow
<1>4. b \in Rows /\ b \notin Packages
  BY <1>3, RowsAssumption DEF Rows, BuildIds
<1>5. /\ Write(q, f, {}) /\ UNCHANGED <<koji, share, nextId>>
      /\ proc' = [proc EXCEPT ![q].todo = rest, ![q].fires = fires, ![q].pc = pc]
  BY DEF UpdateRow, kojiVars
<1>6. xlock[b] \in {q, NULL}
  BY <1>4, NotBlocked DEF UpdateRow
<1>7. hit => new \in BuildRow /\ RowKnown(new) /\ b < nextId
  <2>1. row # NULL => row \in BuildRow /\ RowKnown(row) /\ b < nextId
    BY <1>3, ViewType, ViewFresh DEF TypeTable
  <2>2. val \in BOOLEAN
    OBVIOUS
  <2>3. \A x \in BuildRow, c \in BOOLEAN :
           [x EXCEPT !.untagged = c] \in BuildRow /\ [x EXCEPT !.untagged = c].task = x.task
    BY DEF BuildRow
  <2>q. QED
    BY <2>1, <2>2, <2>3 DEF RowKnown
<1>8. /\ fires \in Nat /\ rest \in SUBSET Rows /\ rest \subseteq BuildIds
      /\ \/ pc \in {"untag_rows", "retag_rows"} /\ rest # {}
         \/ pc = "trigger" /\ fires # 0
         \/ pc \in {"retag", "refreshed"}
  BY <1>1, <1>2 DEF Local, Rows
<1> HIDE DEF b, fires, rest, pc, new, hit
<1>9. DbStep(q)
  <2>1. \A r \in DOMAIN f : Writable(q, r, f[r])
    BY <1>4, <1>5, <1>6, <1>7 DEF Writable
  <2>2. DOMAIN f \subseteq Rows /\ {} \in SUBSET Rows
    BY <1>4
  <2> HIDE DEF f
  <2>q. QED
    BY <1>5, <2>1, <2>2, WriteOnly
<1>10. ProcStep(q)
  <2>1. pc \in PCs
    BY <1>8 DEF PCs
  <2>2. proc' \in Locals
    BY <1>1, <1>5, <1>8, <2>1, SetTodo, SetFires, SetPc
  <2>3. /\ proc'[q].pc = pc /\ proc'[q].fires = fires /\ proc'[q].todo = rest
        /\ proc'[q].ret = proc[q].ret /\ proc'[q].p = proc[q].p
        /\ proc'[q].info = proc[q].info /\ proc'[q].cont = proc[q].cont
        /\ \A o \in Procs \ {q} : proc'[o] = proc[o]
    BY <1>1, <1>5 DEF Locals, Local
  <2>4. NoLocks(q)'
    BY <1>8, <2>3 DEF NoLocks, LockFreePCs
  <2>5. \/ proc'[q].pc \in RefreshPCs
        \/ /\ proc'[q].pc = "trigger" /\ proc'[q].fires # 0
           /\ proc'[q].ret \in {"registered", "retag", "refreshed"}
    BY <1>2, <1>8, <2>3 DEF RefreshPCs
  <2>6. proc'[q].pc \in {"untag_rows", "retag_rows"} =>
           /\ proc'[q].todo \subseteq BuildIds /\ proc'[q].todo # {}
           /\ proc'[q].ret \in {"retag", "refreshed"}
    BY <1>2, <1>8, <2>3
  <2>q. QED
    BY <1>1, <2>2, <2>3, <2>4, <2>5, <2>6, InRefresh
<1>q. QED
  BY <1>5, <1>9, <1>10, KojiQuiet, CountQuiet DEF UpdateRow, StepOK

LEMMA RefreshCommitStep ==
    ASSUME TypeInv, NEW q \in Procs, RefreshCommit(q), UNCHANGED stateVars
    PROVE  StepOK(q)
<1>1. DbStep(q) /\ Unlocked(q)'
  BY CommitStep DEF RefreshCommit, kojiVars
<1>q. QED
  BY <1>1, EndHandlerStep, KojiQuiet, CountQuiet DEF RefreshCommit, StepOK

LEMMA RealStepTypes ==
    ASSUME TypeInv, NEW q \in Procs, RealStep(q), UNCHANGED stateVars
    PROVE  StepOK(q)
BY RegisterNoRepoStep, RegisterLockStep, RegisterCommitStep, UntagStep, UntagRegisteredStep,
   RetagStep, UpdateRowStep, RefreshCommitStep
   DEF RealStep, RegisterRealBuilds, RefreshLatestBuilds

-----------------------------------------------------------------------------
(* Scheduler *)

(* Inside Scheduler.main, and in the trigger of its insert *)
LEMMA InSchedule ==
    ASSUME TypeInv, NEW q \in Procs, proc' \in Locals,
           \A o \in Procs \ {q} : proc'[o] = proc[o],
           \/ proc'[q].pc \in SkipPCs \cup {"insert", "reset", "submitted"}
           \/ proc'[q].pc = "trigger" /\ proc'[q].fires # 0 /\ proc'[q].ret = "reset",
           proc'[q].pc # "pick" => proc'[q].p \in Packages,
           proc'[q].pc \in SkipPCs => proc'[q].todo \subseteq Packages,
           proc'[q].pc = "insert" =>
               /\ proc'[q].info \in Versions /\ proc'[q].task \in Stamps
               /\ koji'[proc'[q].task] \in TaskStates
    PROVE  ProcStep(q)
<1>1. LocalOK(proc'[q])
  BY DEF LocalOK, At, TriggerPCs, UpdatePCs, RefreshPCs, SkipPCs, NoPackagePCs
<1>2. InfoOK(q)'
  BY DEF InfoOK, At, TriggerPCs, RefreshPCs, SkipPCs
<1>3. BuildLocked(q)' /\ NoLocks(q)'
  BY DEF BuildLocked, NoLocks, LockFreePCs, SkipPCs
<1>q. QED
  BY <1>1, <1>2, <1>3 DEF ProcStep, ProcInv

(* What it knows there *)
LEMMA ScheduleLocals ==
    ASSUME TypeInv, NEW q \in Procs,
           proc[q].pc \in SkipPCs \cup {"insert", "reset", "submitted"}
    PROVE  /\ proc \in Locals /\ proc[q] \in Local
           /\ proc[q].pc # "pick" => proc[q].p \in Packages
           /\ proc[q].pc \in SkipPCs => proc[q].todo \in SUBSET Packages
           /\ proc[q].pc = "insert" =>
                 /\ proc[q].info \in Versions /\ proc[q].task \in Stamps
                 /\ koji[proc[q].task] \in TaskStates
BY DEF TypeInv, ProcInv, Locals, LocalOK, InfoOK, NoPackagePCs, SkipPCs

LEMMA CountBuildsStep ==
    ASSUME TypeInv, NEW q \in Procs, CountBuilds(q), UNCHANGED stateVars
    PROVE  StepOK(q)
<1>1. GotoFrame(q, "priorities")
  BY GotoStep DEF CountBuilds, PCs
<1>2. Unlocked(q)'
  BY StaysUnlocked DEF CountBuilds, dbVars, LockFreePCs
<1>3. ProcStep(q)
  BY <1>1, <1>2, RestStep DEF GotoFrame
<1>q. QED
  BY <1>3, KojiQuiet, DbQuiet, CountQuiet DEF CountBuilds, StepOK, KojiStepOK

LEMMA ReadPrioritiesStep ==
    ASSUME TypeInv, NEW q \in Procs, ReadPriorities(q), UNCHANGED stateVars
    PROVE  StepOK(q)
<1>1. proc \in Locals
  BY DEF TypeInv
<1>2. PICK C \in SUBSET {p \in Packages : HasPriority(db[p])} :
         proc' = [proc EXCEPT ![q].todo = C, ![q].pc = IF C = {} THEN "idle" ELSE "pick"]
  BY DEF ReadPriorities
<1> DEFINE pc == IF C = {} THEN "idle" ELSE "pick"
<1>3. C \in SUBSET Rows /\ C \subseteq Packages /\ pc \in PCs /\ pc \in {"idle", "pick"}
  BY DEF Rows, PCs
<1>4. proc' = [proc EXCEPT ![q].todo = C, ![q].pc = pc]
  BY <1>2
<1> HIDE DEF pc
<1>5. proc' \in Locals
  BY <1>1, <1>3, <1>4, SetTodo, SetPc
<1>6. /\ proc'[q].pc = pc /\ proc'[q].todo = C
      /\ \A o \in Procs \ {q} : proc'[o] = proc[o]
  BY <1>1, <1>4 DEF Locals, Local
<1>7. Unlocked(q)'
  BY StaysUnlocked DEF ReadPriorities, dbVars, LockFreePCs
<1>8. ProcStep(q)
  <2>1. CASE pc = "idle"
    BY <1>5, <1>6, <1>7, <2>1, RestStep
  <2>2. CASE pc = "pick"
    BY <1>3, <1>5, <1>6, <2>2, InSchedule DEF SkipPCs
  <2>q. QED
    BY <1>3, <2>1, <2>2
<1>q. QED
  BY <1>8, KojiQuiet, DbQuiet, CountQuiet DEF ReadPriorities, StepOK, KojiStepOK

LEMMA StopStep ==
    ASSUME TypeInv, NEW q \in Procs, Stop(q), UNCHANGED stateVars
    PROVE  StepOK(q)
<1>1. DbStep(q) /\ Unlocked(q)'
  BY RollbackStep DEF Stop, kojiVars
<1>q. QED
  BY <1>1, EndServiceStep, KojiQuiet, CountQuiet DEF Stop, StepOK

LEMMA NoAllowedArchStep ==
    ASSUME TypeInv, NEW q \in Procs, NEW p \in Packages, NoAllowedArch(q, p), UNCHANGED stateVars
    PROVE  StepOK(q)
<1>1. proc \in Locals /\ proc[q].todo \in SUBSET Packages
  BY ScheduleLocals DEF NoAllowedArch, SkipPCs
<1>2. proc[q].todo \ {p} \in SUBSET Rows /\ proc[q].todo \ {p} \subseteq Packages /\ "flush" \in PCs
  BY <1>1 DEF Rows, PCs
<1>3. proc' = [proc EXCEPT ![q].p = p, ![q].todo = proc[q].todo \ {p}, ![q].pc = "flush"]
  BY <1>1 DEF NoAllowedArch
<1>4. proc' \in Locals
  BY <1>1, <1>2, <1>3, SetP, SetTodo, SetPc
<1>5. /\ proc'[q].pc = "flush" /\ proc'[q].p = p /\ proc'[q].todo = proc[q].todo \ {p}
      /\ \A o \in Procs \ {q} : proc'[o] = proc[o]
  BY <1>1, <1>3 DEF Locals, Local
<1>6. ProcStep(q)
  BY <1>2, <1>4, <1>5, InSchedule DEF SkipPCs
<1>q. QED
  BY <1>6, KojiQuiet, DbQuiet, CountQuiet DEF NoAllowedArch, StepOK, KojiStepOK

(* One package row, written by a scheduler step that moves on *)
LEMMA WritePackage ==
    ASSUME TypeInv, NEW q \in Procs, NEW p \in Packages, NEW f, DOMAIN f \subseteq {p},
           \A r \in DOMAIN f : f[r] \in PackageRow,
           DOMAIN f # {} => WriteBlockers(q, p) = {},
           Write(q, f, {}), UNCHANGED <<koji, share, nextId>>
    PROVE  DbStep(q)
<1>1. p \in Rows /\ p \notin BuildIds /\ {} \in SUBSET Rows
  BY RowsAssumption DEF Rows, BuildIds
<1>2. DOMAIN f # {} => xlock[p] \in {q, NULL}
  BY <1>1, NotBlocked
<1>3. \A r \in DOMAIN f : Writable(q, r, f[r])
  BY <1>1, <1>2 DEF Writable
<1>q. QED
  BY <1>1, <1>3, WriteOnly

LEMMA FlushSkippedStep ==
    ASSUME TypeInv, NEW q \in Procs, FlushSkipped(q), UNCHANGED stateVars
    PROVE  StepOK(q)
<1> DEFINE p == proc[q].p
           f == [r \in {p} |-> [View(q)[r] EXCEPT !.manual_priority = @ - 1000]]
<1>1. p \in Packages /\ proc[q].todo \in SUBSET Packages
  BY ScheduleLocals DEF FlushSkipped, SkipPCs
<1>2. f[p] \in PackageRow
  <2>1. View(q)[p] \in PackageRow /\ View(q)[p].manual_priority - 1000 \in Int
    BY <1>1, ViewType DEF TypeTable, PackageRow
  <2>q. QED
    BY <2>1, SetManualPriority
<1>3. Write(q, f, {}) /\ UNCHANGED <<koji, share, nextId>> /\ WriteBlockers(q, p) = {}
  BY DEF FlushSkipped, kojiVars
<1>4. DOMAIN f = {p}
  OBVIOUS
<1> HIDE DEF f
<1>5. DbStep(q)
  BY <1>1, <1>2, <1>3, <1>4, WritePackage
<1>6. GotoFrame(q, "pick")
  BY GotoStep DEF FlushSkipped, PCs
<1>7. ProcStep(q)
  BY <1>1, <1>6, InSchedule DEF GotoFrame, SkipPCs
<1>q. QED
  BY <1>5, <1>7, KojiQuiet, CountQuiet DEF FlushSkipped, StepOK

LEMMA NoSrpmHeadersStep ==
    ASSUME TypeInv, NEW q \in Procs, NEW p \in Packages, NoSrpmHeaders(q, p), UNCHANGED stateVars
    PROVE  StepOK(q)
<1>1. proc \in Locals /\ proc[q].todo \in SUBSET Packages
  BY ScheduleLocals DEF NoSrpmHeaders, SkipPCs
<1>2. proc' \in Locals
  BY <1>1, SetP, SetPc DEF NoSrpmHeaders, PCs
<1>3. /\ proc'[q].pc = "skip" /\ proc'[q].p = p /\ proc'[q].todo = proc[q].todo
      /\ \A o \in Procs \ {q} : proc'[o] = proc[o]
  BY <1>1 DEF NoSrpmHeaders, Locals, Local
<1>4. ProcStep(q)
  BY <1>1, <1>2, <1>3, InSchedule DEF SkipPCs
<1>q. QED
  BY <1>4, KojiQuiet, DbQuiet, CountQuiet DEF NoSrpmHeaders, StepOK, KojiStepOK

LEMMA SubmitTaskStep ==
    ASSUME TypeInv, NEW q \in Procs, NEW p \in Packages, SubmitTask(q, p), UNCHANGED stateVars
    PROVE  StepOK(q)
<1>1. proc \in Locals /\ proc[q].todo \in SUBSET Packages
  BY ScheduleLocals DEF SubmitTask, SkipPCs
<1>2. CASE tagged[p] = 0
  <2>1. /\ proc' = [proc EXCEPT ![q].p = p, ![q].cont = "reset", ![q].pc = "skip"]
        /\ UNCHANGED kojiVars
    BY <1>2 DEF SubmitTask
  <2>2. proc' \in Locals
    BY <1>1, <2>1, SetP, SetCont, SetPc DEF PCs
  <2>3. /\ proc'[q].pc = "skip" /\ proc'[q].p = p /\ proc'[q].todo = proc[q].todo
        /\ \A o \in Procs \ {q} : proc'[o] = proc[o]
    BY <1>1, <2>1 DEF Locals, Local
  <2>4. ProcStep(q)
    BY <1>1, <2>2, <2>3, InSchedule DEF SkipPCs
  <2>q. QED
    BY <2>1, <2>4, KojiQuiet, DbQuiet, CountQuiet DEF SubmitTask, StepOK, KojiStepOK
<1>3. CASE tagged[p] # 0
  <2>1. /\ koji' = [koji EXCEPT ![clock] = "FREE"] /\ clock' = clock + 1
        /\ proc' = [proc EXCEPT ![q].p = p, ![q].task = clock,
                                ![q].info = tagged[p], ![q].pc = "insert"]
        /\ clock + 1 \in Stamps /\ UNCHANGED <<real, tagged, moves>>
    BY <1>3 DEF SubmitTask, NewScratchTask
  <2>2. clock \in Stamps /\ clock + 1 \in 1..(MaxStamp + 1)
    BY <2>1, BoundsAssumption DEF TypeInv, KojiType, Stamps
  <2>3. tagged[p] \in Versions
    BY <1>3, TaggedType
  <2>4. KojiStepOK
    <3>1. /\ koji' \in [Stamps -> TaskStates \cup {NULL}]
          /\ koji'[clock] \in TaskStates
          /\ \A t \in Stamps : koji[t] \in TaskStates => koji'[t] \in TaskStates
      BY <2>1, <2>2 DEF TypeInv, KojiType, TaskStates, Unfinished
    <3>2. KojiType' /\ TaggedOK' /\ KojiKeeps
      BY <2>1, <2>2, <3>1 DEF TypeInv, KojiType, TaggedOK, KojiKeeps
    <3>3. RealKnown'
      BY <2>1, <3>1 DEF TypeInv, KojiType, RealKnown
    <3>q. QED
      BY <3>2, <3>3 DEF KojiStepOK
  <2>5. koji'[clock] \in TaskStates
    BY <2>1, <2>2 DEF TypeInv, KojiType, TaskStates, Unfinished
  <2>6. proc' \in Locals
    BY <1>1, <2>1, <2>2, <2>3, SetP, SetTask, SetInfo, SetPc DEF PCs
  <2>7. /\ proc'[q].pc = "insert" /\ proc'[q].p = p /\ proc'[q].task = clock
        /\ proc'[q].info = tagged[p]
        /\ \A o \in Procs \ {q} : proc'[o] = proc[o]
    BY <1>1, <2>1 DEF Locals, Local
  <2>8. ProcStep(q)
    BY <2>2, <2>3, <2>5, <2>6, <2>7, InSchedule DEF SkipPCs
  <2>q. QED
    BY <2>4, <2>8, DbQuiet, CountQuiet DEF SubmitTask, StepOK, KojiStepOK
<1>q. QED
  BY <1>2, <1>3

LEMMA InsertBuildStep ==
    ASSUME TypeInv, NEW q \in Procs, InsertBuild(q), UNCHANGED stateVars
    PROVE  StepOK(q)
<1> DEFINE row == [package |-> proc[q].p, state |-> RUNNING, task |-> proc[q].task,
                   started |-> clock, ver |-> proc[q].info, real |-> FALSE,
                   untagged |-> FALSE, last_complete |-> FALSE, cancel_requested |-> FALSE]
           f == [r \in {nextId} |-> row]
<1>1. /\ proc \in Locals /\ proc[q].p \in Packages /\ proc[q].info \in Versions
      /\ proc[q].task \in Stamps /\ koji[proc[q].task] \in TaskStates
  BY ScheduleLocals DEF InsertBuild
<1>2. /\ Write(q, f, {}) /\ share' = share \cup {<<q, proc[q].p>>}
      /\ clock' = clock + 1 /\ nextId' = nextId + 1
      /\ proc' = [proc EXCEPT ![q].fires = 1, ![q].ret = "reset", ![q].pc = "trigger"]
      /\ nextId \in BuildIds /\ clock \in Stamps
      /\ UNCHANGED <<koji, real, tagged, moves>>
  BY DEF InsertBuild
<1>3. row \in BuildRow /\ RowKnown(row)
  BY <1>1, <1>2 DEF BuildRow, RowKnown
<1>4. /\ nextId \in Int /\ nextId \in Rows /\ nextId \notin Packages /\ xlock[nextId] = NULL
      /\ nextId' \in 1..(MaxBuildId + 1) /\ nextId < nextId' /\ proc[q].p \in Rows
  BY <1>1, <1>2, RowsAssumption, BoundsAssumption DEF TypeInv, Fresh, Rows, BuildIds
<1> HIDE DEF row
<1>5. DbStep(q)
  <2>1. \A r \in DOMAIN f : Writable(q, r, f[r])
    BY <1>3, <1>4 DEF Writable
  <2>2. DOMAIN f \subseteq Rows /\ {} \in SUBSET Rows
    BY <1>4
  <2>3. share' \subseteq Procs \X Rows
    BY <1>2, <1>4 DEF TypeInv, DbType
  <2>4. nextId' \in Int /\ nextId =< nextId'
    BY <1>4
  <2> HIDE DEF f
  <2>q. QED
    BY <1>2, <2>1, <2>2, <2>3, <2>4, WriteStep
<1>6. KojiStepOK
  <2>1. clock' \in 1..(MaxStamp + 1)
    BY <1>2, BoundsAssumption DEF Stamps
  <2>q. QED
    BY <1>2, <2>1 DEF TypeInv, KojiStepOK, KojiType, RealKnown, TaggedOK, KojiKeeps
<1>7. CountType'
  BY <1>4 DEF TypeInv, CountType, stateVars
<1>8. ProcStep(q)
  <2>1. proc' \in Locals
    BY <1>1, <1>2, SetFires, SetRet, SetPc DEF PCs
  <2>2. /\ proc'[q].pc = "trigger" /\ proc'[q].fires = 1 /\ proc'[q].ret = "reset"
        /\ proc'[q].p = proc[q].p
        /\ \A o \in Procs \ {q} : proc'[o] = proc[o]
    BY <1>1, <1>2 DEF Locals, Local
  <2>q. QED
    BY <1>1, <2>1, <2>2, InSchedule DEF SkipPCs
<1>q. QED
  BY <1>5, <1>6, <1>7, <1>8 DEF StepOK

LEMMA ResetPriorityStep ==
    ASSUME TypeInv, NEW q \in Procs, ResetPriority(q), UNCHANGED stateVars
    PROVE  StepOK(q)
<1> DEFINE p == proc[q].p
           row == View(q)[p]
           new == [row EXCEPT !.manual_priority = 0]
           f == [r \in (IF row.manual_priority = 0 THEN {} ELSE {p}) |-> new]
<1>1. p \in Packages
  BY ScheduleLocals DEF ResetPriority, SkipPCs
<1>2. new \in PackageRow
  <2>1. row \in PackageRow
    BY <1>1, ViewType DEF TypeTable
  <2>q. QED
    BY <2>1, SetManualPriority
<1>3. /\ Write(q, f, {}) /\ UNCHANGED <<koji, share, nextId>>
      /\ row.manual_priority # 0 => WriteBlockers(q, p) = {}
  BY DEF ResetPriority, ResetBlockers, kojiVars
<1> HIDE DEF new, row
<1>4. DOMAIN f \subseteq {p} /\ (\A r \in DOMAIN f : f[r] \in PackageRow)
  BY <1>2
<1>5. DOMAIN f # {} => WriteBlockers(q, p) = {}
  BY <1>3
<1> HIDE DEF f
<1>6. DbStep(q)
  BY <1>1, <1>3, <1>4, <1>5, WritePackage
<1>7. GotoFrame(q, "submitted")
  BY GotoStep DEF ResetPriority, PCs
<1>8. ProcStep(q)
  BY <1>1, <1>7, InSchedule DEF GotoFrame, SkipPCs
<1>q. QED
  BY <1>6, <1>8, KojiQuiet, CountQuiet DEF ResetPriority, StepOK

LEMMA SubmitCommitStep ==
    ASSUME TypeInv, NEW q \in Procs, SubmitCommit(q), UNCHANGED stateVars
    PROVE  StepOK(q)
<1>1. DbStep(q) /\ Unlocked(q)'
  BY CommitStep DEF SubmitCommit, kojiVars
<1>q. QED
  BY <1>1, EndServiceStep, KojiQuiet, CountQuiet DEF SubmitCommit, StepOK

LEMMA SkipPackageStep ==
    ASSUME TypeInv, NEW q \in Procs, SkipPackage(q), UNCHANGED stateVars
    PROVE  StepOK(q)
<1> DEFINE p == proc[q].p
           row == View(q)[p]
           n == IF proc[q].cont = "reset" THEN 0 ELSE row.manual_priority
           f == [r \in {p} |->
                    [View(q)[r] EXCEPT !.resolved = NULL, !.last_build = NULL,
                                       !.last_complete_build = NULL,
                                       !.last_complete_build_state = NULL,
                                       !.manual_priority = IF proc[q].cont = "reset" THEN 0 ELSE @]]
<1>1. p \in Packages /\ proc[q].todo \in SUBSET Packages
  BY ScheduleLocals DEF SkipPackage, SkipPCs
<1>2. f[p] \in PackageRow
  <2>1. row \in PackageRow /\ n \in Int
    BY <1>1, ViewType DEF TypeTable, PackageRow
  <2>2. f[p] = [row EXCEPT !.resolved = NULL, !.last_build = NULL, !.last_complete_build = NULL,
                           !.last_complete_build_state = NULL, !.manual_priority = n]
    BY <2>1 DEF PackageRow
  <2>3. \A x \in PackageRow : [x EXCEPT !.resolved = NULL] \in PackageRow
    BY DEF PackageRow
  <2>4. \A x \in PackageRow : [x EXCEPT !.last_build = NULL] \in PackageRow
    BY DEF PackageRow
  <2>5. \A x \in PackageRow : [x EXCEPT !.last_complete_build = NULL] \in PackageRow
    BY DEF PackageRow
  <2>6. \A x \in PackageRow : [x EXCEPT !.last_complete_build_state = NULL] \in PackageRow
    BY DEF PackageRow
  <2> DEFINE x1 == [row EXCEPT !.resolved = NULL]
             x2 == [x1 EXCEPT !.last_build = NULL]
             x3 == [x2 EXCEPT !.last_complete_build = NULL]
             x4 == [x3 EXCEPT !.last_complete_build_state = NULL]
  <2> HIDE DEF n, row, f
  <2>7. x1 \in PackageRow
    BY <2>1, <2>3
  <2>8. x2 \in PackageRow
    BY <2>7, <2>4
  <2>9. x3 \in PackageRow
    BY <2>8, <2>5
  <2>10. x4 \in PackageRow
    BY <2>9, <2>6
  <2>11. f[p] = [x4 EXCEPT !.manual_priority = n]
    BY ONLY <2>2
  <2> HIDE DEF x4
  <2>q. QED
    BY <2>1, <2>10, <2>11, SetManualPriority
<1>3. Write(q, f, {}) /\ UNCHANGED <<koji, share, nextId>> /\ WriteBlockers(q, p) = {}
  BY DEF SkipPackage, kojiVars
<1>4. DOMAIN f = {p}
  OBVIOUS
<1> HIDE DEF f
<1>5. DbStep(q)
  BY <1>1, <1>2, <1>3, <1>4, WritePackage
<1>6. GotoFrame(q, "skip_flags")
  BY GotoStep DEF SkipPackage, PCs
<1>7. ProcStep(q)
  BY <1>1, <1>6, InSchedule DEF GotoFrame, SkipPCs
<1>q. QED
  BY <1>5, <1>7, KojiQuiet, CountQuiet DEF SkipPackage, StepOK

LEMMA SkipFlagsStep ==
    ASSUME TypeInv, NEW q \in Procs, SkipFlags(q), UNCHANGED stateVars
    PROVE  StepOK(q)
<1> DEFINE f == [r \in SkipFlagged(q) |-> [View(q)[r] EXCEPT !.last_complete = FALSE]]
<1>1. proc[q].p \in Packages /\ proc[q].todo \in SUBSET Packages
  BY ScheduleLocals DEF SkipFlags, SkipPCs
<1>2. \A r \in SkipFlagged(q) : r \in BuildIds /\ View(q)[r] # NULL
  BY DEF SkipFlagged, BuildsOf
<1>3. Write(q, f, {}) /\ UNCHANGED <<koji, share, nextId>>
  BY DEF SkipFlags, kojiVars
<1>4. DbStep(q)
  <2>1. \A r \in SkipFlagged(q) : xlock[r] \in {q, NULL}
    <3>1. ASSUME NEW r \in SkipFlagged(q), NEW o \in WriteBlockers(q, r)
          PROVE  o \in SkipFlagsBlockers(q)
      BY <3>1 DEF SkipFlagsBlockers
    <3>q. QED
      BY <3>1 DEF SkipFlags, WriteBlockers
  <2>2. \A r \in SkipFlagged(q) : View(q)[r] \in BuildRow /\ RowKnown(View(q)[r]) /\ r < nextId
    BY <1>2, ViewType, ViewFresh DEF TypeTable
  <2>3. \A row \in BuildRow : /\ [row EXCEPT !.last_complete = FALSE] \in BuildRow
                              /\ [row EXCEPT !.last_complete = FALSE].task = row.task
    BY DEF BuildRow
  <2>4. \A r \in SkipFlagged(q) : f[r] \in BuildRow /\ RowKnown(f[r])
    BY <2>2, <2>3, NullAssumption DEF RowKnown
  <2>5. \A r \in SkipFlagged(q) : r \in Rows /\ r \notin Packages
    BY <1>2, RowsAssumption DEF Rows, BuildIds
  <2>6. \A r \in DOMAIN f : Writable(q, r, f[r])
    BY <1>3, <2>1, <2>2, <2>4, <2>5 DEF Writable
  <2>7. DOMAIN f \subseteq Rows /\ {} \in SUBSET Rows
    BY <2>5
  <2> HIDE DEF f
  <2>q. QED
    BY <1>3, <2>6, <2>7, WriteOnly
<1>5. GotoFrame(q, "skipped")
  BY GotoStep DEF SkipFlags, PCs
<1>6. ProcStep(q)
  BY <1>1, <1>5, InSchedule DEF GotoFrame, SkipPCs
<1>q. QED
  BY <1>4, <1>6, KojiQuiet, CountQuiet DEF SkipFlags, StepOK

LEMMA SkipCommitStep ==
    ASSUME TypeInv, NEW q \in Procs, SkipCommit(q), UNCHANGED stateVars
    PROVE  StepOK(q)
<1> DEFINE rest == proc[q].todo \ {proc[q].p}
           pc == IF rest = {} THEN "idle" ELSE "pick"
           l == [IdleProc EXCEPT !.todo = rest, !.pc = pc]
<1>1. proc \in Locals /\ proc[q].todo \in SUBSET Packages
  BY ScheduleLocals DEF SkipCommit, SkipPCs
<1>2. DbStep(q) /\ Unlocked(q)'
  BY CommitStep DEF SkipCommit, kojiVars
<1>3. rest \in SUBSET Rows /\ rest \subseteq Packages /\ pc \in PCs /\ pc \in {"idle", "pick"}
  BY <1>1 DEF Rows, PCs
<1>4. proc' = [proc EXCEPT ![q] = l]
  BY DEF SkipCommit
<1> HIDE DEF rest, pc
<1>5. l \in Local /\ l.pc = pc /\ l.todo = rest
  <2>1. \A x \in Local, S \in SUBSET Rows : [x EXCEPT !.todo = S] \in Local
    BY DEF Local
  <2>2. \A x \in Local, y \in PCs : [x EXCEPT !.pc = y] \in Local
    BY DEF Local
  <2>3. l \in Local
    BY <1>3, <2>1, <2>2, IdleType
  <2>4. l.pc = pc /\ l.todo = rest
    BY IdleType DEF Local
  <2>q. QED
    BY <2>3, <2>4
<1>6. /\ proc' \in Locals /\ proc'[q].pc = pc /\ proc'[q].todo = rest
      /\ \A o \in Procs \ {q} : proc'[o] = proc[o]
  BY <1>1, <1>4, <1>5 DEF Locals
<1>7. ProcStep(q)
  <2>1. CASE pc = "idle"
    BY <1>2, <1>6, <2>1, RestStep
  <2>2. CASE pc = "pick"
    BY <1>3, <1>6, <2>2, InSchedule DEF SkipPCs
  <2>q. QED
    BY <1>3, <2>1, <2>2
<1>q. QED
  BY <1>2, <1>7, KojiQuiet, CountQuiet DEF SkipCommit, StepOK

LEMMA ScheduleTypes ==
    ASSUME TypeInv, NEW q \in Procs, Schedule(q), UNCHANGED stateVars
    PROVE  StepOK(q)
BY CountBuildsStep, ReadPrioritiesStep, StopStep, NoAllowedArchStep, NoSrpmHeadersStep,
   SubmitTaskStep, FlushSkippedStep, InsertBuildStep, ResetPriorityStep, SubmitCommitStep,
   SkipPackageStep, SkipFlagsStep, SkipCommitStep
   DEF Schedule

-----------------------------------------------------------------------------
(* Frontend *)
LEMMA RequestCancelStep ==
    ASSUME TypeInv, NEW q \in Procs, NEW b \in BuildIds, RequestCancel(q, b),
           UNCHANGED <<kojiVars, stateVars>>
    PROVE  StepOK(q)
<1>1. proc \in Locals
  BY DEF TypeInv
<1>2. proc' \in Locals
  BY <1>1, SetB, SetPc DEF RequestCancel, PCs
<1>3. /\ proc'[q].pc = "cancel" /\ proc'[q].b = b
      /\ \A o \in Procs \ {q} : proc'[o] = proc[o]
  BY <1>1 DEF RequestCancel, Locals, Local
<1>4. Unlocked(q)'
  BY StaysUnlocked DEF RequestCancel, dbVars, LockFreePCs
<1>5. ProcStep(q)
  BY <1>2, <1>3, <1>4, HandBuild
<1>q. QED
  BY <1>5, KojiQuiet, DbQuiet, CountQuiet DEF RequestCancel, StepOK, KojiStepOK

(* A row that nobody has locked, replaced in one step *)
LEMMA ReplaceRow ==
    ASSUME TypeInv, NEW q, NEW r \in Rows, NEW row, xlock[r] = NULL, Writable(NULL, r, row),
           db' = [db EXCEPT ![r] = row], work' = [work EXCEPT ![r] = row],
           UNCHANGED <<xlock, keyed, share, nextId, koji>>
    PROVE  DbStep(q)
<1>1. DOMAIN db = Rows /\ DOMAIN work = Rows
  BY DEF TypeInv, DbType, TypeTable
<1>2. \A s \in Rows : /\ db'[s] = IF s = r THEN row ELSE db[s]
                      /\ work'[s] = IF s = r THEN row ELSE work[s]
  BY <1>1
<1>3. DbType'
  <2>1. TypeTable(db)' /\ TypeTable(work)'
    BY <1>1, <1>2 DEF TypeInv, DbType, TypeTable, Writable, Rows
  <2>q. QED
    BY <2>1 DEF TypeInv, DbType
<1>4. RowsKnown'
  BY <1>2 DEF TypeInv, RowsKnown, RowKnown, Writable, Rows
<1>5. Settled'
  BY <1>2 DEF TypeInv, Settled
<1>6. Fresh'
  <2>1. \A b \in BuildIds : b >= nextId => b # r
    BY DEF Writable, TypeInv, CountType, BuildIds
  <2>q. QED
    BY <1>2, <2>1 DEF TypeInv, Fresh, Rows
<1>7. Respects(q)
  BY <1>2, ProcsAssumption DEF Respects
<1>q. QED
  BY <1>3, <1>4, <1>5, <1>6, <1>7 DEF DbStep

LEMMA MarkCanceledStep ==
    ASSUME TypeInv, NEW q \in Procs, MarkCanceled(q), UNCHANGED <<kojiVars, stateVars>>
    PROVE  StepOK(q)
<1> DEFINE b == proc[q].b
           row == [db[b] EXCEPT !.cancel_requested = TRUE]
<1>1. b \in BuildIds /\ b \in Rows /\ b \notin Packages
  BY RowsAssumption DEF TypeInv, ProcInv, LocalOK, At, TriggerPCs, MarkCanceled, Rows, BuildIds
<1>2. Unlocked(q)' /\ Unlocked(q)
  BY StaysUnlocked DEF MarkCanceled, LockFreePCs, TypeInv, ProcInv, NoLocks, Unlocked
<1>3. DbStep(q)
  <2>1. CASE db[b] = NULL
    BY <2>1, DbQuiet, KojiQuiet DEF MarkCanceled, dbVars, KojiStepOK
  <2>2. CASE db[b] # NULL
    <3>1. xlock[b] = NULL /\ work[b] = db[b]
      BY <1>1, <1>2, NotBlocked DEF MarkCanceled, Unlocked, TypeInv, Settled
    <3>2. row \in BuildRow /\ row.task = db[b].task /\ b < nextId /\ koji[db[b].task] \in TaskStates
      BY ZenonT(60), <1>1, <2>2, CommittedRow DEF BuildRow
    <3>3. db' = [db EXCEPT ![b] = row] /\ work' = [work EXCEPT ![b] = row]
      BY <2>2, <3>1 DEF MarkCanceled
    <3> HIDE DEF row
    <3>4. Writable(NULL, b, row)
      BY <1>1, <3>1, <3>2 DEF Writable, RowKnown, MarkCanceled
    <3>q. QED
      BY <1>1, <3>1, <3>3, <3>4, ReplaceRow DEF MarkCanceled, kojiVars
  <2>q. QED
    BY <2>1, <2>2
<1>q. QED
  BY <1>2, <1>3, EndHandlerStep, KojiQuiet, CountQuiet DEF MarkCanceled, StepOK

LEMMA EditPriorityStep ==
    ASSUME TypeInv, NEW q \in Procs, NEW p \in Packages, NEW n \in UserPriority,
           EditPriority(q, p, n), UNCHANGED <<kojiVars, stateVars>>
    PROVE  StepOK(q)
<1> DEFINE row == [db[p] EXCEPT !.manual_priority = n]
<1>1. p \in Rows /\ p \notin BuildIds
  BY RowsAssumption DEF Rows, BuildIds
<1>2. Unlocked(q)
  BY DEF EditPriority, LockFreePCs, TypeInv, ProcInv, NoLocks, Unlocked
<1>3. xlock[p] = NULL /\ work[p] = db[p]
  BY <1>1, <1>2, NotBlocked DEF EditPriority, Unlocked, TypeInv, Settled
<1>4. row \in PackageRow
  BY UserPriorityAssumption, SetManualPriority DEF TypeInv, DbType, TypeTable
<1>5. db' = [db EXCEPT ![p] = row] /\ work' = [work EXCEPT ![p] = row]
  BY <1>3 DEF EditPriority
<1> HIDE DEF row
<1>6. DbStep(q)
  <2>1. Writable(NULL, p, row)
    BY <1>1, <1>3, <1>4 DEF Writable
  <2>q. QED
    BY <1>1, <1>3, <1>5, <2>1, ReplaceRow DEF EditPriority, kojiVars
<1>7. ProcStep(q)
  <2>1. proc' = proc /\ xlock' = xlock /\ real' = real /\ koji' = koji /\ proc[q].pc = "idle"
    BY DEF EditPriority, kojiVars
  <2>2. Unlocked(q)'
    BY <1>2, <2>1 DEF Unlocked
  <2>q. QED
    BY <2>1, <2>2, RestStep DEF TypeInv
<1>q. QED
  BY <1>6, <1>7, KojiQuiet, CountQuiet DEF EditPriority, StepOK

LEMMA ServeRequestTypes ==
    ASSUME TypeInv, NEW q \in Procs, ServeRequest(q), UNCHANGED <<kojiVars, stateVars>>
    PROVE  StepOK(q)
BY RequestCancelStep, MarkCanceledStep, EditPriorityStep DEF ServeRequest

-----------------------------------------------------------------------------
(* Koschei *)
LEMMA DieStep ==
    ASSUME TypeInv, NEW q \in Procs, Die(q)
    PROVE  StepOK(q)
<1>1. DbStep(q) /\ Unlocked(q)'
  BY RollbackStep DEF Die, kojiVars
<1>q. QED
  BY <1>1, EndServiceStep, KojiQuiet, CountQuiet DEF Die, StepOK

LEMMA ResolveStep ==
    ASSUME TypeInv, NEW p \in Packages, Resolve(p)
    PROVE  StepOK(NULL)
<1>1. PICK r \in Resolutions : /\ db' = [db EXCEPT ![p].resolved = r]
                               /\ work' = [work EXCEPT ![p].resolved = r]
  BY DEF Resolve
<1> DEFINE row == [db[p] EXCEPT !.resolved = r]
<1>2. p \in Rows /\ p \notin BuildIds
  BY RowsAssumption DEF Rows, BuildIds
<1>3. xlock[p] = NULL /\ work[p] = db[p]
  BY <1>2 DEF Resolve, TypeInv, Settled
<1>4. row \in PackageRow
  <2>1. db[p] \in PackageRow /\ r \in BOOLEAN \cup {NULL}
    BY ResolutionsAssumption DEF TypeInv, DbType, TypeTable
  <2>q. QED
    BY <2>1 DEF PackageRow
<1>5. db' = [db EXCEPT ![p] = row] /\ work' = [work EXCEPT ![p] = row]
  BY <1>1, <1>3
<1> HIDE DEF row
<1>6. Writable(NULL, p, row)
  BY <1>2, <1>3, <1>4 DEF Writable
<1>7. DbStep(NULL)
  BY <1>2, <1>3, <1>5, <1>6, ReplaceRow DEF Resolve, kojiVars
<1>8. ProcStep(NULL)
  BY ProcsAssumption DEF Resolve, TypeInv, ProcStep
<1>q. QED
  BY <1>7, <1>8, KojiQuiet, CountQuiet DEF Resolve, StepOK

(* Koji's own steps create tasks, end them and move tags, nothing else *)
LEMMA KojiStepTypes ==
    ASSUME TypeInv, KojiStep
    PROVE  KojiStepOK
<1>1. KojiType /\ RealKnown /\ TaggedOK
  BY DEF TypeInv
<1>2. ASSUME NEW t \in Stamps, NEW s \in TaskStates, koji' = [koji EXCEPT ![t] = s],
             UNCHANGED <<clock, real, tagged, moves>>
      PROVE  KojiStepOK
  <2>1. /\ koji' \in [Stamps -> TaskStates \cup {NULL}]
        /\ \A u \in Stamps : koji[u] \in TaskStates => koji'[u] \in TaskStates
    BY <1>1, <1>2 DEF KojiType
  <2>2. KojiType' /\ TaggedOK' /\ KojiKeeps
    BY <1>1, <1>2, <2>1 DEF KojiType, TaggedOK, KojiKeeps
  <2>3. RealKnown'
    BY <1>1, <1>2, <2>1 DEF KojiType, RealKnown
  <2>q. QED
    BY <2>2, <2>3 DEF KojiStepOK
<1>3. ASSUME NEW t \in Stamps, KojiOpenTask(t) \/ KojiEndTask(t)
      PROVE  KojiStepOK
  BY <1>2, <1>3 DEF KojiOpenTask, KojiEndTask, TaskStates, Unfinished
<1>4. ASSUME NEW p \in Packages, KojiRealBuild(p)
      PROVE  KojiStepOK
  <2>1. PICK v \in Versions, s \in {"CLOSED", "NOREPO"} :
           /\ real[p][v] = NULL
           /\ real' = [real EXCEPT ![p][v] = clock]
           /\ koji' = [koji EXCEPT ![clock] = s]
    BY <1>4 DEF KojiRealBuild
  <2>2. clock \in Stamps /\ clock' \in 1..(MaxStamp + 1) /\ UNCHANGED <<tagged, moves>>
    BY <1>4, BoundsAssumption DEF KojiRealBuild, Stamps
  <2>3. s \in TaskStates
    BY DEF TaskStates
  <2>4. /\ koji' \in [Stamps -> TaskStates \cup {NULL}]
        /\ koji'[clock] \in TaskStates
        /\ \A u \in Stamps : koji[u] \in TaskStates => koji'[u] \in TaskStates
    BY <1>1, <2>1, <2>2, <2>3 DEF KojiType
  <2>5. /\ real' \in [Packages -> [Versions -> Stamps \cup {NULL}]]
        /\ \A o \in Packages, w \in Versions :
              real'[o][w] = IF o = p /\ w = v THEN clock ELSE real[o][w]
    BY <1>1, <2>1, <2>2 DEF KojiType
  <2>6. clock # NULL
    BY <2>2, RowsAssumption DEF Stamps
  <2>7. KojiType' /\ KojiKeeps
    BY <1>1, <2>1, <2>2, <2>4, <2>5 DEF KojiType, KojiKeeps
  <2>8. RealKnown'
    BY <1>1, <2>4, <2>5 DEF KojiType, RealKnown
  <2>9. TaggedOK'
    <3>1. \A o \in Packages : tagged[o] # 0 => tagged[o] \in Versions
      BY <1>1, BoundsAssumption DEF KojiType, Versions
    <3>q. QED
      BY <1>1, <2>2, <2>5, <2>6, <3>1 DEF TaggedOK
  <2>q. QED
    BY <2>7, <2>8, <2>9 DEF KojiStepOK
<1>5. ASSUME NEW p \in Packages, KojiTag(p)
      PROVE  KojiStepOK
  <2>1. PICK v \in {0} \cup {w \in Versions : real[p][w] # NULL} :
           tagged' = [tagged EXCEPT ![p] = v]
    BY <1>5 DEF KojiTag
  <2>2. v \in 0..MaxVersion /\ (v # 0 => real[p][v] # NULL)
    BY <2>1, BoundsAssumption DEF Versions
  <2>3. UNCHANGED <<clock, koji, real>> /\ moves' \in Nat
    BY <1>1, <1>5 DEF KojiTag, KojiType
  <2>4. TaggedOK' /\ tagged' \in [Packages -> 0..MaxVersion]
    BY <1>1, <2>1, <2>2, <2>3 DEF TaggedOK, KojiType
  <2>q. QED
    BY <1>1, <2>3, <2>4 DEF KojiStepOK, KojiType, RealKnown, KojiKeeps
<1>q. QED
  BY <1>3, <1>4, <1>5 DEF KojiStep

-----------------------------------------------------------------------------
(* All steps *)
LEMMA StepTypes ==
    ASSUME TypeInv, NEW q \in Procs, Step(q)
    PROVE  StepOK(q)
<1>1. CASE PollStep(q)
  BY <1>1, PollInfosStep, PollRowsStep, PollNextStep, UpdateBuildStateTypes DEF PollStep
<1>2. ASSUME NEW p \in Packages, RefreshPackage(q, p) \/ WatchTag(q, p), UNCHANGED stateVars
      PROVE  StepOK(q)
  BY <1>2, RefreshPackageStep, WatchTagStep
<1>3. CASE (\E b \in BuildIds : WatchTask(q, b)) \/ UpdateBuildState(q)
  BY <1>3, WatchTaskStep, UpdateBuildStateTypes
<1>4. CASE RealStep(q) /\ UNCHANGED stateVars
  BY <1>4, RealStepTypes
<1>5. CASE Schedule(q) /\ UNCHANGED stateVars
  BY <1>5, ScheduleTypes
<1>6. CASE Trigger(q) /\ UNCHANGED <<kojiVars, stateVars>>
  BY <1>6, TriggerTypes
<1>7. CASE ServeRequest(q) /\ UNCHANGED <<kojiVars, stateVars>>
  BY <1>7, ServeRequestTypes
<1>q. QED
  BY <1>1, <1>2, <1>3, <1>4, <1>5, <1>6, <1>7 DEF Step, TriggerStep

(* Every step keeps the invariant. *)
LEMMA NextTypes ==
    ASSUME TypeInv, Next
    PROVE  TypeInv'
<1>1. ASSUME NEW q \in Procs, Step(q) \/ Crash(q) \/ DeadlockAbort(q)
      PROVE  TypeInv'
  BY <1>1, StepTypes, DieStep, StepOKInv DEF Crash, DeadlockAbort
<1>2. ASSUME NEW p \in Packages, Resolve(p)
      PROVE  TypeInv'
  BY <1>2, ResolveStep, StepOKInv
<1>3. ASSUME NEW b \in BuildIds, PassTimeout(b)
      PROVE  TypeInv'
  BY <1>3, PassTimeoutStep, StepOKInv
<1>4. ASSUME KojiStep, UNCHANGED <<dbVars, nextId, proc, stateVars>>
      PROVE  TypeInv'
  <2>1. KojiStepOK
    BY <1>4, KojiStepTypes
  <2>2. DbStep(NULL)
    BY <1>4, <2>1, DbQuiet DEF KojiStepOK
  <2>3. ProcStep(NULL)
    BY <1>4, ProcsAssumption DEF TypeInv, ProcStep
  <2>q. QED
    BY <1>4, <2>1, <2>2, <2>3, CountQuiet, StepOKInv DEF StepOK
<1>q. QED
  BY <1>1, <1>2, <1>3, <1>4 DEF Next

LEMMA StutterTypes ==
    ASSUME TypeInv, UNCHANGED vars
    PROVE  TypeInv'
<1>1. ProcStep(NULL)
  BY ProcsAssumption DEF TypeInv, ProcStep, vars
<1>2. KojiStepOK
  BY KojiQuiet DEF vars, kojiVars
<1>3. DbStep(NULL)
  BY <1>2, DbQuiet DEF vars, dbVars, KojiStepOK
<1>4. CountType'
  BY CountQuiet DEF vars, stateVars
<1>q. QED
  BY <1>1, <1>2, <1>3, <1>4, StepOKInv DEF StepOK

LEMMA InitTypes ==
    ASSUME Init
    PROVE  TypeInv
<1>1. NewPackage \in PackageRow
  BY DEF NewPackage, PackageRow
<1>2. DbType
  BY <1>1, RowsAssumption DEF Init, DbType, TypeTable, Rows, BuildIds
<1>3. \A b \in BuildIds : db[b] = NULL /\ work[b] = NULL
  BY RowsAssumption DEF Init, Rows, BuildIds
<1>4. RowsKnown /\ Settled /\ Fresh
  BY <1>3 DEF Init, RowsKnown, RowKnown, Settled, Fresh, Rows
<1>5. KojiType /\ RealKnown /\ TaggedOK
  BY BoundsAssumption DEF Init, KojiInit, KojiType, RealKnown, TaggedOK
<1>6. CountType
  BY BoundsAssumption, MaxDeadlineAssumption DEF Init, CountType
<1>7. proc \in Locals
  BY IdleType DEF Init, Locals
<1>8. ASSUME NEW q \in Procs
      PROVE  ProcInv(q)
  <2>1. proc[q] = IdleProc
    BY DEF Init
  <2>2. proc[q].pc = "idle" /\ At(proc[q]) = "idle"
    BY <2>1 DEF IdleProc, At, TriggerPCs
  <2>3. LocalOK(proc[q]) /\ InfoOK(q) /\ BuildLocked(q)
    BY <2>2 DEF LocalOK, InfoOK, BuildLocked, NoPackagePCs, UpdatePCs, RefreshPCs, SkipPCs,
                TriggerPCs
  <2>4. NoLocks(q)
    BY ProcsAssumption DEF Init, NoLocks
  <2>q. QED
    BY <2>3, <2>4 DEF ProcInv
<1>q. QED
  BY <1>2, <1>4, <1>5, <1>6, <1>7, <1>8 DEF TypeInv

(* The bookkeeping of the model: crashes, and the tasks they lost *)
HistoryType == crashes \in Nat /\ lost \subseteq Stamps

LEMMA NextHistory ==
    ASSUME TypeInv, HistoryType, [Next]_vars
    PROVE  HistoryType'
<1>1. ASSUME NEW q \in Procs
      PROVE  proc[q].task \in Stamps \cup {NULL}
  BY DEF TypeInv, Locals, Local
<1>2. ASSUME NEW q \in Procs, Step(q)
      PROVE  HistoryType'
  BY <1>1, <1>2 DEF HistoryType, Step, TriggerStep
<1>3. ASSUME NEW q \in Procs, Crash(q) \/ DeadlockAbort(q)
      PROVE  HistoryType'
  BY <1>1, <1>3 DEF HistoryType, Crash, DeadlockAbort, Die
<1>4. ASSUME UNCHANGED <<crashes, lost>>
      PROVE  HistoryType'
  BY <1>4 DEF HistoryType
<1>q. QED
  BY <1>2, <1>3, <1>4 DEF Next, Resolve, vars

-----------------------------------------------------------------------------
(* Type correctness of the whole system, for any number of packages,        *)
(* services, build rows, tasks and crashes: whatever order the services,    *)
(* triggers, crashes and Koji take their steps in, every committed and      *)
(* every uncommitted row satisfies its column types and the CHECK           *)
(* constraint on build states, and every local variable of a handler keeps  *)
(* its type (models.py, triggers.sql, update_build_state,                   *)
(* register_real_builds, refresh_latest_builds, Scheduler.main).            *)
THEOREM TypeCorrect == Spec => []TypeOK
<1>1. Init => TypeInv /\ HistoryType
  BY InitTypes DEF Init, HistoryType
<1>2. TypeInv /\ HistoryType /\ [Next]_vars => TypeInv' /\ HistoryType'
  BY NextTypes, StutterTypes, NextHistory
<1>3. TypeInv /\ HistoryType => TypeOK
  BY DEF TypeInv, HistoryType, TypeOK, DbType, KojiType, CountType, Locals
<1>q. QED
  BY <1>1, <1>2, <1>3, PTL DEF Spec

(* What the handlers rely on without testing it *)
HandlersReady ==
    \A q \in Procs : LocalOK(proc[q]) /\ BuildLocked(q) /\ NoLocks(q)

(* No handler uses a local variable it has not set. A process that is idle, *)
(* waits for its first lock or announces an event has no row locked, so no  *)
(* transaction outlives its handler; and between SELECT ... FOR UPDATE of   *)
(* the build and its own write, update_build_state finds that build in      *)
(* place, whatever the other services, the triggers and crashes do.         *)
THEOREM HandlersAreReady == Spec => []HandlersReady
<1>1. Init => TypeInv
  BY InitTypes
<1>2. TypeInv /\ [Next]_vars => TypeInv'
  BY NextTypes, StutterTypes
<1>3. TypeInv => HandlersReady
  BY DEF TypeInv, ProcInv, HandlersReady
<1>q. QED
  BY <1>1, <1>2, <1>3, PTL DEF Spec
=============================================================================
