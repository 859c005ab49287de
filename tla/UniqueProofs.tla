---------------------------- MODULE UniqueProofs ----------------------------
(****************************************************************************)
(* A real build is registered once, for any number of services.             *)
(*                                                                          *)
(* RealBuildsUnique speaks of committed rows and is not inductive: the      *)
(* commit that would break it only publishes what an insert decided         *)
(* earlier. The invariant below therefore speaks of both versions of every  *)
(* row, and says why two processes cannot decide to insert the same build:  *)
(* until its insert is committed, the inserting process keeps the lock of   *)
(* the package.                                                             *)
(****************************************************************************)
EXTENDS TypeProofs

(* The columns of a build that nothing updates *)
SameIdent(x, y) == x.package = y.package /\ x.task = y.task /\ x.real = y.real

Clash(x, y) ==
    /\ x # NULL /\ y # NULL
    /\ x.real /\ y.real
    /\ x.package = y.package /\ x.task = y.task

IdentKept ==
    \A b \in BuildIds : (db[b] # NULL /\ work[b] # NULL) => SameIdent(db[b], work[b])

NoClash ==
    \A b, c \in BuildIds :
        b # c => /\ ~ Clash(db[b], db[c])
                 /\ ~ Clash(db[b], work[c])
                 /\ ~ Clash(work[b], work[c])

InsertLocked ==
    \A b \in BuildIds :
        (db[b] = NULL /\ work[b] # NULL /\ work[b].real) => xlock[work[b].package] = xlock[b]

UniqueInv == IdentKept /\ NoClash /\ InsertLocked

-----------------------------------------------------------------------------
(* A row that is there after a step goes back to a version of it before the *)
(* step                                                                     *)
From(row, b) ==
    row # NULL => \/ work[b] # NULL /\ SameIdent(row, work[b])
                  \/ db[b] # NULL /\ SameIdent(row, db[b])

LEMMA FrameUnique ==
    ASSUME UniqueInv, IdentKept', InsertLocked',
           \A b \in BuildIds : From(db'[b], b) /\ From(work'[b], b)
    PROVE  UniqueInv'
<1>1. ASSUME NEW b \in BuildIds, NEW c \in BuildIds, b # c, NEW x, NEW y,
             From(x, b), From(y, c)
      PROVE  ~ Clash(x, y)
  <2>1. /\ ~ Clash(db[b], db[c]) /\ ~ Clash(db[b], work[c]) /\ ~ Clash(work[b], work[c])
        /\ ~ Clash(db[c], work[b])
    BY <1>1 DEF UniqueInv, NoClash
  <2>q. QED
    BY <1>1, <2>1 DEF From, Clash, SameIdent
<1>q. QED
  BY <1>1 DEF UniqueInv, NoClash

(* Nothing about the rows has changed *)
LEMMA QuietUnique ==
    ASSUME UniqueInv, UNCHANGED <<db, work, xlock>>
    PROVE  UniqueInv'
BY DEF UniqueInv, IdentKept, NoClash, InsertLocked

(* An update, or a delete, of rows that nobody else has locked *)
Changes(q, f) ==
    /\ DOMAIN f \subseteq Rows
    /\ \A r \in DOMAIN f :
          /\ xlock[r] \in {q, NULL}
          /\ r \in BuildIds =>
                (f[r] # NULL => View(q)[r] # NULL /\ SameIdent(f[r], View(q)[r]))

(* An update that also leaves the states of builds alone and deletes none *)
Kept(x, y) == x # NULL /\ SameIdent(x, y) /\ x.state = y.state

Updates(q, f) ==
    /\ DOMAIN f \subseteq Rows
    /\ \A r \in DOMAIN f : xlock[r] \in {q, NULL}
    /\ \A r \in DOMAIN f \cap BuildIds : View(q)[r] # NULL /\ Kept(f[r], View(q)[r])

Updating(q) == \E f, key : Write(q, f, key) /\ Updates(q, f)

LEMMA ChangeUnique ==
    ASSUME TypeInv, UniqueInv, NEW q \in Procs, NEW f, NEW key, Write(q, f, key), Changes(q, f)
    PROVE  UniqueInv'
<1>1. \A r \in Rows : /\ work'[r] = IF r \in DOMAIN f THEN f[r] ELSE work[r]
                      /\ xlock'[r] = IF r \in DOMAIN f THEN q ELSE xlock[r]
                      /\ db'[r] = db[r]
  BY DEF Write
<1>2. \A b \in BuildIds : b \in Rows
  BY DEF Rows
<1>3. ASSUME NEW b \in BuildIds, b \in DOMAIN f
      PROVE  View(q)[b] = work[b]
  BY <1>2, <1>3 DEF Changes, View, TypeInv, Settled
<1>4. ASSUME NEW b \in BuildIds, work'[b] # NULL
      PROVE  work[b] # NULL /\ SameIdent(work'[b], work[b])
  BY <1>1, <1>2, <1>3, <1>4 DEF Changes, SameIdent
<1>5. IdentKept'
  BY <1>1, <1>2, <1>4 DEF UniqueInv, IdentKept, SameIdent
<1>6. InsertLocked'
  <2>1. SUFFICES ASSUME NEW b \in BuildIds, db'[b] = NULL, work'[b] # NULL, work'[b].real
                 PROVE  xlock'[work'[b].package] = xlock'[b]
    BY DEF InsertLocked
  <2>2. /\ work[b] # NULL /\ db[b] = NULL /\ work[b].real
        /\ work'[b].package = work[b].package
    BY <1>1, <1>2, <1>4, <2>1 DEF SameIdent
  <2>3. work[b].package \in Rows
    BY <2>2 DEF TypeInv, DbType, TypeTable, BuildRow, Rows
  <2>4. xlock[work[b].package] = xlock[b] /\ xlock[b] # NULL
    BY <1>2, <2>2 DEF UniqueInv, InsertLocked, TypeInv, Settled
  <2>q. QED
    BY <1>1, <1>2, <2>2, <2>3, <2>4 DEF Changes
<1>q. QED
  BY <1>1, <1>2, <1>4, <1>5, <1>6, FrameUnique DEF From, SameIdent

LEMMA UpdateUnique ==
    ASSUME TypeInv, UniqueInv, NEW q \in Procs, Updating(q)
    PROVE  UniqueInv'
<1>1. PICK f, key : Write(q, f, key) /\ Updates(q, f)
  BY DEF Updating
<1>2. Changes(q, f)
  BY <1>1 DEF Changes, Updates, Kept
<1>q. QED
  BY <1>1, <1>2, ChangeUnique

LEMMA CommitUnique ==
    ASSUME TypeInv, UniqueInv, NEW q \in Procs, Commit(q)
    PROVE  UniqueInv'
<1>1. \A r \in Rows : /\ db'[r] = IF xlock[r] = q THEN work[r] ELSE db[r]
                      /\ work'[r] = work[r]
                      /\ xlock'[r] = IF xlock[r] = q THEN NULL ELSE xlock[r]
  BY DEF Commit, View, Release
<1>2. \A b \in BuildIds : b \in Rows
  BY DEF Rows
<1>3. IdentKept'
  BY <1>1, <1>2 DEF UniqueInv, IdentKept, SameIdent
<1>4. InsertLocked'
  <2>1. \A b \in BuildIds : work[b] # NULL => work[b].package \in Rows
    BY DEF TypeInv, DbType, TypeTable, BuildRow, Rows
  <2>q. QED
    BY <1>1, <1>2, <2>1 DEF UniqueInv, InsertLocked
<1>q. QED
  BY <1>1, <1>2, <1>3, <1>4, FrameUnique DEF From, SameIdent

LEMMA RollbackUnique ==
    ASSUME TypeInv, UniqueInv, NEW q \in Procs, Rollback(q)
    PROVE  UniqueInv'
<1>1. \A r \in Rows : /\ work'[r] = IF xlock[r] = q THEN db[r] ELSE work[r]
                      /\ db'[r] = db[r]
                      /\ xlock'[r] = IF xlock[r] = q THEN NULL ELSE xlock[r]
  BY DEF Rollback, Release
<1>2. \A b \in BuildIds : b \in Rows
  BY DEF Rows
<1>3. IdentKept'
  BY <1>1, <1>2 DEF UniqueInv, IdentKept, SameIdent
<1>4. InsertLocked'
  <2>1. \A b \in BuildIds : work[b] # NULL => work[b].package \in Rows
    BY DEF TypeInv, DbType, TypeTable, BuildRow, Rows
  <2>q. QED
    BY <1>1, <1>2, <2>1 DEF UniqueInv, InsertLocked
<1>q. QED
  BY <1>1, <1>2, <1>3, <1>4, FrameUnique DEF From, SameIdent

-----------------------------------------------------------------------------
(* The statements of the handlers. Apart from the four below, a step of a   *)
(* process writes nothing, updates rows it may write, or ends its           *)
(* transaction; none of its UPDATEs touches an identity column.             *)
Ending(q) == UNCHANGED <<db, work, xlock>> \/ Commit(q) \/ Rollback(q)

LEMMA UpdateKeeps ==
    \A row \in BuildRow : \A x :
        /\ SameIdent([row EXCEPT !.state = x], row)
        /\ x \in Stamps => Kept([row EXCEPT !.started = x], row)
        /\ x \in BOOLEAN => /\ Kept([row EXCEPT !.untagged = x], row)
                            /\ Kept([row EXCEPT !.last_complete = x], row)
                            /\ Kept([row EXCEPT !.cancel_requested = x], row)
<1>1. SUFFICES ASSUME NEW row \in BuildRow, NEW x
               PROVE  /\ SameIdent([row EXCEPT !.state = x], row)
                      /\ x \in Stamps => Kept([row EXCEPT !.started = x], row)
                      /\ x \in BOOLEAN => /\ Kept([row EXCEPT !.untagged = x], row)
                                          /\ Kept([row EXCEPT !.last_complete = x], row)
                                          /\ Kept([row EXCEPT !.cancel_requested = x], row)
  OBVIOUS
<1>2. x \in Stamps => [row EXCEPT !.started = x] \in BuildRow
  BY DEF BuildRow
<1>3. x \in BOOLEAN => /\ [row EXCEPT !.untagged = x] \in BuildRow
                       /\ [row EXCEPT !.last_complete = x] \in BuildRow
                       /\ [row EXCEPT !.cancel_requested = x] \in BuildRow
  BY DEF BuildRow
<1>q. QED
  BY <1>2, <1>3, NullAssumption DEF BuildRow, SameIdent, Kept

LEMMA SeenRow ==
    ASSUME TypeInv, NEW q, NEW b \in BuildIds, View(q)[b] # NULL
    PROVE  View(q)[b] \in BuildRow
BY ViewType DEF TypeTable

LEMMA WritesPackage ==
    ASSUME TypeInv, NEW q \in Procs, NEW p \in Packages, NEW f, DOMAIN f \subseteq {p},
           DOMAIN f # {} => WriteBlockers(q, p) = {}, Write(q, f, {})
    PROVE  Updating(q)
<1>1. p \in Rows /\ p \notin BuildIds
  BY RowsAssumption DEF Rows, BuildIds
<1>2. DOMAIN f # {} => xlock[p] \in {q, NULL}
  BY <1>1, NotBlocked
<1>3. Updates(q, f)
  BY <1>1, <1>2 DEF Updates
<1>q. QED
  BY <1>3 DEF Updating

LEMMA TriggerShape ==
    ASSUME TypeInv, NEW q \in Procs, Trigger(q)
    PROVE  UNCHANGED <<db, work, xlock>> \/ Updating(q) \/ TriggerIntegrityError(q)
<1>1. CASE TriggerRead(q)
  BY <1>1 DEF TriggerRead, dbVars
<1>2. CASE TriggerPackage(q)
  <2>1. PICK f : Write(q, f, {}) /\ DOMAIN f = {proc[q].p} /\ WriteBlockers(q, proc[q].p) = {}
    BY <1>2 DEF TriggerPackage
  <2>2. proc[q].p \in Packages
    BY <1>2 DEF TypeInv, ProcInv, TriggerPackage, LocalOK, NoPackagePCs
  <2>q. QED
    BY <2>1, <2>2, WritesPackage
<1>3. CASE TriggerFlags(q)
  <2> DEFINE f == [r \in Flagged(q) |-> [View(q)[r] EXCEPT !.last_complete = (r = proc[q].lcb)]]
  <2>1. Write(q, f, {})
    BY <1>3 DEF TriggerFlags
  <2>2. \A r \in Flagged(q) : r \in BuildIds /\ View(q)[r] # NULL
    <3>1. proc[q] \in Local
      BY DEF TypeInv, Locals
    <3>2. Referenced(q) \subseteq BuildIds
      BY <3>1, BoundsAssumption DEF Referenced, Local, Keep, BuildIds
    <3>3. \A r \in Flagged(q) : r \in BuildsOf(View(q), proc[q].p) \/ r \in Referenced(q)
      BY DEF Flagged, Referenced
    <3>q. QED
      BY <1>3, <3>2, <3>3 DEF TriggerFlags, BuildsOf
  <2>3. \A r \in Flagged(q) : xlock[r] \in {q, NULL}
    <3>1. ASSUME NEW r \in Flagged(q), NEW o \in WriteBlockers(q, r)
          PROVE  o \in TriggerFlagsBlockers(q)
      BY <3>1 DEF TriggerFlagsBlockers
    <3>q. QED
      BY <1>3, <3>1 DEF TriggerFlags, WriteBlockers
  <2>4. \A r \in Flagged(q) : Kept(f[r], View(q)[r])
    BY <2>2, SeenRow, UpdateKeeps
  <2>5. Updates(q, f)
    BY <2>2, <2>3, <2>4 DEF Updates, Rows
  <2> HIDE DEF f
  <2>q. QED
    BY <2>1, <2>5 DEF Updating
<1>q. QED
  BY <1>1, <1>2, <1>3 DEF Trigger

(* SELECT FOR UPDATE of the build, and the new start time *)
LEMMA LockBuildUpdates ==
    ASSUME TypeInv, NEW q \in Procs, LockBuild(q)
    PROVE  Updating(q)
<1> DEFINE b == proc[q].b
           row == IF MustDelete(q) THEN db[b] ELSE [db[b] EXCEPT !.started = db[b].task]
           f == [r \in {b} |-> row]
<1>1. b \in BuildIds /\ b \in Rows /\ NoLocks(q)
  BY UpdateLocals DEF LockBuild, UpdatePCs, Rows
<1>2. db[b] # NULL /\ Write(q, f, {b})
  BY DEF LockBuild, AlreadyDone
<1>3. xlock[b] \in {q, NULL} /\ View(q)[b] = db[b]
  BY <1>1, NotBlocked DEF LockBuild, ForUpdateBlockers, View, NoLocks, LockFreePCs
<1>4. Kept(row, db[b])
  BY <1>1, <1>2, CommittedRow, UpdateKeeps DEF SameIdent, Kept
<1> HIDE DEF row
<1>5. Updates(q, f)
  BY <1>1, <1>2, <1>3, <1>4 DEF Updates
<1> HIDE DEF f
<1>q. QED
  BY <1>2, <1>5 DEF Updating

LEMMA DeleteBuildUnique ==
    ASSUME TypeInv, UniqueInv, NEW q \in Procs, DeleteBuild(q)
    PROVE  UniqueInv'
<1> DEFINE b == proc[q].b
           p == proc[q].p
           pkg == View(q)[p]
           cleared == IF pkg.last_build = b THEN [pkg EXCEPT !.last_build = NULL] ELSE pkg
           f == [r \in {b} \cup (IF pkg.last_build = b THEN {p} ELSE {}) |->
                    IF r = b THEN NULL ELSE cleared]
<1>1. b \in BuildIds /\ p \in Packages /\ xlock[b] = q
  BY UpdateLocals DEF DeleteBuild, UpdatePCs, BuildLocked
<1>2. b \in Rows /\ p \in Rows /\ p \notin BuildIds
  BY <1>1, RowsAssumption DEF Rows, BuildIds
<1>3. CASE Delete(q, b, p)
  <2>1. Write(q, f, {b})
    BY <1>3 DEF Delete
  <2>2. pkg.last_build = b => xlock[p] \in {q, NULL}
    BY <1>2, <1>3, NotBlocked DEF Delete, DeleteBlockers
  <2>3. Changes(q, f)
    BY <1>1, <1>2, <2>2 DEF Changes
  <2> HIDE DEF f
  <2>q. QED
    BY <2>1, <2>3, ChangeUnique
<1>4. CASE DeleteRefused(q, b, p)
  BY <1>4, RollbackUnique DEF DeleteRefused
<1>q. QED
  BY <1>3, <1>4 DEF DeleteBuild

LEMMA LockPackageUnique ==
    ASSUME TypeInv, UniqueInv, NEW q \in Procs, LockPackage(q)
    PROVE  UniqueInv'
<1> DEFINE b == proc[q].b
           p == proc[q].p
           v == View(q)
           finished == [v[b] EXCEPT !.state = BuildState(q)]
           pkg == [v[p] EXCEPT !.manual_priority = 0,
                               !.build_priority = FailedBuildPriority(v, b, BuildState(q))]
           f == [r \in {b, p} |-> IF r = b THEN finished ELSE pkg]
<1>1. b \in BuildIds /\ p \in Packages /\ xlock[b] = q /\ work[b] # NULL
  BY UpdateLocals DEF LockPackage, UpdatePCs, BuildLocked
<1>2. b \in Rows /\ p \in Rows /\ p \notin BuildIds
  BY <1>1, RowsAssumption DEF Rows, BuildIds
<1>3. v[b] # NULL /\ xlock[p] \in {q, NULL}
  BY <1>1, <1>2, NotBlocked DEF View, LockPackage, ForUpdateBlockers
<1>4. SameIdent(finished, v[b])
  BY <1>1, <1>3, SeenRow, UpdateKeeps
<1>5. Write(q, f, {p})
  BY DEF LockPackage
<1> HIDE DEF finished, pkg
<1>6. Changes(q, f)
  BY <1>1, <1>2, <1>3, <1>4 DEF Changes
<1> HIDE DEF f
<1>q. QED
  BY <1>5, <1>6, ChangeUnique

LEMMA SyncRunningUpdates ==
    ASSUME TypeInv, NEW q \in Procs, SyncRunning(q)
    PROVE  Updating(q)
<1> DEFINE b == proc[q].b
           row == [db[b] EXCEPT !.started = db[b].task]
           f == [r \in (IF db[b].started # db[b].task THEN {b} ELSE {}) |-> row]
<1>1. b \in BuildIds /\ b \in Rows /\ NoLocks(q) /\ db[b] # NULL
  BY UpdateLocals DEF SyncRunning, UpdatePCs, Rows
<1>2. View(q)[b] = db[b]
  BY <1>1 DEF View, NoLocks, LockFreePCs, SyncRunning
<1>3. DOMAIN f # {} => xlock[b] \in {q, NULL}
  BY <1>1, NotBlocked DEF SyncRunning, SyncBlockers
<1>4. Kept(row, db[b])
  BY <1>1, CommittedRow, UpdateKeeps
<1>5. Write(q, f, {})
  BY DEF SyncRunning
<1> HIDE DEF row
<1>6. Updates(q, f)
  BY <1>1, <1>2, <1>3, <1>4 DEF Updates
<1> HIDE DEF f
<1>q. QED
  BY <1>5, <1>6 DEF Updating

LEMMA UpdateBuildStateShape ==
    ASSUME TypeInv, NEW q \in Procs, UpdateBuildState(q)
    PROVE  Ending(q) \/ Updating(q) \/ LockPackage(q) \/ DeleteBuild(q)
<1>1. CASE Decide(q) \/ DecideDeleted(q) \/ Emit(q)
  BY <1>1 DEF Decide, DecideDeleted, Emit, dbVars, Ending
<1>2. CASE LockBuildDone(q) \/ SyncDeleted(q)
  BY <1>2 DEF LockBuildDone, SyncDeleted, Ending
<1>3. CASE CommitBuild(q)
  BY <1>3 DEF CommitBuild, Ending
<1>q. QED
  BY <1>1, <1>2, <1>3, LockBuildUpdates, SyncRunningUpdates DEF UpdateBuildState

-----------------------------------------------------------------------------
(* register_real_builds. The check for the build and its insert are under   *)
(* the lock of the package, and every other uncommitted real build of the   *)
(* package belongs to a process that would hold that lock.                  *)
LEMMA RegisterLockUnique ==
    ASSUME TypeInv, UniqueInv, NEW q \in Procs, RegisterLock(q)
    PROVE  UniqueInv'
<1> DEFINE p == proc[q].p
           new == InfoTask(q) \notin RegisteredTasks(View(q), p)
           ids == IF new THEN {nextId} ELSE {}
           pkg == [View(q)[p] EXCEPT !.manual_priority = 0, !.build_priority = 0]
           row == NewRealBuild(q)
           f == [r \in {p} \cup ids |-> IF r = p THEN pkg ELSE row]
<1>1. p \in Packages /\ NoLocks(q)
  BY RefreshLocals DEF RegisterLock, RefreshPCs
<1>2. p \in Rows /\ p \notin BuildIds
  BY <1>1, RowsAssumption DEF Rows, BuildIds
<1>3. xlock[p] = NULL
  BY <1>1, <1>2, NotBlocked DEF RegisterLock, ForUpdateBlockers, NoLocks, LockFreePCs
<1>4. Write(q, f, {p}) /\ (new => nextId \in BuildIds)
  BY DEF RegisterLock
<1>5. row.package = p /\ row.task = InfoTask(q)
  BY DEF NewRealBuild
<1>6. CASE ~ new
  <2>1. Updates(q, f)
    BY <1>2, <1>3, <1>6 DEF Updates
  <2> HIDE DEF f
  <2>q. QED
    BY <1>4, <2>1, UpdateUnique DEF Updating
<1>7. CASE new
  <2>1. nextId \in BuildIds /\ nextId \in Rows /\ xlock[nextId] = NULL
        /\ db[nextId] = NULL /\ work[nextId] = NULL
    BY <1>4, <1>7 DEF TypeInv, Fresh, Settled, Rows, BuildIds
  <2>2. \A b \in BuildIds : b \in Rows /\ b # p
    BY <1>2 DEF Rows
  <2>3. \A b \in BuildIds : /\ work'[b] = IF b = nextId THEN row ELSE work[b]
                            /\ xlock'[b] = IF b = nextId THEN q ELSE xlock[b]
                            /\ db'[b] = db[b]
    BY <1>4, <1>7, <2>2 DEF Write
  <2>4. \A r \in Packages : xlock'[r] = IF r = p THEN q ELSE xlock[r]
    <3>1. \A r \in Packages : r \in Rows /\ r # nextId
      BY <2>1, RowsAssumption DEF Rows, BuildIds
    <3>q. QED
      BY <1>4, <1>7, <3>1 DEF Write
  <2> HIDE DEF row, f
  <2>5. ASSUME NEW c \in BuildIds, c # nextId
        PROVE  ~ Clash(row, db[c]) /\ ~ Clash(row, work[c])
    <3>1. ~ Clash(row, db[c])
      <4>1. View(q)[c] = db[c]
        BY <1>1, <2>2 DEF View, NoLocks, LockFreePCs, RegisterLock
      <4>q. QED
        BY <1>5, <1>7, <4>1 DEF Clash, RegisteredTasks, BuildsOf
    <3>2. CASE db[c] # NULL
      BY <3>1, <3>2 DEF UniqueInv, IdentKept, SameIdent, Clash
    <3>3. CASE db[c] = NULL
      <4>1. work[c] # NULL => xlock[c] # NULL
        BY <2>2, <3>3 DEF TypeInv, Settled
      <4>q. QED
        BY <1>3, <1>5, <3>1, <3>3, <4>1 DEF UniqueInv, InsertLocked, Clash
    <3>q. QED
      BY <3>1, <3>2, <3>3
  <2>6. IdentKept'
    BY <2>1, <2>3 DEF UniqueInv, IdentKept
  <2>7. NoClash'
    <3>1. ASSUME NEW b \in BuildIds, NEW c \in BuildIds, b # c
          PROVE  ~ Clash(db[b], work'[c])
      BY <2>3, <2>5, <3>1 DEF UniqueInv, NoClash, Clash
    <3>2. ASSUME NEW b \in BuildIds, NEW c \in BuildIds, b # c
          PROVE  ~ Clash(work'[b], work'[c])
      BY <2>3, <2>5, <3>2 DEF UniqueInv, NoClash, Clash
    <3>q. QED
      BY <2>3, <3>1, <3>2 DEF UniqueInv, NoClash
  <2>8. InsertLocked'
    <3>1. SUFFICES ASSUME NEW b \in BuildIds, db'[b] = NULL, work'[b] # NULL, work'[b].real
                   PROVE  xlock'[work'[b].package] = xlock'[b]
      BY DEF InsertLocked
    <3>2. CASE b = nextId
      BY <1>1, <1>5, <2>3, <2>4, <3>2
    <3>3. CASE b # nextId
      <4>1. work[b].package \in Packages /\ xlock[b] # NULL /\ xlock[work[b].package] = xlock[b]
        BY <2>2, <2>3, <3>1, <3>3
           DEF TypeInv, DbType, TypeTable, BuildRow, Settled, UniqueInv, InsertLocked
      <4>q. QED
        BY <1>3, <2>3, <2>4, <3>3, <4>1
    <3>q. QED
      BY <3>2, <3>3
  <2>q. QED
    BY <2>6, <2>7, <2>8 DEF UniqueInv
<1>q. QED
  BY <1>6, <1>7

LEMMA UpdateRowUpdates ==
    ASSUME TypeInv, NEW q \in Procs, UpdateRow(q)
    PROVE  Updating(q)
<1> DEFINE b == NextRow(q)
           val == proc[q].pc = "untag_rows"
           row == View(q)[b]
           hit == row # NULL /\ (val \/ row.untagged)
           new == [row EXCEPT !.untagged = val]
           f == [r \in (IF hit THEN {b} ELSE {}) |-> new]
<1>1. proc[q].todo \in SUBSET BuildIds /\ proc[q].todo # {}
  BY DEF TypeInv, ProcInv, LocalOK, UpdateRow
<1>2. b \in BuildIds /\ b \in Rows
  BY <1>1, LeastIn DEF NextRow, Rows
<1>3. xlock[b] \in {q, NULL} /\ Write(q, f, {})
  BY <1>2, NotBlocked DEF UpdateRow
<1>4. hit => row # NULL /\ Kept(new, row)
  BY <1>2, SeenRow, UpdateKeeps
<1> HIDE DEF new, hit
<1>5. Updates(q, f)
  BY <1>2, <1>3, <1>4 DEF Updates
<1> HIDE DEF f
<1>q. QED
  BY <1>3, <1>5 DEF Updating

LEMMA RealStepShape ==
    ASSUME TypeInv, NEW q \in Procs, RealStep(q)
    PROVE  Ending(q) \/ Updating(q) \/ RegisterLock(q)
<1>1. CASE RegisterNoRepo(q) \/ Untag(q) \/ UntagRegistered(q) \/ Retag(q)
  BY <1>1 DEF RegisterNoRepo, Untag, UntagRegistered, Retag, dbVars, Ending
<1>2. CASE RegisterCommit(q) \/ RefreshCommit(q)
  BY <1>2 DEF RegisterCommit, RefreshCommit, Ending
<1>q. QED
  BY <1>1, <1>2, UpdateRowUpdates DEF RealStep, RegisterRealBuilds, RefreshLatestBuilds

-----------------------------------------------------------------------------
(* Scheduler. What it inserts is not a real build. *)
LEMMA InsertBuildUnique ==
    ASSUME TypeInv, UniqueInv, NEW q \in Procs, InsertBuild(q)
    PROVE  UniqueInv'
<1> DEFINE row == [package |-> proc[q].p, state |-> RUNNING, task |-> proc[q].task,
                   started |-> clock, ver |-> proc[q].info, real |-> FALSE,
                   untagged |-> FALSE, last_complete |-> FALSE, cancel_requested |-> FALSE]
           f == [r \in {nextId} |-> row]
<1>1. nextId \in BuildIds /\ nextId \in Rows /\ db[nextId] = NULL
  BY DEF InsertBuild, TypeInv, Fresh, Rows, BuildIds
<1>2. Write(q, f, {})
  BY DEF InsertBuild
<1>3. ~ row.real
  OBVIOUS
<1> HIDE DEF row
<1>4. \A r \in Rows : /\ work'[r] = IF r = nextId THEN row ELSE work[r]
                      /\ xlock'[r] = IF r = nextId THEN q ELSE xlock[r]
                      /\ db'[r] = db[r]
  BY <1>2 DEF Write
<1>5. \A b \in BuildIds : b \in Rows
  BY DEF Rows
<1>6. IdentKept' /\ NoClash'
  BY <1>1, <1>3, <1>4, <1>5 DEF UniqueInv, IdentKept, NoClash, Clash
<1>7. InsertLocked'
  <2>1. \A b \in BuildIds : work[b] # NULL => work[b].package \in Rows /\ work[b].package # nextId
    BY <1>1, RowsAssumption DEF TypeInv, DbType, TypeTable, BuildRow, Rows, BuildIds
  <2>q. QED
    BY <1>1, <1>3, <1>4, <1>5, <2>1 DEF UniqueInv, InsertLocked
<1>q. QED
  BY <1>6, <1>7 DEF UniqueInv

LEMMA SkipFlagsUpdates ==
    ASSUME TypeInv, NEW q \in Procs, SkipFlags(q)
    PROVE  Updating(q)
<1> DEFINE f == [r \in SkipFlagged(q) |-> [View(q)[r] EXCEPT !.last_complete = FALSE]]
<1>1. \A r \in SkipFlagged(q) : r \in BuildIds /\ View(q)[r] # NULL
  BY DEF SkipFlagged, BuildsOf
<1>2. Write(q, f, {})
  BY DEF SkipFlags
<1>3. \A r \in SkipFlagged(q) : xlock[r] \in {q, NULL}
  <2>1. ASSUME NEW r \in SkipFlagged(q), NEW o \in WriteBlockers(q, r)
        PROVE  o \in SkipFlagsBlockers(q)
    BY <2>1 DEF SkipFlagsBlockers
  <2>q. QED
    BY <2>1 DEF SkipFlags, WriteBlockers
<1>4. \A r \in SkipFlagged(q) : Kept(f[r], View(q)[r])
  BY <1>1, SeenRow, UpdateKeeps
<1>5. Updates(q, f)
  BY <1>1, <1>3, <1>4 DEF Updates, Rows
<1> HIDE DEF f
<1>q. QED
  BY <1>2, <1>5 DEF Updating

LEMMA PackageWrites ==
    ASSUME TypeInv, NEW q \in Procs, FlushSkipped(q) \/ ResetPriority(q) \/ SkipPackage(q)
    PROVE  Updating(q)
<1>1. proc[q].p \in Packages
  BY DEF TypeInv, ProcInv, LocalOK, NoPackagePCs, FlushSkipped, ResetPriority, SkipPackage
<1>2. PICK f : /\ Write(q, f, {}) /\ DOMAIN f \subseteq {proc[q].p}
               /\ DOMAIN f # {} => WriteBlockers(q, proc[q].p) = {}
  <2>1. CASE FlushSkipped(q)
    BY <2>1 DEF FlushSkipped
  <2>2. CASE ResetPriority(q)
    BY <2>2 DEF ResetPriority, ResetBlockers
  <2>3. CASE SkipPackage(q)
    BY <2>3 DEF SkipPackage
  <2>q. QED
    BY <2>1, <2>2, <2>3
<1>q. QED
  BY <1>1, <1>2, WritesPackage

LEMMA ScheduleShape ==
    ASSUME TypeInv, NEW q \in Procs, Schedule(q)
    PROVE  Ending(q) \/ Updating(q) \/ InsertBuild(q)
<1>1. CASE \/ CountBuilds(q) \/ ReadPriorities(q)
           \/ \E p \in Packages : NoAllowedArch(q, p) \/ NoSrpmHeaders(q, p) \/ SubmitTask(q, p)
  BY <1>1 DEF CountBuilds, ReadPriorities, NoAllowedArch, NoSrpmHeaders, SubmitTask, dbVars, Ending
<1>2. CASE Stop(q)
  BY <1>2 DEF Stop, Ending
<1>3. CASE SubmitCommit(q) \/ SkipCommit(q)
  BY <1>3 DEF SubmitCommit, SkipCommit, Ending
<1>q. QED
  BY <1>1, <1>2, <1>3, PackageWrites, SkipFlagsUpdates DEF Schedule

-----------------------------------------------------------------------------
(* Statements that are their own transaction: both versions get the row *)
Replacing ==
    \E r \in Rows : \E row :
        /\ xlock[r] = NULL
        /\ r \in BuildIds => db[r] # NULL /\ Kept(row, db[r])
        /\ db' = [db EXCEPT ![r] = row]
        /\ work' = [work EXCEPT ![r] = row]
        /\ UNCHANGED xlock

LEMMA ReplaceUnique ==
    ASSUME TypeInv, UniqueInv, Replacing
    PROVE  UniqueInv'
<1>1. PICK r \in Rows : \E row :
        /\ xlock[r] = NULL
        /\ r \in BuildIds => db[r] # NULL /\ Kept(row, db[r])
        /\ db' = [db EXCEPT ![r] = row]
        /\ work' = [work EXCEPT ![r] = row]
        /\ UNCHANGED xlock
  BY DEF Replacing
<1>2. PICK row :
        /\ xlock[r] = NULL
        /\ r \in BuildIds => db[r] # NULL /\ Kept(row, db[r])
        /\ db' = [db EXCEPT ![r] = row]
        /\ work' = [work EXCEPT ![r] = row]
        /\ UNCHANGED xlock
  BY <1>1
<1>3. DOMAIN db = Rows /\ DOMAIN work = Rows /\ \A b \in BuildIds : b \in Rows
  BY DEF TypeInv, DbType, TypeTable, Rows
<1>4. \A b \in BuildIds : /\ db'[b] = IF b = r THEN row ELSE db[b]
                          /\ work'[b] = IF b = r THEN row ELSE work[b]
  BY <1>2, <1>3
<1>5. IdentKept' /\ InsertLocked'
  BY <1>2, <1>3, <1>4 DEF UniqueInv, IdentKept, InsertLocked, SameIdent, Kept
<1>q. QED
  BY <1>2, <1>4, <1>5, FrameUnique DEF From, SameIdent, Kept

LEMMA ServeRequestShape ==
    ASSUME TypeInv, NEW q \in Procs, ServeRequest(q)
    PROVE  Ending(q) \/ Replacing
<1>1. ASSUME NEW b \in BuildIds, RequestCancel(q, b)
      PROVE  Ending(q)
  BY <1>1 DEF RequestCancel, dbVars, Ending
<1>2. CASE MarkCanceled(q)
  <2> DEFINE b == proc[q].b
             row == [db[b] EXCEPT !.cancel_requested = TRUE]
  <2>1. b \in BuildIds /\ b \in Rows /\ NoLocks(q)
    BY <1>2 DEF TypeInv, ProcInv, LocalOK, At, TriggerPCs, MarkCanceled, Rows
  <2>2. CASE db[b] = NULL
    BY <1>2, <2>2 DEF MarkCanceled, Ending
  <2>3. CASE db[b] # NULL
    <3>1. xlock[b] = NULL
      BY <1>2, <2>1, NotBlocked DEF MarkCanceled, NoLocks, LockFreePCs
    <3>2. db[b] \in BuildRow /\ work[b] = db[b]
      BY <2>1, <2>3, <3>1, CommittedRow DEF TypeInv, Settled
    <3>3. /\ db' = [db EXCEPT ![b] = row] /\ work' = [work EXCEPT ![b] = row]
          /\ UNCHANGED xlock
      BY <1>2, <2>3, <3>2 DEF MarkCanceled
    <3>4. Kept(row, db[b])
      BY <3>2, UpdateKeeps
    <3> HIDE DEF row
    <3>q. QED
      BY <2>1, <2>3, <3>1, <3>3, <3>4 DEF Replacing
  <2>q. QED
    BY <2>2, <2>3
<1>3. ASSUME NEW p \in Packages, NEW n \in UserPriority, EditPriority(q, p, n)
      PROVE  Replacing
  <2>1. p \in Rows /\ p \notin BuildIds
    BY RowsAssumption DEF Rows, BuildIds
  <2>2. NoLocks(q) /\ proc[q].pc \in LockFreePCs
    BY <1>3 DEF TypeInv, ProcInv, EditPriority, LockFreePCs
  <2>3. xlock[p] = NULL /\ work[p] = db[p]
    BY <1>3, <2>1, <2>2, NotBlocked DEF EditPriority, NoLocks, TypeInv, Settled
  <2>4. /\ db' = [db EXCEPT ![p] = [db[p] EXCEPT !.manual_priority = n]]
        /\ work' = [work EXCEPT ![p] = [db[p] EXCEPT !.manual_priority = n]]
        /\ UNCHANGED xlock
    BY <1>3, <2>3 DEF EditPriority
  <2>q. QED
    BY <2>1, <2>3, <2>4 DEF Replacing
<1>q. QED
  BY <1>1, <1>2, <1>3 DEF ServeRequest

LEMMA ResolveShape ==
    ASSUME TypeInv, NEW p \in Packages, Resolve(p)
    PROVE  Replacing
<1>1. p \in Rows /\ p \notin BuildIds
  BY RowsAssumption DEF Rows, BuildIds
<1>2. xlock[p] = NULL /\ work[p] = db[p]
  BY <1>1 DEF Resolve, TypeInv, Settled
<1>3. PICK r \in Resolutions : /\ db' = [db EXCEPT ![p].resolved = r]
                               /\ work' = [work EXCEPT ![p].resolved = r]
                               /\ UNCHANGED xlock
  BY DEF Resolve
<1>4. /\ db' = [db EXCEPT ![p] = [db[p] EXCEPT !.resolved = r]]
      /\ work' = [work EXCEPT ![p] = [db[p] EXCEPT !.resolved = r]]
  BY <1>2, <1>3
<1>q. QED
  BY <1>1, <1>2, <1>3, <1>4 DEF Replacing

-----------------------------------------------------------------------------
(* What a step does to the rows *)
LEMMA StepShape ==
    ASSUME TypeInv, NEW q \in Procs, Step(q)
    PROVE  \/ Ending(q) \/ Updating(q) \/ Replacing
           \/ LockPackage(q) \/ DeleteBuild(q) \/ RegisterLock(q) \/ InsertBuild(q)
<1>1. CASE PollStep(q)
  BY <1>1, UpdateBuildStateShape DEF PollStep, PollInfos, PollRows, PollNext, dbVars, Ending
<1>2. ASSUME NEW p \in Packages, RefreshPackage(q, p) \/ WatchTag(q, p)
      PROVE  Ending(q)
  BY <1>2 DEF RefreshPackage, WatchTag, dbVars, Ending
<1>3. ASSUME NEW b \in BuildIds, WatchTask(q, b)
      PROVE  Ending(q)
  BY <1>3 DEF WatchTask, dbVars, Ending
<1>q. QED
  BY <1>1, <1>2, <1>3, UpdateBuildStateShape, RealStepShape, ScheduleShape, TriggerShape,
     ServeRequestShape DEF Step, TriggerStep, TriggerIntegrityError, Ending

LEMMA NextShape ==
    ASSUME TypeInv, [Next]_vars
    PROVE  \/ UNCHANGED <<db, work, xlock>> \/ Replacing
           \/ \E q \in Procs : \/ Ending(q) \/ Updating(q)
                             \/ LockPackage(q) \/ DeleteBuild(q)
                             \/ RegisterLock(q) \/ InsertBuild(q)
<1>1. ASSUME NEW q \in Procs, Crash(q) \/ DeadlockAbort(q)
      PROVE  Ending(q)
  BY <1>1 DEF Crash, DeadlockAbort, Die, Ending
<1>q. QED
  BY <1>1, StepShape, ResolveShape DEF Next, PassTimeout, dbVars, vars

LEMMA NextUnique ==
    ASSUME TypeInv, UniqueInv, [Next]_vars
    PROVE  UniqueInv'
<1>1. ASSUME NEW q \in Procs, Ending(q)
      PROVE  UniqueInv'
  BY <1>1, QuietUnique, CommitUnique, RollbackUnique DEF Ending
<1>q. QED
  BY <1>1, NextShape, QuietUnique, ReplaceUnique, UpdateUnique, LockPackageUnique,
     DeleteBuildUnique, RegisterLockUnique, InsertBuildUnique

(* Two registrations of the same build by the polling service and the       *)
(* watcher, or by any number of them, with crashes and deadlock aborts at   *)
(* any point, never leave two rows for one real build                       *)
(* (register_real_builds: the package is locked before the check).          *)
THEOREM RealBuildsAreUnique == Spec => []RealBuildsUnique
<1>1. Init => TypeInv /\ UniqueInv
  <2>1. ASSUME Init
        PROVE  \A b \in BuildIds : db[b] = NULL /\ work[b] = NULL
    BY <2>1, RowsAssumption DEF Init, Rows, BuildIds
  <2>q. QED
    BY <2>1, InitTypes DEF UniqueInv, IdentKept, NoClash, InsertLocked, Clash
<1>2. TypeInv /\ UniqueInv /\ [Next]_vars => TypeInv' /\ UniqueInv'
  BY NextTypes, StutterTypes, NextUnique
<1>3. UniqueInv => RealBuildsUnique
  BY DEF UniqueInv, NoClash, Clash, RealBuildsUnique
<1>q. QED
  BY <1>1, <1>2, <1>3, PTL DEF Spec
=============================================================================
