--------------------------- MODULE PointerProofs ----------------------------
(****************************************************************************)
(* The last_complete columns of builds and packages agree in every          *)
(* committed state, for any number of services, builds and packages.        *)
(*                                                                          *)
(* LastCompleteConsistent is not inductive: it speaks of committed rows,    *)
(* and what a commit publishes was written statements earlier, package and  *)
(* flags in turn, from builds that were read before that. It holds because  *)
(* everyone who writes a flag or a pointer keeps the package locked until   *)
(* its commit, and a process that holds the lock sees a package that agrees *)
(* with its builds except between its two UPDATEs.                          *)
(****************************************************************************)
EXTENDS BuildProofs

Flag(row) == row # NULL /\ row.last_complete

(* LastCompleteConsistent for one package, as seen in view v *)
PackageOK(v, p) ==
    LET lc == v[p].last_complete_build
    IN  /\ lc # NULL => /\ v[lc] # NULL /\ v[lc].package = p
                        /\ v[lc].state \in FinishedStates
        /\ v[p].last_complete_build_state = (IF lc = NULL THEN NULL ELSE v[lc].state)
        /\ \A b \in BuildsOf(v, p) : v[b].last_complete <=> b = lc

(* Whoever has changed a flag, or deleted the build a package points to,    *)
(* has locked the package                                                   *)
FlagOwned ==
    \A b \in BuildIds :
        (work[b] # NULL /\ Flag(work[b]) # Flag(db[b])) => xlock[work[b].package] = xlock[b]

DeletedOwned ==
    \A b \in BuildIds :
        (db[b] # NULL /\ work[b] = NULL)
            => \/ db[db[b].package].last_complete_build # b
               \/ xlock[db[b].package] = xlock[b]

(* A process between its update of a package and that of the flags *)
Between(q, p) ==
    /\ proc[q].p = p
    /\ \/ proc[q].pc = "skip_flags"
       \/ proc[q].pc = "trigger_flags" /\ proc[q].lcb # Keep

Moved(q, p) ==
    /\ work[p].last_complete_build = (IF proc[q].pc = "skip_flags" THEN NULL ELSE proc[q].lcb)
    /\ work[p].last_complete_build_state =
           (IF proc[q].pc = "skip_flags" THEN NULL ELSE proc[q].lcs)

(* A new pointer goes to a build that the process has locked *)
TargetLocked(q, p) ==
    work[p].last_complete_build \notin {NULL, db[p].last_complete_build}
        => xlock[work[p].last_complete_build] = q

(* Who holds a package sees it in order, or is about to order it again *)
HeldOK(q, p) ==
    xlock[p] = q => IF Between(q, p) THEN Moved(q, p)
                    ELSE PackageOK(View(q), p) /\ TargetLocked(q, p)

(* b is, and will be, a build of p *)
Belongs(b, p) ==
    /\ b < nextId
    /\ db[b] # NULL => db[b].package = p
    /\ work[b] # NULL => work[b].package = p

(* The build that update_last_build has found ended as it has read *)
Ends(q, b, s) ==
    /\ s \in FinishedStates
    /\ TaskIn(b, {IF s = COMPLETE THEN "CLOSED" ELSE "FAILED"})
    /\ Over(work[b])
    /\ xlock[b] # q => Over(db[b])

(* What a process knows of the build that its next statement is about *)
Firing(q) ==
    LET l == proc[q]
    IN  /\ l.pc \in {"trigger_flags", "skip_flags"} => xlock[l.p] = q
        /\ l.pc \in {"trigger_package", "trigger_flags"} =>
              /\ l.lcb = NULL => l.lcs = NULL
              /\ l.lcb \notin {Keep, NULL} =>
                    l.lcb \in BuildIds /\ Belongs(l.lcb, l.p) /\ Ends(q, l.lcb, l.lcs)
        /\ l.pc \in {"lock", "delete"} => Belongs(l.b, l.p)

(* The inductive invariant *)
PointerInv ==
    /\ LastCompleteConsistent /\ FlagOwned /\ DeletedOwned
    /\ \A q \in Procs : Firing(q) /\ \A p \in Packages : HeldOK(q, p)

-----------------------------------------------------------------------------
(* An update of a build that matters neither to package p nor to its flags *)
BuildKept(y, x, p) ==
    /\ x = NULL => (y # NULL /\ y.package = p => ~ y.last_complete)
    /\ (x # NULL /\ y # NULL) =>
          /\ y.package = x.package
          /\ x.package = p => /\ y.last_complete = x.last_complete
                              /\ x.state \in FinishedStates => y.state = x.state

LEMMA PackageKept ==
    ASSUME NEW p \in Packages, NEW v, NEW w, PackageOK(v, p),
           v[p].last_complete_build \in BuildIds \cup {NULL},
           w[p].last_complete_build = v[p].last_complete_build,
           w[p].last_complete_build_state = v[p].last_complete_build_state,
           \A b \in BuildIds : BuildKept(w[b], v[b], p),
           v[p].last_complete_build # NULL => w[v[p].last_complete_build] # NULL
    PROVE  PackageOK(w, p)
<1> DEFINE lc == v[p].last_complete_build
<1>1. ASSUME lc # NULL
      PROVE  /\ v[lc] # NULL /\ v[lc].package = p /\ v[lc].state \in FinishedStates
             /\ w[lc] # NULL /\ w[lc].package = p /\ w[lc].state = v[lc].state
  BY <1>1 DEF PackageOK, BuildKept
<1>2. ASSUME NEW b \in BuildsOf(w, p)
      PROVE  w[b].last_complete <=> b = lc
  <2>1. b \in BuildIds /\ w[b] # NULL /\ w[b].package = p /\ BuildKept(w[b], v[b], p)
    BY <1>2 DEF BuildsOf
  <2>2. CASE v[b] = NULL
    BY <1>1, <2>1, <2>2, RowsAssumption DEF BuildKept, BuildIds
  <2>3. CASE v[b] # NULL
    <3>1. v[b].package = p /\ w[b].last_complete = v[b].last_complete
      BY <2>1, <2>3 DEF BuildKept
    <3>2. v[b].last_complete <=> b = lc
      BY <2>1, <2>3, <3>1 DEF PackageOK, BuildsOf
    <3>q. QED
      BY <3>1, <3>2
  <2>q. QED
    BY <2>2, <2>3
<1>q. QED
  BY <1>1, <1>2 DEF PackageOK

(* The versions of a build that is not locked together with its package *)
LEMMA ApartRow ==
    ASSUME TypeInv, UniqueInv, FinishInv, FlagOwned, DeletedOwned,
           NEW p \in Packages, NEW b \in BuildIds, xlock[b] # xlock[p]
    PROVE  /\ BuildKept(work[b], db[b], p)
           /\ (db[b] # NULL /\ db[b].package = p /\ work[b] = NULL)
                 => db[p].last_complete_build # b
<1>1. (db[b] # NULL => db[b] \in BuildRow) /\ (work[b] # NULL => work[b] \in BuildRow)
  BY DEF TypeInv, DbType, TypeTable
<1>2. (db[b] # NULL /\ work[b] # NULL)
         => /\ work[b].package = db[b].package
            /\ db[b].state \in FinishedStates => work[b].state = db[b].state
  BY DEF UniqueInv, IdentKept, SameIdent, FinishInv, StateKept
<1>3. work[b] # NULL /\ work[b].package = p => Flag(work[b]) = Flag(db[b])
  BY DEF FlagOwned
<1>4. (db[b] # NULL /\ db[b].package = p /\ work[b] = NULL) => db[p].last_complete_build # b
  BY DEF DeletedOwned
<1>5. (db[b] # NULL => db[b].last_complete \in BOOLEAN)
      /\ (work[b] # NULL => work[b].last_complete \in BOOLEAN)
  BY <1>1 DEF BuildRow
<1>6. (work[b] # NULL /\ work[b].package = p /\ db[b] # NULL)
         => work[b].last_complete = db[b].last_complete
  BY <1>3, <1>5 DEF Flag
<1>7. (work[b] # NULL /\ work[b].package = p /\ db[b] = NULL) => ~ work[b].last_complete
  BY <1>3, <1>5 DEF Flag
<1>q. QED
  BY <1>2, <1>4, <1>6, <1>7 DEF BuildKept

LEMMA SeenPackage ==
    ASSUME TypeInv, NEW q, NEW p \in Packages
    PROVE  /\ p \in Rows /\ p \notin BuildIds
           /\ db[p] \in PackageRow /\ work[p] \in PackageRow
           /\ db[p].last_complete_build \in BuildIds \cup {NULL}
           /\ work[p].last_complete_build \in BuildIds \cup {NULL}
           /\ View(q)[p] \in PackageRow
           /\ View(q)[p].last_complete_build \in BuildIds \cup {NULL}
<1>1. p \in Rows /\ p \notin BuildIds
  BY RowsAssumption DEF Rows, BuildIds
<1>2. db[p] \in PackageRow /\ work[p] \in PackageRow /\ View(q)[p] \in PackageRow
  BY ViewType DEF TypeInv, DbType, TypeTable
<1>q. QED
  BY <1>1, <1>2 DEF PackageRow

(* A process that has not locked a package sees it in order whatever it has *)
(* itself written of its builds                                             *)
LEMMA UnheldView ==
    ASSUME TypeInv, UniqueInv, FinishInv, PointerInv,
           NEW q \in Procs, NEW p \in Packages, xlock[p] # q
    PROVE  PackageOK(View(q), p)
<1> DEFINE v == View(q)
<1>1. PackageOK(db, p) /\ FlagOwned /\ DeletedOwned
  BY DEF PointerInv, LastCompleteConsistent, PackageOK
<1>2. v[p] = db[p] /\ db[p].last_complete_build \in BuildIds \cup {NULL}
  BY SeenPackage DEF View
<1>3. ASSUME NEW b \in BuildIds
      PROVE  /\ BuildKept(v[b], db[b], p)
             /\ (db[b] # NULL /\ db[b].package = p /\ v[b] = NULL)
                   => db[p].last_complete_build # b
  <2>1. v[b] = IF xlock[b] = q THEN work[b] ELSE db[b]
    BY DEF View, Rows
  <2>2. CASE xlock[b] = q
    BY <1>1, <2>1, <2>2, ApartRow
  <2>3. CASE xlock[b] # q
    BY <2>1, <2>3 DEF BuildKept
  <2>q. QED
    BY <2>2, <2>3
<1>4. db[p].last_complete_build # NULL => v[db[p].last_complete_build] # NULL
  BY <1>1, <1>2, <1>3 DEF PackageOK
<1>5. /\ \A b \in BuildIds : BuildKept(v[b], db[b], p)
      /\ v[p].last_complete_build = db[p].last_complete_build
      /\ v[p].last_complete_build_state = db[p].last_complete_build_state
  BY <1>2, <1>3
<1>q. QED
  BY <1>1, <1>2, <1>4, <1>5, PackageKept

LEMMA SeenOK ==
    ASSUME TypeInv, UniqueInv, FinishInv, PointerInv,
           NEW q \in Procs, NEW p \in Packages, ~ Between(q, p)
    PROVE  PackageOK(View(q), p)
BY UnheldView DEF PointerInv, HeldOK

-----------------------------------------------------------------------------
(* The end of a transaction *)
LEMMA RowPackages ==
    ASSUME TypeInv, NEW b \in BuildIds
    PROVE  /\ b \in Rows
           /\ xlock[b] = NULL => work[b] = db[b]
           /\ db[b] # NULL => /\ db[b].package \in Packages /\ db[b].package \in Rows
                              /\ db[b].last_complete \in BOOLEAN
           /\ work[b] # NULL => /\ work[b].package \in Packages /\ work[b].package \in Rows
                                /\ work[b].last_complete \in BOOLEAN
BY DEF TypeInv, DbType, TypeTable, BuildRow, Settled, Rows

LEMMA CommitPointers ==
    ASSUME TypeInv, UniqueInv, FinishInv, PointerInv, NEW q \in Procs, Commit(q),
           proc[q].pc \notin {"trigger_flags", "skip_flags"}
    PROVE  LastCompleteConsistent' /\ FlagOwned' /\ DeletedOwned'
<1>1. \A r \in Rows : /\ db'[r] = IF xlock[r] = q THEN work[r] ELSE db[r]
                      /\ work'[r] = work[r]
                      /\ xlock'[r] = IF xlock[r] = q THEN NULL ELSE xlock[r]
  BY DEF Commit, View, Release
<1>2. \A p \in Packages : ~ Between(q, p)
  BY DEF Between
<1>3. LastCompleteConsistent'
  <2>1. \A p \in Packages : PackageOK(View(q), p)
    BY <1>2, SeenOK
  <2>2. db' = View(q)
    BY DEF Commit
  <2>q. QED
    BY <2>1, <2>2 DEF PackageOK, LastCompleteConsistent
<1>4. FlagOwned'
  <2>1. SUFFICES ASSUME NEW b \in BuildIds, work'[b] # NULL, Flag(work'[b]) # Flag(db'[b])
                 PROVE  xlock'[work'[b].package] = xlock'[b]
    BY DEF FlagOwned
  <2>2. /\ b \in Rows /\ xlock[b] # q /\ work'[b] = work[b] /\ db'[b] = db[b]
        /\ work[b].package \in Rows /\ xlock[b] # NULL
    BY <1>1, <2>1, RowPackages
  <2>3. xlock[work[b].package] = xlock[b]
    BY <2>1, <2>2 DEF PointerInv, FlagOwned
  <2>q. QED
    BY <1>1, <2>2, <2>3
<1>5. DeletedOwned'
  <2>1. SUFFICES ASSUME NEW b \in BuildIds, db'[b] # NULL, work'[b] = NULL,
                        db'[db'[b].package].last_complete_build = b
                 PROVE  xlock'[db'[b].package] = xlock'[b]
    BY DEF DeletedOwned
  <2>2. /\ b \in Rows /\ xlock[b] # q /\ work[b] = NULL /\ db'[b] = db[b] /\ db[b] # NULL
        /\ xlock[b] # NULL
    BY <1>1, <2>1, RowPackages
  <2>3. PICK p \in Packages : p = db[b].package
    BY <2>2, RowPackages
  <2>4. p \in Rows /\ db'[p].last_complete_build = b
    BY <2>1, <2>2, <2>3, RowPackages
  <2>5. xlock[p] = xlock[b] \/ db[p].last_complete_build # b
    BY <2>2, <2>3 DEF PointerInv, DeletedOwned
  <2>6. CASE xlock[p] = q
    <3>1. db'[p] = work[p] /\ TargetLocked(q, p)
      BY <1>1, <1>2, <2>4, <2>6 DEF PointerInv, HeldOK
    <3>2. b # NULL
      BY RowsAssumption DEF BuildIds
    <3>q. QED
      BY <2>2, <2>4, <2>5, <2>6, <3>1, <3>2 DEF TargetLocked
  <2>7. CASE xlock[p] # q
    BY <1>1, <2>2, <2>3, <2>4, <2>5, <2>7
  <2>q. QED
    BY <2>6, <2>7
<1>q. QED
  BY <1>3, <1>4, <1>5

LEMMA RollbackPointers ==
    ASSUME TypeInv, PointerInv, NEW q \in Procs, Rollback(q)
    PROVE  LastCompleteConsistent' /\ FlagOwned' /\ DeletedOwned'
<1>1. \A r \in Rows : /\ work'[r] = IF xlock[r] = q THEN db[r] ELSE work[r]
                      /\ xlock'[r] = IF xlock[r] = q THEN NULL ELSE xlock[r]
  BY DEF Rollback, Release
<1>2. db' = db
  BY DEF Rollback
<1>3. LastCompleteConsistent'
  BY <1>2 DEF PointerInv, LastCompleteConsistent, BuildsOf
<1>4. FlagOwned'
  <2>1. SUFFICES ASSUME NEW b \in BuildIds, work'[b] # NULL, Flag(work'[b]) # Flag(db'[b])
                 PROVE  xlock'[work'[b].package] = xlock'[b]
    BY DEF FlagOwned
  <2>2. /\ b \in Rows /\ xlock[b] # q /\ work'[b] = work[b]
        /\ work[b].package \in Rows /\ xlock[b] # NULL
    BY <1>1, <1>2, <2>1, RowPackages
  <2>3. xlock[work[b].package] = xlock[b]
    BY <1>2, <2>1, <2>2 DEF PointerInv, FlagOwned
  <2>q. QED
    BY <1>1, <2>2, <2>3
<1>5. DeletedOwned'
  <2>1. SUFFICES ASSUME NEW b \in BuildIds, db[b] # NULL, work'[b] = NULL,
                        db[db[b].package].last_complete_build = b
                 PROVE  xlock'[db[b].package] = xlock'[b]
    BY <1>2 DEF DeletedOwned
  <2>2. /\ b \in Rows /\ xlock[b] # q /\ work[b] = NULL /\ db[b].package \in Rows
        /\ xlock[b] # NULL
    BY <1>1, <2>1, RowPackages
  <2>3. xlock[db[b].package] = xlock[b]
    BY <2>1, <2>2 DEF PointerInv, DeletedOwned
  <2>q. QED
    BY <1>1, <2>2, <2>3
<1>q. QED
  BY <1>3, <1>4, <1>5

(* The end of a transaction leaves its process without locks *)
LEMMA ReleasedHeld ==
    ASSUME TypeInv, NEW q \in Procs, Release(q), NEW p \in Packages
    PROVE  HeldOK(q, p)'
BY ProcsAssumption DEF Release, HeldOK, Rows

-----------------------------------------------------------------------------
(* A statement inside a transaction. It inserts builds without the flag,    *)
(* deletes builds its package does not point to, updates builds and         *)
(* packages except for the columns in question ...                          *)
EditsBuild(q, b, y) ==
    LET x == View(q)[b]
    IN  \/ x = NULL /\ db[b] = NULL /\ y # NULL /\ ~ y.last_complete
        \/ /\ x # NULL /\ y # NULL
           /\ y.package = x.package /\ y.last_complete = x.last_complete
           /\ x.state \in FinishedStates => y.state = x.state
        \/ x # NULL /\ y = NULL /\ View(q)[x.package].last_complete_build # b

(* ... or sets flags of the package it has locked *)
FlagsBuild(q, b, y) ==
    LET x == View(q)[b]
    IN  x # NULL /\ y # NULL /\ y.package = x.package /\ y.state = x.state /\ xlock[x.package] = q

EditsPackage(q, p, y) ==
    /\ y.last_complete_build = View(q)[p].last_complete_build
    /\ y.last_complete_build_state = View(q)[p].last_complete_build_state

MayWrite(q, f) ==
    /\ DOMAIN f \subseteq Rows
    /\ \A r \in DOMAIN f : xlock[r] \in {q, NULL}
    /\ \A b \in DOMAIN f \cap BuildIds : EditsBuild(q, b, f[b]) \/ FlagsBuild(q, b, f[b])

Edits(q) ==
    \E f, key :
        /\ Write(q, f, key) /\ MayWrite(q, f)
        /\ \A b \in DOMAIN f \cap BuildIds : EditsBuild(q, b, f[b])
        /\ \A p \in DOMAIN f \cap Packages : EditsPackage(q, p, f[p])

LEMMA Written ==
    ASSUME TypeInv, NEW q \in Procs, NEW f, NEW key, Write(q, f, key), MayWrite(q, f),
           NEW r \in Rows
    PROVE  /\ db'[r] = db[r]
           /\ work'[r] = IF r \in DOMAIN f THEN f[r] ELSE work[r]
           /\ xlock'[r] = IF r \in DOMAIN f THEN q ELSE xlock[r]
           /\ xlock[r] = q => xlock'[r] = q
           /\ r \in DOMAIN f => View(q)[r] = work[r]
           /\ View(q)'[r] = IF r \in DOMAIN f THEN f[r] ELSE View(q)[r]
<1>1. /\ db'[r] = db[r]
      /\ work'[r] = IF r \in DOMAIN f THEN f[r] ELSE work[r]
      /\ xlock'[r] = IF r \in DOMAIN f THEN q ELSE xlock[r]
  BY DEF Write
<1>2. r \in DOMAIN f => View(q)[r] = work[r]
  BY DEF MayWrite, View, TypeInv, Settled
<1>q. QED
  BY <1>1, <1>2 DEF View

LEMMA WriteOwned ==
    ASSUME TypeInv, UniqueInv, PointerInv, NEW q \in Procs, NEW f, NEW key,
           Write(q, f, key), MayWrite(q, f)
    PROVE  LastCompleteConsistent' /\ FlagOwned' /\ DeletedOwned'
<1>1. \A r \in Rows :
         /\ work'[r] = IF r \in DOMAIN f THEN f[r] ELSE work[r]
         /\ xlock'[r] = IF r \in DOMAIN f THEN q ELSE xlock[r]
         /\ xlock[r] = q => xlock'[r] = q
         /\ r \in DOMAIN f => View(q)[r] = work[r] /\ xlock[r] \in {q, NULL}
  BY Written DEF MayWrite
<1>2. db' = db
  BY DEF Write
<1>3. LastCompleteConsistent'
  BY <1>2 DEF PointerInv, LastCompleteConsistent, BuildsOf
<1>4. ASSUME NEW r \in Rows, NEW o, o \notin {q, NULL}, xlock[r] = o
      PROVE  xlock'[r] = o
  BY <1>1, <1>4
<1>5. FlagOwned'
  <2>1. SUFFICES ASSUME NEW b \in BuildIds, work'[b] # NULL, Flag(work'[b]) # Flag(db[b])
                 PROVE  xlock'[work'[b].package] = xlock'[b]
    BY <1>2 DEF FlagOwned
  <2>2. b \in Rows
    BY RowPackages
  <2>3. Flag(work[b]) # Flag(db[b]) /\ work[b] # NULL
           => xlock[work[b].package] = xlock[b] /\ xlock[b] # NULL
    BY RowPackages DEF PointerInv, FlagOwned
  <2>4. CASE b \in DOMAIN f
    <3>1. work'[b] = f[b] /\ xlock'[b] = q /\ View(q)[b] = work[b] /\ xlock[b] \in {q, NULL}
      BY <1>1, <2>2, <2>4
    <3>2. CASE FlagsBuild(q, b, f[b])
      BY <1>1, <3>1, <3>2, RowPackages DEF FlagsBuild
    <3>3. CASE EditsBuild(q, b, f[b])
      <4>1. CASE work[b] = NULL
        BY <2>1, <3>1, <3>3, <4>1 DEF EditsBuild, Flag
      <4>2. CASE work[b] # NULL
        <5>1. f[b].package = work[b].package /\ Flag(f[b]) = Flag(work[b])
          BY <2>1, <3>1, <3>3, <4>2 DEF EditsBuild, Flag
        <5>2. xlock[work[b].package] = q
          BY <2>1, <2>3, <3>1, <4>2, <5>1
        <5>q. QED
          BY <1>1, <3>1, <4>2, <5>1, <5>2, RowPackages
      <4>q. QED
        BY <4>1, <4>2
    <3>q. QED
      BY <2>4, <3>2, <3>3 DEF MayWrite
  <2>5. CASE b \notin DOMAIN f
    <3>1. work'[b] = work[b] /\ xlock'[b] = xlock[b]
      BY <1>1, <2>2, <2>5
    <3>2. work[b].package \in Rows /\ xlock[work[b].package] = xlock[b] /\ xlock[b] # NULL
      BY <2>1, <2>3, <3>1, RowPackages
    <3>q. QED
      BY <1>1, <1>4, <3>1, <3>2
  <2>q. QED
    BY <2>4, <2>5
<1>6. DeletedOwned'
  <2>1. SUFFICES ASSUME NEW b \in BuildIds, db[b] # NULL, work'[b] = NULL,
                        db[db[b].package].last_complete_build = b
                 PROVE  xlock'[db[b].package] = xlock'[b]
    BY <1>2 DEF DeletedOwned
  <2>2. b \in Rows /\ db[b].package \in Rows
    BY <2>1, RowPackages
  <2>3. CASE b \in DOMAIN f
    <3>1. f[b] = NULL /\ xlock'[b] = q /\ View(q)[b] = work[b]
      BY <1>1, <2>1, <2>2, <2>3
    <3>2. work[b] # NULL /\ View(q)[work[b].package].last_complete_build # b
      BY <2>3, <3>1 DEF MayWrite, EditsBuild, FlagsBuild
    <3>3. work[b].package = db[b].package
      BY <2>1, <3>2 DEF UniqueInv, IdentKept, SameIdent
    <3>4. xlock[db[b].package] = q
      BY <2>1, <2>2, <3>2, <3>3 DEF View
    <3>q. QED
      BY <1>1, <2>2, <3>1, <3>4
  <2>4. CASE b \notin DOMAIN f
    <3>1. work[b] = NULL /\ xlock'[b] = xlock[b] /\ xlock[b] # NULL
      BY <1>1, <2>1, <2>2, <2>4, RowPackages
    <3>2. xlock[db[b].package] = xlock[b]
      BY <2>1, <3>1 DEF PointerInv, DeletedOwned
    <3>q. QED
      BY <1>1, <1>4, <2>2, <3>1, <3>2
  <2>q. QED
    BY <2>3, <2>4
<1>q. QED
  BY <1>3, <1>5, <1>6

LEMMA WriteHeld ==
    ASSUME TypeInv, UniqueInv, FinishInv, PointerInv, NEW q \in Procs, NEW f, NEW key,
           Write(q, f, key), MayWrite(q, f),
           NEW p \in Packages, ~ Between(q, p), ~ Between(q, p)',
           \A b \in DOMAIN f \cap BuildIds :
               \/ EditsBuild(q, b, f[b])
               \/ FlagsBuild(q, b, f[b]) /\ View(q)[b].package # p,
           p \in DOMAIN f => EditsPackage(q, p, f[p])
    PROVE  HeldOK(q, p)'
<1> DEFINE v == View(q)
           lc == v[p].last_complete_build
<1>2. PICK w : w = View(q)'
  OBVIOUS
<1>3. \A r \in Rows : /\ db'[r] = db[r]
                      /\ work'[r] = IF r \in DOMAIN f THEN f[r] ELSE work[r]
                      /\ xlock[r] = q => xlock'[r] = q
                      /\ w[r] = IF r \in DOMAIN f THEN f[r] ELSE v[r]
  BY <1>2, Written
<1>4. p \in Rows /\ lc \in BuildIds \cup {NULL}
  BY SeenPackage
<1>6. PackageOK(v, p)
  BY SeenOK
<1>7. xlock[p] = q => TargetLocked(q, p)
  BY DEF PointerInv, HeldOK
<1>8. \A b \in BuildIds : BuildKept(w[b], v[b], p)
  BY <1>3, RowPackages DEF BuildKept, EditsBuild, FlagsBuild
<1>9. ASSUME lc # NULL
      PROVE  w[lc] # NULL
  <2>1. PICK b \in BuildIds : b = lc
    BY <1>4, <1>9
  <2>2. b \in Rows /\ v[b] # NULL /\ v[b].package = p
    BY <1>6, <1>9, <2>1, RowPackages DEF PackageOK
  <2>3. b \in DOMAIN f => f[b] # NULL
    BY <2>1, <2>2 DEF EditsBuild, FlagsBuild
  <2>q. QED
    BY <1>3, <2>1, <2>2, <2>3
<1>10. w[p].last_complete_build = lc
       /\ w[p].last_complete_build_state = v[p].last_complete_build_state
  BY <1>3, <1>4 DEF EditsPackage
<1>11. PackageOK(w, p)
  BY <1>4, <1>6, <1>8, <1>9, <1>10, PackageKept
<1>12. xlock'[p] = q => TargetLocked(q, p)'
  <2>1. SUFFICES ASSUME work'[p].last_complete_build \notin {NULL, db[p].last_complete_build},
                        xlock'[p] = q
                 PROVE  xlock'[work'[p].last_complete_build] = q
    BY <1>3, <1>4 DEF TargetLocked
  <2>2. work'[p].last_complete_build = lc
    BY <1>2, <1>4, <1>10, <2>1 DEF View
  <2>3. xlock[p] = q /\ lc = work[p].last_complete_build
    BY <1>4, <2>1, <2>2 DEF View
  <2>4. xlock[lc] = q
    BY <1>7, <2>1, <2>2, <2>3 DEF TargetLocked
  <2>5. lc \in Rows
    BY <1>4, <2>1, <2>2 DEF Rows
  <2>q. QED
    BY <1>3, <2>2, <2>4, <2>5
<1>13. PackageOK(View(q), p)'
  BY <1>2, <1>11 DEF PackageOK, BuildsOf
<1>q. QED
  BY <1>12, <1>13 DEF HeldOK

(* What the process that takes a step keeps *)
Pointers(q) ==
    /\ LastCompleteConsistent' /\ FlagOwned' /\ DeletedOwned'
    /\ \A p \in Packages : HeldOK(q, p)'

Calm(q) == \A p \in Packages : ~ Between(q, p) /\ ~ Between(q, p)'

LEMMA EditsPointers ==
    ASSUME TypeInv, UniqueInv, FinishInv, PointerInv, NEW q \in Procs, Edits(q), Calm(q)
    PROVE  Pointers(q)
<1>1. PICK f, key :
         /\ Write(q, f, key) /\ MayWrite(q, f)
         /\ \A b \in DOMAIN f \cap BuildIds : EditsBuild(q, b, f[b])
         /\ \A r \in DOMAIN f \cap Packages : EditsPackage(q, r, f[r])
  BY DEF Edits
<1>2. LastCompleteConsistent' /\ FlagOwned' /\ DeletedOwned'
  BY <1>1, WriteOwned
<1>3. ASSUME NEW p \in Packages
      PROVE  HeldOK(q, p)'
  <2>1. ~ Between(q, p) /\ ~ Between(q, p)'
    BY DEF Calm
  <2>q. QED
    BY <1>1, <2>1, WriteHeld
<1>q. QED
  BY <1>2, <1>3 DEF Pointers

LEMMA QuietPointers ==
    ASSUME PointerInv, NEW q \in Procs, UNCHANGED <<db, work, xlock>>, Calm(q)
    PROVE  Pointers(q)
<1>1. LastCompleteConsistent' /\ FlagOwned' /\ DeletedOwned'
  BY DEF PointerInv, LastCompleteConsistent, FlagOwned, DeletedOwned, BuildsOf
<1>2. View(q)' = View(q)
  BY DEF View
<1>3. ASSUME NEW p \in Packages
      PROVE  HeldOK(q, p)'
  <2>1. HeldOK(q, p) /\ ~ Between(q, p) /\ ~ Between(q, p)'
    BY DEF Calm, PointerInv
  <2>2. TargetLocked(q, p) => TargetLocked(q, p)'
    BY DEF TargetLocked
  <2>3. PackageOK(View(q), p) => PackageOK(View(q), p)'
    BY <1>2 DEF PackageOK, BuildsOf
  <2>q. QED
    BY <2>1, <2>2, <2>3 DEF HeldOK
<1>q. QED
  BY <1>1, <1>3 DEF Pointers

LEMMA EndingPointers ==
    ASSUME TypeInv, UniqueInv, FinishInv, PointerInv, NEW q \in Procs,
           \/ Commit(q) /\ proc[q].pc \notin {"trigger_flags", "skip_flags"}
           \/ Rollback(q)
    PROVE  Pointers(q)
BY CommitPointers, RollbackPointers, ReleasedHeld DEF Pointers, Commit, Rollback

-----------------------------------------------------------------------------
(* The packages that other processes hold. What a step makes public of the  *)
(* builds of others does not matter to them                                 *)
Alike(y, x) == x # NULL /\ Kept(y, x) /\ y.last_complete = x.last_complete

Published(b) == db'[b] = db[b] \/ db'[b] = work[b] \/ Alike(db'[b], db[b])

LEMMA HeldStays ==
    ASSUME TypeInv, UniqueInv, FinishInv, PointerInv, NEW o \in Procs, NEW p \in Packages,
           Held(o), proc'[o] = proc[o], \A b \in BuildIds : Published(b)
    PROVE  HeldOK(o, p)'
<1> DEFINE v == View(o)
           lc == v[p].last_complete_build
<1>1. SUFFICES ASSUME xlock'[p] = o
               PROVE  HeldOK(o, p)'
  BY DEF HeldOK
<1>2. /\ p \in Rows /\ xlock[p] = o /\ v[p] = work[p] /\ v'[p] = work'[p]
      /\ work'[p] = work[p] /\ db'[p] = db[p] /\ lc \in BuildIds \cup {NULL}
  BY <1>1, SeenPackage DEF Held, View
<1>3. CASE Between(o, p)
  BY <1>2, <1>3 DEF PointerInv, HeldOK, Between, Moved
<1>4. CASE ~ Between(o, p)
  <2>1. PackageOK(v, p) /\ TargetLocked(o, p) /\ ~ Between(o, p)'
    BY <1>2, <1>4 DEF PointerInv, HeldOK, Between
  <2>2. ASSUME NEW b \in BuildIds
        PROVE  /\ BuildKept(v'[b], v[b], p)
               /\ lc = b => v'[b] # NULL
    <3>1. b \in Rows /\ (lc = b => v[b] # NULL /\ v[b].package = p)
      BY <2>1, RowsAssumption DEF Rows, BuildIds, PackageOK
    <3>2. CASE xlock[b] = o
      BY <3>1, <3>2 DEF Held, View, BuildKept
    <3>3. CASE xlock[b] # o
      <4>1. v[b] = db[b] /\ v'[b] = db'[b]
        BY <3>1, <3>3 DEF Held, View
      <4>2. BuildKept(work[b], db[b], p) /\ (lc = b => work[b] # NULL)
        <5>1. lc = b => db[p].last_complete_build = b
          BY <1>2, <2>1, <3>3, RowsAssumption DEF TargetLocked, BuildIds
        <5>q. QED
          BY <1>2, <3>1, <3>3, <4>1, <5>1, ApartRow DEF PointerInv
      <4>3. CASE db'[b] = db[b] \/ db'[b] = work[b]
        BY <3>1, <4>1, <4>2, <4>3 DEF BuildKept
      <4>4. CASE Alike(db'[b], db[b])
        BY <4>1, <4>4 DEF Alike, Kept, SameIdent, BuildKept
      <4>q. QED
        BY <4>3, <4>4 DEF Published
    <3>q. QED
      BY <3>2, <3>3
  <2>3. lc # NULL => v'[lc] # NULL
    BY <1>2, <2>2
  <2>4. PICK w : w = v'
    OBVIOUS
  <2>5. PackageOK(w, p)
    BY <1>2, <2>1, <2>2, <2>3, <2>4, PackageKept
  <2>6. PackageOK(View(o), p)'
    BY <2>4, <2>5 DEF PackageOK, BuildsOf
  <2>7. TargetLocked(o, p)'
    <3>1. \A r \in Rows : xlock[r] = o => xlock'[r] = o
      BY DEF Held
    <3>2. work[p].last_complete_build \in Rows \cup {NULL}
      BY <1>2 DEF Rows
    <3>q. QED
      BY <1>2, <2>1, <3>1, <3>2 DEF TargetLocked
  <2>q. QED
    BY <2>1, <2>6, <2>7 DEF HeldOK
<1>q. QED
  BY <1>3, <1>4

-----------------------------------------------------------------------------
(* The build that update_last_build takes for the last complete one *)
LEMMA CompleteBuildTagged ==
    ASSUME TypeInv, NEW q \in Procs, NEW p \in Packages,
           LastCompleteBuildOf(View(q), p) # NULL
    PROVE  LastCompleteBuildOf(View(q), p) \in TaggedBuildsOf(View(q), p)
<1> DEFINE v == View(q)
           lb == LastBuildOf(v, p)
           S == {b \in TaggedBuildsOf(v, p) : v[b].state \in FinishedStates}
<1>1. \A b \in TaggedBuildsOf(v, p) : b \in BuildIds /\ v[b].started \in Stamps
  BY ViewType DEF TaggedBuildsOf, BuildsOf, TypeTable, BuildRow
<1>2. lb = NULL \/ lb \in TaggedBuildsOf(v, p)
  <2>1. TaggedBuildsOf(v, p) \in SUBSET BuildIds
    BY <1>1
  <2>q. QED
    BY <1>1, <2>1, LatestIn DEF LastBuildOf
<1>3. Latest(v, S) = NULL \/ Latest(v, S) \in S
  <2>1. S \in SUBSET BuildIds /\ \A b \in S : v[b].started \in Stamps
    BY <1>1
  <2> HIDE DEF S
  <2>q. QED
    BY <2>1, LatestIn
<1>4. LastCompleteBuildOf(v, p) =
         IF lb # NULL /\ v[lb].state = RUNNING THEN Latest(v, S) ELSE lb
  BY DEF LastCompleteBuildOf
<1>5. LastCompleteBuildOf(v, p) \in {Latest(v, S), lb}
  BY <1>4
<1> HIDE DEF lb
<1>q. QED
  BY <1>2, <1>3, <1>5
(* What update_last_build has read stays true until it has written it *)
LEMMA BelongsStays ==
    ASSUME TypeInv, [Next]_vars, NEW b \in BuildIds, NEW p, Belongs(b, p)
    PROVE  Belongs(b, p)'
<1>1. b < nextId' /\ b # nextId
  <2>1. b \in Int /\ b < nextId
    BY DEF BuildIds, Belongs
  <2>q. QED
    BY <2>1, NextIdGrows
<1>q. QED
  BY <1>1, NextRows
     DEF Belongs, RowStep, BuildStep, Finishes, Deletes, Inserts, Registers, Kept, SameIdent

LEMMA EndsHeld ==
    ASSUME TypeInv, KojiInv, [Next]_vars, NEW o \in Procs, Held(o), NEW b \in BuildIds, NEW s,
           Ends(o, b, s)
    PROVE  Ends(o, b, s)'
<1>1. b \in Rows /\ s \in FinishedStates
  BY DEF Rows, Ends
<1>2. PICK S \in SUBSET Ended : S = {IF s = COMPLETE THEN "CLOSED" ELSE "FAILED"}
  BY DEF Ended
<1>3. TaskIn(b, S)'
  BY <1>2, TaskInStays DEF Ends
<1>4. CASE xlock[b] = o
  BY <1>1, <1>2, <1>3, <1>4 DEF Held, Ends, TaskIn, Over
<1>5. CASE xlock[b] # o
  <2>1. Closed(b)'
    BY <1>5, ClosedStays DEF Ends, Closed, TaskIn
  <2>q. QED
    BY <1>1, <1>2, <1>3, <2>1 DEF Ends, Closed, TaskIn
<1>q. QED
  BY <1>4, <1>5

LEMMA FiringHeld ==
    ASSUME TypeInv, KojiInv, [Next]_vars, NEW o \in Procs, Firing(o), Held(o), proc'[o] = proc[o]
    PROVE  Firing(o)'
<1> DEFINE l == proc[o]
<1>1. l.pc \in {"trigger_package", "trigger_flags", "skip_flags"} => l.p \in Packages
  BY DEF TypeInv, ProcInv, LocalOK, NoPackagePCs
<1>2. l.pc \in {"lock", "delete"} => l.b \in BuildIds
  BY UpdateLocals DEF UpdatePCs
<1>3. l.pc \in {"trigger_flags", "skip_flags"} => xlock'[l.p] = o
  BY <1>1 DEF Firing, Held, Rows
<1>4. ASSUME l.pc \in {"trigger_package", "trigger_flags"}, l.lcb \notin {Keep, NULL}
      PROVE  l.lcb \in BuildIds /\ Belongs(l.lcb, l.p)' /\ Ends(o, l.lcb, l.lcs)'
  <2>1. PICK b \in BuildIds : b = l.lcb
    BY <1>4 DEF Firing
  <2>2. PICK p, s : p = l.p /\ s = l.lcs
    OBVIOUS
  <2>3. Belongs(b, p) /\ Ends(o, b, s)
    BY <1>4, <2>1, <2>2 DEF Firing
  <2>4. Belongs(b, p)' /\ Ends(o, b, s)'
    BY <2>3, BelongsStays, EndsHeld
  <2>5. Belongs(l.lcb, l.p)'
    BY <2>1, <2>2, <2>4 DEF Belongs
  <2>6. Ends(o, l.lcb, l.lcs)'
    BY <2>1, <2>2, <2>4 DEF Ends, TaskIn
  <2>q. QED
    BY <2>1, <2>5, <2>6
<1>5. ASSUME l.pc \in {"lock", "delete"}
      PROVE  Belongs(l.b, l.p)'
  <2>1. PICK b \in BuildIds : b = l.b
    BY <1>2, <1>5
  <2>2. PICK p : p = l.p
    OBVIOUS
  <2>3. Belongs(b, p)'
    BY <1>5, <2>1, <2>2, BelongsStays DEF Firing
  <2>q. QED
    BY <2>1, <2>2, <2>3 DEF Belongs
<1>6. (l.pc \in {"trigger_package", "trigger_flags"} /\ l.lcb = NULL) => l.lcs = NULL
  BY DEF Firing
<1>q. QED
  BY <1>3, <1>4, <1>5, <1>6 DEF Firing

LEMMA TriggerReadFiring ==
    ASSUME TypeInv, UniqueInv, FinishInv, NEW q \in Procs, TriggerRead(q),
           UNCHANGED kojiVars
    PROVE  Firing(q)'
<1> DEFINE v   == View(q)
           p   == proc[q].p
           lb  == LastBuildOf(v, p)
           lcb == LastCompleteBuildOf(v, p)
           x   == IF lb = v[p].last_build THEN Keep ELSE lb
           y   == IF lcb = v[p].last_complete_build THEN Keep ELSE lcb
           z   == IF lcb = v[p].last_complete_build \/ lcb = NULL THEN NULL ELSE v[lcb].state
<1>1. /\ proc \in [Procs -> Local] /\ proc[q] \in Local /\ p \in Packages /\ proc[q].pc = "trigger"
      /\ proc[q].ret \in {"commit", "registered", "retag", "refreshed", "reset"}
  BY DEF TriggerRead, TypeInv, Locals, ProcInv, LocalOK, NoPackagePCs, TriggerPCs
<1>2. CASE NextFiring(q)
  BY <1>1, <1>2 DEF NextFiring, Firing, Local
<1>3. CASE proc' = [proc EXCEPT ![q].pc = "trigger_package", ![q].lb = x, ![q].lcb = y,
                                ![q].lcs = z]
  <2>1. /\ proc'[q].pc = "trigger_package" /\ proc'[q].lcb = y /\ proc'[q].lcs = z
        /\ proc'[q].p = p
    BY <1>1, <1>3 DEF Local
  <2>2. y = NULL => z = NULL
    BY RowsAssumption DEF Keep
  <2>3. ASSUME y \notin {Keep, NULL}
        PROVE  y \in BuildIds /\ Belongs(y, p) /\ Ends(q, y, z)
    <3>1. PICK b : b = lcb
      OBVIOUS
    <3>2. y = b /\ z = v[b].state
      BY <2>3, <3>1
    <3>3. b \in BuildIds /\ b \in TaggedBuildsOf(v, p) /\ v[b].state \in FinishedStates
      BY <1>1, <2>3, <3>1, <3>2, CompleteBuildTagged, LastBuildsIn
    <3>4. v[b] # NULL /\ v[b].package = p /\ b \in Rows /\ b < nextId
      BY <3>3, ViewFresh DEF TaggedBuildsOf, BuildsOf, Rows
    <3>5. v[b] = IF xlock[b] = q THEN work[b] ELSE db[b]
      BY <3>4 DEF View
    <3>6. (db[b] # NULL /\ work[b] # NULL)
             => /\ work[b].package = db[b].package /\ work[b].task = db[b].task
                /\ db[b].state \in FinishedStates => work[b].state = db[b].state
      BY <3>3 DEF UniqueInv, IdentKept, SameIdent, FinishInv, StateKept
    <3>7. Belongs(b, p)
      BY <3>4, <3>5, <3>6 DEF Belongs
    <3>8. Ends(q, b, v[b].state)
      <4>1. RowMatches(v[b])
        BY <3>3, <3>5 DEF FinishInv, RowsMatch
      <4>2. koji[v[b].task] = IF v[b].state = COMPLETE THEN "CLOSED" ELSE "FAILED"
        BY <3>3, <3>4, <4>1 DEF RowMatches
      <4>3. (db[b] # NULL => db[b].task = v[b].task) /\ (work[b] # NULL => work[b].task = v[b].task)
        BY <3>4, <3>5, <3>6
      <4>4. Over(work[b]) /\ (xlock[b] # q => Over(db[b]))
        BY <3>3, <3>4, <3>5, <3>6 DEF Over
      <4>q. QED
        BY <3>3, <3>4, <4>2, <4>3, <4>4 DEF Ends, TaskIn
    <3>q. QED
      BY <3>2, <3>3, <3>7, <3>8
  <2>4. UNCHANGED <<db, work, xlock, nextId, koji>>
    BY DEF TriggerRead, dbVars, kojiVars
  <2> HIDE DEF y, z
  <2>q. QED
    BY <2>1, <2>2, <2>3, <2>4 DEF Firing, Belongs, Ends, TaskIn, Over
<1>q. QED
  BY <1>2, <1>3 DEF TriggerRead

-----------------------------------------------------------------------------
(* The two UPDATEs of update_last_build, and those of skip_no_srpm. First   *)
(* the package: from here on its builds disagree with it                    *)
LEMMA PackageMoved ==
    ASSUME TypeInv, UniqueInv, FinishInv, PointerInv, NEW q \in Procs, NEW row,
           NEW p \in Packages, WriteBlockers(q, p) = {}, Write(q, [r \in {p} |-> row], {}),
           Between(q, p)', ~ Between(q, p),
           row.last_complete_build =
               (IF proc'[q].pc = "skip_flags" THEN NULL ELSE proc'[q].lcb),
           row.last_complete_build_state =
               (IF proc'[q].pc = "skip_flags" THEN NULL ELSE proc'[q].lcs),
           \A x \in Packages \ {p} : ~ Between(q, x) /\ ~ Between(q, x)'
    PROVE  Pointers(q)
<1> DEFINE f == [r \in {p} |-> row]
<1>1. p \in Rows /\ p \notin BuildIds
  BY SeenPackage
<1>2. xlock[p] \in {q, NULL}
  BY <1>1, NotBlocked
<1>3. DOMAIN f = {p} /\ f[p] = row
  OBVIOUS
<1>4. Write(q, f, {})
  OBVIOUS
<1> HIDE DEF f
<1>5. MayWrite(q, f)
  BY <1>1, <1>2, <1>3 DEF MayWrite
<1>6. LastCompleteConsistent' /\ FlagOwned' /\ DeletedOwned'
  BY <1>4, <1>5, WriteOwned
<1>7. work'[p] = row
  BY <1>1, <1>3, <1>4, <1>5, Written
<1>8. HeldOK(q, p)'
  BY <1>7 DEF HeldOK, Moved
<1>9. ASSUME NEW x \in Packages \ {p}
      PROVE  HeldOK(q, x)'
  BY <1>1, <1>3, <1>4, <1>5, WriteHeld
<1>q. QED
  BY <1>6, <1>8, <1>9 DEF Pointers

(* Then the flags: they agree again *)
LEMMA FlagsMoved ==
    ASSUME TypeInv, UniqueInv, FinishInv, PointerInv, NEW q \in Procs, NEW f,
           NEW p \in Packages, xlock[p] = q, NEW c, NEW s,
           work[p].last_complete_build = c, work[p].last_complete_build_state = s,
           c = NULL => s = NULL,
           c # NULL => /\ c \in BuildIds /\ c \in DOMAIN f
                       /\ View(q)[c].state = s /\ s \in FinishedStates,
           Write(q, f, {}), DOMAIN f \subseteq BuildIds,
           \A b \in DOMAIN f :
               /\ xlock[b] \in {q, NULL}
               /\ View(q)[b] # NULL /\ View(q)[b].package = p
               /\ f[b] = [View(q)[b] EXCEPT !.last_complete = (b = c)],
           \A b \in BuildsOf(View(q), p) : View(q)[b].last_complete => b \in DOMAIN f,
           \A x \in Packages : ~ Between(q, x)' /\ (x # p => ~ Between(q, x))
    PROVE  Pointers(q)
<1> DEFINE v == View(q)
<1>1. p \in Rows /\ p \notin BuildIds /\ p \notin DOMAIN f
  BY SeenPackage
<1>2. ASSUME NEW b \in DOMAIN f
      PROVE  /\ b \in BuildIds /\ b \in Rows
             /\ f[b] # NULL /\ f[b].package = p /\ f[b].state = v[b].state
             /\ f[b].last_complete <=> b = c
  <2>1. b \in BuildIds /\ b \in Rows
    BY DEF Rows
  <2>2. v[b] \in BuildRow
    BY <2>1, SeenRow
  <2>3. f[b] = [v[b] EXCEPT !.last_complete = (b = c)] /\ v[b].package = p
    OBVIOUS
  <2>4. f[b] \in BuildRow /\ f[b].package = p /\ f[b].state = v[b].state
        /\ (f[b].last_complete <=> b = c)
    <3> DEFINE t == (b = c)
    <3>1. t \in BOOLEAN
      OBVIOUS
    <3> HIDE DEF t
    <3>2. /\ [v[b] EXCEPT !.last_complete = t] \in BuildRow
          /\ [v[b] EXCEPT !.last_complete = t].package = v[b].package
          /\ [v[b] EXCEPT !.last_complete = t].state = v[b].state
          /\ [v[b] EXCEPT !.last_complete = t].last_complete = t
      BY <2>2, <3>1 DEF BuildRow
    <3>q. QED
      BY <2>3, <3>2 DEF t
  <2>5. f[b] # NULL
    BY <2>4, NullAssumption
  <2>q. QED
    BY <2>1, <2>4, <2>5
<1>3. \A b \in DOMAIN f : FlagsBuild(q, b, f[b])
  BY <1>2 DEF FlagsBuild
<1>4. MayWrite(q, f)
  BY <1>2, <1>3 DEF MayWrite
<1>5. LastCompleteConsistent' /\ FlagOwned' /\ DeletedOwned'
  BY <1>4, WriteOwned
<1>6. ASSUME NEW x \in Packages, x # p
      PROVE  HeldOK(q, x)'
  <2>1. \A b \in DOMAIN f \cap BuildIds : FlagsBuild(q, b, f[b]) /\ v[b].package # x
    BY <1>3, <1>6
  <2>2. x \notin DOMAIN f
    BY SeenPackage
  <2>3. ~ Between(q, x) /\ ~ Between(q, x)'
    BY <1>6
  <2>q. QED
    BY <1>4, <2>1, <2>2, <2>3, WriteHeld
<1>7. PICK w : w = View(q)'
  OBVIOUS
<1>8. \A r \in Rows : /\ work'[r] = IF r \in DOMAIN f THEN f[r] ELSE work[r]
                      /\ xlock'[r] = IF r \in DOMAIN f THEN q ELSE xlock[r]
                      /\ w[r] = IF r \in DOMAIN f THEN f[r] ELSE v[r]
  BY <1>4, <1>7, Written
<1>9. /\ w[p].last_complete_build = c /\ w[p].last_complete_build_state = s
      /\ work'[p].last_complete_build = c
  BY <1>1, <1>8 DEF View
<1>10. c # NULL => /\ c \in Rows /\ w[c] # NULL /\ w[c].package = p /\ w[c].state = s
                   /\ xlock'[c] = q
  BY <1>2, <1>8
<1>11. ASSUME NEW b \in BuildsOf(w, p)
       PROVE  w[b].last_complete <=> b = c
  <2>1. b \in BuildIds /\ b \in Rows /\ w[b] # NULL /\ w[b].package = p
    BY <1>11 DEF BuildsOf, Rows
  <2>2. CASE b \in DOMAIN f
    BY <1>2, <1>8, <2>1, <2>2
  <2>3. CASE b \notin DOMAIN f
    <3>1. w[b] = v[b] /\ b \in BuildsOf(v, p)
      BY <1>8, <2>1, <2>3 DEF BuildsOf
    <3>2. b # c
      BY <2>1, <2>3, RowsAssumption DEF BuildIds
    <3>3. ~ v[b].last_complete
      BY <2>3, <3>1
    <3>q. QED
      BY <3>1, <3>2, <3>3
  <2>q. QED
    BY <2>2, <2>3
<1>12. PackageOK(w, p)
  BY <1>9, <1>10, <1>11 DEF PackageOK
<1>13. PackageOK(View(q), p)'
  BY <1>7, <1>12 DEF PackageOK, BuildsOf
<1>14. TargetLocked(q, p)'
  BY <1>9, <1>10 DEF TargetLocked
<1>15. HeldOK(q, p)'
  BY <1>13, <1>14 DEF HeldOK
<1>q. QED
  BY <1>5, <1>6, <1>15 DEF Pointers

LEMMA PackageEdits ==
    ASSUME TypeInv, NEW q \in Procs, NEW p \in Packages, NEW f, NEW key, DOMAIN f \subseteq {p},
           DOMAIN f # {} => WriteBlockers(q, p) = {} /\ EditsPackage(q, p, f[p]),
           Write(q, f, key)
    PROVE  Edits(q)
<1>1. p \in Rows /\ p \notin BuildIds
  BY SeenPackage
<1>2. DOMAIN f # {} => xlock[p] \in {q, NULL}
  BY <1>1, NotBlocked
<1>3. MayWrite(q, f)
  BY <1>1, <1>2 DEF MayWrite
<1>4. /\ \A b \in DOMAIN f \cap BuildIds : EditsBuild(q, b, f[b])
      /\ \A r \in DOMAIN f \cap Packages : EditsPackage(q, r, f[r])
  BY <1>1
<1>q. QED
  BY <1>3, <1>4 DEF Edits

LEMMA TriggerPackagePointers ==
    ASSUME TypeInv, UniqueInv, FinishInv, PointerInv, NEW q \in Procs, TriggerPackage(q)
    PROVE  Pointers(q)
<1> DEFINE l == proc[q]
           p == l.p
           old == View(q)[p]
           row == [old EXCEPT !.last_build = IF l.lb = Keep THEN @ ELSE l.lb,
                              !.last_complete_build = IF l.lcb = Keep THEN @ ELSE l.lcb,
                              !.last_complete_build_state = IF l.lcb = Keep THEN @ ELSE l.lcs]
           f == [r \in {p} |-> row]
<1>1. proc \in [Procs -> Local] /\ l \in Local /\ p \in Packages /\ l.pc = "trigger_package"
  BY DEF TriggerPackage, TypeInv, Locals, ProcInv, LocalOK, NoPackagePCs
<1>2. proc'[q].pc = "trigger_flags" /\ proc'[q].lcb = l.lcb /\ proc'[q].lcs = l.lcs
      /\ proc'[q].p = p
  BY <1>1 DEF TriggerPackage, Goto, Local
<1>3. old \in PackageRow
  BY <1>1, SeenPackage
<1>4. /\ row.last_complete_build = IF l.lcb = Keep THEN old.last_complete_build ELSE l.lcb
      /\ row.last_complete_build_state =
             IF l.lcb = Keep THEN old.last_complete_build_state ELSE l.lcs
  BY <1>3 DEF PackageRow
<1>5. Write(q, [r \in {p} |-> row], {}) /\ WriteBlockers(q, p) = {}
  BY DEF TriggerPackage
<1> HIDE DEF row
<1>6. CASE l.lcb = Keep
  <2>1. DOMAIN f = {p} /\ EditsPackage(q, p, f[p])
    BY <1>4, <1>6 DEF EditsPackage
  <2>2. Edits(q)
    BY <1>1, <1>5, <2>1, PackageEdits
  <2>3. Calm(q)
    BY <1>1, <1>2, <1>6 DEF Calm, Between
  <2>q. QED
    BY <2>2, <2>3, EditsPointers
<1>7. CASE l.lcb # Keep
  <2>1. Between(q, p)' /\ ~ Between(q, p)
        /\ \A x \in Packages \ {p} : ~ Between(q, x) /\ ~ Between(q, x)'
    BY <1>1, <1>2, <1>7 DEF Between
  <2>2. row.last_complete_build = (IF proc'[q].pc = "skip_flags" THEN NULL ELSE proc'[q].lcb)
        /\ row.last_complete_build_state =
               (IF proc'[q].pc = "skip_flags" THEN NULL ELSE proc'[q].lcs)
    BY <1>2, <1>4, <1>7
  <2>q. QED
    BY <1>1, <1>2, <1>5, <2>1, <2>2, PackageMoved
<1>q. QED
  BY <1>6, <1>7

LEMMA SkipPackagePointers ==
    ASSUME TypeInv, UniqueInv, FinishInv, PointerInv, NEW q \in Procs, SkipPackage(q)
    PROVE  Pointers(q)
<1> DEFINE p == proc[q].p
           old == View(q)[p]
           row == [old EXCEPT !.resolved = NULL, !.last_build = NULL,
                              !.last_complete_build = NULL,
                              !.last_complete_build_state = NULL,
                              !.manual_priority = IF proc[q].cont = "reset" THEN 0 ELSE @]
<1>1. proc \in [Procs -> Local] /\ proc[q] \in Local /\ p \in Packages /\ proc[q].pc = "skip"
  BY DEF SkipPackage, TypeInv, Locals, ProcInv, LocalOK, NoPackagePCs
<1>2. proc'[q].pc = "skip_flags" /\ proc'[q].p = p
  BY <1>1 DEF SkipPackage, Goto, Local
<1>3. old \in PackageRow
  BY <1>1, SeenPackage
<1>4. row.last_complete_build = NULL /\ row.last_complete_build_state = NULL
  BY <1>3 DEF PackageRow
<1>5. Write(q, [r \in {p} |-> row], {}) /\ WriteBlockers(q, p) = {}
  BY DEF SkipPackage
<1> HIDE DEF row
<1>6. Between(q, p)' /\ ~ Between(q, p)
      /\ \A x \in Packages \ {p} : ~ Between(q, x) /\ ~ Between(q, x)'
  BY <1>1, <1>2 DEF Between
<1>q. QED
  BY <1>1, <1>2, <1>4, <1>5, <1>6, PackageMoved

LEMMA NextFiringFields ==
    ASSUME TypeInv, NEW q \in Procs, proc[q].pc \in TriggerPCs, NextFiring(q)
    PROVE  /\ proc'[q].lcb = Keep
           /\ proc'[q].pc \notin
                 {"trigger_package", "trigger_flags", "skip_flags", "lock", "delete"}
<1>1. proc \in [Procs -> Local] /\ proc[q] \in Local
      /\ proc[q].ret \in {"commit", "registered", "retag", "refreshed", "reset"}
  BY DEF TypeInv, Locals, ProcInv, LocalOK
<1>q. QED
  BY <1>1 DEF NextFiring, Local

LEMMA TriggerFlagsPointers ==
    ASSUME TypeInv, UniqueInv, FinishInv, PointerInv, NEW q \in Procs, TriggerFlags(q)
    PROVE  Pointers(q)
<1> DEFINE l == proc[q]
           p == l.p
           v == View(q)
           f == [r \in Flagged(q) |-> [v[r] EXCEPT !.last_complete = (r = l.lcb)]]
<1>1. l \in Local /\ p \in Packages /\ l.pc = "trigger_flags"
  BY DEF TriggerFlags, TypeInv, Locals, ProcInv, LocalOK, NoPackagePCs
<1>2. proc'[q].lcb = Keep /\ proc'[q].pc # "skip_flags"
  BY <1>1, NextFiringFields DEF TriggerFlags, TriggerPCs
<1>3. \A x \in Packages : ~ Between(q, x)' /\ (x # p => ~ Between(q, x))
  BY <1>1, <1>2 DEF Between
<1>4. Write(q, f, {})
  BY DEF TriggerFlags
<1>5. CASE l.lcb = Keep
  <2>1. Flagged(q) = {}
    BY <1>5 DEF Flagged
  <2>2. DOMAIN f = {}
    BY <2>1
  <2> HIDE DEF f
  <2>3. Edits(q)
    BY <1>1, <1>4, <2>2, PackageEdits
  <2>4. Calm(q)
    BY <1>1, <1>3, <1>5 DEF Calm, Between
  <2>q. QED
    BY <2>3, <2>4, EditsPointers
<1>6. CASE l.lcb # Keep
  <2> DEFINE c == l.lcb
             s == l.lcs
  <2>1. xlock[p] = q /\ Moved(q, p) /\ Firing(q)
    BY <1>1, <1>6 DEF PointerInv, Firing, HeldOK, Between
  <2>2. /\ work[p].last_complete_build = c /\ work[p].last_complete_build_state = s
        /\ c = NULL => s = NULL
    BY <1>1, <2>1 DEF Moved, Firing
  <2>3. Flagged(q) = {b \in BuildsOf(v, p) : v[b].last_complete} \cup ({c} \ {NULL})
    BY <1>6 DEF Flagged
  <2>4. ASSUME c # NULL
        PROVE  /\ c \in BuildIds /\ v[c] # NULL /\ v[c].package = p
               /\ v[c].state = s /\ s \in FinishedStates
    <3>1. c \in BuildIds /\ Belongs(c, p) /\ Ends(q, c, s)
      BY <1>1, <1>6, <2>1, <2>4 DEF Firing
    <3>2. v[c] # NULL
      BY <1>6, <2>4 DEF TriggerFlags, Referenced
    <3>3. c \in Rows
      BY <3>1 DEF Rows
    <3>4. v[c] = IF xlock[c] = q THEN work[c] ELSE db[c]
      BY <3>3 DEF View
    <3>5. v[c].package = p
      BY <3>1, <3>2, <3>4 DEF Belongs
    <3>6. s \in FinishedStates /\ v[c].state \in FinishedStates
          /\ koji[v[c].task] = IF s = COMPLETE THEN "CLOSED" ELSE "FAILED"
      BY <3>1, <3>2, <3>4 DEF Ends, TaskIn, Over
    <3>7. koji[v[c].task] = IF v[c].state = COMPLETE THEN "CLOSED" ELSE "FAILED"
      BY <3>1, <3>2, <3>4, <3>6 DEF FinishInv, RowsMatch, RowMatches
    <3>8. v[c].state = s
      BY <3>6, <3>7 DEF FinishedStates, COMPLETE, FAILED
    <3>q. QED
      BY <3>1, <3>2, <3>5, <3>6, <3>8
  <2>5. DOMAIN f \subseteq BuildIds /\ \A b \in DOMAIN f : v[b] # NULL /\ v[b].package = p
    BY <2>3, <2>4 DEF BuildsOf
  <2>6. \A b \in DOMAIN f : f[b] = [v[b] EXCEPT !.last_complete = (b = c)]
    OBVIOUS
  <2>7. \A b \in DOMAIN f : xlock[b] \in {q, NULL}
    <3>1. ASSUME NEW r \in Flagged(q), NEW o \in WriteBlockers(q, r)
          PROVE  o \in TriggerFlagsBlockers(q)
      BY <3>1 DEF TriggerFlagsBlockers
    <3>q. QED
      BY <3>1 DEF TriggerFlags, WriteBlockers
  <2>8. (c # NULL => c \in DOMAIN f)
        /\ \A b \in BuildsOf(v, p) : v[b].last_complete => b \in DOMAIN f
    BY <2>3
  <2> HIDE DEF f
  <2>q. QED
    BY <1>1, <1>3, <1>4, <2>1, <2>2, <2>4, <2>5, <2>6, <2>7, <2>8, FlagsMoved
<1>q. QED
  BY <1>5, <1>6

LEMMA SkipFlagsPointers ==
    ASSUME TypeInv, UniqueInv, FinishInv, PointerInv, NEW q \in Procs, SkipFlags(q)
    PROVE  Pointers(q)
<1> DEFINE p == proc[q].p
           v == View(q)
           f == [r \in SkipFlagged(q) |-> [v[r] EXCEPT !.last_complete = FALSE]]
<1>1. /\ proc \in [Procs -> Local] /\ proc[q] \in Local /\ p \in Packages
      /\ proc[q].pc = "skip_flags"
  BY DEF SkipFlags, TypeInv, Locals, ProcInv, LocalOK, NoPackagePCs
<1>2. proc'[q].pc = "skipped"
  BY <1>1 DEF SkipFlags, Goto, Local
<1>3. \A x \in Packages : ~ Between(q, x)' /\ (x # p => ~ Between(q, x))
  BY <1>1, <1>2 DEF Between
<1>4. Write(q, f, {})
  BY DEF SkipFlags
<1>5. xlock[p] = q /\ Moved(q, p)
  BY <1>1 DEF PointerInv, Firing, HeldOK, Between
<1>6. work[p].last_complete_build = NULL /\ work[p].last_complete_build_state = NULL
  BY <1>1, <1>5 DEF Moved
<1>7. DOMAIN f \subseteq BuildIds /\ \A b \in DOMAIN f : v[b] # NULL /\ v[b].package = p
  BY DEF SkipFlagged, BuildsOf
<1>8. ASSUME NEW b \in DOMAIN f
      PROVE  f[b] = [v[b] EXCEPT !.last_complete = (b = NULL)]
  <2>1. (b = NULL) = FALSE
    BY <1>7, RowsAssumption DEF BuildIds
  <2>2. f[b] = [v[b] EXCEPT !.last_complete = FALSE]
    OBVIOUS
  <2>q. QED
    BY <2>1, <2>2, Zenon
<1>9. \A b \in DOMAIN f : xlock[b] \in {q, NULL}
  <2>1. ASSUME NEW r \in SkipFlagged(q), NEW o \in WriteBlockers(q, r)
        PROVE  o \in SkipFlagsBlockers(q)
    BY <2>1 DEF SkipFlagsBlockers
  <2>q. QED
    BY <2>1 DEF SkipFlags, WriteBlockers
<1>10. \A b \in BuildsOf(v, p) : v[b].last_complete => b \in DOMAIN f
  BY DEF SkipFlagged
<1> HIDE DEF f
<1>q. QED
  BY <1>1, <1>3, <1>4, <1>5, <1>6, <1>7, <1>8, <1>9, <1>10, FlagsMoved

-----------------------------------------------------------------------------
(* What the acting process knows of the build that its next UPDATE is about *)
FirePCs == {"trigger_package", "trigger_flags", "skip_flags"}

LEMMA MovedFiring ==
    ASSUME TypeInv, PointerInv, NEW q \in Procs, NEW p \in Packages, proc[q].p = p,
           WriteBlockers(q, p) = {}, NEW row, Write(q, [r \in {p} |-> row], {}),
           UNCHANGED <<nextId, koji>>,
           proc'[q].p = p,
           \/ proc'[q].pc = "skip_flags"
           \/ /\ proc[q].pc = "trigger_package" /\ proc'[q].pc = "trigger_flags"
              /\ proc'[q].lcb = proc[q].lcb /\ proc'[q].lcs = proc[q].lcs
    PROVE  Firing(q)'
<1> DEFINE c == proc[q].lcb
           s == proc[q].lcs
<1>1. p \in Rows /\ p \notin BuildIds
  BY SeenPackage
<1>2. xlock'[p] = q
  BY <1>1 DEF Write
<1>3. \A b \in BuildIds : /\ db'[b] = db[b] /\ work'[b] = work[b] /\ xlock'[b] = xlock[b]
  BY <1>1 DEF Write, Rows
<1>4. CASE proc'[q].pc = "skip_flags"
  BY <1>2, <1>4 DEF Firing
<1>5. CASE /\ proc[q].pc = "trigger_package" /\ proc'[q].pc = "trigger_flags"
           /\ proc'[q].lcb = c /\ proc'[q].lcs = s
  <2>1. Firing(q)
    BY DEF PointerInv
  <2>2. c = NULL => s = NULL
    BY <1>5, <2>1 DEF Firing
  <2>3. ASSUME c \notin {Keep, NULL}
        PROVE  c \in BuildIds /\ Belongs(c, p) /\ Ends(q, c, s)
    BY <1>5, <2>1, <2>3 DEF Firing
  <2>4. ASSUME c \notin {Keep, NULL}
        PROVE  /\ db'[c] = db[c] /\ work'[c] = work[c] /\ xlock'[c] = xlock[c]
    BY <1>3, <2>3, <2>4
  <2>5. PICK d, t : d = c /\ t = s
    OBVIOUS
  <2>6. ASSUME d \notin {Keep, NULL}
        PROVE  d \in BuildIds /\ Belongs(d, p)' /\ Ends(q, d, t)'
    <3>1. d \in BuildIds /\ Belongs(d, p) /\ Ends(q, d, t)
      BY <2>3, <2>5, <2>6
    <3>2. db'[d] = db[d] /\ work'[d] = work[d] /\ xlock'[d] = xlock[d]
      BY <2>4, <2>5, <2>6
    <3>q. QED
      BY <3>1, <3>2 DEF Belongs, Ends, TaskIn, Over
  <2>7. proc'[q].lcb = d /\ proc'[q].lcs = t /\ (d = NULL => t = NULL)
    BY <1>5, <2>2, <2>5
  <2>q. QED
    BY <1>2, <1>5, <2>6, <2>7 DEF Firing, Belongs, Ends, TaskIn, Over
<1>q. QED
  BY <1>4, <1>5

LEMMA TriggerPackageFiring ==
    ASSUME TypeInv, PointerInv, NEW q \in Procs, TriggerPackage(q), UNCHANGED kojiVars
    PROVE  Firing(q)'
<1>1. /\ proc \in [Procs -> Local] /\ proc[q] \in Local /\ proc[q].p \in Packages
      /\ proc[q].pc = "trigger_package"
  BY DEF TriggerPackage, TypeInv, Locals, ProcInv, LocalOK, NoPackagePCs
<1>2. /\ proc'[q].pc = "trigger_flags" /\ proc'[q].p = proc[q].p
      /\ proc'[q].lcb = proc[q].lcb /\ proc'[q].lcs = proc[q].lcs
  BY <1>1 DEF TriggerPackage, Goto, Local
<1>3. PICK row : Write(q, [r \in {proc[q].p} |-> row], {})
  BY DEF TriggerPackage
<1>4. WriteBlockers(q, proc[q].p) = {} /\ UNCHANGED <<nextId, koji>>
  BY DEF TriggerPackage, kojiVars
<1>q. QED
  BY <1>1, <1>2, <1>3, <1>4, MovedFiring

LEMMA SkipPackageFiring ==
    ASSUME TypeInv, PointerInv, NEW q \in Procs, SkipPackage(q)
    PROVE  Firing(q)'
<1>1. /\ proc \in [Procs -> Local] /\ proc[q] \in Local /\ proc[q].p \in Packages
      /\ proc[q].pc = "skip"
  BY DEF SkipPackage, TypeInv, Locals, ProcInv, LocalOK, NoPackagePCs
<1>2. proc'[q].pc = "skip_flags" /\ proc'[q].p = proc[q].p
  BY <1>1 DEF SkipPackage, Goto, Local
<1>3. PICK row : Write(q, [r \in {proc[q].p} |-> row], {})
  BY DEF SkipPackage
<1>4. WriteBlockers(q, proc[q].p) = {} /\ UNCHANGED <<nextId, koji>>
  BY DEF SkipPackage, kojiVars
<1>q. QED
  BY <1>1, <1>2, <1>3, <1>4, MovedFiring

LEMMA PlainFiring ==
    ASSUME TypeInv, UniqueInv, [Next]_vars, NEW q \in Procs, Firing(q), Acts(q),
           proc'[q].pc \notin FirePCs
    PROVE  Firing(q)'
<1>1. SUFFICES ASSUME proc'[q].pc \in {"lock", "delete"}
               PROVE  Firing(q)'
  BY DEF Firing, FirePCs
<1>2. Handles(q)
  BY <1>1, Moves, DeletesFields, EmitsFields, FiresFields
     DEF Resets, Aside, At, UpdatePCs, TriggerPCs
<1>3. PICK b, p : b = proc'[q].b /\ p = proc'[q].p
  OBVIOUS
<1>4. b \in BuildIds /\ Belongs(b, p)
  <2>1. CASE proc'[q].pc = "lock"
    <3>1. Decide(q) /\ proc'[q].b = proc[q].b
      BY <1>2, <2>1, HandlesFields
    <3>2. proc[q].b \in BuildIds /\ proc \in [Procs -> Local] /\ proc[q] \in Local
      BY <3>1, UpdateLocals DEF Decide, UpdatePCs, Locals
    <3>3. proc'[q].p = db[proc[q].b].package /\ db[proc[q].b] # NULL
      BY <3>1, <3>2 DEF Decide, Local
    <3>4. b \in BuildIds /\ db[b] # NULL /\ p = db[b].package
      BY <1>3, <3>1, <3>2, <3>3
    <3>q. QED
      BY <3>4, CommittedRow DEF Belongs, UniqueInv, IdentKept, SameIdent
  <2>2. CASE proc'[q].pc = "delete"
    <3>1. LockBuild(q) /\ proc'[q].b = proc[q].b /\ proc'[q].p = proc[q].p
      BY <1>2, <2>2, HandlesFields
    <3>2. proc[q].b \in BuildIds /\ proc[q].pc = "lock"
      BY <3>1, UpdateLocals DEF LockBuild, UpdatePCs
    <3>q. QED
      BY <1>3, <3>1, <3>2 DEF Firing
  <2>q. QED
    BY <1>1, <2>1, <2>2
<1>5. Belongs(b, p)'
  BY <1>4, BelongsStays
<1>q. QED
  BY <1>1, <1>3, <1>5 DEF Firing, FirePCs, Belongs

-----------------------------------------------------------------------------
(* Statements that leave pointers and flags alone *)
LEMMA AlikeRows ==
    \A row \in BuildRow : \A x :
        /\ x \in Stamps => Alike([row EXCEPT !.started = x], row)
        /\ x \in BOOLEAN => /\ Alike([row EXCEPT !.untagged = x], row)
                            /\ Alike([row EXCEPT !.cancel_requested = x], row)
<1>1. SUFFICES ASSUME NEW row \in BuildRow, NEW x
               PROVE  /\ x \in Stamps => Alike([row EXCEPT !.started = x], row)
                      /\ x \in BOOLEAN => /\ Alike([row EXCEPT !.untagged = x], row)
                                          /\ Alike([row EXCEPT !.cancel_requested = x], row)
  OBVIOUS
<1>2. row # NULL
  BY NullAssumption
<1>3. /\ x \in Stamps => Kept([row EXCEPT !.started = x], row)
      /\ x \in BOOLEAN => /\ Kept([row EXCEPT !.untagged = x], row)
                          /\ Kept([row EXCEPT !.cancel_requested = x], row)
  BY UpdateKeeps
<1>4. /\ [row EXCEPT !.started = x].last_complete = row.last_complete
      /\ [row EXCEPT !.untagged = x].last_complete = row.last_complete
      /\ [row EXCEPT !.cancel_requested = x].last_complete = row.last_complete
  BY DEF BuildRow
<1>q. QED
  BY <1>2, <1>3, <1>4 DEF Alike

LEMMA BuildEdits ==
    ASSUME TypeInv, NEW q \in Procs, NEW b \in BuildIds, NEW f, NEW key, DOMAIN f \subseteq {b},
           DOMAIN f # {} => xlock[b] \in {q, NULL} /\ Alike(f[b], View(q)[b]),
           Write(q, f, key)
    PROVE  Edits(q)
<1>1. b \in Rows /\ b \notin Packages
  BY RowsAssumption DEF Rows, BuildIds
<1>2. \A c \in DOMAIN f \cap BuildIds : EditsBuild(q, c, f[c])
  BY DEF EditsBuild, Alike, Kept, SameIdent
<1>3. MayWrite(q, f)
  BY <1>1, <1>2 DEF MayWrite
<1>4. \A r \in DOMAIN f \cap Packages : EditsPackage(q, r, f[r])
  BY <1>1
<1>q. QED
  BY <1>2, <1>3, <1>4 DEF Edits

LEMMA LockBuildEdits ==
    ASSUME TypeInv, NEW q \in Procs, LockBuild(q)
    PROVE  Edits(q)
<1> DEFINE b == proc[q].b
           row == IF MustDelete(q) THEN db[b] ELSE [db[b] EXCEPT !.started = db[b].task]
           f == [r \in {b} |-> row]
<1>1. b \in BuildIds /\ b \in Rows /\ NoLocks(q)
  BY UpdateLocals DEF LockBuild, UpdatePCs, Rows
<1>2. db[b] # NULL /\ Write(q, f, {b})
  BY DEF LockBuild, AlreadyDone
<1>3. xlock[b] \in {q, NULL} /\ View(q)[b] = db[b]
  BY <1>1, NotBlocked DEF LockBuild, ForUpdateBlockers, View, NoLocks, LockFreePCs
<1>4. db[b] \in BuildRow /\ db[b].task \in Stamps
  BY <1>1, <1>2, CommittedRow
<1>5. Alike(row, db[b])
  <2>1. Alike(db[b], db[b])
    BY <1>2 DEF Alike, Kept, SameIdent
  <2>q. QED
    BY <1>4, <2>1, AlikeRows
<1> HIDE DEF row
<1>6. DOMAIN f = {b} /\ f[b] = row
  OBVIOUS
<1> HIDE DEF f
<1>q. QED
  BY <1>1, <1>2, <1>3, <1>5, <1>6, BuildEdits

LEMMA SyncRunningEdits ==
    ASSUME TypeInv, NEW q \in Procs, SyncRunning(q)
    PROVE  Edits(q)
<1> DEFINE b == proc[q].b
           row == [db[b] EXCEPT !.started = db[b].task]
           f == [r \in (IF db[b].started # db[b].task THEN {b} ELSE {}) |-> row]
<1>1. b \in BuildIds /\ b \in Rows /\ NoLocks(q) /\ db[b] # NULL
  BY UpdateLocals DEF SyncRunning, UpdatePCs, Rows
<1>2. View(q)[b] = db[b]
  BY <1>1 DEF View, NoLocks, LockFreePCs, SyncRunning
<1>3. DOMAIN f # {} => xlock[b] \in {q, NULL}
  BY <1>1, NotBlocked DEF SyncRunning, SyncBlockers
<1>4. Alike(row, db[b])
  BY <1>1, CommittedRow, AlikeRows
<1>5. Write(q, f, {})
  BY DEF SyncRunning
<1> HIDE DEF row
<1>6. DOMAIN f \subseteq {b} /\ (DOMAIN f # {} => f[b] = row)
  OBVIOUS
<1> HIDE DEF f
<1>q. QED
  BY <1>1, <1>2, <1>3, <1>4, <1>5, <1>6, BuildEdits

LEMMA UpdateRowEdits ==
    ASSUME TypeInv, NEW q \in Procs, UpdateRow(q)
    PROVE  Edits(q)
<1> DEFINE b == NextRow(q)
           val == proc[q].pc = "untag_rows"
           row == View(q)[b]
           hit == row # NULL /\ (val \/ row.untagged)
           new == [row EXCEPT !.untagged = val]
           f == [r \in (IF hit THEN {b} ELSE {}) |-> new]
<1>1. proc[q].todo \in SUBSET BuildIds /\ proc[q].todo # {}
  BY DEF TypeInv, ProcInv, LocalOK, UpdateRow
<1>2. b \in BuildIds /\ b \in Rows
  BY <1>1, LeastIn DEF NextRow, Rows
<1>3. xlock[b] \in {q, NULL} /\ Write(q, f, {})
  BY <1>2, NotBlocked DEF UpdateRow
<1>4. hit => Alike(new, row)
  BY <1>2, SeenRow, AlikeRows
<1> HIDE DEF new, hit
<1>5. DOMAIN f \subseteq {b} /\ (DOMAIN f # {} => hit /\ f[b] = new)
  OBVIOUS
<1> HIDE DEF f
<1>q. QED
  BY <1>2, <1>3, <1>4, <1>5, BuildEdits

(* The finished build gets the state that its task has in Koji: the same    *)
(* again if the build was finished already                                  *)
LEMMA LockPackageEdits ==
    ASSUME TypeInv, FinishInv, NEW q \in Procs, LockPackage(q)
    PROVE  Edits(q)
<1> DEFINE b == proc[q].b
           p == proc[q].p
           v == View(q)
           finished == [v[b] EXCEPT !.state = BuildState(q)]
           pkg == [v[p] EXCEPT !.manual_priority = 0,
                               !.build_priority = FailedBuildPriority(v, b, BuildState(q))]
           f == [r \in {b, p} |-> IF r = b THEN finished ELSE pkg]
<1>1. b \in BuildIds /\ p \in Packages /\ xlock[b] = q /\ work[b] # NULL
  BY UpdateLocals DEF LockPackage, UpdatePCs, BuildLocked
<1>2. b \in Rows /\ p \in Rows /\ p \notin BuildIds
  BY <1>1, RowsAssumption DEF Rows, BuildIds
<1>3. v[b] = work[b] /\ work[b] \in BuildRow /\ v[p] \in PackageRow /\ xlock[p] \in {q, NULL}
  <2>1. WriteBlockers(q, p) = {}
    BY DEF LockPackage, ForUpdateBlockers
  <2>q. QED
    BY <1>1, <1>2, <2>1, NotBlocked, SeenPackage DEF View, TypeInv, DbType, TypeTable
<1>4. BuildState(q) \in FinishedStates
  BY DEF LockPackage, TypeInv, ProcInv, LocalOK, BuildState, KojiStateMap, FinishedStates
<1>5. /\ finished \in BuildRow /\ finished.package = work[b].package
      /\ finished.last_complete = work[b].last_complete /\ finished.state = BuildState(q)
  BY <1>3, <1>4 DEF BuildRow
<1>6. work[b].state \in FinishedStates => BuildState(q) = work[b].state
  <2>1. /\ proc[q].pc = "lock_package" /\ ~ proc[q].canceled
        /\ KojiStateMap(proc[q].ts) # NULL
    BY DEF LockPackage, TypeInv, ProcInv, LocalOK
  <2>2. Heard(b, proc[q].ts) /\ TaskIn(b, {"CLOSED", "FAILED"}) /\ RowMatches(work[b])
    BY <1>1, <2>1 DEF FinishInv, Hearing, Finishing, RowsMatch
  <2>3. koji[work[b].task] = proc[q].ts /\ proc[q].ts \in {"CLOSED", "FAILED"}
    BY <1>1, <2>1, <2>2 DEF Heard, TaskIn, Means, StateName, KojiStateMap
  <2>4. BuildState(q) = IF proc[q].ts = "CLOSED" THEN COMPLETE ELSE FAILED
    BY <2>1, <2>3 DEF BuildState, KojiStateMap
  <2>q. QED
    BY <1>1, <2>2, <2>3, <2>4 DEF RowMatches, COMPLETE, FAILED, FinishedStates
<1>7. /\ pkg.last_complete_build = v[p].last_complete_build
      /\ pkg.last_complete_build_state = v[p].last_complete_build_state
  BY <1>3 DEF PackageRow
<1>8. Write(q, f, {p}) /\ finished # NULL
  BY <1>5, NullAssumption DEF LockPackage
<1> HIDE DEF finished, pkg
<1>9. DOMAIN f = {b, p} /\ f[b] = finished /\ f[p] = pkg
  BY <1>1, <1>2
<1> HIDE DEF f
<1>10. \A c \in DOMAIN f \cap BuildIds : EditsBuild(q, c, f[c])
  BY <1>1, <1>2, <1>3, <1>5, <1>6, <1>8, <1>9 DEF EditsBuild
<1>11. \A r \in DOMAIN f \cap Packages : EditsPackage(q, r, f[r])
  <2>1. b \notin Packages
    BY <1>1, RowsAssumption DEF BuildIds
  <2>q. QED
    BY <1>7, <1>9, <2>1 DEF EditsPackage
<1>12. MayWrite(q, f)
  BY <1>1, <1>2, <1>3, <1>9, <1>10 DEF MayWrite
<1>q. QED
  BY <1>8, <1>10, <1>11, <1>12 DEF Edits

(* The deleted build is not the one its package points to *)
LEMMA DeleteEdits ==
    ASSUME TypeInv, NEW q \in Procs, Firing(q), DeletesRow(q)
    PROVE  Edits(q)
<1> DEFINE b == proc[q].b
           p == proc[q].p
           v == View(q)
           cleared == IF v[p].last_build = b THEN [v[p] EXCEPT !.last_build = NULL] ELSE v[p]
           f == [r \in {b} \cup (IF v[p].last_build = b THEN {p} ELSE {}) |->
                    IF r = b THEN NULL ELSE cleared]
<1>1. b \in BuildIds /\ p \in Packages /\ xlock[b] = q /\ work[b] # NULL
  BY UpdateLocals DEF DeletesRow, UpdatePCs, BuildLocked
<1>2. b \in Rows /\ p \in Rows /\ p \notin BuildIds /\ b \notin Packages
  BY <1>1, RowsAssumption DEF Rows, BuildIds
<1>3. Write(q, f, {b}) /\ v[p].last_complete_build # b
  BY DEF DeletesRow, Delete
<1>4. v[p].last_build = b => xlock[p] \in {q, NULL}
  BY <1>2, NotBlocked DEF DeletesRow, Delete, DeleteBlockers
<1>5. v[b] = work[b] /\ work[b].package = p
  BY <1>1, <1>2 DEF View, Firing, DeletesRow, Belongs
<1>6. /\ cleared.last_complete_build = v[p].last_complete_build
      /\ cleared.last_complete_build_state = v[p].last_complete_build_state
  BY <1>1, SeenPackage DEF PackageRow
<1> HIDE DEF cleared
<1>7. /\ DOMAIN f \subseteq {b, p} /\ b \in DOMAIN f /\ f[b] = NULL
      /\ p \in DOMAIN f => f[p] = cleared /\ xlock[p] \in {q, NULL}
  BY <1>1, <1>2, <1>4
<1> HIDE DEF f
<1>8. \A c \in DOMAIN f \cap BuildIds : EditsBuild(q, c, f[c])
  BY <1>1, <1>2, <1>3, <1>5, <1>7 DEF EditsBuild
<1>9. \A r \in DOMAIN f \cap Packages : EditsPackage(q, r, f[r])
  BY <1>2, <1>6, <1>7 DEF EditsPackage
<1>10. MayWrite(q, f)
  BY <1>1, <1>2, <1>7, <1>8 DEF MayWrite
<1>q. QED
  BY <1>3, <1>8, <1>9, <1>10 DEF Edits

LEMMA FreshRow ==
    ASSUME TypeInv, nextId \in BuildIds
    PROVE  /\ nextId \in Rows /\ nextId \notin Packages /\ db[nextId] = NULL
           /\ xlock[nextId] = NULL /\ \A q \in Procs : View(q)[nextId] = NULL
BY RowsAssumption, ProcsAssumption DEF TypeInv, Fresh, Rows, BuildIds, View

LEMMA RegisterLockEdits ==
    ASSUME TypeInv, NEW q \in Procs, RegisterLock(q)
    PROVE  Edits(q)
<1> DEFINE p == proc[q].p
           new == InfoTask(q) \notin RegisteredTasks(View(q), p)
           ids == IF new THEN {nextId} ELSE {}
           pkg == [View(q)[p] EXCEPT !.manual_priority = 0, !.build_priority = 0]
           row == NewRealBuild(q)
           f == [r \in {p} \cup ids |-> IF r = p THEN pkg ELSE row]
<1>1. p \in Packages /\ proc[q].info \in Versions /\ InfoTask(q) \in Stamps
  BY RefreshLocals DEF RegisterLock, RefreshPCs
<1>2. p \in Rows /\ p \notin BuildIds
  BY <1>1, RowsAssumption DEF Rows, BuildIds
<1>3. WriteBlockers(q, p) = {} /\ Write(q, f, {p}) /\ (new => nextId \in BuildIds)
  BY DEF RegisterLock, ForUpdateBlockers
<1>4. xlock[p] \in {q, NULL}
  BY <1>2, <1>3, NotBlocked
<1>5. row \in BuildRow /\ ~ row.last_complete
  BY <1>1 DEF NewRealBuild, BuildRow, FinishedStates
<1>6. row # NULL
  BY <1>5, NullAssumption
<1>7. /\ pkg.last_complete_build = View(q)[p].last_complete_build
      /\ pkg.last_complete_build_state = View(q)[p].last_complete_build_state
  BY <1>1, SeenPackage DEF PackageRow
<1> HIDE DEF row, pkg, new
<1>8. /\ DOMAIN f = {p} \cup ids /\ f[p] = pkg
      /\ \A r \in ids : r = nextId /\ r \in BuildIds /\ f[r] = row
  BY <1>1, <1>2, <1>3
<1> HIDE DEF f, ids
<1>9. \A c \in DOMAIN f \cap BuildIds : EditsBuild(q, c, f[c])
  BY <1>2, <1>5, <1>6, <1>8, FreshRow DEF EditsBuild
<1>10. \A r \in DOMAIN f \cap Packages : EditsPackage(q, r, f[r])
  BY <1>7, <1>8, FreshRow DEF EditsPackage
<1>11. MayWrite(q, f)
  BY <1>2, <1>4, <1>8, <1>9, FreshRow DEF MayWrite
<1>q. QED
  BY <1>3, <1>9, <1>10, <1>11 DEF Edits

LEMMA InsertBuildEdits ==
    ASSUME TypeInv, NEW q \in Procs, InsertBuild(q)
    PROVE  Edits(q)
<1> DEFINE row == [package |-> proc[q].p, state |-> RUNNING, task |-> proc[q].task,
                   started |-> clock, ver |-> proc[q].info, real |-> FALSE,
                   untagged |-> FALSE, last_complete |-> FALSE, cancel_requested |-> FALSE]
           f == [r \in {nextId} |-> row]
<1>1. Write(q, f, {}) /\ nextId \in BuildIds
  BY DEF InsertBuild
<1>2. row # NULL /\ ~ row.last_complete
  <2>1. /\ proc[q].p \in Packages /\ proc[q].info \in Versions /\ proc[q].task \in Stamps
        /\ clock \in Stamps
    BY DEF InsertBuild, TypeInv, ProcInv, LocalOK, NoPackagePCs
  <2>2. row \in BuildRow
    BY <2>1 DEF BuildRow
  <2>q. QED
    BY <2>2, NullAssumption
<1> HIDE DEF row
<1>3. DOMAIN f = {nextId} /\ f[nextId] = row
  OBVIOUS
<1> HIDE DEF f
<1>4. \A c \in DOMAIN f \cap BuildIds : EditsBuild(q, c, f[c])
  BY <1>1, <1>2, <1>3, FreshRow DEF EditsBuild
<1>5. \A r \in DOMAIN f \cap Packages : EditsPackage(q, r, f[r])
  BY <1>1, <1>3, FreshRow
<1>6. MayWrite(q, f)
  BY <1>1, <1>3, <1>4, FreshRow DEF MayWrite
<1>q. QED
  BY <1>1, <1>4, <1>5, <1>6 DEF Edits

LEMMA PriorityEdits ==
    ASSUME TypeInv, NEW q \in Procs, FlushSkipped(q) \/ ResetPriority(q)
    PROVE  Edits(q)
<1> DEFINE p == proc[q].p
           row == View(q)[p]
<1>1. p \in Packages /\ row \in PackageRow
  <2>1. p \in Packages
    BY DEF TypeInv, ProcInv, LocalOK, NoPackagePCs, FlushSkipped, ResetPriority
  <2>q. QED
    BY <2>1, SeenPackage
<1>2. \A x : EditsPackage(q, p, [row EXCEPT !.manual_priority = x])
  BY <1>1 DEF EditsPackage, PackageRow
<1>3. CASE FlushSkipped(q)
  <2> DEFINE f == [r \in {p} |-> [View(q)[r] EXCEPT !.manual_priority = @ - 1000]]
  <2>1. WriteBlockers(q, p) = {} /\ Write(q, f, {})
    BY <1>3 DEF FlushSkipped
  <2>2. DOMAIN f = {p} /\ f[p] = [row EXCEPT !.manual_priority = row.manual_priority - 1000]
    OBVIOUS
  <2> HIDE DEF f
  <2>q. QED
    BY <1>1, <1>2, <2>1, <2>2, PackageEdits
<1>4. CASE ResetPriority(q)
  <2> DEFINE f == [r \in (IF row.manual_priority = 0 THEN {} ELSE {p}) |->
                      [row EXCEPT !.manual_priority = 0]]
  <2>1. DOMAIN f # {} => WriteBlockers(q, p) = {}
    BY <1>4 DEF ResetPriority, ResetBlockers
  <2>2. Write(q, f, {})
    BY <1>4 DEF ResetPriority
  <2>3. DOMAIN f \subseteq {p} /\ (DOMAIN f # {} => f[p] = [row EXCEPT !.manual_priority = 0])
    OBVIOUS
  <2> HIDE DEF f
  <2>q. QED
    BY <1>1, <1>2, <2>1, <2>2, <2>3, PackageEdits
<1>q. QED
  BY <1>3, <1>4

-----------------------------------------------------------------------------
(* Statements that are their own transaction *)
Touches ==
    \E r \in Rows : \E row :
        /\ xlock[r] = NULL
        /\ r \in BuildIds => db[r] # NULL /\ Alike(row, db[r])
        /\ r \in Packages =>
              /\ row.last_complete_build = db[r].last_complete_build
              /\ row.last_complete_build_state = db[r].last_complete_build_state
        /\ db' = [db EXCEPT ![r] = row]
        /\ work' = [work EXCEPT ![r] = row]
        /\ UNCHANGED xlock

LEMMA MarkCanceledTouches ==
    ASSUME TypeInv, NEW q \in Procs, MarkCanceled(q)
    PROVE  UNCHANGED <<db, work, xlock>> \/ Touches
<1> DEFINE b == proc[q].b
           row == [db[b] EXCEPT !.cancel_requested = TRUE]
<1>1. b \in BuildIds /\ b \in Rows /\ b \notin Packages /\ NoLocks(q)
  BY RowsAssumption
     DEF TypeInv, ProcInv, LocalOK, At, TriggerPCs, MarkCanceled, Rows, BuildIds
<1>2. CASE db[b] = NULL
  BY <1>2 DEF MarkCanceled
<1>3. CASE db[b] # NULL
  <2>1. xlock[b] = NULL
    BY <1>1, NotBlocked DEF MarkCanceled, NoLocks, LockFreePCs
  <2>2. db[b] \in BuildRow /\ work[b] = db[b]
    BY <1>1, <1>3, <2>1, CommittedRow DEF TypeInv, Settled
  <2>3. /\ db' = [db EXCEPT ![b] = row] /\ work' = [work EXCEPT ![b] = row]
        /\ UNCHANGED xlock
    BY <1>3, <2>2 DEF MarkCanceled
  <2>4. Alike(row, db[b])
    BY <2>2, AlikeRows
  <2> HIDE DEF row
  <2>q. QED
    BY <1>1, <1>3, <2>1, <2>3, <2>4 DEF Touches
<1>q. QED
  BY <1>2, <1>3

LEMMA EditPriorityTouches ==
    ASSUME TypeInv, NEW q \in Procs, NEW p \in Packages, NEW n, EditPriority(q, p, n)
    PROVE  Touches
<1> DEFINE row == [db[p] EXCEPT !.manual_priority = n]
<1>1. p \in Rows /\ p \notin BuildIds /\ db[p] \in PackageRow
  BY SeenPackage
<1>2. NoLocks(q) /\ proc[q].pc \in LockFreePCs
  BY DEF TypeInv, ProcInv, EditPriority, LockFreePCs
<1>3. xlock[p] = NULL /\ work[p] = db[p]
  BY <1>1, <1>2, NotBlocked DEF EditPriority, NoLocks, TypeInv, Settled
<1>4. /\ db' = [db EXCEPT ![p] = row] /\ work' = [work EXCEPT ![p] = row] /\ UNCHANGED xlock
  BY <1>3 DEF EditPriority
<1>5. /\ row.last_complete_build = db[p].last_complete_build
      /\ row.last_complete_build_state = db[p].last_complete_build_state
  BY <1>1 DEF PackageRow
<1> HIDE DEF row
<1>q. QED
  BY <1>1, <1>3, <1>4, <1>5 DEF Touches

LEMMA ResolveTouches ==
    ASSUME TypeInv, NEW p \in Packages, Resolve(p)
    PROVE  Touches
<1>1. p \in Rows /\ p \notin BuildIds /\ db[p] \in PackageRow
  BY SeenPackage
<1>2. xlock[p] = NULL /\ work[p] = db[p]
  BY <1>1 DEF Resolve, TypeInv, Settled
<1>3. PICK x \in Resolutions : /\ db' = [db EXCEPT ![p].resolved = x]
                               /\ work' = [work EXCEPT ![p].resolved = x]
                               /\ UNCHANGED xlock
  BY DEF Resolve
<1> DEFINE row == [db[p] EXCEPT !.resolved = x]
<1>4. db' = [db EXCEPT ![p] = row] /\ work' = [work EXCEPT ![p] = row]
  BY <1>2, <1>3
<1>5. /\ row.last_complete_build = db[p].last_complete_build
      /\ row.last_complete_build_state = db[p].last_complete_build_state
  BY <1>1 DEF PackageRow
<1> HIDE DEF row
<1>q. QED
  BY <1>1, <1>2, <1>3, <1>4, <1>5 DEF Touches

LEMMA TouchesOwned ==
    ASSUME TypeInv, PointerInv, Touches
    PROVE  /\ LastCompleteConsistent' /\ FlagOwned' /\ DeletedOwned'
           /\ \A b \in BuildIds : Published(b)
<1>1. PICK r \in Rows : \E row :
        /\ xlock[r] = NULL
        /\ r \in BuildIds => db[r] # NULL /\ Alike(row, db[r])
        /\ r \in Packages =>
              /\ row.last_complete_build = db[r].last_complete_build
              /\ row.last_complete_build_state = db[r].last_complete_build_state
        /\ db' = [db EXCEPT ![r] = row]
        /\ work' = [work EXCEPT ![r] = row]
        /\ UNCHANGED xlock
  BY DEF Touches
<1>2. PICK row :
        /\ xlock[r] = NULL
        /\ r \in BuildIds => db[r] # NULL /\ Alike(row, db[r])
        /\ r \in Packages =>
              /\ row.last_complete_build = db[r].last_complete_build
              /\ row.last_complete_build_state = db[r].last_complete_build_state
        /\ db' = [db EXCEPT ![r] = row]
        /\ work' = [work EXCEPT ![r] = row]
        /\ UNCHANGED xlock
  BY <1>1
<1>3. \A x \in Rows : /\ db'[x] = IF x = r THEN row ELSE db[x]
                      /\ work'[x] = IF x = r THEN row ELSE work[x]
                      /\ xlock'[x] = xlock[x]
  BY <1>2 DEF TypeInv, DbType, TypeTable
<1>4. work[r] = db[r]
  BY <1>2 DEF TypeInv, Settled
<1>5. ASSUME NEW b \in BuildIds
      PROVE  /\ b \in Rows
             /\ db'[b] = db[b] \/ (db[b] # NULL /\ Alike(db'[b], db[b]))
             /\ work'[b] = work[b] \/ (work[b] # NULL /\ Alike(work'[b], work[b]))
             /\ \/ db'[b] = db[b] /\ work'[b] = work[b]
                \/ work[b] = db[b] /\ work'[b] = db'[b]
  BY <1>2, <1>3, <1>4 DEF Rows
<1>6. ASSUME NEW p \in Packages
      PROVE  /\ p \in Rows
             /\ db'[p].last_complete_build = db[p].last_complete_build
             /\ db'[p].last_complete_build_state = db[p].last_complete_build_state
  BY <1>2, <1>3 DEF Rows
<1>7. LastCompleteConsistent'
  <2>1. ASSUME NEW p \in Packages
        PROVE  PackageOK(db, p) /\ PackageOK(db', p)
    <3>1. PackageOK(db, p) /\ db[p].last_complete_build \in BuildIds \cup {NULL}
      BY SeenPackage DEF PointerInv, LastCompleteConsistent, PackageOK
    <3>2. PICK w : w = db'
      OBVIOUS
    <3>3. \A b \in BuildIds : BuildKept(w[b], db[b], p) /\ (db[b] # NULL => w[b] # NULL)
      BY <1>5, <3>2 DEF BuildKept, Alike, Kept, SameIdent
    <3>4. db[p].last_complete_build # NULL => w[db[p].last_complete_build] # NULL
      BY <3>1, <3>3 DEF PackageOK
    <3>5. /\ w[p].last_complete_build = db[p].last_complete_build
          /\ w[p].last_complete_build_state = db[p].last_complete_build_state
      BY <1>6, <3>2
    <3>6. PackageOK(w, p)
      BY <3>1, <3>3, <3>4, <3>5, PackageKept
    <3>q. QED
      BY <3>1, <3>2, <3>6
  <2>q. QED
    BY <2>1 DEF LastCompleteConsistent, PackageOK
<1>8. FlagOwned'
  <2>1. SUFFICES ASSUME NEW b \in BuildIds, work'[b] # NULL, Flag(work'[b]) # Flag(db'[b])
                 PROVE  xlock'[work'[b].package] = xlock'[b]
    BY DEF FlagOwned
  <2>2. b \in Rows /\ work'[b] = work[b] /\ db'[b] = db[b] /\ work[b].package \in Rows
    BY <1>5, <2>1, RowPackages
  <2>3. xlock[work[b].package] = xlock[b]
    BY <2>1, <2>2 DEF PointerInv, FlagOwned
  <2>q. QED
    BY <1>3, <2>2, <2>3
<1>9. DeletedOwned'
  <2>1. SUFFICES ASSUME NEW b \in BuildIds, db'[b] # NULL, work'[b] = NULL,
                        db'[db'[b].package].last_complete_build = b
                 PROVE  xlock'[db'[b].package] = xlock'[b]
    BY DEF DeletedOwned
  <2>2. b \in Rows /\ work[b] = NULL /\ db'[b] = db[b] /\ db[b].package \in Packages
    BY <1>5, <2>1, RowPackages
  <2>3. db[db[b].package].last_complete_build = b /\ db[b].package \in Rows
    BY <1>6, <2>1, <2>2
  <2>4. xlock[db[b].package] = xlock[b]
    BY <2>1, <2>2, <2>3 DEF PointerInv, DeletedOwned
  <2>q. QED
    BY <1>3, <2>2, <2>3, <2>4
<1>q. QED
  BY <1>5, <1>7, <1>8, <1>9 DEF Published

-----------------------------------------------------------------------------
(* All other steps are plain: they are not about to write a pointer or its  *)
(* flags, and what they do write matters to neither                         *)
Plain(q) ==
    /\ proc[q].pc \notin {"trigger_flags", "skip_flags"}
    /\ proc'[q].pc \notin FirePCs
    /\ \/ UNCHANGED <<db, work, xlock>> \/ Edits(q)
       \/ Touches /\ proc[q].pc \in {"idle", "cancel"}
       \/ Commit(q) \/ Rollback(q)

LEMMA ReachedPc ==
    ASSUME TypeInv, NEW q \in Procs, NEW l
    PROVE  /\ proc \in [Procs -> Local] /\ proc[q] \in Local
           /\ Goto(q, l) => proc'[q].pc = l
           /\ EndHandler(q) \/ EndService(q) => proc'[q].pc \notin FirePCs
<1>1. proc \in [Procs -> Local] /\ proc[q] \in Local
  BY DEF TypeInv, Locals
<1>2. Goto(q, l) => proc'[q].pc = l
  BY <1>1 DEF Goto, Local
<1>3. EndHandler(q) \/ EndService(q) => proc'[q].pc \notin FirePCs
  BY EndResets DEF Resets, FirePCs
<1>q. QED
  BY <1>1, <1>2, <1>3

LEMMA BeginUpdatePc ==
    ASSUME TypeInv, NEW q \in Procs, NEW S, NEW pc, NEW next, BeginUpdate(q, S, pc, next)
    PROVE  proc'[q].pc \in {pc, next}
<1>1. proc \in [Procs -> Local] /\ proc[q] \in Local
  BY DEF TypeInv, Locals
<1> DEFINE l == IF S = {} THEN next ELSE pc
<1>2. /\ proc' = [proc EXCEPT ![q].todo = S, ![q].ret = next, ![q].fires = 0, ![q].pc = l]
      /\ l \in {pc, next}
  BY DEF BeginUpdate
<1> HIDE DEF l
<1>q. QED
  BY <1>1, <1>2 DEF Local

LEMMA PollPlain ==
    ASSUME TypeInv, NEW q \in Procs,
           PollInfos(q) \/ PollRows(q) \/ PollNext(q) \/ \E b \in BuildIds : WatchTask(q, b)
    PROVE  Plain(q)
<1>1. proc \in [Procs -> Local] /\ proc[q] \in Local
  BY DEF TypeInv, Locals
<1>2. proc[q].pc \in {"idle", "poll", "poll_rows"} /\ UNCHANGED <<db, work, xlock>>
  BY DEF PollInfos, PollRows, PollNext, WatchTask, dbVars
<1>3. CASE PollInfos(q)
  <2>1. \E x, y, l : /\ proc' = [proc EXCEPT ![q].infos = x, ![q].list = y, ![q].pc = l]
                     /\ l \in {"poll", "poll_rows"}
    BY <1>3 DEF PollInfos
  <2>q. QED
    BY <1>1, <1>2, <2>1 DEF Plain, FirePCs, Local
<1>4. CASE PollRows(q)
  <2>1. \E x, l : /\ proc' = [proc EXCEPT ![q].list = x, ![q].infos = {}, ![q].pc = l]
                  /\ l \in {"idle", "poll"}
    BY <1>4 DEF PollRows
  <2>q. QED
    BY <1>1, <1>2, <2>1 DEF Plain, FirePCs, Local
<1>5. CASE PollNext(q)
  <2>1. \E x \in proc[q].list : proc' = [proc EXCEPT ![q].list = @ \ {x}, ![q].b = x[1],
                                                     ![q].ts = x[2], ![q].pc = "decide"]
    BY <1>5 DEF PollNext
  <2>q. QED
    BY <1>1, <1>2, <2>1 DEF Plain, FirePCs, Local
<1>6. ASSUME NEW b \in BuildIds, WatchTask(q, b)
      PROVE  Plain(q)
  <2>1. \E x : proc' = [proc EXCEPT ![q].b = b, ![q].ts = x, ![q].pc = "decide"]
    BY <1>6 DEF WatchTask
  <2>q. QED
    BY <1>1, <1>2, <2>1 DEF Plain, FirePCs, Local
<1>q. QED
  BY <1>3, <1>4, <1>5, <1>6

LEMMA UpdateBuildStatePlain ==
    ASSUME TypeInv, FinishInv, NEW q \in Procs, Firing(q), UpdateBuildState(q)
    PROVE  Plain(q)
<1>1. proc \in [Procs -> Local] /\ proc[q] \in Local
      /\ (EndHandler(q) => proc'[q].pc \notin FirePCs)
  BY ReachedPc
<1>2. CASE Decide(q)
  <2>1. \E x, y, l : /\ proc' = [proc EXCEPT ![q].canceled = x, ![q].p = y, ![q].pc = l]
                     /\ l \in {"lock", "sync"}
    BY <1>2 DEF Decide
  <2>2. proc[q].pc = "decide" /\ UNCHANGED <<db, work, xlock>>
    BY <1>2 DEF Decide, dbVars
  <2>q. QED
    BY <1>1, <2>1, <2>2 DEF Plain, FirePCs, Local
<1>3. CASE DecideDeleted(q) \/ Emit(q)
  BY <1>1, <1>3 DEF DecideDeleted, Emit, dbVars, Plain
<1>4. CASE LockBuildDone(q) \/ SyncDeleted(q)
  BY <1>1, <1>4 DEF LockBuildDone, SyncDeleted, Plain
<1>5. CASE LockBuild(q)
  <2>1. \E x, l : /\ proc' = [proc EXCEPT ![q].ins = x, ![q].pc = l]
                  /\ l \in {"delete", "lock_package"}
    BY <1>5 DEF LockBuild
  <2>2. proc[q].pc = "lock"
    BY <1>5 DEF LockBuild
  <2>3. proc'[q].pc \in {"delete", "lock_package"}
    BY <1>1, <2>1 DEF Local
  <2>q. QED
    BY <1>5, <2>2, <2>3, LockBuildEdits DEF Plain, FirePCs
<1>6. CASE DeleteBuild(q)
  <2>1. proc[q].pc = "delete"
    BY <1>6 DEF DeleteBuild
  <2>2. CASE DeleteRefused(q, proc[q].b, proc[q].p)
    BY <1>1, <2>1, <2>2 DEF DeleteRefused, Plain
  <2>3. CASE DeletesRow(q)
    BY <2>1, <2>3, DeletesFields, DeleteEdits DEF Plain, FirePCs
  <2>q. QED
    BY <1>6, <2>1, <2>2, <2>3 DEF DeleteBuild, DeletesRow
<1>7. CASE LockPackage(q)
  <2>1. proc[q].pc = "lock_package" /\ \E x : proc' = [proc EXCEPT ![q].prev = x,
            ![q].fires = 1, ![q].ret = "commit", ![q].pc = "trigger"]
    BY <1>7 DEF LockPackage
  <2>2. proc'[q].pc = "trigger"
    BY <1>1, <2>1 DEF Local
  <2>q. QED
    BY <1>7, <2>1, <2>2, LockPackageEdits DEF Plain, FirePCs
<1>8. CASE SyncRunning(q)
  <2>1. proc[q].pc = "sync" /\ \E x : proc' = [proc EXCEPT ![q].ins = x, ![q].pc = "commit"]
    BY <1>8 DEF SyncRunning
  <2>2. proc'[q].pc = "commit"
    BY <1>1, <2>1 DEF Local
  <2>q. QED
    BY <1>8, <2>1, <2>2, SyncRunningEdits DEF Plain, FirePCs
<1>9. CASE CommitBuild(q)
  <2>1. proc[q].pc = "commit" /\ Commit(q)
    BY <1>9 DEF CommitBuild
  <2>2. EndHandler(q) \/ proc' = [proc EXCEPT ![q].new = MsgState(View(q)[proc[q].p]),
                                            ![q].pc = "emit"]
    BY <1>9 DEF CommitBuild
  <2> DEFINE m == MsgState(View(q)[proc[q].p])
  <2> HIDE DEF m
  <2>3. ASSUME proc' = [proc EXCEPT ![q].new = m, ![q].pc = "emit"]
        PROVE  proc'[q].pc = "emit"
    BY <1>1, <2>3 DEF Local
  <2>4. proc'[q].pc \notin FirePCs
    BY <1>1, <2>2, <2>3 DEF FirePCs, m
  <2>q. QED
    BY <2>1, <2>4 DEF Plain
<1>q. QED
  BY <1>2, <1>3, <1>4, <1>5, <1>6, <1>7, <1>8, <1>9 DEF UpdateBuildState

LEMMA RealPlain ==
    ASSUME TypeInv, NEW q \in Procs,
           RealStep(q) \/ \E p \in Packages : RefreshPackage(q, p) \/ WatchTag(q, p)
    PROVE  Plain(q)
<1>1. proc \in [Procs -> Local] /\ proc[q] \in Local
      /\ (EndHandler(q) => proc'[q].pc \notin FirePCs)
  BY ReachedPc
<1>2. proc[q].pc \in RefreshPCs => proc[q].cont \in {"done", "untag", "untag_registered"}
  BY RefreshLocals
<1>3. ASSUME NEW p \in Packages, RefreshPackage(q, p) \/ WatchTag(q, p)
      PROVE  Plain(q)
  <2>1. proc[q].pc = "idle" /\ UNCHANGED <<db, work, xlock>>
    BY <1>3 DEF RefreshPackage, WatchTag, dbVars
  <2>2. CASE WatchTag(q, p)
    BY <1>1, <2>1, <2>2 DEF WatchTag, Plain, FirePCs, Local
  <2>3. CASE RefreshPackage(q, p)
    <3>1. \E x, y, l : /\ proc' = [proc EXCEPT ![q].p = p, ![q].info = x, ![q].last = y,
                                               ![q].pc = l, ![q].cont = "untag"]
                       /\ l \in {"register", "untag"}
      BY <2>3 DEF RefreshPackage
    <3>2. proc'[q].pc \in {"register", "untag"}
      BY <1>1, <3>1 DEF Local
    <3>q. QED
      BY <2>1, <3>2 DEF Plain, FirePCs
  <2>q. QED
    BY <1>3, <2>2, <2>3
<1>4. CASE RegisterNoRepo(q)
  <2>1. proc[q].pc = "register" /\ UNCHANGED <<db, work, xlock>>
    BY <1>4 DEF RegisterNoRepo, dbVars
  <2>2. proc[q].cont # "done" => proc[q].cont \notin FirePCs
    BY <1>2, <2>1 DEF RefreshPCs, FirePCs
  <2>3. proc'[q].pc \notin FirePCs
    BY <1>1, <1>4, <2>2, ReachedPc DEF RegisterNoRepo
  <2>q. QED
    BY <2>1, <2>3 DEF Plain
<1>5. CASE RegisterLock(q)
  <2>1. \E x, l : /\ proc' = [proc EXCEPT ![q].fires = x, ![q].ret = "registered", ![q].pc = l]
                  /\ l \in {"trigger", "registered"}
    BY <1>5 DEF RegisterLock
  <2>2. proc[q].pc = "register"
    BY <1>5 DEF RegisterLock
  <2>3. proc'[q].pc \in {"trigger", "registered"}
    BY <1>1, <2>1 DEF Local
  <2>q. QED
    BY <1>5, <2>2, <2>3, RegisterLockEdits DEF Plain, FirePCs
<1>6. CASE RegisterCommit(q)
  <2>1. proc[q].pc = "registered" /\ Commit(q)
    BY <1>6 DEF RegisterCommit
  <2>2. proc[q].cont \notin FirePCs
    BY <1>2, <2>1 DEF RefreshPCs, FirePCs
  <2>3. proc'[q].pc \notin FirePCs
    BY <1>1, <1>6, <2>2 DEF RegisterCommit, Local
  <2>q. QED
    BY <2>1, <2>3 DEF Plain
<1>7. CASE Untag(q)
  <2>1. proc[q].pc = "untag" /\ UNCHANGED <<db, work, xlock>>
    BY <1>7 DEF Untag, dbVars
  <2>2. CASE Goto(q, "retag")
    BY <2>1, <2>2, ReachedPc DEF Plain, FirePCs
  <2>3. CASE proc' = [proc EXCEPT ![q].pc = "register", ![q].cont = "untag_registered"]
    BY <1>1, <2>1, <2>3 DEF Plain, FirePCs, Local
  <2>4. CASE \E S : BeginUpdate(q, S, "untag_rows", "retag")
    BY <2>1, <2>4, BeginUpdatePc DEF Plain, FirePCs
  <2>q. QED
    BY <1>7, <2>2, <2>3, <2>4 DEF Untag
<1>8. CASE UntagRegistered(q) \/ Retag(q)
  <2>1. proc[q].pc \in {"untag_registered", "retag"} /\ UNCHANGED <<db, work, xlock>>
    BY <1>8 DEF UntagRegistered, Retag, dbVars
  <2>2. \E S : \/ BeginUpdate(q, S, "untag_rows", "retag")
               \/ BeginUpdate(q, S, "retag_rows", "refreshed")
    BY <1>8 DEF UntagRegistered, Retag
  <2>q. QED
    BY <2>1, <2>2, BeginUpdatePc DEF Plain, FirePCs
<1>9. CASE UpdateRow(q)
  <2>1. proc[q].ret \in {"retag", "refreshed"} /\ proc[q].pc \in {"untag_rows", "retag_rows"}
    BY <1>9 DEF UpdateRow, TypeInv, ProcInv, LocalOK
  <2>2. \E x, S, l : /\ proc' = [proc EXCEPT ![q].todo = S, ![q].fires = x, ![q].pc = l]
                     /\ l \in {proc[q].pc, "trigger", proc[q].ret}
    BY <1>9 DEF UpdateRow
  <2>3. proc'[q].pc \in {proc[q].pc, "trigger", proc[q].ret}
    BY <1>1, <2>2 DEF Local
  <2>q. QED
    BY <1>9, <2>1, <2>3, UpdateRowEdits DEF Plain, FirePCs
<1>10. CASE RefreshCommit(q)
  BY <1>1, <1>10 DEF RefreshCommit, Plain
<1>q. QED
  BY <1>3, <1>4, <1>5, <1>6, <1>7, <1>8, <1>9, <1>10
     DEF RealStep, RegisterRealBuilds, RefreshLatestBuilds

LEMMA SchedulePlain ==
    ASSUME TypeInv, NEW q \in Procs, Schedule(q), ~ SkipPackage(q), ~ SkipFlags(q)
    PROVE  Plain(q)
<1>1. proc \in [Procs -> Local] /\ proc[q] \in Local
      /\ (EndService(q) => proc'[q].pc \notin FirePCs)
  BY ReachedPc
<1>2. CASE CountBuilds(q)
  BY <1>2, ReachedPc DEF CountBuilds, dbVars, Plain, FirePCs
<1>3. CASE FlushSkipped(q) \/ ResetPriority(q)
  BY <1>3, ReachedPc, PriorityEdits DEF FlushSkipped, ResetPriority, Plain, FirePCs
<1>4. CASE ReadPriorities(q)
  <2>1. \E C, l : /\ proc' = [proc EXCEPT ![q].todo = C, ![q].pc = l]
                  /\ l \in {"idle", "pick"}
    BY <1>4 DEF ReadPriorities
  <2>2. proc[q].pc = "priorities" /\ UNCHANGED <<db, work, xlock>>
    BY <1>4 DEF ReadPriorities, dbVars
  <2>3. proc'[q].pc \in {"idle", "pick"}
    BY <1>1, <2>1 DEF Local
  <2>q. QED
    BY <2>2, <2>3 DEF Plain, FirePCs
<1>5. CASE Stop(q)
  BY <1>1, <1>5 DEF Stop, Plain
<1>6. CASE SubmitCommit(q)
  BY <1>1, <1>6 DEF SubmitCommit, Plain
<1>7. ASSUME NEW p \in Packages, NoAllowedArch(q, p) \/ NoSrpmHeaders(q, p) \/ SubmitTask(q, p)
      PROVE  Plain(q)
  <2>1. proc[q].pc = "pick" /\ UNCHANGED <<db, work, xlock>>
    BY <1>7 DEF NoAllowedArch, NoSrpmHeaders, SubmitTask, dbVars
  <2>2. proc'[q].pc \in {"flush", "skip", "insert"}
    BY <1>1, <1>7 DEF NoAllowedArch, NoSrpmHeaders, SubmitTask, Local
  <2>q. QED
    BY <2>1, <2>2 DEF Plain, FirePCs
<1>8. CASE InsertBuild(q)
  <2>1. proc[q].pc = "insert" /\ proc'[q].pc = "trigger"
    BY <1>1, <1>8 DEF InsertBuild, Local
  <2>q. QED
    BY <1>8, <2>1, InsertBuildEdits DEF Plain, FirePCs
<1>9. CASE SkipCommit(q)
  <2> DEFINE rest == proc[q].todo \ {proc[q].p}
             pc == IF rest = {} THEN "idle" ELSE "pick"
  <2>1. proc' = [proc EXCEPT ![q] = [IdleProc EXCEPT !.todo = rest, !.pc = pc]]
        /\ proc[q].pc = "skipped" /\ Commit(q)
    BY <1>9 DEF SkipCommit
  <2>2. pc \in {"idle", "pick"}
    OBVIOUS
  <2> HIDE DEF rest, pc
  <2>3. proc'[q].pc = pc
    BY <1>1, <2>1 DEF IdleProc
  <2>q. QED
    BY <2>1, <2>2, <2>3 DEF Plain, FirePCs
<1>q. QED
  BY <1>2, <1>3, <1>4, <1>5, <1>6, <1>7, <1>8, <1>9 DEF Schedule

LEMMA ServePlain ==
    ASSUME TypeInv, NEW q \in Procs, ServeRequest(q)
    PROVE  Plain(q)
<1>1. proc \in [Procs -> Local] /\ proc[q] \in Local
      /\ (EndHandler(q) => proc'[q].pc \notin FirePCs)
  BY ReachedPc
<1>2. ASSUME NEW b \in BuildIds, RequestCancel(q, b)
      PROVE  Plain(q)
  BY <1>1, <1>2 DEF RequestCancel, dbVars, Plain, FirePCs, Local
<1>3. CASE MarkCanceled(q)
  BY <1>1, <1>3, MarkCanceledTouches DEF MarkCanceled, Plain
<1>4. ASSUME NEW p \in Packages, NEW n \in UserPriority, EditPriority(q, p, n)
      PROVE  Plain(q)
  BY <1>4, EditPriorityTouches DEF EditPriority, Plain, FirePCs
<1>q. QED
  BY <1>2, <1>3, <1>4 DEF ServeRequest

LEMMA PlainPointers ==
    ASSUME TypeInv, UniqueInv, FinishInv, PointerInv, NEW q \in Procs, Plain(q)
    PROVE  Pointers(q) /\ \A b \in BuildIds : Published(b)
<1>1. Calm(q)
  BY DEF Plain, Calm, Between, FirePCs
<1>2. CASE UNCHANGED <<db, work, xlock>>
  BY <1>1, <1>2, QuietPointers DEF Published
<1>3. CASE Edits(q)
  BY <1>1, <1>3, EditsPointers DEF Edits, Write, Published
<1>4. CASE Touches /\ proc[q].pc \in {"idle", "cancel"}
  <2>1. \A r \in Rows : xlock[r] # q
    BY <1>4 DEF TypeInv, ProcInv, NoLocks, LockFreePCs
  <2>2. \A p \in Packages : HeldOK(q, p)'
    BY <1>4, <2>1 DEF Touches, HeldOK, Rows
  <2>q. QED
    BY <1>4, <2>2, TouchesOwned DEF Pointers
<1>5. CASE Commit(q)
  <2>1. Pointers(q)
    BY <1>5, EndingPointers DEF Plain
  <2>2. \A b \in BuildIds : Published(b)
    BY <1>5 DEF Commit, View, Rows, Published
  <2>q. QED
    BY <2>1, <2>2
<1>6. CASE Rollback(q)
  BY <1>6, EndingPointers DEF Rollback, Published
<1>q. QED
  BY <1>2, <1>3, <1>4, <1>5, <1>6 DEF Plain

LEMMA TriggerPointers ==
    ASSUME TypeInv, UniqueInv, FinishInv, PointerInv, [Next]_vars, NEW q \in Procs,
           Firing(q), Acts(q), Trigger(q), UNCHANGED kojiVars
    PROVE  /\ Pointers(q)
           /\ \A b \in BuildIds : Published(b)
           /\ Firing(q)'
<1>1. CASE TriggerRead(q)
  <2>1. proc[q].pc = "trigger" /\ UNCHANGED <<db, work, xlock>>
    BY <1>1 DEF TriggerRead, dbVars
  <2>2. proc'[q].pc \notin {"trigger_flags", "skip_flags"}
    <3> DEFINE v   == View(q)
               p   == proc[q].p
               lb  == LastBuildOf(v, p)
               lcb == LastCompleteBuildOf(v, p)
               x   == IF lb = v[p].last_build THEN Keep ELSE lb
               y   == IF lcb = v[p].last_complete_build THEN Keep ELSE lcb
               z   == IF lcb = v[p].last_complete_build \/ lcb = NULL THEN NULL
                      ELSE v[lcb].state
    <3>1. CASE NextFiring(q)
      BY <2>1, <3>1, NextFiringFields DEF TriggerPCs
    <3>2. CASE proc' = [proc EXCEPT ![q].pc = "trigger_package", ![q].lb = x, ![q].lcb = y,
                                    ![q].lcs = z]
      <4> HIDE DEF x, y, z
      <4>q. QED
        BY <3>2 DEF TypeInv, Locals, Local
    <3>q. QED
      BY <1>1, <3>1, <3>2 DEF TriggerRead
  <2>3. Calm(q)
    BY <2>1, <2>2 DEF Calm, Between
  <2>q. QED
    BY <1>1, <2>1, <2>3, QuietPointers, TriggerReadFiring DEF Published
<1>2. CASE TriggerPackage(q)
  BY <1>2, TriggerPackagePointers, TriggerPackageFiring DEF TriggerPackage, Write, Published
<1>3. CASE TriggerFlags(q)
  <2>1. proc'[q].pc \notin FirePCs
    BY <1>3, NextFiringFields DEF TriggerFlags, TriggerPCs, FirePCs
  <2>q. QED
    BY <1>3, <2>1, TriggerFlagsPointers, PlainFiring DEF TriggerFlags, Write, Published
<1>4. CASE TriggerIntegrityError(q)
  <2>1. Rollback(q) /\ proc'[q].pc \notin FirePCs
    BY <1>4, ReachedPc DEF TriggerIntegrityError
  <2>q. QED
    BY <2>1, EndingPointers, PlainFiring DEF Rollback, Published
<1>q. QED
  BY <1>1, <1>2, <1>3, <1>4 DEF Trigger

LEMMA SkipPointers ==
    ASSUME TypeInv, UniqueInv, FinishInv, PointerInv, [Next]_vars, NEW q \in Procs,
           Firing(q), Acts(q), SkipPackage(q) \/ SkipFlags(q)
    PROVE  /\ Pointers(q)
           /\ \A b \in BuildIds : Published(b)
           /\ Firing(q)'
<1>1. CASE SkipPackage(q)
  BY <1>1, SkipPackagePointers, SkipPackageFiring DEF SkipPackage, Write, Published
<1>2. CASE SkipFlags(q)
  <2>1. proc'[q].pc \notin FirePCs
    BY <1>2, ReachedPc DEF SkipFlags, FirePCs
  <2>q. QED
    BY <1>2, <2>1, SkipFlagsPointers, PlainFiring DEF SkipFlags, Write, Published
<1>q. QED
  BY <1>1, <1>2

LEMMA ActsPointers ==
    ASSUME TypeInv, UniqueInv, FinishInv, PointerInv, [Next]_vars, NEW q \in Procs, Acts(q)
    PROVE  /\ Pointers(q)
           /\ \A b \in BuildIds : Published(b)
           /\ Firing(q)'
<1>1. Firing(q)
  BY DEF PointerInv
<1>2. CASE Plain(q)
  BY <1>1, <1>2, PlainPointers, PlainFiring DEF Plain
<1>3. CASE Crash(q) \/ DeadlockAbort(q)
  <2>1. Rollback(q) /\ proc'[q].pc \notin FirePCs
    BY <1>3, ReachedPc DEF Crash, DeadlockAbort, Die
  <2>q. QED
    BY <1>1, <2>1, EndingPointers, PlainFiring DEF Rollback, Published
<1>4. CASE PollStep(q) \/ UpdateBuildState(q) \/ \E b \in BuildIds : WatchTask(q, b)
  BY <1>1, <1>2, <1>4, PollPlain, UpdateBuildStatePlain DEF PollStep
<1>5. CASE RealStep(q) \/ \E p \in Packages : RefreshPackage(q, p) \/ WatchTag(q, p)
  BY <1>2, <1>5, RealPlain
<1>6. CASE Schedule(q)
  BY <1>1, <1>2, <1>6, SchedulePlain, SkipPointers
<1>7. CASE Trigger(q) /\ UNCHANGED kojiVars
  BY <1>1, <1>7, TriggerPointers
<1>8. CASE ServeRequest(q)
  BY <1>2, <1>8, ServePlain
<1>q. QED
  BY <1>3, <1>4, <1>5, <1>6, <1>7, <1>8 DEF Acts, Step, TriggerStep

LEMMA EnvPointers ==
    ASSUME TypeInv, PointerInv, [Next]_vars, ~ \E q \in Procs : Acts(q)
    PROVE  /\ LastCompleteConsistent' /\ FlagOwned' /\ DeletedOwned'
           /\ \A b \in BuildIds : Published(b)
<1>1. CASE UNCHANGED <<db, work, xlock>>
  BY <1>1 DEF PointerInv, LastCompleteConsistent, BuildsOf, FlagOwned, DeletedOwned, Published
<1>2. ASSUME NEW p \in Packages, Resolve(p)
      PROVE  Touches
  BY <1>2, ResolveTouches
<1>q. QED
  BY <1>1, <1>2, TouchesOwned DEF Next, Acts, PassTimeout, KojiStep, dbVars, vars

LEMMA NextPointers ==
    ASSUME TypeInv, UniqueInv, FinishInv, PointerInv, [Next]_vars
    PROVE  PointerInv'
<1>1. KojiInv
  BY DEF FinishInv
<1>2. ASSUME NEW o \in Procs, Held(o), proc'[o] = proc[o], \A b \in BuildIds : Published(b)
      PROVE  Firing(o)' /\ \A p \in Packages : HeldOK(o, p)'
  <2>1. Firing(o)
    BY DEF PointerInv
  <2>2. Firing(o)'
    BY <1>1, <1>2, <2>1, FiringHeld
  <2>q. QED
    BY <1>2, <2>2, HeldStays
<1>3. ASSUME NEW q \in Procs, Acts(q)
      PROVE  PointerInv'
  <2>1. Pointers(q) /\ Firing(q)' /\ \A b \in BuildIds : Published(b)
    BY <1>3, ActsPointers
  <2>2. ASSUME NEW o \in Procs \ {q}
        PROVE  Firing(o)' /\ \A p \in Packages : HeldOK(o, p)'
    BY <1>2, <1>3, <2>1, <2>2, OthersHeld
  <2>q. QED
    BY <2>1, <2>2 DEF PointerInv, Pointers
<1>4. CASE ~ \E q \in Procs : Acts(q)
  <2>1. LastCompleteConsistent' /\ FlagOwned' /\ DeletedOwned'
        /\ \A b \in BuildIds : Published(b)
    BY <1>4, EnvPointers
  <2>2. ASSUME NEW o \in Procs
        PROVE  Firing(o)' /\ \A p \in Packages : HeldOK(o, p)'
    BY <1>2, <1>4, <2>1, EnvHeld
  <2>q. QED
    BY <2>1, <2>2 DEF PointerInv
<1>q. QED
  BY <1>3, <1>4

LEMMA InitPointers ==
    ASSUME Init
    PROVE  PointerInv
<1>1. Packages \cap BuildIds = {} /\ \A p \in Packages : p # NULL
  BY RowsAssumption, NullAssumption DEF BuildIds
<1>2. /\ \A p \in Packages : db[p] = NewPackage
      /\ \A b \in BuildIds : db[b] = NULL
      /\ work = db /\ \A r \in Rows : xlock[r] = NULL
  BY <1>1 DEF Init, Rows
<1>3. LastCompleteConsistent /\ FlagOwned /\ DeletedOwned
  BY <1>2 DEF LastCompleteConsistent, FlagOwned, DeletedOwned, NewPackage, BuildsOf
<1>4. ASSUME NEW q \in Procs
      PROVE  Firing(q) /\ \A p \in Packages : HeldOK(q, p)
  <2>1. proc[q].pc = "idle"
    BY DEF Init, IdleProc
  <2>2. q # NULL
    BY ProcsAssumption
  <2>q. QED
    BY <1>2, <2>1, <2>2 DEF Firing, HeldOK, Rows
<1>q. QED
  BY <1>3, <1>4 DEF PointerInv

(* The pointers of a package to its last complete build, the state copied   *)
(* beside it and the last_complete flags of its builds agree in every       *)
(* committed state, whatever triggers, deletions, registrations, skipped    *)
(* packages, crashes and deadlocks interleave (triggers.sql                 *)
(* update_last_build, skip_no_srpm), provided that the two queries of       *)
(* poll_builds see the same rows.                                           *)
THEOREM LastCompleteAgrees ==
    ASSUME PollAligned
    PROVE  Spec => []LastCompleteConsistent
<1>1. Init => TypeInv /\ UniqueInv /\ FinishInv /\ PointerInv
  BY InitTypes, InitFinish, InitPointers
<1>2. TypeInv /\ UniqueInv /\ FinishInv /\ PointerInv /\ [Next]_vars
      => TypeInv' /\ UniqueInv' /\ FinishInv' /\ PointerInv'
  BY NextTypes, StutterTypes, NextUnique, NextFinish, NextPointers
<1>3. PointerInv => LastCompleteConsistent
  BY DEF PointerInv
<1>q. QED
  BY <1>1, <1>2, <1>3, PTL DEF Spec

(* Every package is in order for everyone who is not updating it *)
SeenInOrder ==
    \A q \in Procs, p \in Packages : ~ Between(q, p) => PackageOK(View(q), p)

(* A transaction never reads half of an update: whichever process looks at  *)
(* a package, the rows it sees, its own uncommitted ones included, agree    *)
(* about the last complete build, except for the process that has written   *)
(* the package and is about to write the flags (the two UPDATEs of          *)
(* update_last_build and of skip_no_srpm). Like LastCompleteAgrees for      *)
(* aligned polls.                                                           *)
THEOREM TransactionsSeeOrder ==
    ASSUME PollAligned
    PROVE  Spec => []SeenInOrder
<1>1. Init => TypeInv /\ UniqueInv /\ FinishInv /\ PointerInv
  BY InitTypes, InitFinish, InitPointers
<1>2. TypeInv /\ UniqueInv /\ FinishInv /\ PointerInv /\ [Next]_vars
      => TypeInv' /\ UniqueInv' /\ FinishInv' /\ PointerInv'
  BY NextTypes, StutterTypes, NextUnique, NextFinish, NextPointers
<1>3. TypeInv /\ UniqueInv /\ FinishInv /\ PointerInv => SeenInOrder
  BY SeenOK DEF SeenInOrder
<1>q. QED
  BY <1>1, <1>2, <1>3, PTL DEF Spec
=============================================================================
