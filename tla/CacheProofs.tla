---------------------------- MODULE CacheProofs ----------------------------
(****************************************************************************)
(* What FileCache shows for two processes and three repos, proved for any   *)
(* number of them: lock files exclude, the index is kept within the         *)
(* capacity and true to the disk, and get_item implements SharedCache.      *)
(*                                                                          *)
(* The lock file of a name may be unlinked and created again while others   *)
(* wait on the old one, so LockInv ties exclusive_locked to the inode that  *)
(* the path has. From it follows that a name has one owner (OneOwner), and  *)
(* CacheInv says who owns which lock at each point of get_item and what     *)
(* that ownership keeps fixed.                                              *)
(****************************************************************************)
EXTENDS FileCache, TLAPS, FiniteSetTheorems

-----------------------------------------------------------------------------
(* The states of a lock *)
LockCalls   == [op : {"open", "lockf", "check"}, name : Names, ex : BOOLEAN, block : BOOLEAN]
UnlockCalls == [op : {"unlink", "close"}, name : Names]
FileLocks   == [ino : Nat, mode : {"no", "sh", "ex"}, excl : BOOLEAN]

LockType ==
    /\ path  \in [Names -> Nat]
    /\ flock \in [Procs -> [Names -> FileLocks]]
    /\ lk    \in [Procs -> {NoCall} \cup LockCalls \cup UnlockCalls]

Calling(p, n, ops) == lk[p].op \in ops /\ lk[p].name = n
Unlocking(p, n)    == Calling(p, n, {"unlink", "close"})

(* No two processes have the same open file locked exclusively *)
Exclusive ==
    \A n \in Names, p, q \in Procs :
        p # q /\ flock[p][n].mode = "ex" /\ flock[q][n].ino = flock[p][n].ino
        => flock[q][n].mode = "no"

(* What a lock call has reached by each of its system calls *)
CallOK(p, n) ==
    /\ flock[p][n].mode # "no" => flock[p][n].ino # 0
    /\ Calling(p, n, {"open"}) => flock[p][n].ino = 0
    /\ Calling(p, n, {"lockf"}) => flock[p][n].ino # 0
    /\ Calling(p, n, {"check"}) =>
          flock[p][n].ino # 0 /\ flock[p][n].mode = IF lk[p].ex THEN "ex" ELSE "sh"
    /\ Calling(p, n, {"unlink"}) => flock[p][n].excl
    /\ flock[p][n].mode = "ex" => flock[p][n].excl \/ Calling(p, n, {"check"})

(* exclusive_locked means a lock on the file that the path names, until     *)
(* that file is unlinked                                                    *)
ExclOK(p, n) ==
    flock[p][n].excl /\ ~ Calling(p, n, {"close"}) =>
        flock[p][n].mode # "no" /\ flock[p][n].ino = path[n] /\ path[n] # 0

(* A relaxed lock still excludes other exclusive ones *)
OneExcl ==
    \A n \in Names, p, q \in Procs :
        /\ flock[p][n].excl /\ ~ Calling(p, n, {"close"})
        /\ flock[q][n].excl /\ ~ Calling(q, n, {"close"})
        => p = q

LockInv ==
    /\ LockType
    /\ Exclusive /\ OneExcl
    /\ \A p \in Procs, n \in Names : CallOK(p, n) /\ ExclOK(p, n)

(* A process owns a name from the end of an exclusive lock call until it    *)
(* calls unlock, also after relaxing the lock to a shared one.              *)
Owns(p, n) == flock[p][n].excl /\ ~ Unlocking(p, n)

(* A lock name has at most one owner *)
OneOwner == \A n \in Names, p, q \in Procs : Owns(p, n) /\ Owns(q, n) => p = q

-----------------------------------------------------------------------------
(* Where in get_item a process owns its item, and where the index *)
ItemPCs ==
    {"look", "clean", "clean_victims", "reserve", "create", "download", "register",
     "mark", "relax", "recheck", "verify", "use", "using", "lost", "leave", "exit"}
CleanPCs == {"clean", "clean_victims"}
WorkPCs  == CleanPCs \cup {"reserve"}
FillPCs  == {"create", "download", "register", "mark"}
PCs      == ItemPCs \cup {"idle", "item", "index"}

EntryStates == {"none", "preparing", "ready"}

CacheType ==
    /\ index \in [Keys -> EntryStates]
    /\ dir \in [Keys -> {"none", "partial", "full"}]
    /\ pc \in [Procs -> PCs]
    /\ key \in [Procs -> Keys \cup {NoKey}]
    /\ mem \in [Procs -> [Keys -> EntryStates]]
    /\ todo \in [Procs -> SUBSET Keys]
    /\ cur \in [Procs -> Keys \cup {NoKey}]
    /\ crashes \in Nat

(* The lock or unlock call that a process may be in at each point *)
CallAt(p) ==
    InCall(p) =>
      \/ pc[p] \in {"idle", "item"} /\ lk[p].op \in {"unlink", "close"}
      \/ pc[p] = "index" /\ lk[p].op \in {"open", "lockf", "check"}
         /\ lk[p].name = key[p] /\ lk[p].ex /\ lk[p].block
      \/ pc[p] \in {"look", "mark"} /\ lk[p].op \in {"open", "lockf", "check"}
         /\ lk[p].name = Index /\ lk[p].ex /\ lk[p].block
      \/ pc[p] \in CleanPCs /\ lk[p].name \in Keys \ {key[p]}
      \/ pc[p] = "recheck" /\ lk[p].op \in {"open", "lockf", "check"}
      \/ pc[p] = "verify"
         /\ lk[p].op \in {"open", "lockf", "check"} /\ lk[p].name = Index
      \/ pc[p] \in {"relax", "create", "use", "lost", "exit"} /\ lk[p].name = Index

HasItem(p)  == pc[p] \in ItemPCs \/ At(p, "index")
HasIndex(p) == pc[p] \in WorkPCs \/ At(p, "look") \/ At(p, "mark")

Ownership(p) ==
    /\ pc[p] # "idle" => key[p] \in Keys
    /\ CallAt(p)
    /\ HasItem(p)  => Owns(p, key[p])
    /\ HasIndex(p) => Owns(p, Index)
    /\ cur[p] # NoKey => pc[p] \in CleanPCs /\ cur[p] # key[p]
    /\ pc[p] \in CleanPCs => key[p] \notin todo[p]

(* Its working copy lacks only entries of its own key, ready ones it chose  *)
(* as victims and those it removed from disk                                *)
CopyOK(p) ==
    pc[p] \in WorkPCs =>
        \A k \in Keys : /\ mem[p][k] \in {index[k], "none"}
                        /\ index[k] = "preparing" /\ k # key[p] => mem[p][k] = "preparing"

(* An owned item is reserved while it is filled and whole while it is used *)
ItemOK(p) ==
    /\ pc[p] \in FillPCs => index[key[p]] = "preparing"
    /\ pc[p] \in {"use", "using"} => dir[key[p]] = "full"

Bounded == IsFiniteSet(Entries(index)) /\ Cardinality(Entries(index)) <= Capacity

CacheInv ==
    /\ LockInv
    /\ CacheType
    /\ \A p \in Procs : Ownership(p) /\ CopyOK(p) /\ ItemOK(p)
    /\ ReadyIsWhole
    /\ Bounded

-----------------------------------------------------------------------------
(* The lock protocol *)
LEMMA Owner ==
    ASSUME LockInv
    PROVE  OneOwner
BY DEF LockInv, OneOwner, OneExcl, Owns, Unlocking, Calling

LEMMA CallTypes ==
    ASSUME LockType, NEW p \in Procs
    PROVE  /\ lk[p].op \in {"open", "lockf", "check"} => lk[p] \in LockCalls
           /\ lk[p].op \in {"unlink", "close"} => lk[p] \in UnlockCalls
           /\ lk[p].op = "none" <=> lk[p] = NoCall
BY DEF LockType, LockCalls, UnlockCalls, NoCall

(* At most as many inodes of a lock file are open as there are processes,   *)
(* so the file system finds one that is not.                                *)
LEMMA FreshInode ==
    ASSUME LockType, NEW n \in Names, path[n] = 0
    PROVE  /\ FreeInode(n) \in Nat \ {0}
           /\ \A q \in Procs : flock[q][n].ino # FreeInode(n)
<1> DEFINE S == {flock[q][n].ino : q \in Procs}
           f == [q \in Procs |-> flock[q][n].ino]
<1>1. IsFiniteSet(S) /\ Cardinality(S) <= Cardinality(Procs) /\ Cardinality(Procs) \in Nat
  <2>1. f \in Surjection(Procs, S)
    BY DEF Surjection
  <2>q. QED
    BY <2>1, ProcsFinite, FS_Surjection, FS_CardinalityType
<1>2. IsFiniteSet(Inodes) /\ Cardinality(Inodes) = Cardinality(Procs) + 1
  <2>1. Cardinality(Procs) + 1 \in Int /\ Cardinality(Procs) + 1 >= 1
    BY <1>1
  <2>q. QED
    BY <2>1, FS_Interval, 1 \in Int DEF Inodes
<1>3. ~ (Inodes \subseteq S)
  BY <1>1, <1>2, FS_Subset, FS_CardinalityType
<1>4. PICK i \in Inodes : i \notin S
  BY <1>3
<1>5. i # path[n] /\ \A q \in Procs : flock[q][n].ino # i
  BY <1>4 DEF Inodes
<1>6. FreeInode(n) \in Inodes /\ \A q \in Procs : flock[q][n].ino # FreeInode(n)
  BY <1>5 DEF FreeInode
<1>q. QED
  BY <1>1, <1>6 DEF Inodes

(* What a step of the lock protocol leaves alone, and what it ends in *)
Frame(p) ==
    /\ \A q \in Procs \ {p} : flock'[q] = flock[q] /\ lk'[q] = lk[q]
    /\ \A n \in Names : Owns(p, n) => Owns(p, n)'

LockOps == {"open", "lockf", "check"}

Proceeds(p) ==
    /\ lk[p].op \in LockOps /\ lk'[p].op \in LockOps
    /\ lk'[p].name = lk[p].name /\ lk'[p].ex = lk[p].ex /\ lk'[p].block = lk[p].block

Returns(p) ==
    /\ lk'[p] = NoCall
    /\ lk[p].op \in LockOps /\ lk[p].ex /\ lk[p].block =>
          \A n \in Names : n = lk[p].name => Owns(p, n)'

Releases(p) ==
    /\ lk[p].op = "unlink" /\ lk'[p].op = "close" /\ lk'[p].name = lk[p].name

Protocol(p) == LockInv' /\ Frame(p) /\ (Proceeds(p) \/ Returns(p) \/ Releases(p))

(* exclusive_locked, as far as the path is concerned *)
HasExcl(p, n) == flock[p][n].excl /\ ~ Calling(p, n, {"close"})

(* A step of p in a call for n that leaves the other names alone has to     *)
(* keep the invariant only at n.                                            *)
LEMMA LocalStep ==
    ASSUME LockInv, NEW p \in Procs, NEW n \in Names, LockType',
           \A q \in Procs \ {p} : flock'[q] = flock[q] /\ lk'[q] = lk[q],
           \A m \in Names \ {n} : flock'[p][m] = flock[p][m] /\ path'[m] = path[m],
           lk[p] = NoCall \/ lk[p].name = n,
           lk'[p] = NoCall \/ lk'[p].name = n,
           CallOK(p, n)', ExclOK(p, n)',
           \A q \in Procs \ {p} : HasExcl(q, n) => path'[n] = path[n] /\ ~ HasExcl(p, n)',
           \A q \in Procs \ {p} :
               flock[q][n].ino = flock'[p][n].ino /\ flock'[p][n].mode # "no"
               => flock[q][n].mode # "ex" /\ (flock'[p][n].mode = "ex" => flock[q][n].mode = "no")
    PROVE  LockInv'
<1>1. ASSUME NEW m \in Names, m # n
      PROVE  /\ CallOK(p, m)' /\ ExclOK(p, m)'
             /\ HasExcl(p, m)' => HasExcl(p, m)
  <2>1. \A ops \in {{"open"}, {"lockf"}, {"check"}, {"unlink"}, {"close"}} :
            ~ Calling(p, m, ops) /\ ~ Calling(p, m, ops)'
    BY <1>1 DEF Calling, NoCall
  <2>q. QED
    BY <1>1, <2>1 DEF LockInv, CallOK, ExclOK, HasExcl
<1>2. ASSUME NEW q \in Procs, q # p, NEW m \in Names
      PROVE  /\ CallOK(q, m)' /\ ExclOK(q, m)'
             /\ HasExcl(q, m)' = HasExcl(q, m)
  <2>1. CallOK(q, m)' /\ HasExcl(q, m)' = HasExcl(q, m)
    BY <1>2 DEF LockInv, CallOK, Calling, HasExcl
  <2>2. HasExcl(q, m) => path'[m] = path[m]
    BY <1>2
  <2>q. QED
    BY <1>2, <2>1, <2>2 DEF LockInv, ExclOK, HasExcl
<1>3. Exclusive'
  <2>1. SUFFICES ASSUME NEW m \in Names, NEW a \in Procs, NEW b \in Procs, a # b,
                        flock'[a][m].mode = "ex", flock'[b][m].ino = flock'[a][m].ino
                 PROVE  flock'[b][m].mode = "no"
    BY DEF Exclusive
  <2>2. CASE a # p /\ b # p
    BY <2>1, <2>2 DEF LockInv, Exclusive
  <2>3. CASE m # n
    BY <2>1, <2>3 DEF LockInv, Exclusive
  <2>4. CASE m = n /\ (a = p \/ b = p)
    BY <2>1, <2>4
  <2>q. QED
    BY <2>2, <2>3, <2>4
<1>4. OneExcl'
  <2>1. SUFFICES ASSUME NEW m \in Names, NEW a \in Procs, NEW b \in Procs,
                        HasExcl(a, m)', HasExcl(b, m)', a # b
                 PROVE  FALSE
    BY DEF OneExcl, HasExcl
  <2>2. CASE m = n /\ (a = p \/ b = p)
    BY <2>1, <2>2, <1>2
  <2>3. CASE m # n \/ (a # p /\ b # p)
    <3>1. HasExcl(a, m) /\ HasExcl(b, m)
      BY <2>1, <2>3, <1>1, <1>2
    <3>q. QED
      BY <2>1, <3>1 DEF LockInv, OneExcl, HasExcl
  <2>q. QED
    BY <2>2, <2>3
<1>q. QED
  BY <1>1, <1>2, <1>3, <1>4 DEF LockInv

LEMMA OpenLockOK ==
    ASSUME LockInv, NEW p \in Procs, OpenLock(p)
    PROVE  Protocol(p)
<1>1. LockType /\ lk[p] \in LockCalls /\ lk[p].op = "open"
  BY CallTypes DEF OpenLock, LockInv
<1>2. PICK n \in Names : n = lk[p].name
  BY <1>1 DEF LockCalls
<1>3. PICK i \in Nat \ {0} :
           /\ path[n] # 0 => i = path[n]
           /\ path[n] = 0 => \A q \in Procs : flock[q][n].ino # i
           /\ i = IF path[n] = 0 THEN FreeInode(n) ELSE path[n]
  BY <1>1, FreshInode DEF LockType
<1>4. /\ path' = [path EXCEPT ![n] = i]
      /\ flock' = [flock EXCEPT ![p][n].ino = i]
      /\ lk' = [lk EXCEPT ![p].op = "lockf"]
  BY <1>2, <1>3 DEF OpenLock
<1>5. flock[p][n] \in FileLocks
  BY <1>1 DEF LockType
<1>6. LockType'
  BY <1>1, <1>4, <1>5 DEF LockType, LockCalls, FileLocks
<1>7. /\ flock'[p][n].ino = i
      /\ flock'[p][n].mode = flock[p][n].mode /\ flock'[p][n].excl = flock[p][n].excl
      /\ \A m \in Names \ {n} : flock'[p][m] = flock[p][m] /\ path'[m] = path[m]
      /\ \A q \in Procs \ {p} : flock'[q] = flock[q] /\ lk'[q] = lk[q]
      /\ path'[n] = i
  BY <1>1, <1>4, <1>5 DEF LockType, FileLocks
<1>8. /\ lk'[p].op = "lockf" /\ lk'[p].name = n
      /\ lk'[p].ex = lk[p].ex /\ lk'[p].block = lk[p].block
  BY <1>1, <1>2, <1>4 DEF LockType, LockCalls
<1>9. flock[p][n].ino = 0 /\ flock[p][n].mode = "no" /\ ~ flock[p][n].excl
  BY <1>1, <1>2 DEF LockInv, CallOK, ExclOK, Calling
<1>10. \A q \in Procs : HasExcl(q, n) => path[n] # 0
  BY DEF LockInv, ExclOK, HasExcl
<1>11. CallOK(p, n)' /\ ExclOK(p, n)' /\ ~ HasExcl(p, n)'
  BY <1>3, <1>7, <1>8, <1>9 DEF CallOK, ExclOK, HasExcl, Calling
<1>12. LockInv'
  BY <1>2, <1>3, <1>6, <1>7, <1>8, <1>9, <1>10, <1>11, LocalStep
<1>13. Frame(p)
  BY <1>1, <1>2, <1>7, <1>8, <1>9 DEF Frame, Owns, Unlocking, Calling
<1>q. QED
  BY <1>1, <1>2, <1>8, <1>12, <1>13 DEF Protocol, Proceeds, LockOps

LEMMA LockFileOK ==
    ASSUME LockInv, NEW p \in Procs, LockFile(p)
    PROVE  Protocol(p)
<1>1. LockType /\ lk[p] \in LockCalls /\ lk[p].op = "lockf" /\ path' = path
  BY CallTypes DEF LockFile, LockInv
<1>2. PICK n \in Names : n = lk[p].name
  BY <1>1 DEF LockCalls
<1>3. flock[p][n] \in FileLocks /\ flock[p][n].ino # 0 /\ ~ Calling(p, n, {"close"})
  BY <1>1, <1>2 DEF LockType, LockInv, CallOK, Calling
<1>4. CASE /\ ~ Conflict(p, n, lk[p].ex)
           /\ flock' = [flock EXCEPT ![p][n].mode = IF lk[p].ex THEN "ex" ELSE "sh"]
           /\ lk' = [lk EXCEPT ![p].op = "check"]
  <2>1. LockType'
    BY <1>1, <1>3, <1>4 DEF LockType, LockCalls, FileLocks
  <2>2. /\ flock'[p][n].ino = flock[p][n].ino
        /\ flock'[p][n].mode = IF lk[p].ex THEN "ex" ELSE "sh"
        /\ flock'[p][n].excl = flock[p][n].excl
        /\ \A m \in Names \ {n} : flock'[p][m] = flock[p][m] /\ path'[m] = path[m]
        /\ \A q \in Procs \ {p} : flock'[q] = flock[q] /\ lk'[q] = lk[q]
    BY <1>1, <1>3, <1>4 DEF LockType, FileLocks
  <2>3. /\ lk'[p].op = "check" /\ lk'[p].name = n
        /\ lk'[p].ex = lk[p].ex /\ lk'[p].block = lk[p].block
    BY <1>1, <1>2, <1>4 DEF LockType, LockCalls
  <2>4. CallOK(p, n)' /\ ExclOK(p, n)' /\ (HasExcl(p, n)' => HasExcl(p, n))
    BY <1>1, <1>3, <2>2, <2>3 DEF LockInv, CallOK, ExclOK, HasExcl, Calling
  <2>5. \A q \in Procs \ {p} : flock[q][n].mode \in {"no", "sh", "ex"}
    BY <1>1 DEF LockType, FileLocks
  <2>6. \A q \in Procs \ {p} : flock[q][n].ino = flock[p][n].ino =>
            flock[q][n].mode # "ex" /\ (lk[p].ex => flock[q][n].mode = "no")
    BY <1>4, <2>5 DEF Conflict
  <2>7. \A q \in Procs \ {p} : HasExcl(q, n) => ~ HasExcl(p, n)
    BY DEF LockInv, OneExcl, HasExcl
  <2>8. LockInv'
    BY <1>1, <1>2, <2>1, <2>2, <2>3, <2>4, <2>6, <2>7, LocalStep
  <2>9. Frame(p)
    BY <1>1, <1>2, <2>2, <2>3 DEF Frame, Owns, Unlocking, Calling
  <2>q. QED
    BY <1>1, <1>2, <2>3, <2>8, <2>9 DEF Protocol, Proceeds, LockOps
<1>5. CASE ~ lk[p].block /\ lk' = [lk EXCEPT ![p] = NoCall] /\ flock' = flock
  <2>1. /\ lk'[p] = NoCall
        /\ \A m \in Names \ {n} : flock'[p][m] = flock[p][m] /\ path'[m] = path[m]
        /\ \A q \in Procs \ {p} : flock'[q] = flock[q] /\ lk'[q] = lk[q]
        /\ LockType'
    BY <1>1, <1>5 DEF LockType
  <2>2. CallOK(p, n)' /\ ExclOK(p, n)' /\ (HasExcl(p, n)' => HasExcl(p, n))
    BY <1>1, <1>2, <1>3, <1>5, <2>1 DEF LockInv, CallOK, ExclOK, HasExcl, Calling, NoCall
  <2>3. \A q \in Procs \ {p} : HasExcl(q, n) => ~ HasExcl(p, n)
    BY DEF LockInv, OneExcl, HasExcl
  <2>4. \A q \in Procs \ {p} :
            flock[q][n].ino = flock'[p][n].ino /\ flock'[p][n].mode # "no"
            => flock[q][n].mode # "ex" /\ (flock'[p][n].mode = "ex" => flock[q][n].mode = "no")
    BY <1>5 DEF LockInv, Exclusive
  <2>5. LockInv'
    BY <1>1, <1>2, <2>1, <2>2, <2>3, <2>4, LocalStep
  <2>6. Frame(p)
    BY <1>1, <1>5, <2>1 DEF Frame, Owns, Unlocking, Calling, NoCall
  <2>q. QED
    BY <1>5, <2>1, <2>5, <2>6 DEF Protocol, Returns
<1>q. QED
  BY <1>2, <1>4, <1>5 DEF LockFile

LEMMA CheckInodeOK ==
    ASSUME LockInv, NEW p \in Procs, CheckInode(p)
    PROVE  Protocol(p)
<1>1. LockType /\ lk[p] \in LockCalls /\ lk[p].op = "check" /\ path' = path
  BY CallTypes DEF CheckInode, LockInv
<1>2. PICK n \in Names : n = lk[p].name
  BY <1>1 DEF LockCalls
<1>3. /\ flock[p][n] \in FileLocks /\ flock[p][n].ino # 0 /\ ~ Calling(p, n, {"close"})
      /\ flock[p][n].mode = IF lk[p].ex THEN "ex" ELSE "sh"
      /\ lk[p].ex \in BOOLEAN
  BY <1>1, <1>2 DEF LockType, LockInv, CallOK, Calling, LockCalls
<1>4. \A q \in Procs \ {p} : HasExcl(q, n) => ~ HasExcl(p, n)
  BY DEF LockInv, OneExcl, HasExcl
<1>5. \A q \in Procs \ {p} : flock[q][n].ino = flock[p][n].ino =>
          flock[q][n].mode # "ex" /\ (lk[p].ex => flock[q][n].mode = "no")
  BY <1>3 DEF LockInv, Exclusive
<1>6. CASE /\ path[n] = flock[p][n].ino
           /\ flock' = [flock EXCEPT ![p][n].excl = @ \/ lk[p].ex]
           /\ lk' = [lk EXCEPT ![p] = NoCall]
  <2>1. LockType' /\ lk'[p] = NoCall
    BY <1>1, <1>3, <1>6 DEF LockType, LockCalls, FileLocks
  <2>2. /\ flock'[p][n].ino = flock[p][n].ino
        /\ flock'[p][n].mode = flock[p][n].mode
        /\ flock'[p][n].excl <=> flock[p][n].excl \/ lk[p].ex
        /\ \A m \in Names \ {n} : flock'[p][m] = flock[p][m] /\ path'[m] = path[m]
        /\ \A q \in Procs \ {p} : flock'[q] = flock[q] /\ lk'[q] = lk[q]
    BY <1>1, <1>3, <1>6 DEF LockType, FileLocks
  <2>3. CallOK(p, n)' /\ ExclOK(p, n)'
    <3>1. CallOK(p, n) /\ ExclOK(p, n)
      BY DEF LockInv
    <3>2. CallOK(p, n)'
      BY <1>1, <1>2, <1>3, <1>6, <2>1, <2>2, <3>1 DEF CallOK, Calling, NoCall
    <3>3. path'[n] = path[n] /\ lk[p].op = "check" /\ lk[p].name = n
      BY <1>1, <1>2, <1>3, <1>6
    <3>4. ExclOK(p, n)'
      BY <1>6, <2>1, <2>2, <3>1, <3>3 DEF ExclOK, CallOK, Calling, NoCall
    <3>q. QED
      BY <3>2, <3>4
  <2>4. ASSUME NEW q \in Procs \ {p}, HasExcl(q, n)
        PROVE  ~ HasExcl(p, n)'
    <3>1. flock[q][n].mode # "no" /\ flock[q][n].ino = path[n]
      BY <2>4 DEF LockInv, ExclOK, HasExcl
    <3>2. ~ lk[p].ex
      BY <1>5, <1>6, <3>1
    <3>q. QED
      BY <1>3, <1>4, <2>2, <2>4, <3>2 DEF HasExcl
  <2>5. LockInv'
    BY <1>1, <1>2, <1>3, <1>5, <2>1, <2>2, <2>3, <2>4, LocalStep
  <2>6. Frame(p) /\ (lk[p].ex => Owns(p, n)')
    BY <1>1, <1>2, <2>1, <2>2 DEF Frame, Owns, Unlocking, Calling, NoCall
  <2>q. QED
    BY <1>2, <2>1, <2>5, <2>6 DEF Protocol, Returns
<1>7. CASE /\ path[n] # flock[p][n].ino
           /\ flock' = [flock EXCEPT ![p][n] = [Closed EXCEPT !.excl = flock[p][n].excl]]
           /\ lk' = [lk EXCEPT ![p].op = "open"]
  <2>1. ~ flock[p][n].excl
    BY <1>3, <1>7 DEF LockInv, ExclOK
  <2>2. flock'[p][n] = [Closed EXCEPT !.excl = FALSE]
    BY <1>1, <1>3, <1>7, <2>1 DEF LockType, FileLocks
  <2>3. LockType'
    BY <1>1, <1>3, <1>7 DEF LockType, LockCalls, FileLocks, Closed
  <2>4. /\ flock'[p][n].ino = 0 /\ flock'[p][n].mode = "no" /\ ~ flock'[p][n].excl
        /\ \A m \in Names \ {n} : flock'[p][m] = flock[p][m] /\ path'[m] = path[m]
        /\ \A q \in Procs \ {p} : flock'[q] = flock[q] /\ lk'[q] = lk[q]
    BY <1>1, <1>7, <2>2 DEF LockType, Closed
  <2>5. /\ lk'[p].op = "open" /\ lk'[p].name = n
        /\ lk'[p].ex = lk[p].ex /\ lk'[p].block = lk[p].block
    BY <1>1, <1>2, <1>7 DEF LockType, LockCalls
  <2>6. CallOK(p, n)' /\ ExclOK(p, n)' /\ ~ HasExcl(p, n)'
    BY <2>4, <2>5 DEF CallOK, ExclOK, HasExcl, Calling
  <2>7. LockInv'
    BY <1>1, <1>2, <2>3, <2>4, <2>5, <2>6, LocalStep
  <2>8. Frame(p)
    BY <1>1, <1>2, <2>1, <2>4, <2>5 DEF Frame, Owns, Unlocking, Calling
  <2>q. QED
    BY <1>1, <1>2, <2>5, <2>7, <2>8 DEF Protocol, Proceeds, LockOps
<1>q. QED
  BY <1>2, <1>6, <1>7 DEF CheckInode

LEMMA UnlinkLockOK ==
    ASSUME LockInv, NEW p \in Procs, UnlinkLock(p)
    PROVE  Protocol(p)
<1>1. LockType /\ lk[p] \in UnlockCalls /\ lk[p].op = "unlink" /\ flock' = flock
  BY CallTypes DEF UnlinkLock, LockInv
<1>2. PICK n \in Names : n = lk[p].name
  BY <1>1 DEF UnlockCalls
<1>3. LockType' /\ lk'[p] \in UnlockCalls
  BY <1>1, <1>2 DEF UnlinkLock, LockType, UnlockCalls
<1>4. /\ lk'[p].op = "close" /\ lk'[p].name = n
      /\ \A m \in Names \ {n} : flock'[p][m] = flock[p][m] /\ path'[m] = path[m]
      /\ \A q \in Procs \ {p} : flock'[q] = flock[q] /\ lk'[q] = lk[q]
  BY <1>1, <1>2 DEF UnlinkLock, LockType, UnlockCalls
<1>5. HasExcl(p, n)
  BY <1>1, <1>2 DEF LockInv, CallOK, HasExcl, Calling
<1>6. \A q \in Procs \ {p} : ~ HasExcl(q, n)
  BY <1>5 DEF LockInv, OneExcl, HasExcl
<1>7. CallOK(p, n)' /\ ExclOK(p, n)'
  BY <1>1, <1>2, <1>4 DEF LockInv, CallOK, ExclOK, Calling
<1>8. \A q \in Procs \ {p} :
          flock[q][n].ino = flock'[p][n].ino /\ flock'[p][n].mode # "no"
          => flock[q][n].mode # "ex" /\ (flock'[p][n].mode = "ex" => flock[q][n].mode = "no")
  BY <1>1 DEF LockInv, Exclusive
<1>9. LockInv'
  BY <1>2, <1>3, <1>4, <1>6, <1>7, <1>8, LocalStep
<1>10. Frame(p)
  BY <1>1, <1>2, <1>4 DEF Frame, Owns, Unlocking, Calling
<1>q. QED
  BY <1>1, <1>2, <1>4, <1>9, <1>10 DEF Protocol, Releases

LEMMA CloseLockOK ==
    ASSUME LockInv, NEW p \in Procs, CloseLock(p)
    PROVE  Protocol(p)
<1>1. LockType /\ lk[p] \in UnlockCalls /\ lk[p].op = "close" /\ path' = path
  BY CallTypes DEF CloseLock, LockInv
<1>2. PICK n \in Names : n = lk[p].name
  BY <1>1 DEF UnlockCalls
<1>3. LockType' /\ lk'[p] = NoCall /\ flock'[p][n] = Closed
  BY <1>1, <1>2 DEF CloseLock, LockType, Closed, FileLocks
<1>4. /\ \A m \in Names \ {n} : flock'[p][m] = flock[p][m] /\ path'[m] = path[m]
      /\ \A q \in Procs \ {p} : flock'[q] = flock[q] /\ lk'[q] = lk[q]
  BY <1>1, <1>2 DEF CloseLock, LockType
<1>5. CallOK(p, n)' /\ ExclOK(p, n)' /\ ~ HasExcl(p, n)' /\ flock'[p][n].mode = "no"
  BY <1>3 DEF CallOK, ExclOK, HasExcl, Calling, Closed, NoCall
<1>6. LockInv'
  BY <1>1, <1>2, <1>3, <1>4, <1>5, LocalStep
<1>7. Frame(p)
  BY <1>1, <1>2, <1>3, <1>4 DEF Frame, Owns, Unlocking, Calling, NoCall
<1>q. QED
  BY <1>1, <1>3, <1>6, <1>7 DEF Protocol, Returns, LockOps

LEMMA LockStepOK ==
    ASSUME LockInv, NEW p \in Procs, LockStep(p)
    PROVE  Protocol(p)
BY OpenLockOK, LockFileOK, CheckInodeOK, UnlinkLockOK, CloseLockOK DEF LockStep

(* The calls that get_item makes *)
LEMMA LockCallOK ==
    ASSUME LockInv, NEW p \in Procs, ~ InCall(p), NEW n \in Names,
           NEW ex \in BOOLEAN, NEW block \in BOOLEAN,
           Lock(p, n, ex, block), UNCHANGED <<path, flock>>
    PROVE  /\ LockInv' /\ Frame(p)
           /\ lk'[p].op \in LockOps /\ lk'[p].name = n
           /\ lk'[p].ex = ex /\ lk'[p].block = block
<1>1. LockType /\ lk[p] = NoCall
  BY DEF LockInv, InCall
<1>2. lk'[p] = [op |-> IF flock[p][n].ino = 0 THEN "open" ELSE "lockf",
                name |-> n, ex |-> ex, block |-> block]
  BY <1>1 DEF Lock, LockType
<1>3. LockType' /\ \A q \in Procs \ {p} : flock'[q] = flock[q] /\ lk'[q] = lk[q]
  BY <1>1 DEF Lock, LockType, LockCalls
<1>4. CallOK(p, n)' /\ ExclOK(p, n)' /\ (HasExcl(p, n)' => HasExcl(p, n))
  BY <1>1, <1>2 DEF LockInv, CallOK, ExclOK, HasExcl, Calling, NoCall
<1>5. \A q \in Procs \ {p} : HasExcl(q, n) => ~ HasExcl(p, n)
  BY DEF LockInv, OneExcl, HasExcl
<1>6. \A q \in Procs \ {p} :
          flock[q][n].ino = flock'[p][n].ino /\ flock'[p][n].mode # "no"
          => flock[q][n].mode # "ex" /\ (flock'[p][n].mode = "ex" => flock[q][n].mode = "no")
  BY DEF LockInv, Exclusive
<1>7. LockInv'
  BY <1>1, <1>2, <1>3, <1>4, <1>5, <1>6, LocalStep
<1>8. Frame(p)
  BY <1>2, <1>3 DEF Frame, Owns, Unlocking, Calling
<1>q. QED
  BY <1>2, <1>7, <1>8 DEF LockOps

LEMMA UnlockCallOK ==
    ASSUME LockInv, NEW p \in Procs, ~ InCall(p), NEW n \in Names,
           Unlock(p, n), UNCHANGED <<path, flock>>
    PROVE  /\ LockInv'
           /\ lk'[p].op \in {"unlink", "close"} /\ lk'[p].name = n
           /\ \A q \in Procs \ {p} : flock'[q] = flock[q] /\ lk'[q] = lk[q]
           /\ \A m \in Names \ {n} : Owns(p, m) => Owns(p, m)'
<1>1. LockType /\ lk[p] = NoCall
  BY DEF LockInv, InCall
<1>2. lk'[p] = [op |-> IF flock[p][n].excl THEN "unlink" ELSE "close", name |-> n]
  BY <1>1 DEF Unlock, LockType
<1>3. LockType' /\ \A q \in Procs \ {p} : flock'[q] = flock[q] /\ lk'[q] = lk[q]
  BY <1>1 DEF Unlock, LockType, UnlockCalls
<1>4. CallOK(p, n)' /\ ExclOK(p, n)' /\ (HasExcl(p, n)' => HasExcl(p, n))
  BY <1>1, <1>2 DEF LockInv, CallOK, ExclOK, HasExcl, Calling, NoCall
<1>5. \A q \in Procs \ {p} : HasExcl(q, n) => ~ HasExcl(p, n)
  BY DEF LockInv, OneExcl, HasExcl
<1>6. \A q \in Procs \ {p} :
          flock[q][n].ino = flock'[p][n].ino /\ flock'[p][n].mode # "no"
          => flock[q][n].mode # "ex" /\ (flock'[p][n].mode = "ex" => flock[q][n].mode = "no")
  BY DEF LockInv, Exclusive
<1>7. LockInv'
  BY <1>1, <1>2, <1>3, <1>4, <1>5, <1>6, LocalStep
<1>8. \A m \in Names \ {n} : Owns(p, m) => Owns(p, m)'
  BY <1>2 DEF Owns, Unlocking, Calling
<1>q. QED
  BY <1>2, <1>3, <1>7, <1>8

LEMMA DropLocksOK ==
    ASSUME LockInv, NEW p \in Procs, DropLocks(p)
    PROVE  /\ LockInv' /\ lk'[p] = NoCall
           /\ \A q \in Procs \ {p} : flock'[q] = flock[q] /\ lk'[q] = lk[q]
<1>1. LockType' /\ lk'[p] = NoCall /\ path' = path
  BY DEF DropLocks, LockInv, LockType, FileLocks, Closed
<1>2. \A m \in Names : /\ flock'[p][m].ino = 0 /\ flock'[p][m].mode = "no"
                       /\ ~ flock'[p][m].excl
  BY DEF DropLocks, LockInv, LockType, Closed
<1>3. \A q \in Procs \ {p} : flock'[q] = flock[q] /\ lk'[q] = lk[q]
  BY DEF DropLocks, LockInv, LockType
<1>4. \A m \in Names : CallOK(p, m)' /\ ExclOK(p, m)'
  BY <1>1, <1>2 DEF CallOK, ExclOK, Calling, NoCall
<1>5. \A q \in Procs \ {p}, m \in Names : CallOK(q, m)' /\ ExclOK(q, m)'
  BY <1>1, <1>3 DEF LockInv, CallOK, ExclOK, Calling
<1>6. Exclusive'
  BY <1>2, <1>3 DEF LockInv, Exclusive
<1>7. OneExcl'
  BY <1>2, <1>3 DEF LockInv, OneExcl, Calling
<1>q. QED
  BY <1>1, <1>3, <1>4, <1>5, <1>6, <1>7 DEF LockInv

LEMMA NoLockStep ==
    ASSUME LockInv, UNCHANGED lockVars
    PROVE  LockInv' /\ \A p \in Procs, n \in Names : Owns(p, n)' = Owns(p, n)
BY DEF lockVars, LockInv, LockType, Exclusive, OneExcl, CallOK, ExclOK, Calling,
       Owns, Unlocking

-----------------------------------------------------------------------------
(* get_item: what a step of p has to guarantee *)
Apart(p) ==
    \A q \in Procs \ {p} :
        /\ flock'[q] = flock[q] /\ lk'[q] = lk[q]
        /\ pc'[q] = pc[q] /\ key'[q] = key[q] /\ mem'[q] = mem[q]
        /\ cur'[q] = cur[q] /\ todo'[q] = todo[q]

(* The index is written by its owner only, and the directory and a          *)
(* reservation of a key by the owner of the key only                        *)
DiskStep(p) ==
    /\ index' # index => Owns(p, Index)
    /\ \A k \in Keys : ~ Owns(p, k) =>
          dir'[k] = dir[k] /\ (index[k] = "preparing" => index'[k] = "preparing")
    /\ ReadyIsWhole' /\ Bounded'

StepOK(p) ==
    /\ LockInv' /\ CacheType' /\ Apart(p)
    /\ Ownership(p)' /\ CopyOK(p)' /\ ItemOK(p)'
    /\ DiskStep(p)

LEMMA KeyNames == Keys \subseteq Names /\ Index \in Names /\ Index \notin Keys /\ NoKey \notin Keys
BY CacheAssumption

LEMMA StepOKInv ==
    ASSUME CacheInv, NEW p \in Procs, StepOK(p)
    PROVE  CacheInv'
<1>1. ASSUME NEW q \in Procs, q # p
      PROVE  Ownership(q)' /\ CopyOK(q)' /\ ItemOK(q)'
  <2>1. /\ flock'[q] = flock[q] /\ lk'[q] = lk[q]
        /\ pc'[q] = pc[q] /\ key'[q] = key[q] /\ mem'[q] = mem[q]
        /\ cur'[q] = cur[q] /\ todo'[q] = todo[q]
    BY <1>1 DEF StepOK, Apart
  <2>2. Ownership(q) /\ CopyOK(q) /\ ItemOK(q)
    BY DEF CacheInv
  <2>3. Ownership(q)'
    BY <2>1, <2>2 DEF Ownership, CallAt, InCall, HasItem, HasIndex, At, Owns, Unlocking, Calling
  <2>4. \A n \in Names : Owns(q, n) => ~ Owns(p, n)
    BY <1>1, Owner DEF CacheInv, OneOwner
  <2>5. CopyOK(q)'
    <3>1. pc[q] \in WorkPCs => index' = index
      BY <2>2, <2>4, KeyNames DEF StepOK, DiskStep, Ownership, HasIndex
    <3>q. QED
      BY <2>1, <2>2, <3>1 DEF CopyOK
  <2>6. ItemOK(q)'
    <3>1. pc[q] \in FillPCs \cup {"use", "using"} => key[q] \in Keys /\ ~ Owns(p, key[q])
      BY <2>2, <2>4, KeyNames DEF Ownership, HasItem, ItemPCs, FillPCs
    <3>q. QED
      BY <2>1, <2>2, <3>1 DEF ItemOK, StepOK, DiskStep
  <2>q. QED
    BY <2>3, <2>5, <2>6
<1>q. QED
  BY <1>1 DEF CacheInv, StepOK, DiskStep

LEMMA DiskQuiet ==
    ASSUME CacheInv, UNCHANGED Disk, NEW p
    PROVE  DiskStep(p)
BY DEF CacheInv, Disk, DiskStep, ReadyIsWhole, Bounded, Entries

(* Steps that only start a call or go on in get_item *)
LEMMA GetItemOK ==
    ASSUME CacheInv, NEW p \in Procs, NEW k \in Keys, GetItem(p, k)
    PROVE  StepOK(p)
<1>1. LockInv' /\ CacheType' /\ Apart(p) /\ DiskStep(p)
  BY NoLockStep, DiskQuiet
     DEF GetItem, Goto, CacheInv, CacheType, Apart, Disk, lockVars, PCs
<1>2. pc'[p] = "item" /\ key'[p] = k /\ lk' = lk /\ cur'[p] = cur[p]
  BY DEF GetItem, Goto, CacheInv, CacheType, lockVars
<1>3. Ownership(p)'
  BY <1>2 DEF GetItem, At, CacheInv, Ownership, CallAt, InCall, HasItem, HasIndex,
              ItemPCs, WorkPCs, CleanPCs
<1>4. CopyOK(p)' /\ ItemOK(p)'
  BY <1>2 DEF CopyOK, ItemOK, WorkPCs, CleanPCs, FillPCs
<1>q. QED
  BY <1>1, <1>3, <1>4 DEF StepOK

LEMMA LockItemOK ==
    ASSUME CacheInv, NEW p \in Procs, LockItem(p)
    PROVE  StepOK(p)
<1>1. ~ InCall(p) /\ pc[p] = "item" /\ key[p] \in Keys /\ cur[p] = NoKey
  BY DEF LockItem, At, CacheInv, Ownership, CleanPCs
<1>2. /\ LockInv' /\ Frame(p) /\ lk'[p].op \in LockOps /\ lk'[p].name = key[p]
      /\ lk'[p].ex /\ lk'[p].block
  BY <1>1, LockCallOK, KeyNames DEF LockItem, CacheInv
<1>3. CacheType' /\ Apart(p) /\ DiskStep(p)
  BY <1>2, DiskQuiet DEF LockItem, Goto, CacheInv, CacheType, Apart, Frame, Local, Disk, PCs
<1>4. pc'[p] = "index" /\ key' = key /\ cur' = cur
  BY DEF LockItem, Goto, CacheInv, CacheType, Local
<1>5. Ownership(p)'
  BY <1>1, <1>2, <1>4 DEF Ownership, CallAt, InCall, HasItem, HasIndex, At, ItemPCs, WorkPCs,
                          CleanPCs, LockOps, NoCall
<1>6. CopyOK(p)' /\ ItemOK(p)'
  BY <1>4 DEF CopyOK, ItemOK, WorkPCs, CleanPCs, FillPCs
<1>q. QED
  BY <1>2, <1>3, <1>5, <1>6 DEF StepOK

LEMMA LockIndexOK ==
    ASSUME CacheInv, NEW p \in Procs, LockIndex(p)
    PROVE  StepOK(p)
<1>1. /\ ~ InCall(p) /\ key[p] \in Keys /\ cur[p] = NoKey /\ Owns(p, key[p])
      /\ \/ pc[p] = "index" /\ pc' = [pc EXCEPT ![p] = "look"]
         \/ pc[p] = "register" /\ pc' = [pc EXCEPT ![p] = "mark"]
  BY DEF LockIndex, Goto, At, CacheInv, Ownership, CleanPCs, HasItem, ItemPCs
<1>2. /\ LockInv' /\ Frame(p) /\ lk'[p].op \in LockOps /\ lk'[p].name = Index
      /\ lk'[p].ex /\ lk'[p].block
  BY <1>1, LockCallOK, KeyNames DEF LockIndex, CacheInv
<1>3. CacheType' /\ Apart(p) /\ DiskStep(p)
  BY <1>1, <1>2, DiskQuiet
     DEF LockIndex, CacheInv, CacheType, Apart, Frame, Local, Disk, PCs, ItemPCs
<1>4. pc'[p] \in {"look", "mark"} /\ key' = key /\ cur' = cur /\ index' = index
  BY <1>1 DEF LockIndex, CacheInv, CacheType, Local, Disk
<1>5. Ownership(p)'
  BY <1>1, <1>2, <1>4, KeyNames
     DEF Ownership, CallAt, InCall, HasItem, HasIndex, At, WorkPCs, CleanPCs, LockOps,
         NoCall, Frame
<1>6. CopyOK(p)'
  BY <1>4 DEF CopyOK, WorkPCs, CleanPCs
<1>7. ItemOK(p)'
  BY <1>1, <1>4 DEF CacheInv, CacheType, ItemOK, FillPCs
<1>q. QED
  BY <1>2, <1>3, <1>5, <1>6, <1>7 DEF StepOK

LEMMA LookOK ==
    ASSUME CacheInv, NEW p \in Procs, Look(p)
    PROVE  StepOK(p)
<1>1. /\ ~ InCall(p) /\ key[p] \in Keys /\ cur[p] = NoKey /\ pc[p] = "look"
      /\ Owns(p, key[p]) /\ Owns(p, Index)
  BY DEF Look, At, CacheInv, Ownership, CleanPCs, HasItem, HasIndex, ItemPCs
<1>2. /\ DiskStep(p) /\ key' = key /\ cur' = cur /\ crashes' = crashes /\ index' = index
      /\ dir' = dir
  BY DiskQuiet DEF Look, Disk
<1>3. CASE index[key[p]] = "ready"
  <2>1. /\ Unlock(p, Index) /\ pc' = [pc EXCEPT ![p] = "relax"]
        /\ UNCHANGED <<path, flock, mem, todo>>
    BY <1>3 DEF Look, Goto
  <2>2. /\ LockInv' /\ lk'[p].op \in {"unlink", "close"} /\ lk'[p].name = Index
        /\ Owns(p, key[p])'
    BY <1>1, <1>2, <2>1, UnlockCallOK, KeyNames DEF CacheInv
  <2>3. CacheType' /\ Apart(p)
    BY <1>1, <1>2, <2>1, UnlockCallOK, KeyNames
       DEF CacheInv, CacheType, Apart, PCs, ItemPCs
  <2>4. pc'[p] = "relax"
    BY <2>1 DEF CacheInv, CacheType
  <2>5. Ownership(p)'
    BY <1>1, <1>2, <2>2, <2>4
       DEF Ownership, CallAt, HasItem, HasIndex, At, WorkPCs, CleanPCs
  <2>6. CopyOK(p)' /\ ItemOK(p)'
    BY <2>4 DEF CopyOK, ItemOK, WorkPCs, CleanPCs, FillPCs
  <2>q. QED
    BY <1>2, <2>2, <2>3, <2>5, <2>6 DEF StepOK
<1>4. CASE index[key[p]] # "ready"
  <2> DEFINE e == [index EXCEPT ![key[p]] = "none"]
  <2>1. /\ UNCHANGED lockVars /\ mem' = [mem EXCEPT ![p] = e]
        /\ \/ pc' = [pc EXCEPT ![p] = "clean"] /\ todo' = [todo EXCEPT ![p] = Invalid(p, e)]
           \/ pc' = [pc EXCEPT ![p] = "reserve"] /\ todo' = todo
    BY <1>4 DEF Look, Goto, lockVars
  <2>2. LockInv' /\ Owns(p, key[p])' /\ Owns(p, Index)'
    BY <1>1, <1>2, <2>1, NoLockStep, KeyNames DEF CacheInv
  <2>3. e \in [Keys -> EntryStates] /\ Invalid(p, e) \subseteq Keys \ {key[p]}
    BY <1>1 DEF CacheInv, CacheType, EntryStates, Invalid
  <2> HIDE DEF e
  <2>4. CacheType' /\ Apart(p)
    <3>1. todo' \in [Procs -> SUBSET Keys]
      BY <2>1, <2>3 DEF CacheInv, CacheType
    <3>q. QED
      BY <1>2, <2>1, <2>3, <3>1 DEF CacheInv, CacheType, Apart, lockVars, PCs, ItemPCs
  <2>5. /\ pc'[p] \in {"clean", "reserve"} /\ mem'[p] = e /\ ~ InCall(p)'
        /\ pc'[p] = "clean" => key[p] \notin todo'[p]
    BY <1>1, <2>1, <2>3 DEF CacheInv, CacheType, InCall, lockVars
  <2>6. Ownership(p)'
    BY <1>1, <1>2, <2>2, <2>5 DEF Ownership, CallAt, CleanPCs
  <2>7. CopyOK(p)'
    BY <1>1, <1>2, <2>5 DEF CopyOK, CacheInv, CacheType, e
  <2>8. ItemOK(p)'
    BY <2>5 DEF ItemOK, FillPCs
  <2>q. QED
    BY <1>2, <2>2, <2>4, <2>6, <2>7, <2>8 DEF StepOK
<1>q. QED
  BY <1>3, <1>4

LEMMA CleanTryOK ==
    ASSUME CacheInv, NEW p \in Procs, NEW d \in Keys, CleanTry(p, d)
    PROVE  StepOK(p)
<1>1. /\ ~ InCall(p) /\ key[p] \in Keys /\ pc[p] \in CleanPCs
      /\ Owns(p, key[p]) /\ Owns(p, Index)
  BY DEF CleanTry, At, CacheInv, Ownership, HasItem, HasIndex, ItemPCs, CleanPCs, WorkPCs
<1>2. LockInv' /\ Frame(p) /\ lk'[p].op \in LockOps /\ lk'[p].name = d
  BY <1>1, LockCallOK, KeyNames DEF CleanTry, CacheInv
<1>3. CacheType' /\ Apart(p) /\ DiskStep(p)
  BY <1>2, DiskQuiet DEF CleanTry, CacheInv, CacheType, Apart, Frame, Disk
<1>4. /\ pc' = pc /\ key' = key /\ mem' = mem /\ cur'[p] = d /\ index' = index /\ dir' = dir
  BY DEF CleanTry, CacheInv, CacheType, Disk
<1>5. d # key[p] /\ key[p] \notin todo'[p]
  BY <1>1 DEF CleanTry, CacheInv, CacheType, Ownership
<1>6. Ownership(p)'
  BY <1>1, <1>2, <1>4, <1>5, KeyNames DEF Ownership, CallAt, Frame
<1>7. CopyOK(p)' /\ ItemOK(p)'
  BY <1>4 DEF CacheInv, CopyOK, ItemOK
<1>q. QED
  BY <1>2, <1>3, <1>6, <1>7 DEF StepOK

(* Writing the index *)
LEMMA Shrink ==
    ASSUME CacheInv, \A k \in Keys : index'[k] \in {index[k], "none"}
    PROVE  Bounded'
<1>1. Entries(index') \subseteq Entries(index)
  BY DEF Entries
<1>2. IsFiniteSet(Entries(index')) /\ Cardinality(Entries(index')) <= Cardinality(Entries(index))
  BY <1>1, FS_Subset DEF CacheInv, Bounded
<1>3. Cardinality(Entries(index')) \in Nat /\ Cardinality(Entries(index)) \in Nat
  BY <1>2, FS_CardinalityType DEF CacheInv, Bounded
<1>q. QED
  BY <1>2, <1>3, CacheAssumption DEF CacheInv, Bounded

(* Removing the directory and the entry of a key that _cleanup_items locked *)
LEMMA Removed ==
    ASSUME CacheInv, NEW p \in Procs, ~ InCall(p), cur[p] # NoKey, CleanLocked(p),
           NEW s \in {"none", "partial"},
           mem' = [mem EXCEPT ![p][cur[p]] = "none"], index' = mem'[p],
           dir' = [dir EXCEPT ![cur[p]] = s]
    PROVE  /\ DiskStep(p)
           /\ index' \in [Keys -> EntryStates]
           /\ dir' \in [Keys -> {"none", "partial", "full"}]
           /\ mem' \in [Procs -> [Keys -> EntryStates]]
<1>1. PICK c \in Keys : c = cur[p]
  BY DEF CacheInv, CacheType
<1>2. /\ pc[p] \in CleanPCs /\ key[p] \in Keys /\ c # key[p]
      /\ Owns(p, key[p]) /\ Owns(p, Index)
  BY <1>1 DEF CacheInv, Ownership, HasItem, HasIndex, CleanPCs, ItemPCs, WorkPCs
<1>3. Owns(p, c)
  BY <1>1, KeyNames
     DEF CacheInv, LockInv, CallOK, CleanLocked, RemoveLocked, Owns, Unlocking, Calling,
         InCall, NoCall
<1>4. mem[p] \in [Keys -> EntryStates] /\ mem'[p] = [mem[p] EXCEPT ![c] = "none"]
  BY <1>1 DEF CacheInv, CacheType
<1>5. \A k \in Keys : /\ mem[p][k] \in {index[k], "none"}
                      /\ index[k] = "preparing" /\ k # key[p] => mem[p][k] = "preparing"
  BY <1>2 DEF CacheInv, CopyOK, WorkPCs
<1>6. \A k \in Keys : /\ index'[k] = IF k = c THEN "none" ELSE mem[p][k]
                      /\ dir'[k] = IF k = c THEN s ELSE dir[k]
  BY <1>1, <1>4 DEF CacheInv, CacheType
<1>7. ReadyIsWhole' /\ Bounded'
  BY <1>5, <1>6, Shrink DEF CacheInv, ReadyIsWhole
<1>8. DiskStep(p)
  BY <1>2, <1>3, <1>5, <1>6, <1>7 DEF DiskStep
<1>q. QED
  BY <1>1, <1>4, <1>8 DEF CacheInv, CacheType, EntryStates

LEMMA CleanEvictOK ==
    ASSUME CacheInv, NEW p \in Procs, CleanEvict(p)
    PROVE  StepOK(p)
<1>1. /\ DiskStep(p) /\ index' \in [Keys -> EntryStates]
      /\ dir' \in [Keys -> {"none", "partial", "full"}]
      /\ mem' \in [Procs -> [Keys -> EntryStates]]
  BY Removed DEF CleanEvict
<1>2. CacheType' /\ Apart(p)
  BY <1>1 DEF CleanEvict, CacheInv, CacheType, Apart, lockVars
<1>3. LockInv' /\ \A n \in Names : Owns(p, n)' = Owns(p, n)
  BY NoLockStep DEF CleanEvict, CacheInv
<1>4. pc[p] \in CleanPCs /\ key[p] \in Keys
  BY DEF CleanEvict, CacheInv, Ownership, CleanPCs
<1>5. UNCHANGED <<lk, pc, key, todo, cur>> /\ index' = mem'[p]
  BY DEF CleanEvict, lockVars
<1>6. Ownership(p)'
  BY <1>3, <1>4, <1>5, KeyNames
     DEF CacheInv, Ownership, CallAt, InCall, HasItem, HasIndex, At, CleanPCs
<1>7. CopyOK(p)' /\ ItemOK(p)'
  BY <1>4, <1>5 DEF CopyOK, ItemOK, CleanPCs, FillPCs
<1>q. QED
  BY <1>1, <1>2, <1>3, <1>6, <1>7 DEF StepOK

LEMMA CleanRemoveOK ==
    ASSUME CacheInv, NEW p \in Procs, CleanRemove(p)
    PROVE  StepOK(p)
<1>1. PICK c \in Keys : c = cur[p]
  BY DEF CleanRemove, CacheInv, CacheType
<1>2. /\ pc[p] \in CleanPCs /\ key[p] \in Keys /\ c # key[p] /\ ~ InCall(p)
      /\ Owns(p, key[p]) /\ Owns(p, Index)
  BY <1>1, KeyNames
     DEF CleanRemove, CacheInv, Ownership, HasItem, HasIndex, CleanPCs, ItemPCs, WorkPCs
<1>3. UNCHANGED <<path, flock, pc, key, todo, crashes>> /\ cur' = [cur EXCEPT ![p] = NoKey]
  BY DEF CleanRemove
<1>4. /\ LockInv' /\ lk'[p].op \in {"unlink", "close"} /\ lk'[p].name = c
      /\ \A q \in Procs \ {p} : flock'[q] = flock[q] /\ lk'[q] = lk[q]
      /\ Owns(p, key[p])' /\ Owns(p, Index)'
  BY <1>1, <1>2, <1>3, UnlockCallOK, KeyNames DEF CleanRemove, CacheInv
<1>5. /\ DiskStep(p) /\ CopyOK(p)'
      /\ index' \in [Keys -> EntryStates]
      /\ dir' \in [Keys -> {"none", "partial", "full"}]
      /\ mem' \in [Procs -> [Keys -> EntryStates]]
      /\ \A q \in Procs \ {p} : mem'[q] = mem[q]
  <2>1. CASE CleanLocked(p)
    <3>1. /\ mem' = [mem EXCEPT ![p][cur[p]] = "none"] /\ index' = mem'[p]
          /\ dir' = [dir EXCEPT ![cur[p]] = "none"]
      BY <2>1 DEF CleanRemove
    <3>2. cur[p] # NoKey
      BY <1>1, KeyNames
    <3>3. /\ DiskStep(p) /\ index' \in [Keys -> EntryStates]
          /\ dir' \in [Keys -> {"none", "partial", "full"}]
          /\ mem' \in [Procs -> [Keys -> EntryStates]]
      BY <1>2, <2>1, <3>1, <3>2, Removed
    <3>4. CopyOK(p)' /\ \A q \in Procs \ {p} : mem'[q] = mem[q]
      BY <3>1 DEF CopyOK, CacheInv, CacheType
    <3>q. QED
      BY <3>3, <3>4
  <2>2. CASE ~ CleanLocked(p)
    <3>1. UNCHANGED <<mem, Disk>>
      BY <2>2 DEF CleanRemove, Disk
    <3>q. QED
      BY <1>3, <3>1, DiskQuiet DEF CopyOK, CacheInv, CacheType, Disk
  <2>q. QED
    BY <2>1, <2>2
<1>6. CacheType' /\ Apart(p)
  BY <1>3, <1>4, <1>5 DEF CacheInv, CacheType, Apart
<1>7. Ownership(p)'
  <2>1. cur'[p] = NoKey
    BY <1>3 DEF CacheInv, CacheType
  <2>q. QED
    BY <1>2, <1>3, <1>4, <2>1 DEF CacheInv, Ownership, CallAt
<1>8. ItemOK(p)'
  BY <1>2, <1>3 DEF ItemOK, CleanPCs, FillPCs
<1>q. QED
  BY <1>4, <1>5, <1>6, <1>7, <1>8 DEF StepOK

LEMMA VictimsReady ==
    ASSUME NEW e, NEW k \in Victims(e)
    PROVE  e[k] = "ready"
BY DEF Victims

LEMMA CleanDoneOK ==
    ASSUME CacheInv, NEW p \in Procs, CleanDone(p)
    PROVE  StepOK(p)
<1> DEFINE vs == Victims(mem[p])
           e  == [k \in Keys |-> IF k \in vs THEN "none" ELSE mem[p][k]]
<1>1. /\ ~ InCall(p) /\ key[p] \in Keys /\ pc[p] \in CleanPCs /\ cur[p] = NoKey
      /\ Owns(p, key[p]) /\ Owns(p, Index) /\ mem[p] \in [Keys -> EntryStates]
  BY DEF CleanDone, At, CacheInv, Ownership, HasItem, HasIndex, ItemPCs, CleanPCs, WorkPCs,
         CacheType
<1>2. index' = mem[p] /\ UNCHANGED <<lockVars, dir, mtime, key, cur, crashes>>
  BY DEF CleanDone
<1>3. \/ /\ mem' = [mem EXCEPT ![p] = e]
         /\ todo' = [todo EXCEPT ![p] = Invalid(p, e)]
         /\ pc' = [pc EXCEPT ![p] = "clean_victims"]
      \/ pc' = [pc EXCEPT ![p] = "reserve"] /\ UNCHANGED <<mem, todo>>
  BY DEF CleanDone, Goto
<1>4. e \in [Keys -> EntryStates] /\ Invalid(p, e) \subseteq Keys /\ key[p] \notin Invalid(p, e)
  BY <1>1 DEF EntryStates, Invalid
<1>5. \A k \in Keys : /\ e[k] \in {mem[p][k], "none"}
                      /\ mem[p][k] = "preparing" => e[k] = "preparing"
  BY VictimsReady
<1> HIDE DEF e, vs
<1>6. \A k \in Keys : /\ mem[p][k] \in {index[k], "none"}
                      /\ index[k] = "preparing" /\ k # key[p] => mem[p][k] = "preparing"
  BY <1>1 DEF CacheInv, CopyOK, WorkPCs
<1>7. LockInv' /\ Owns(p, key[p])' /\ Owns(p, Index)' /\ ~ InCall(p)'
  BY <1>1, <1>2, NoLockStep, KeyNames DEF CacheInv, lockVars, InCall
<1>8. DiskStep(p)
  <2>1. ReadyIsWhole' /\ Bounded'
    BY <1>2, <1>6, Shrink DEF CacheInv, ReadyIsWhole
  <2>q. QED
    BY <1>1, <1>2, <1>6, <2>1 DEF DiskStep
<1>9. CacheType' /\ Apart(p)
  <2>1. todo' \in [Procs -> SUBSET Keys] /\ mem' \in [Procs -> [Keys -> EntryStates]]
    <3>1. todo \in [Procs -> SUBSET Keys] /\ mem \in [Procs -> [Keys -> EntryStates]]
      BY DEF CacheInv, CacheType
    <3>2. Invalid(p, e) \in SUBSET Keys
      BY <1>4
    <3>q. QED
      BY <1>3, <1>4, <3>1, <3>2
  <2>q. QED
    BY <1>1, <1>2, <1>3, <2>1
       DEF CacheInv, CacheType, Apart, lockVars, PCs, ItemPCs
<1>10. /\ pc'[p] \in {"clean_victims", "reserve"}
       /\ pc'[p] = "clean_victims" => key[p] \notin todo'[p]
       /\ mem'[p] \in {mem[p], e}
  BY <1>3, <1>4 DEF CacheInv, CacheType
<1>11. Ownership(p)'
  BY <1>1, <1>2, <1>7, <1>10 DEF Ownership, CallAt, CleanPCs
<1>12. CopyOK(p)' /\ ItemOK(p)'
  BY <1>2, <1>5, <1>10 DEF CopyOK, ItemOK, FillPCs
<1>q. QED
  BY <1>7, <1>8, <1>9, <1>11, <1>12 DEF StepOK

LEMMA ExhaustedOK ==
    ASSUME CacheInv, NEW p \in Procs, Exhausted(p)
    PROVE  StepOK(p)
<1>1. /\ ~ InCall(p) /\ key[p] \in Keys /\ cur[p] = NoKey /\ Owns(p, key[p])
  BY DEF Exhausted, At, CacheInv, Ownership, HasItem, ItemPCs, CleanPCs
<1>2. LockInv' /\ Owns(p, key[p])' /\ ~ InCall(p)'
  BY <1>1, NoLockStep, KeyNames DEF Exhausted, CacheInv, lockVars, InCall
<1>3. CacheType' /\ Apart(p) /\ DiskStep(p)
  BY DiskQuiet DEF Exhausted, Goto, CacheInv, CacheType, Apart, lockVars, Disk, NoEntries,
                   EntryStates, PCs, ItemPCs
<1>4. pc'[p] = "leave" /\ key' = key /\ cur' = cur
  BY DEF Exhausted, Goto, CacheInv, CacheType
<1>5. Ownership(p)' /\ CopyOK(p)' /\ ItemOK(p)'
  BY <1>1, <1>2, <1>4 DEF Ownership, CallAt, HasIndex, At, CopyOK, ItemOK, WorkPCs, CleanPCs,
                          FillPCs
<1>q. QED
  BY <1>2, <1>3, <1>5 DEF StepOK

LEMMA ReserveOK ==
    ASSUME CacheInv, NEW p \in Procs, Reserve(p)
    PROVE  StepOK(p)
<1>1. /\ ~ InCall(p) /\ key[p] \in Keys /\ pc[p] = "reserve" /\ cur[p] = NoKey
      /\ Owns(p, key[p]) /\ Owns(p, Index) /\ mem[p] \in [Keys -> EntryStates]
  BY DEF Reserve, At, CacheInv, Ownership, HasItem, HasIndex, ItemPCs, CleanPCs, WorkPCs,
         CacheType
<1>2. /\ index' = [mem[p] EXCEPT ![key[p]] = "preparing"]
      /\ mem' = [mem EXCEPT ![p] = NoEntries]
      /\ Unlock(p, Index) /\ pc' = [pc EXCEPT ![p] = "create"]
      /\ UNCHANGED <<path, flock, dir, mtime, key, todo, cur, crashes>>
      /\ ~ Full(mem[p])
  BY DEF Reserve, Goto
<1>3. /\ LockInv' /\ lk'[p].op \in {"unlink", "close"} /\ lk'[p].name = Index
      /\ \A q \in Procs \ {p} : flock'[q] = flock[q] /\ lk'[q] = lk[q]
      /\ Owns(p, key[p])'
  BY <1>1, <1>2, UnlockCallOK, KeyNames DEF CacheInv
<1>4. \A k \in Keys : /\ mem[p][k] \in {index[k], "none"}
                      /\ index[k] = "preparing" /\ k # key[p] => mem[p][k] = "preparing"
  BY <1>1 DEF CacheInv, CopyOK, WorkPCs
<1>5. Bounded'
  <2>1. Entries(mem[p]) \subseteq Entries(index)
    BY <1>4 DEF Entries
  <2>2. IsFiniteSet(Entries(mem[p])) /\ Cardinality(Entries(mem[p])) \in Nat
    BY <2>1, FS_Subset, FS_CardinalityType DEF CacheInv, Bounded
  <2>3. Cardinality(Entries(mem[p])) < Capacity
    BY <1>2, <2>2, CacheAssumption DEF Full
  <2>4. Entries(index') = Entries(mem[p]) \cup {key[p]}
    BY <1>1, <1>2 DEF Entries
  <2>5. /\ IsFiniteSet(Entries(index'))
        /\ Cardinality(Entries(index')) \in {Cardinality(Entries(mem[p])),
                                             Cardinality(Entries(mem[p])) + 1}
    BY <2>2, <2>4, FS_AddElement
  <2>q. QED
    BY <2>2, <2>3, <2>5, CacheAssumption DEF Bounded
<1>6. ReadyIsWhole'
  BY <1>1, <1>2, <1>4 DEF CacheInv, ReadyIsWhole
<1>7. DiskStep(p)
  BY <1>1, <1>2, <1>4, <1>5, <1>6 DEF DiskStep
<1>8. CacheType' /\ Apart(p)
  BY <1>1, <1>2, <1>3 DEF CacheInv, CacheType, Apart, NoEntries, EntryStates, PCs, ItemPCs
<1>9. pc'[p] = "create" /\ index'[key[p]] = "preparing"
  BY <1>1, <1>2 DEF CacheInv, CacheType
<1>10. Ownership(p)' /\ CopyOK(p)' /\ ItemOK(p)'
  BY <1>1, <1>2, <1>3, <1>9
     DEF Ownership, CallAt, HasIndex, At, CopyOK, ItemOK, WorkPCs, CleanPCs
<1>q. QED
  BY <1>3, <1>7, <1>8, <1>10 DEF StepOK

(* create_item, with the item owned and reserved *)
LEMMA MakeDirOK ==
    ASSUME CacheInv, NEW p \in Procs, MakeDir(p)
    PROVE  StepOK(p)
<1>1. /\ ~ InCall(p) /\ key[p] \in Keys /\ cur[p] = NoKey /\ Owns(p, key[p])
      /\ index[key[p]] = "preparing"
  BY DEF MakeDir, At, CacheInv, Ownership, HasItem, ItemPCs, CleanPCs, ItemOK, FillPCs
<1>2. LockInv' /\ Owns(p, key[p])' /\ ~ InCall(p)'
  BY <1>1, NoLockStep, KeyNames DEF MakeDir, CacheInv, lockVars, InCall, Local
<1>3. /\ dir' = [dir EXCEPT ![key[p]] = "partial"] /\ pc' = [pc EXCEPT ![p] = "download"]
      /\ UNCHANGED <<index, Local, lockVars>>
  BY DEF MakeDir, Goto
<1>4. DiskStep(p)
  BY <1>1, <1>3 DEF CacheInv, CacheType, DiskStep, ReadyIsWhole, Bounded, Entries
<1>5. CacheType' /\ Apart(p)
  BY <1>1, <1>3 DEF CacheInv, CacheType, Apart, Local, lockVars, PCs, ItemPCs
<1>6. pc'[p] = "download" /\ key' = key /\ cur' = cur
  BY <1>3 DEF CacheInv, CacheType, Local
<1>7. Ownership(p)' /\ CopyOK(p)' /\ ItemOK(p)'
  BY <1>1, <1>2, <1>3, <1>6
     DEF Ownership, CallAt, HasIndex, At, CopyOK, ItemOK, WorkPCs, CleanPCs
<1>q. QED
  BY <1>2, <1>4, <1>5, <1>7 DEF StepOK

LEMMA DownloadOK ==
    ASSUME CacheInv, NEW p \in Procs, Download(p)
    PROVE  StepOK(p)
<1>1. /\ ~ InCall(p) /\ key[p] \in Keys /\ cur[p] = NoKey /\ Owns(p, key[p])
      /\ index[key[p]] = "preparing"
  BY DEF Download, At, CacheInv, Ownership, HasItem, ItemPCs, CleanPCs, ItemOK, FillPCs
<1>2. LockInv' /\ Owns(p, key[p])' /\ ~ InCall(p)'
  BY <1>1, NoLockStep, KeyNames DEF Download, CacheInv, lockVars, InCall, Local
<1>3. /\ dir' = [dir EXCEPT ![key[p]] = "full"] \/ dir' = dir
      /\ pc' = [pc EXCEPT ![p] = "register"] \/ pc' = [pc EXCEPT ![p] = "leave"]
      /\ UNCHANGED <<index, Local, lockVars>>
  BY DEF Download, Goto
<1>4. DiskStep(p)
  BY <1>1, <1>3 DEF CacheInv, CacheType, DiskStep, ReadyIsWhole, Bounded, Entries
<1>5. CacheType' /\ Apart(p)
  BY <1>1, <1>3 DEF CacheInv, CacheType, Apart, Local, lockVars, PCs, ItemPCs
<1>6. pc'[p] \in {"register", "leave"} /\ key' = key /\ cur' = cur
  BY <1>3 DEF CacheInv, CacheType, Local
<1>7. Ownership(p)' /\ CopyOK(p)' /\ ItemOK(p)'
  BY <1>1, <1>2, <1>3, <1>6
     DEF Ownership, CallAt, HasIndex, At, CopyOK, ItemOK, WorkPCs, CleanPCs
<1>q. QED
  BY <1>2, <1>4, <1>5, <1>7 DEF StepOK

LEMMA MarkOK ==
    ASSUME CacheInv, NEW p \in Procs, Mark(p)
    PROVE  StepOK(p)
<1>1. /\ ~ InCall(p) /\ key[p] \in Keys /\ cur[p] = NoKey /\ index[key[p]] = "preparing"
      /\ Owns(p, key[p]) /\ Owns(p, Index)
  BY DEF Mark, At, CacheInv, Ownership, HasItem, HasIndex, ItemPCs, CleanPCs, ItemOK, FillPCs
<1>2. UNCHANGED <<path, flock, key, mem, todo, cur, crashes>>
  BY DEF Mark, Local
<1>3. CASE dir[key[p]] = "full"
  <2>1. /\ index' = [index EXCEPT ![key[p]] = "ready"] /\ dir' = dir
        /\ Unlock(p, Index) /\ pc' = [pc EXCEPT ![p] = "relax"]
    BY <1>3 DEF Mark, Goto
  <2>2. /\ LockInv' /\ lk'[p].op \in {"unlink", "close"} /\ lk'[p].name = Index
        /\ \A q \in Procs \ {p} : flock'[q] = flock[q] /\ lk'[q] = lk[q]
        /\ Owns(p, key[p])'
    BY <1>1, <1>2, <2>1, UnlockCallOK, KeyNames DEF CacheInv
  <2>3. Entries(index') = Entries(index)
    BY <1>1, <2>1 DEF CacheInv, CacheType, Entries
  <2>4. DiskStep(p)
    BY <1>1, <1>3, <2>1, <2>3 DEF CacheInv, CacheType, DiskStep, ReadyIsWhole, Bounded
  <2>5. CacheType' /\ Apart(p)
    BY <1>1, <1>2, <2>1, <2>2
       DEF CacheInv, CacheType, Apart, EntryStates, PCs, ItemPCs
  <2>6. pc'[p] = "relax"
    BY <2>1 DEF CacheInv, CacheType
  <2>7. Ownership(p)' /\ CopyOK(p)' /\ ItemOK(p)'
    BY <1>1, <1>2, <2>2, <2>6
       DEF Ownership, CallAt, HasIndex, At, CopyOK, ItemOK, WorkPCs, CleanPCs, FillPCs
  <2>q. QED
    BY <2>2, <2>4, <2>5, <2>7 DEF StepOK
<1>4. CASE dir[key[p]] # "full"
  <2>1. /\ index' = [index EXCEPT ![key[p]] = "none"]
        /\ dir' = [dir EXCEPT ![key[p]] = "none"]
        /\ UNCHANGED lockVars /\ pc' = [pc EXCEPT ![p] = "leave"]
    BY <1>2, <1>4 DEF Mark, Goto, lockVars
  <2>2. LockInv' /\ Owns(p, key[p])' /\ ~ InCall(p)'
    BY <1>1, <1>2, <2>1, NoLockStep, KeyNames DEF CacheInv, lockVars, InCall
  <2>3. Bounded' /\ ReadyIsWhole'
    BY <1>1, <2>1, Shrink DEF CacheInv, CacheType, ReadyIsWhole
  <2>4. DiskStep(p)
    BY <1>1, <2>1, <2>3 DEF CacheInv, CacheType, DiskStep
  <2>5. CacheType' /\ Apart(p)
    BY <1>1, <1>2, <2>1
       DEF CacheInv, CacheType, Apart, EntryStates, PCs, ItemPCs, lockVars
  <2>6. pc'[p] = "leave"
    BY <2>1 DEF CacheInv, CacheType
  <2>7. Ownership(p)' /\ CopyOK(p)' /\ ItemOK(p)'
    BY <1>1, <1>2, <2>2, <2>6
       DEF Ownership, CallAt, HasIndex, At, CopyOK, ItemOK, WorkPCs, CleanPCs, FillPCs
  <2>q. QED
    BY <2>2, <2>4, <2>5, <2>7 DEF StepOK
<1>q. QED
  BY <1>3, <1>4

(* Relaxing the item lock, using the item and leaving *)
LEMMA RelaxOK ==
    ASSUME CacheInv, NEW p \in Procs, Relax(p)
    PROVE  StepOK(p)
<1>1. ~ InCall(p) /\ key[p] \in Keys /\ cur[p] = NoKey /\ Owns(p, key[p])
  BY DEF Relax, At, CacheInv, Ownership, HasItem, ItemPCs, CleanPCs
<1>2. LockInv' /\ Frame(p) /\ lk'[p].op \in LockOps
  BY <1>1, LockCallOK, KeyNames DEF Relax, CacheInv
<1>3. CacheType' /\ Apart(p) /\ DiskStep(p)
  BY <1>2, DiskQuiet
     DEF Relax, Goto, CacheInv, CacheType, Apart, Frame, Local, Disk, PCs, ItemPCs
<1>4. pc'[p] = "recheck" /\ key' = key /\ cur' = cur
  BY DEF Relax, Goto, CacheInv, CacheType, Local
<1>5. Ownership(p)' /\ CopyOK(p)' /\ ItemOK(p)'
  BY <1>1, <1>2, <1>4, KeyNames
     DEF Ownership, CallAt, HasIndex, At, CopyOK, ItemOK, WorkPCs, CleanPCs, FillPCs,
         LockOps, Frame
<1>q. QED
  BY <1>2, <1>3, <1>5 DEF StepOK

LEMMA RecheckOK ==
    ASSUME CacheInv, NEW p \in Procs, Recheck(p)
    PROVE  StepOK(p)
<1>1. ~ InCall(p) /\ key[p] \in Keys /\ cur[p] = NoKey /\ Owns(p, key[p])
  BY DEF Recheck, At, CacheInv, Ownership, HasItem, ItemPCs, CleanPCs
<1>2. LockInv' /\ Frame(p) /\ lk'[p].op \in LockOps /\ lk'[p].name = Index
  BY <1>1, LockCallOK, KeyNames DEF Recheck, CacheInv
<1>3. CacheType' /\ Apart(p) /\ DiskStep(p)
  BY <1>2, DiskQuiet
     DEF Recheck, Goto, CacheInv, CacheType, Apart, Frame, Local, Disk, PCs, ItemPCs
<1>4. pc'[p] = "verify" /\ key' = key /\ cur' = cur
  BY DEF Recheck, Goto, CacheInv, CacheType, Local
<1>5. Ownership(p)' /\ CopyOK(p)' /\ ItemOK(p)'
  BY <1>1, <1>2, <1>4, KeyNames
     DEF Ownership, CallAt, HasIndex, At, CopyOK, ItemOK, WorkPCs, CleanPCs, FillPCs,
         LockOps, Frame
<1>q. QED
  BY <1>2, <1>3, <1>5 DEF StepOK

LEMMA VerifyOK ==
    ASSUME CacheInv, NEW p \in Procs, Verify(p)
    PROVE  StepOK(p)
<1>1. ~ InCall(p) /\ key[p] \in Keys /\ cur[p] = NoKey /\ Owns(p, key[p])
  BY DEF Verify, At, CacheInv, Ownership, HasItem, ItemPCs, CleanPCs
<1>2. /\ LockInv' /\ lk'[p].op \in {"unlink", "close"} /\ lk'[p].name = Index
      /\ \A q \in Procs \ {p} : flock'[q] = flock[q] /\ lk'[q] = lk[q]
      /\ Owns(p, key[p])'
  BY <1>1, UnlockCallOK, KeyNames DEF Verify, CacheInv, Local
<1>3. CacheType' /\ Apart(p) /\ DiskStep(p)
  BY <1>2, DiskQuiet
     DEF Verify, Goto, CacheInv, CacheType, Apart, Local, Disk, PCs, ItemPCs
<1>4. /\ pc'[p] = IF index[key[p]] = "ready" THEN "use" ELSE "lost"
      /\ key' = key /\ cur' = cur /\ dir' = dir
  BY DEF Verify, Goto, CacheInv, CacheType, Local, Disk
<1>5. Ownership(p)'
  BY <1>1, <1>2, <1>4
     DEF Ownership, CallAt, HasIndex, At, WorkPCs, CleanPCs
<1>6. CopyOK(p)' /\ ItemOK(p)'
  BY <1>1, <1>4 DEF CacheInv, ReadyIsWhole, CopyOK, ItemOK, WorkPCs, CleanPCs, FillPCs
<1>q. QED
  BY <1>2, <1>3, <1>5, <1>6 DEF StepOK

LEMMA UseItemOK ==
    ASSUME CacheInv, NEW p \in Procs, UseItem(p)
    PROVE  StepOK(p)
<1>1. /\ ~ InCall(p) /\ key[p] \in Keys /\ cur[p] = NoKey /\ Owns(p, key[p])
      /\ dir[key[p]] = "full"
  BY DEF UseItem, At, CacheInv, Ownership, HasItem, ItemPCs, CleanPCs, ItemOK
<1>2. LockInv' /\ Owns(p, key[p])' /\ ~ InCall(p)'
  BY <1>1, NoLockStep, KeyNames DEF UseItem, CacheInv, lockVars, InCall, Local
<1>3. CacheType' /\ Apart(p) /\ DiskStep(p)
  BY DiskQuiet DEF UseItem, Goto, CacheInv, CacheType, Apart, Local, Disk, lockVars, PCs, ItemPCs
<1>4. pc'[p] = "using" /\ key' = key /\ cur' = cur /\ dir' = dir
  BY DEF UseItem, Goto, CacheInv, CacheType, Local, Disk
<1>5. Ownership(p)' /\ CopyOK(p)' /\ ItemOK(p)'
  BY <1>1, <1>2, <1>4
     DEF Ownership, CallAt, HasIndex, At, CopyOK, ItemOK, WorkPCs, CleanPCs, FillPCs
<1>q. QED
  BY <1>2, <1>3, <1>5 DEF StepOK

LEMMA LeaveIndexOK ==
    ASSUME CacheInv, NEW p \in Procs, LeaveIndex(p)
    PROVE  StepOK(p)
<1>1. ~ InCall(p) /\ key[p] \in Keys /\ cur[p] = NoKey /\ Owns(p, key[p])
  BY DEF LeaveIndex, At, CacheInv, Ownership, HasItem, ItemPCs, CleanPCs
<1>2. /\ LockInv' /\ lk'[p].op \in {"unlink", "close"} /\ lk'[p].name = Index
      /\ \A q \in Procs \ {p} : flock'[q] = flock[q] /\ lk'[q] = lk[q]
      /\ Owns(p, key[p])'
  BY <1>1, UnlockCallOK, KeyNames DEF LeaveIndex, CacheInv, Local
<1>3. CacheType' /\ Apart(p) /\ DiskStep(p)
  BY <1>2, DiskQuiet
     DEF LeaveIndex, Goto, CacheInv, CacheType, Apart, Local, Disk, PCs, ItemPCs
<1>4. pc'[p] = "exit" /\ key' = key /\ cur' = cur
  BY DEF LeaveIndex, Goto, CacheInv, CacheType, Local
<1>5. Ownership(p)' /\ CopyOK(p)' /\ ItemOK(p)'
  BY <1>1, <1>2, <1>4
     DEF Ownership, CallAt, HasIndex, At, CopyOK, ItemOK, WorkPCs, CleanPCs, FillPCs
<1>q. QED
  BY <1>2, <1>3, <1>5 DEF StepOK

LEMMA LeaveItemOK ==
    ASSUME CacheInv, NEW p \in Procs, LeaveItem(p)
    PROVE  StepOK(p)
<1>1. /\ ~ InCall(p) /\ key[p] \in Keys /\ cur[p] = NoKey
      /\ \/ pc' = [pc EXCEPT ![p] = "item"] /\ key' = key
         \/ pc' = [pc EXCEPT ![p] = "idle"] /\ key' = [key EXCEPT ![p] = NoKey]
  BY DEF LeaveItem, Goto, At, CacheInv, Ownership, CleanPCs
<1>2. /\ LockInv' /\ lk'[p].op \in {"unlink", "close"}
      /\ \A q \in Procs \ {p} : flock'[q] = flock[q] /\ lk'[q] = lk[q]
  BY <1>1, UnlockCallOK, KeyNames DEF LeaveItem, CacheInv, Local
<1>3. CacheType' /\ Apart(p) /\ DiskStep(p)
  BY <1>1, <1>2, DiskQuiet
     DEF LeaveItem, CacheInv, CacheType, Apart, Local, Disk, PCs
<1>4. pc'[p] \in {"item", "idle"} /\ (pc'[p] = "item" => key' = key) /\ cur' = cur
  BY <1>1 DEF LeaveItem, CacheInv, CacheType, Local
<1>5. Ownership(p)' /\ CopyOK(p)' /\ ItemOK(p)'
  BY <1>1, <1>2, <1>4
     DEF Ownership, CallAt, HasItem, HasIndex, At, CopyOK, ItemOK, ItemPCs, WorkPCs, CleanPCs,
         FillPCs
<1>q. QED
  BY <1>2, <1>3, <1>5 DEF StepOK

LEMMA CrashOK ==
    ASSUME CacheInv, NEW p \in Procs, Crash(p)
    PROVE  StepOK(p)
<1>1. /\ LockInv' /\ lk'[p] = NoCall
      /\ \A q \in Procs \ {p} : flock'[q] = flock[q] /\ lk'[q] = lk[q]
  BY DropLocksOK DEF Crash, CacheInv
<1>2. CacheType' /\ Apart(p) /\ DiskStep(p)
  BY <1>1, DiskQuiet
     DEF Crash, Goto, CacheInv, CacheType, Apart, Disk, PCs, NoEntries, EntryStates
<1>3. pc'[p] = "idle" /\ cur'[p] = NoKey
  BY DEF Crash, Goto, CacheInv, CacheType
<1>4. Ownership(p)' /\ CopyOK(p)' /\ ItemOK(p)'
  BY <1>1, <1>3
     DEF Ownership, CallAt, InCall, HasItem, HasIndex, At, CopyOK, ItemOK, ItemPCs, WorkPCs,
         CleanPCs, FillPCs
<1>q. QED
  BY <1>1, <1>2, <1>4 DEF StepOK

(* A system call of the lock protocol *)
LEMMA LockCallStepOK ==
    ASSUME CacheInv, NEW p \in Procs, LockStep(p), UNCHANGED cacheVars
    PROVE  StepOK(p)
<1>1. LockInv' /\ Frame(p) /\ (Proceeds(p) \/ Returns(p) \/ Releases(p))
  BY LockStepOK DEF CacheInv, Protocol
<1>2. CacheType' /\ Apart(p) /\ DiskStep(p) /\ CopyOK(p)' /\ ItemOK(p)'
  BY <1>1, DiskQuiet
     DEF cacheVars, CacheInv, CacheType, Apart, Frame, Disk, CopyOK, ItemOK
<1>3. UNCHANGED <<pc, key, cur, todo>> /\ Ownership(p) /\ InCall(p)
  BY CallTypes DEF cacheVars, CacheInv, LockInv, LockStep, OpenLock, LockFile, CheckInode,
                   UnlinkLock, CloseLock, InCall, NoCall
<1>4. CallAt(p)'
  BY <1>1, <1>3
     DEF Ownership, CallAt, Proceeds, Returns, Releases, LockOps, InCall, NoCall
<1>5. (HasItem(p) => Owns(p, key[p]))'
  <2>1. CASE pc[p] \in ItemPCs
    BY <1>1, <1>3, <2>1, KeyNames DEF Ownership, HasItem, Frame, ItemPCs
  <2>2. CASE pc[p] = "index"
    <3>1. InCall(p)' \/ Returns(p)
      BY <1>1 DEF Proceeds, Releases, InCall, NoCall, LockOps
    <3>2. key[p] \in Names /\ lk[p].op \in LockOps /\ lk[p].name = key[p] /\ lk[p].ex /\ lk[p].block
      BY <1>3, <2>2, KeyNames DEF Ownership, CallAt, LockOps, CleanPCs
    <3>q. QED
      BY <1>3, <2>2, <3>1, <3>2 DEF HasItem, At, Returns, ItemPCs
  <2>3. CASE pc[p] \notin ItemPCs \cup {"index"}
    BY <1>3, <2>3 DEF HasItem, At
  <2>q. QED
    BY <2>1, <2>2, <2>3
<1>6. (HasIndex(p) => Owns(p, Index))'
  BY <1>1, <1>3, KeyNames
     DEF Ownership, CallAt, HasIndex, At, Frame, Proceeds, Returns, Releases, LockOps, InCall,
         NoCall, WorkPCs, CleanPCs
<1>q. QED
  BY <1>1, <1>2, <1>3, <1>4, <1>5, <1>6 DEF StepOK, Ownership

-----------------------------------------------------------------------------
LEMMA CacheInit == Init => CacheInv
<1>1. SUFFICES ASSUME Init PROVE CacheInv
  OBVIOUS
<1>2. LockInv
  BY <1>1 DEF Init, LockInit, LockInv, LockType, Exclusive, OneExcl, CallOK, ExclOK, Calling,
         FileLocks, Closed, NoCall
<1>3. CacheType
  BY <1>1 DEF Init, CacheType, NoEntries, EntryStates, PCs
<1>4. ASSUME NEW p \in Procs
      PROVE  Ownership(p) /\ CopyOK(p) /\ ItemOK(p)
  BY <1>1 DEF Init, LockInit, Ownership, CallAt, InCall, HasItem, HasIndex, At, CopyOK, ItemOK,
         ItemPCs, WorkPCs, CleanPCs, FillPCs
<1>5. Entries(index) = {} /\ ReadyIsWhole
  BY <1>1 DEF Init, NoEntries, Entries, ReadyIsWhole
<1>6. Bounded
  BY <1>5, FS_EmptySet, CacheAssumption DEF Bounded
<1>q. QED
  BY <1>2, <1>3, <1>4, <1>5, <1>6 DEF CacheInv

LEMMA CacheStepOK ==
    ASSUME CacheInv, NEW p \in Procs,
           CacheStep(p) \/ Crash(p) \/ \E k \in Keys : GetItem(p, k)
    PROVE  StepOK(p)
<1>1. CacheStep(p) => StepOK(p)
  BY LockItemOK, LockIndexOK, LookOK, CleanEvictOK, CleanRemoveOK, CleanTryOK, CleanDoneOK,
     ExhaustedOK, ReserveOK, MakeDirOK, DownloadOK, MarkOK, RelaxOK, RecheckOK, VerifyOK,
     UseItemOK, LeaveIndexOK, LeaveItemOK, LockCallStepOK
     DEF CacheStep
<1>q. QED
  BY <1>1, CrashOK, GetItemOK

LEMMA CacheStutter == CacheInv /\ UNCHANGED vars => CacheInv'
<1>1. SUFFICES ASSUME CacheInv, UNCHANGED vars PROVE CacheInv'
  OBVIOUS
<1>2. LockInv'
  BY <1>1, NoLockStep DEF CacheInv, vars
<1>q. QED
  BY <1>1, <1>2
     DEF CacheInv, vars, lockVars, cacheVars, CacheType, Ownership, CallAt, InCall, HasItem,
         HasIndex, At, Owns, Unlocking, Calling, CopyOK, ItemOK, ReadyIsWhole, Bounded, Entries

(* Every reachable state satisfies the invariant *)
THEOREM CacheInvariant == Spec => []CacheInv
<1>1. CacheInv /\ [Next]_vars => CacheInv'
  BY CacheStepOK, StepOKInv, CacheStutter DEF Next
<1>q. QED
  BY <1>1, CacheInit, PTL DEF Spec

(* A lock file has one owner at a time, although its holder unlinks it while *)
(* others wait on it and holders may die: util.FileLock.lock and unlock.     *)
THEOREM LocksExclude == Spec => []OneOwner
<1>1. CacheInv => OneOwner
  BY Owner DEF CacheInv
<1>q. QED
  BY <1>1, CacheInvariant, PTL

(* An entry that index.json calls ready has its complete directory, whatever *)
(* crash came between two steps of FileCache.get_item.                       *)
THEOREM ReadyEntriesAreWhole == Spec => []ReadyIsWhole
<1>1. CacheInv => ReadyIsWhole
  BY DEF CacheInv
<1>q. QED
  BY <1>1, CacheInvariant, PTL

(* index.json never lists more entries than the capacity, also when several  *)
(* processes reserve, evict and fail at once.                                *)
THEOREM CapacityKept == Spec => []WithinCapacity
<1>1. CacheInv => WithinCapacity
  BY DEF CacheInv, Bounded, WithinCapacity
<1>q. QED
  BY <1>1, CacheInvariant, PTL

-----------------------------------------------------------------------------
(* The refinement of SharedCache: only the owner of an item touches its     *)
(* directory, and every user of an item owns it.                            *)
LEMMA UserOwns ==
    ASSUME CacheInv, NEW p \in Procs, pc[p] = "using"
    PROVE  /\ key[p] \in Keys /\ Owns(p, key[p]) /\ dir[key[p]] = "full"
           /\ Using[p] = key[p]
BY DEF CacheInv, Ownership, HasItem, ItemPCs, ItemOK, Using

LEMMA ChangesUnused ==
    ASSUME CacheInv, NEW p \in Procs, NEW k \in Keys, Owns(p, k), pc[p] # "using",
           NEW s \in {"none", "partial", "full"}, dir' = [dir EXCEPT ![k] = s],
           Using' = Using
    PROVE  Promise!Change(k)
<1>1. ASSUME NEW q \in Procs
      PROVE  Using[q] # k
  <2>1. CASE pc[q] = "using"
    BY <2>1, UserOwns, Owner, KeyNames DEF CacheInv, OneOwner
  <2>2. CASE pc[q] # "using"
    BY <2>2, KeyNames DEF Using
  <2>q. QED
    BY <2>1, <2>2
<1>q. QED
  BY <1>1 DEF Promise!Change, Promise!NotUsed

(* A step between two points that are not "using" *)
LEMMA UsingKept ==
    ASSUME CacheInv, NEW p \in Procs, StepOK(p), pc[p] # "using", pc'[p] # "using"
    PROVE  Using' = Using
BY DEF StepOK, Apart, Using

LEMMA DirChanges ==
    ASSUME CacheInv, NEW p \in Procs, StepOK(p),
           \/ CleanEvict(p) \/ CleanRemove(p) \/ MakeDir(p) \/ Download(p) \/ Mark(p)
    PROVE  (\E k \in Keys : Promise!Change(k)) \/ UNCHANGED <<dir, Using>>
<1>1. pc[p] # "using" /\ pc'[p] # "using" /\ pc[p] # "idle"
  BY DEF CleanEvict, CleanRemove, MakeDir, Download, Mark, At, Goto, CacheInv, CacheType,
         Ownership, CleanPCs, Local
<1>2. Using' = Using
  BY <1>1, UsingKept
<1>3. PICK k \in Keys, s \in {"none", "partial", "full"} :
           dir' = dir \/ (dir' = [dir EXCEPT ![k] = s] /\ dir'[k] # dir[k])
  <2>1. key[p] \in Keys
    BY <1>1 DEF CacheInv, Ownership
  <2>2. CleanEvict(p) \/ CleanRemove(p) => cur[p] \in Keys
    BY DEF CleanEvict, CleanRemove, CacheInv, CacheType
  <2>3. \E k \in Keys, s \in {"none", "partial", "full"} :
            dir' = dir \/ dir' = [dir EXCEPT ![k] = s]
    BY <2>1, <2>2 DEF CleanEvict, CleanRemove, MakeDir, Download, Mark
  <2>4. \A k \in Keys, s \in {"none", "partial", "full"} :
            dir' = [dir EXCEPT ![k] = s] /\ dir'[k] = dir[k] => dir' = dir
    BY DEF CacheInv, CacheType
  <2>q. QED
    BY <2>3, <2>4
<1>4. CASE dir' = dir
  BY <1>2, <1>4
<1>5. CASE dir' = [dir EXCEPT ![k] = s] /\ dir'[k] # dir[k]
  <2>1. Owns(p, k)
    BY <1>5 DEF StepOK, DiskStep
  <2>q. QED
    BY <1>1, <1>2, <1>5, <2>1, ChangesUnused
<1>q. QED
  BY <1>3, <1>4, <1>5

LEMMA StepImplements ==
    ASSUME CacheInv, NEW p \in Procs, StepOK(p),
           CacheStep(p) \/ Crash(p) \/ \E k \in Keys : GetItem(p, k)
    PROVE  Promise!CacheNext \/ UNCHANGED <<dir, Using>>
<1>1. Using \in [Procs -> Keys \cup {NoKey}] /\ Using' \in [Procs -> Keys \cup {NoKey}]
  BY DEF Using, CacheInv, CacheType, StepOK
<1>2. \A q \in Procs \ {p} : Using'[q] = Using[q]
  BY DEF Using, StepOK, Apart
<1>3. CASE UseItem(p)
  <2>1. key[p] \in Keys /\ dir[key[p]] = "full" /\ dir' = dir
    BY <1>3 DEF UseItem, At, CacheInv, Ownership, ItemOK, Disk
  <2>2. Using[p] = NoKey /\ Using'[p] = key[p]
    BY <1>3 DEF UseItem, At, Goto, Using, CacheInv, CacheType, Local
  <2>3. Using' = [Using EXCEPT ![p] = key[p]]
    BY <1>1, <1>2, <2>2
  <2>q. QED
    BY <2>1, <2>2, <2>3 DEF Promise!CacheNext, Promise!Use
<1>4. CASE LeaveItem(p) \/ Crash(p)
  <2>1. dir' = dir /\ pc'[p] # "using"
    BY <1>4 DEF LeaveItem, Crash, Goto, Disk, CacheInv, CacheType
  <2>2. Using'[p] = NoKey
    BY <2>1 DEF Using
  <2>3. Using' = [Using EXCEPT ![p] = NoKey]
    BY <1>1, <1>2, <2>2
  <2>4. CASE Using[p] = NoKey
    BY <1>1, <2>1, <2>3, <2>4
  <2>5. CASE Using[p] # NoKey
    BY <2>1, <2>3, <2>5 DEF Promise!CacheNext, Promise!Release
  <2>q. QED
    BY <2>4, <2>5
<1>5. CASE CleanEvict(p) \/ CleanRemove(p) \/ MakeDir(p) \/ Download(p) \/ Mark(p)
  BY <1>5, DirChanges DEF Promise!CacheNext
<1>6. CASE \/ LockItem(p) \/ LockIndex(p) \/ Look(p) \/ (\E d \in Keys : CleanTry(p, d))
           \/ CleanDone(p) \/ Exhausted(p) \/ Reserve(p) \/ Relax(p) \/ Recheck(p) \/ Verify(p)
           \/ LeaveIndex(p) \/ \E k \in Keys : GetItem(p, k)
  <2>1. dir' = dir /\ pc[p] # "using" /\ pc'[p] # "using"
    BY <1>6 DEF LockItem, LockIndex, Look, CleanTry, CleanDone, Exhausted, Reserve, Relax,
                Recheck, Verify, LeaveIndex, GetItem, At, Goto, Disk, CacheInv, CacheType
  <2>q. QED
    BY <2>1, UsingKept
<1>7. CASE UNCHANGED cacheVars
  BY <1>7 DEF cacheVars, Using
<1>q. QED
  BY <1>3, <1>4, <1>5, <1>6, <1>7 DEF CacheStep

(* FileCache implements SharedCache: an item handed out by get_item is whole *)
(* and is neither removed nor downloaded again until its user is done.       *)
THEOREM CacheImplementsPromise == Spec => ItemsSafeInUse
<1>1. Init => Promise!CacheInit
  BY DEF Init, Promise!CacheInit, Using
<1>2. CacheInv /\ [Next]_vars => [Promise!CacheNext]_<<dir, Using>>
  <2>1. SUFFICES ASSUME CacheInv, [Next]_vars
                 PROVE  Promise!CacheNext \/ UNCHANGED <<dir, Using>>
    OBVIOUS
  <2>2. CASE UNCHANGED vars
    BY <2>2 DEF vars, cacheVars, Using
  <2>3. CASE Next
    <3>1. PICK p \in Procs : CacheStep(p) \/ Crash(p) \/ \E k \in Keys : GetItem(p, k)
      BY <2>3 DEF Next
    <3>2. StepOK(p)
      BY <2>1, <3>1, CacheStepOK
    <3>q. QED
      BY <2>1, <3>1, <3>2, StepImplements
  <2>q. QED
    BY <2>1, <2>2, <2>3
<1>q. QED
  BY <1>1, <1>2, CacheInvariant, PTL DEF Spec, ItemsSafeInUse, Promise!CacheSpec
=============================================================================
