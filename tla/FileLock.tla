------------------------------ MODULE FileLock ------------------------------
(***************************************************************************)
(* util.FileLock: a POSIX record lock on an auxiliary file `.name.lock`    *)
(* that its holder unlinks.  A process opens the file, locks the inode it  *)
(* got and compares it with the inode the path has by then; each of the    *)
(* three system calls, and the unlink and close of unlock, is a step.      *)
(***************************************************************************)
EXTENDS Naturals, FiniteSets

CONSTANTS Procs,   \* service processes that share the cache directory
          Names    \* lock names: one per item, and "index"

ASSUME ProcsFinite == IsFiniteSet(Procs)

VARIABLES path,    \* inode the lock file of a name has, 0 when there is none
          flock,   \* FileLock object of a process: open inode, lock mode, exclusive_locked
          lk       \* the lock or unlock call a process is in

lockVars == <<path, flock, lk>>

Closed == [ino |-> 0, mode |-> "no", excl |-> FALSE]
Inodes == 1 .. Cardinality(Procs) + 1
NoCall == [op |-> "none"]
InCall(p) == lk[p] # NoCall

LockInit ==
    /\ path  = [n \in Names |-> 0]
    /\ flock = [p \in Procs |-> [n \in Names |-> Closed]]
    /\ lk    = [p \in Procs |-> NoCall]

(* calls: what the caller starts *)
Lock(p, n, ex, block) ==
    lk' = [lk EXCEPT ![p] =
             [op |-> IF flock[p][n].ino = 0 THEN "open" ELSE "lockf",
              name |-> n, ex |-> ex, block |-> block]]

Unlock(p, n) ==
    lk' = [lk EXCEPT ![p] =
             [op |-> IF flock[p][n].excl THEN "unlink" ELSE "close", name |-> n]]

(* an inode number the file system may hand out: nobody has it open *)
FreeInode(n) ==
    CHOOSE i \in Inodes : i # path[n] /\ \A q \in Procs : flock[q][n].ino # i

OpenLock(p) ==
    /\ lk[p].op = "open"
    /\ LET n == lk[p].name
           i == IF path[n] = 0 THEN FreeInode(n) ELSE path[n]
       IN  /\ path'  = [path EXCEPT ![n] = i]
           /\ flock' = [flock EXCEPT ![p][n].ino = i]
    /\ lk' = [lk EXCEPT ![p].op = "lockf"]

(* fcntl.lockf conflicts with the locks of other processes on that inode *)
Conflict(p, n, ex) ==
    \E q \in Procs \ {p} :
       /\ flock[q][n].ino = flock[p][n].ino
       /\ flock[q][n].mode = "ex" \/ (ex /\ flock[q][n].mode = "sh")

LockFile(p) ==
    /\ lk[p].op = "lockf"
    /\ LET n == lk[p].name IN
       \/ /\ ~ Conflict(p, n, lk[p].ex)
          /\ flock' = [flock EXCEPT ![p][n].mode = IF lk[p].ex THEN "ex" ELSE "sh"]
          /\ lk' = [lk EXCEPT ![p].op = "check"]
       \/ /\ Conflict(p, n, lk[p].ex) /\ ~ lk[p].block     \* EAGAIN: lock returns False
          /\ lk' = [lk EXCEPT ![p] = NoCall]
          /\ UNCHANGED flock
    /\ UNCHANGED path

NoCheckInode(p) ==      \* mutant: the inode is not compared with the path's
    /\ lk[p].op = "check"
    /\ flock' = [flock EXCEPT ![p][lk[p].name].excl = @ \/ lk[p].ex]
    /\ lk' = [lk EXCEPT ![p] = NoCall]
    /\ UNCHANGED path

CheckInode(p) ==
    /\ lk[p].op = "check"
    /\ LET n == lk[p].name IN
       IF path[n] = flock[p][n].ino
       THEN /\ flock' = [flock EXCEPT ![p][n].excl = @ \/ lk[p].ex]
            /\ lk' = [lk EXCEPT ![p] = NoCall]
       ELSE /\ flock' = [flock EXCEPT ![p][n] = [Closed EXCEPT !.excl = flock[p][n].excl]]
            /\ lk' = [lk EXCEPT ![p].op = "open"]
    /\ UNCHANGED path

UnlinkLock(p) ==        \* whatever file the path names by now
    /\ lk[p].op = "unlink"
    /\ path' = [path EXCEPT ![lk[p].name] = 0]
    /\ lk' = [lk EXCEPT ![p].op = "close"]
    /\ UNCHANGED flock

CloseLock(p) ==
    /\ lk[p].op = "close"
    /\ flock' = [flock EXCEPT ![p][lk[p].name] = Closed]
    /\ lk' = [lk EXCEPT ![p] = NoCall]
    /\ UNCHANGED path

LockStep(p) ==
    OpenLock(p) \/ LockFile(p) \/ CheckInode(p) \/ UnlinkLock(p) \/ CloseLock(p)

(* the kernel drops the locks of a process that ends; lock files stay *)
DropLocks(p) ==
    /\ flock' = [flock EXCEPT ![p] = [n \in Names |-> Closed]]
    /\ lk' = [lk EXCEPT ![p] = NoCall]
    /\ UNCHANGED path
=============================================================================
