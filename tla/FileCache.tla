----------------------------- MODULE FileCache -----------------------------
(***************************************************************************)
(* backend/file_cache.py with RepoCache on top: a directory of downloaded  *)
(* repos shared by the resolver processes, an index file of entries and    *)
(* one FileLock per item and for the index.  get_item is one action per    *)
(* stretch between two lock calls.                                         *)
(***************************************************************************)
EXTENDS FileLock, Integers, Sequences

CONSTANTS Keys,        \* repo descriptors
          Capacity,    \* dependency.cache_l2_capacity
          MaxCrashes,  \* bound on process crashes
          NoKey, Index

ASSUME CacheAssumption ==
    /\ Names = Keys \cup {Index} /\ Index \notin Keys /\ NoKey \notin Keys
    /\ Capacity \in Nat \ {0} /\ MaxCrashes \in Nat

VARIABLES index,    \* index.json: entry of each key, "none" when absent
          dir,      \* what is on disk under the key
          mtime,    \* keys with a directory, oldest first
          pc, key,  \* where in get_item a process is, and for which key
          mem,      \* the entries dict the process works on
          todo,     \* directories _cleanup_items still has to try
          cur,      \* the directory it holds or tries to lock
          crashes

cacheVars == <<index, dir, mtime, pc, key, mem, todo, cur, crashes>>
vars == <<lockVars, cacheVars>>

Entries(e)  == {k \in Keys : e[k] # "none"}
Full(e)     == Cardinality(Entries(e)) >= Capacity
NoEntries   == [k \in Keys |-> "none"]

Init ==
    /\ LockInit
    /\ index = NoEntries /\ dir = [k \in Keys |-> "none"] /\ mtime = <<>>
    /\ pc = [p \in Procs |-> "idle"] /\ key = [p \in Procs |-> NoKey]
    /\ mem = [p \in Procs |-> NoEntries]
    /\ todo = [p \in Procs |-> {}] /\ cur = [p \in Procs |-> NoKey]
    /\ crashes = 0

At(p, l)   == pc[p] = l /\ ~ InCall(p)
Goto(p, l) == pc' = [pc EXCEPT ![p] = l]
Disk       == <<index, dir, mtime>>
Local      == <<key, mem, todo, cur, crashes>>

(* take the item lock, then the index lock, both exclusively *)
GetItem(p, k) ==
    /\ At(p, "idle")
    /\ key' = [key EXCEPT ![p] = k] /\ Goto(p, "item")
    /\ UNCHANGED <<lockVars, Disk, mem, todo, cur, crashes>>

LockItem(p) ==
    /\ At(p, "item")
    /\ Lock(p, key[p], TRUE, TRUE) /\ Goto(p, "index")
    /\ UNCHANGED <<path, flock, Disk, Local>>

LockIndex(p) ==
    /\ \/ At(p, "index")    /\ Goto(p, "look")
       \/ At(p, "register") /\ Goto(p, "mark")
    /\ Lock(p, Index, TRUE, TRUE)
    /\ UNCHANGED <<path, flock, Disk, Local>>

(* the directories that _cleanup_items may delete *)
Invalid(p, e) == {d \in Keys \ {key[p]} : dir[d] # "none" /\ e[d] # "ready"}

Look(p) ==
    /\ At(p, "look")
    /\ IF index[key[p]] = "ready"
       THEN /\ Unlock(p, Index) /\ Goto(p, "relax")
            /\ UNCHANGED <<mem, todo>>
       ELSE LET e == [index EXCEPT ![key[p]] = "none"] IN
            /\ mem' = [mem EXCEPT ![p] = e]
            /\ IF Full(e)
               THEN Goto(p, "clean") /\ todo' = [todo EXCEPT ![p] = Invalid(p, e)]
               ELSE Goto(p, "reserve") /\ UNCHANGED todo
            /\ UNCHANGED lk
    /\ UNCHANGED <<path, flock, Disk, key, cur, crashes>>

(* _cleanup_items: try the lock of each directory that is not ready *)
CleanTry(p, d) ==
    /\ At(p, "clean") \/ At(p, "clean_victims")
    /\ cur[p] = NoKey /\ d \in todo[p]
    /\ cur' = [cur EXCEPT ![p] = d] /\ todo' = [todo EXCEPT ![p] = @ \ {d}]
    /\ Lock(p, d, TRUE, FALSE)
    /\ UNCHANGED <<path, flock, Disk, pc, key, mem, crashes>>

(* the directories other than d, still oldest first *)
Others(d) == SelectSeq(mtime, LAMBDA x : x # d)

RemoveLocked(p) == flock[p][cur[p]].mode = "ex"
RemoveAnyway(p) == TRUE     \* mutant: the result of try_lock is ignored

CleanLocked(p) == RemoveLocked(p)

CleanEvict(p) ==
    /\ ~ InCall(p) /\ cur[p] # NoKey /\ CleanLocked(p) /\ dir[cur[p]] = "full"
    /\ mem' = [mem EXCEPT ![p][cur[p]] = "none"]
    /\ index' = mem'[p]
    /\ dir' = [dir EXCEPT ![cur[p]] = "partial"]      \* rmtree begins
    /\ UNCHANGED <<lockVars, mtime, pc, key, todo, cur, crashes>>

CleanRemove(p) ==
    /\ ~ InCall(p) /\ cur[p] # NoKey
    /\ ~ (CleanLocked(p) /\ dir[cur[p]] = "full")
    /\ IF CleanLocked(p)
       THEN /\ mem' = [mem EXCEPT ![p][cur[p]] = "none"]
            /\ index' = mem'[p]
            /\ dir' = [dir EXCEPT ![cur[p]] = "none"]
            /\ mtime' = Others(cur[p])
       ELSE UNCHANGED <<mem, index, dir, mtime>>
    /\ cur' = [cur EXCEPT ![p] = NoKey]
    /\ Unlock(p, cur[p])
    /\ UNCHANGED <<path, flock, pc, key, todo, crashes>>

(* the oldest ready items, as many as are over the capacity *)
Victims(e) ==
    LET ready == {i \in DOMAIN mtime : e[mtime[i]] = "ready"}
        over  == Cardinality(Entries(e)) - Capacity + 1
    IN  {mtime[i] : i \in {i \in ready : Cardinality({j \in ready : j < i}) < over}}

CleanDone(p) ==
    /\ At(p, "clean") \/ At(p, "clean_victims")
    /\ cur[p] = NoKey /\ todo[p] = {}
    /\ index' = mem[p]
    /\ LET vs == Victims(mem[p])
           e  == [k \in Keys |-> IF k \in vs THEN "none" ELSE mem[p][k]]
       IN  IF pc[p] = "clean" /\ Full(mem[p]) /\ vs # {}
           THEN /\ mem' = [mem EXCEPT ![p] = e]
                /\ todo' = [todo EXCEPT ![p] = Invalid(p, e)]
                /\ Goto(p, "clean_victims")
           ELSE Goto(p, "reserve") /\ UNCHANGED <<mem, todo>>
    /\ UNCHANGED <<lockVars, dir, mtime, key, cur, crashes>>

(* CacheExhaustedException leaves both with blocks *)
Exhausted(p) ==
    /\ At(p, "reserve") /\ Full(mem[p])
    /\ mem' = [mem EXCEPT ![p] = NoEntries]
    /\ Goto(p, "leave")
    /\ UNCHANGED <<lockVars, Disk, key, todo, cur, crashes>>

ReserveAlways(p) ==     \* mutant: the second check of the capacity is missing
    /\ At(p, "reserve")
    /\ index' = [mem[p] EXCEPT ![key[p]] = "preparing"]
    /\ mem' = [mem EXCEPT ![p] = NoEntries]           \* read again later
    /\ Unlock(p, Index) /\ Goto(p, "create")
    /\ UNCHANGED <<path, flock, dir, mtime, key, todo, cur, crashes>>

Reserve(p) ==
    /\ At(p, "reserve") /\ ~ Full(mem[p])
    /\ index' = [mem[p] EXCEPT ![key[p]] = "preparing"]
    /\ mem' = [mem EXCEPT ![p] = NoEntries]           \* read again later
    /\ Unlock(p, Index) /\ Goto(p, "create")
    /\ UNCHANGED <<path, flock, dir, mtime, key, todo, cur, crashes>>

(* create_item: get_repo recreates the directory, then downloads into it *)
MakeDir(p) ==
    /\ At(p, "create")
    /\ dir' = [dir EXCEPT ![key[p]] = "partial"]
    /\ mtime' = Append(Others(key[p]), key[p])
    /\ Goto(p, "download")
    /\ UNCHANGED <<lockVars, index, Local>>

Download(p) ==
    /\ At(p, "download")
    /\ \/ dir' = [dir EXCEPT ![key[p]] = "full"] /\ Goto(p, "register")
       \/ Goto(p, "register") /\ UNCHANGED dir      \* LRE_NOURL: no such repo
       \/ Goto(p, "leave") /\ UNCHANGED dir         \* another LibrepoException
    /\ UNCHANGED <<lockVars, index, mtime, Local>>

Mark(p) ==
    /\ At(p, "mark")
    /\ IF dir[key[p]] = "full"
       THEN /\ index' = [index EXCEPT ![key[p]] = "ready"]
            /\ Unlock(p, Index) /\ Goto(p, "relax")
            /\ UNCHANGED <<dir, mtime>>
       ELSE /\ index' = [index EXCEPT ![key[p]] = "none"]
            /\ dir' = [dir EXCEPT ![key[p]] = "none"]
            /\ mtime' = Others(key[p])
            /\ Goto(p, "leave") /\ UNCHANGED lk     \* yield None, both locks held
    /\ UNCHANGED <<path, flock, Local>>

(* relax the item lock to shared, then look into the index again *)
Relax(p) ==
    /\ At(p, "relax")
    /\ Lock(p, key[p], FALSE, TRUE) /\ Goto(p, "recheck")
    /\ UNCHANGED <<path, flock, Disk, Local>>

Recheck(p) ==
    /\ At(p, "recheck")
    /\ Lock(p, Index, FALSE, TRUE) /\ Goto(p, "verify")
    /\ UNCHANGED <<path, flock, Disk, Local>>

Verify(p) ==
    /\ At(p, "verify")
    /\ Unlock(p, Index)
    /\ Goto(p, IF index[key[p]] = "ready" THEN "use" ELSE "lost")
    /\ UNCHANGED <<path, flock, Disk, Local>>

(* read_item and the caller's with block *)
UseItem(p) ==
    /\ At(p, "use") /\ Goto(p, "using")
    /\ UNCHANGED <<lockVars, Disk, Local>>

(* leave the with blocks: unlock the index, then the item; lost items retry *)
LeaveIndex(p) ==
    /\ At(p, "leave")
    /\ Unlock(p, Index) /\ Goto(p, "exit")
    /\ UNCHANGED <<path, flock, Disk, Local>>

LeaveItem(p) ==
    /\ \/ At(p, "lost") /\ Goto(p, "item") /\ UNCHANGED key
       \/ /\ At(p, "using") \/ At(p, "exit")
          /\ Goto(p, "idle") /\ key' = [key EXCEPT ![p] = NoKey]
    /\ Unlock(p, key[p])
    /\ UNCHANGED <<path, flock, Disk, mem, todo, cur, crashes>>

Crash(p) ==
    /\ pc[p] # "idle" /\ crashes < MaxCrashes
    /\ DropLocks(p)
    /\ Goto(p, "idle") /\ crashes' = crashes + 1
    /\ key' = [key EXCEPT ![p] = NoKey] /\ mem' = [mem EXCEPT ![p] = NoEntries]
    /\ todo' = [todo EXCEPT ![p] = {}] /\ cur' = [cur EXCEPT ![p] = NoKey]
    /\ UNCHANGED Disk

CacheStep(p) ==
    \/ LockItem(p) \/ LockIndex(p) \/ Look(p) \/ CleanEvict(p) \/ CleanRemove(p)
    \/ (\E d \in Keys : CleanTry(p, d)) \/ CleanDone(p)
    \/ Exhausted(p) \/ Reserve(p) \/ MakeDir(p) \/ Download(p) \/ Mark(p)
    \/ Relax(p) \/ Recheck(p) \/ Verify(p) \/ UseItem(p) \/ LeaveIndex(p) \/ LeaveItem(p)
    \/ (LockStep(p) /\ UNCHANGED cacheVars)

Next == \E p \in Procs : CacheStep(p) \/ Crash(p) \/ \E k \in Keys : GetItem(p, k)

Spec == Init /\ [][Next]_vars

-----------------------------------------------------------------------------
(* FileCache implements SharedCache: through every interleaving of the lock
   calls, evictions and crashes, a process in its with block has a whole item
   that nobody deletes or downloads again. *)
Using   == [p \in Procs |-> IF pc[p] = "using" THEN key[p] ELSE NoKey]
Promise == INSTANCE SharedCache WITH stored <- dir, using <- Using
ItemsSafeInUse == Promise!CacheSpec

(* An entry marked ready always has its complete directory, also after a crash
   at any point, and the index never lists more entries than the capacity. *)
ReadyIsWhole == \A k \in Keys : index[k] = "ready" => dir[k] = "full"
WithinCapacity == Cardinality(Entries(index)) <= Capacity
=============================================================================
