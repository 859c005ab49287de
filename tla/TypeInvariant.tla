--------------------------- MODULE TypeInvariant ---------------------------
(****************************************************************************)
(* The inductive invariant behind type correctness, and what every step     *)
(* has to guarantee to keep it.                                             *)
(*                                                                          *)
(* TypeOK is not inductive. The handlers use their local variables without  *)
(* testing them again, so LocalOK says which of them are set at which       *)
(* program counter; they write rows they have read earlier, so the          *)
(* invariant says that a locked row stays in place, that the working        *)
(* version of an unlocked row is the committed one, and that identifiers    *)
(* not yet handed out belong to no row; and they look up tasks in Koji, so  *)
(* every task they may look up exists.                                      *)
(****************************************************************************)
EXTENDS Koschei

Locals == [Procs -> Local]

-----------------------------------------------------------------------------
(* The local variables that are set at each program counter *)
TriggerPCs == {"trigger", "trigger_package", "trigger_flags"}

UpdatePCs == {"decide", "lock", "delete", "lock_package", "sync", "commit", "emit"}

RefreshPCs ==
    {"register", "registered", "untag", "untag_registered", "untag_rows", "retag",
     "retag_rows", "refreshed"}

SkipPCs == {"pick", "flush", "skip", "skip_flags", "skipped"}

NoPackagePCs == {"idle", "poll", "poll_rows", "decide", "priorities", "pick", "cancel"}

(* The part of the handler a process is in, also while a trigger runs in it *)
At(l) == IF l.pc \in TriggerPCs THEN l.ret ELSE l.pc

LocalOK(l) ==
    /\ l.pc \notin NoPackagePCs => l.p \in Packages
    /\ At(l) \in UpdatePCs \cup {"cancel"} => l.b \in BuildIds
    /\ At(l) \in RefreshPCs =>
          l.info \in Versions /\ l.cont \in {"done", "untag", "untag_registered"}
    /\ l.pc = "insert" => l.info \in Versions /\ l.task \in Stamps
    /\ l.pc = "lock" => l.canceled \/ KojiStateMap(l.ts) # NULL
    /\ l.pc = "lock_package" => ~ l.canceled /\ KojiStateMap(l.ts) # NULL
    /\ l.pc \in SkipPCs => l.todo \subseteq Packages
    /\ l.pc \in {"untag_rows", "retag_rows"} =>
          /\ l.todo \subseteq BuildIds
          /\ l.todo # {}
          /\ l.ret \in {"retag", "refreshed"}
    /\ l.pc \in TriggerPCs =>
          /\ l.fires # 0
          /\ l.ret \in {"commit", "registered", "retag", "refreshed", "reset"}

(* Koji knows the task of a build info, and the task about to be inserted *)
InfoOK(q) ==
    LET l == proc[q]
    IN  /\ At(l) \in RefreshPCs => real[l.p][l.info] # NULL
        /\ l.pc = "insert" => koji[l.task] \in TaskStates

(* The build that update_build_state has locked is there *)
BuildLocked(q) ==
    proc[q].pc \in {"lock_package", "delete"} =>
        xlock[proc[q].b] = q /\ work[proc[q].b] # NULL

(* Where a handler has written nothing *)
LockFreePCs ==
    {"idle", "poll", "poll_rows", "decide", "lock", "sync", "emit", "register", "untag",
     "untag_registered", "priorities", "cancel"}

NoLocks(q) == proc[q].pc \in LockFreePCs => \A r \in Rows : xlock[r] # q

(* TypeOK in parts: the database, Koji, the counters *)
DbType ==
    /\ TypeTable(db)
    /\ TypeTable(work)
    /\ xlock \in [Rows -> Procs \cup {NULL}]
    /\ keyed \subseteq Rows
    /\ share \subseteq Procs \X Rows

KojiType ==
    /\ clock \in 1..(MaxStamp + 1)
    /\ koji \in [Stamps -> TaskStates \cup {NULL}]
    /\ real \in [Packages -> [Versions -> Stamps \cup {NULL}]]
    /\ tagged \in [Packages -> 0..MaxVersion]
    /\ moves \in Nat

CountType ==
    /\ nextId \in 1..(MaxBuildId + 1)
    /\ deadline \in 0..MaxDeadline
    /\ arch \in [BuildIds -> Nat]
    /\ sent \in [BuildIds -> Nat]

(* Every task that a row or a real build refers to exists in Koji *)
RowKnown(row) == row # NULL => koji[row.task] \in TaskStates

RowsKnown == \A b \in BuildIds : RowKnown(db[b]) /\ RowKnown(work[b])

RealKnown ==
    \A p \in Packages, v \in Versions :
        real[p][v] # NULL => koji[real[p][v]] \in TaskStates

TaggedOK == \A p \in Packages : tagged[p] # 0 => real[p][tagged[p]] # NULL

(* Nobody but the holder of its lock sees a row differently *)
Settled == \A r \in Rows : xlock[r] = NULL => work[r] = db[r]

(* Identifiers that build_id_seq has not handed out *)
Fresh == \A b \in BuildIds : b >= nextId => xlock[b] = NULL /\ db[b] = NULL

(* The invariant: typed variables, local variables set where the handlers   *)
(* use them, rows in place, and every task known to Koji.                   *)
ProcInv(q) == LocalOK(proc[q]) /\ InfoOK(q) /\ BuildLocked(q) /\ NoLocks(q)

TypeInv ==
    /\ DbType /\ RowsKnown /\ Settled /\ Fresh
    /\ KojiType /\ RealKnown /\ TaggedOK
    /\ CountType
    /\ proc \in Locals
    /\ \A q \in Procs : ProcInv(q)

-----------------------------------------------------------------------------
(* What a step of process q has to guarantee. For a step of no process, of  *)
(* Koji or of the resolver, q is NULL.                                      *)
Respects(q) ==
    \A r \in Rows, o \in Procs \ {q} :
        /\ xlock'[r] = o <=> xlock[r] = o
        /\ xlock[r] = o => work'[r] = work[r]

KojiKeeps ==
    /\ \A t \in Stamps : koji[t] \in TaskStates => koji'[t] \in TaskStates
    /\ \A p \in Packages, v \in Versions :
          real[p][v] # NULL => real'[p][v] = real[p][v]

DbStep(q) == DbType' /\ RowsKnown' /\ Settled' /\ Fresh' /\ Respects(q)

KojiStepOK == KojiType' /\ RealKnown' /\ TaggedOK' /\ KojiKeeps

ProcStep(q) ==
    /\ proc' \in Locals
    /\ \A o \in Procs \ {q} : proc'[o] = proc[o]
    /\ q \in Procs => ProcInv(q)'

StepOK(q) == DbStep(q) /\ KojiStepOK /\ CountType' /\ ProcStep(q)

(* Writing typed rows that nobody else has locked and that exist *)
Writable(q, r, row) ==
    /\ xlock[r] \in {q, NULL}
    /\ r \in BuildIds => row \in BuildRow \cup {NULL} /\ RowKnown(row) /\ r < nextId'
    /\ r \in Packages => row \in PackageRow

(* Process q has no row lock *)
Unlocked(q) == \A r \in Rows : xlock[r] # q
=============================================================================
