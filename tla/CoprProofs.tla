----------------------------- MODULE CoprProofs -----------------------------
(***************************************************************************)
(* The COPR plugin, for any number of requests, packages, users, edits and *)
(* crashes: its limit of running builds, the builds its rows record, the   *)
(* end of a request and the link to comps.xml.                             *)
(***************************************************************************)
EXTENDS Copr, FiniteSetTheorems, TLAPS

Rebuilds  == Requests \X Packages
ReqStates == {"none", "new", "failed", "in progress", "scheduled", "finished", "deleted"}
RowStates == {"null", "running"} \cup Finished
Actions   == {"move-top", "remove"}

ReqRow == [state : ReqStates, count : Nat, index : Nat]
RebRow == [build : Nat, state : RowStates, order : Int]
CoprBuild == [x : Rebuilds, state : {"running", "succeeded", "failed"},
              gone : {"no", "replaced", "cleaned"}]

ResLocal == [pc : {"idle"}, leaked : BOOLEAN]
              \cup [pc : {"repo", "link", "resolve"}, r : Requests, leaked : BOOLEAN]
SchLocal == [pc : {"idle"}]
              \cup [pc : {"rotate", "decide"}, r : Requests, count : Nat, last : Nat]
              \cup [pc : {"project", "build", "commit"}, r : Requests, last : Nat, x : Rebuilds]
TxnLocal == [pc : {"idle"}, queue : SUBSET Rebuilds]
              \cup [pc : {"write"}, queue : SUBSET Rebuilds, x : Rebuilds,
                    seen : RowStates, new : Finished]
              \cup [pc : {"commit"}, queue : SUBSET Rebuilds, x : Rebuilds,
                    new : Finished, wrote : BOOLEAN, finish : BOOLEAN]
EditLocal == [pc : {"idle"}]
              \cup [pc : {"shift"}, x : Rebuilds, action : Actions, order : Int,
                    count : Nat, state : ReqStates]
              \cup [pc : {"finish", "wait"}, x : Rebuilds, action : Actions,
                    count : Nat, state : ReqStates, rows : SUBSET Rebuilds]
CleanLocal == [pc : {"idle"}] \cup [pc : {"rows"}, ids : SUBSET Requests]

(* Rows and Copr builds have their columns, every process its locals; a row *)
(* has a build exactly when it has a state (the CHECK of copr_rebuild), and *)
(* that build was created.                                                  *)
TableType ==
    /\ req \in [Requests -> ReqRow]
    /\ DOMAIN reb \subseteq Rebuilds /\ reb \in [DOMAIN reb -> RebRow]
    /\ builds \in Seq(CoprBuild)
    /\ \A x \in DOMAIN reb : /\ reb[x].build = 0 <=> reb[x].state = "null"
                             /\ reb[x].build <= Len(builds)
LocalType ==
    /\ res \in ResLocal /\ sch \in SchLocal /\ txn \in [Refreshers -> TxnLocal]
    /\ edit \in EditLocal /\ clean \in CleanLocal
CoprType == TableType /\ LocalType

(* The resolver has answered request r: no row of it will be added *)
Known(r) == req[r].state \notin {"none", "new"}
(* Row x has been submitted, or is gone *)
Built(x) == x \in DOMAIN reb => reb[x].build # 0
(* Row x has been submitted and its end recorded, or is gone *)
Over(x)  == x \in DOMAIN reb => reb[x].state \in Finished
OthersOver(x) == \A y \in Rows(x[1]) : y = x \/ reb[y].state \in Finished

RowsKnown == \A x \in DOMAIN reb : req[x[1]].state \notin {"none", "new", "deleted"}
ResKnows  == res.pc # "idle" => req[res.r].state \in {"new", "deleted"}
SchKnows ==
    /\ sch.pc # "idle" => Known(sch.r)
    /\ sch.pc \in {"project", "build", "commit"} =>
          Known(sch.x[1]) /\ (sch.x \in DOMAIN reb => reb[sch.x].build = 0)
    /\ sch.pc = "commit" =>
          Len(builds) > 0 /\ builds[Len(builds)].x = sch.x /\ builds[Len(builds)].gone # "replaced"
TxnKnows(a) ==
    /\ \A x \in txn[a].queue : Known(x[1]) /\ Built(x)
    /\ txn[a].pc # "idle" => Known(txn[a].x[1]) /\ Built(txn[a].x)
    /\ txn[a].pc = "write" /\ txn[a].seen = txn[a].new => Over(txn[a].x)
    /\ txn[a].pc = "commit" /\ ~ txn[a].wrote => Over(txn[a].x)
    /\ txn[a].pc = "commit" /\ txn[a].finish => OthersOver(txn[a].x)
EditKnows == edit.pc # "idle" => Known(edit.x[1])

(* Room for one more while the scheduler is at work *)
Room == /\ IsFiniteSet(Running) /\ Cardinality(Running) <= MaxBuilds
        /\ sch.pc # "idle" => Cardinality(Running) < MaxBuilds

CoprInv == /\ CoprType /\ RowsKnown /\ ResKnows /\ SchKnows
           /\ (\A a \in Refreshers : TxnKnows(a)) /\ EditKnows /\ Room
           /\ RecordedBuildStays /\ FinishedMeansDone /\ CompsNotYetLinked

-----------------------------------------------------------------------------
(* What one step does to the tables *)

Stays(x)   == /\ x \in DOMAIN reb
              /\ reb'[x].build = reb[x].build /\ reb'[x].state = reb[x].state
Ends(x)    == /\ x \in DOMAIN reb /\ reb[x].build # 0
              /\ reb'[x].build = reb[x].build /\ reb'[x].state \in Finished
Added(x)   == /\ req[x[1]].state = "new" /\ req'[x[1]].state = "in progress"
              /\ reb'[x].build = 0 /\ reb'[x].state = "null"
Submits(x) == /\ x \in DOMAIN reb /\ sch.pc = "commit" /\ x = sch.x /\ sch'.pc = "idle"
              /\ builds' = builds
              /\ reb'[x].build = Len(builds) /\ reb'[x].state = "running"
RowStep(x) == Stays(x) \/ Ends(x) \/ Added(x) \/ Submits(x)

DoneAfter(r) == \A x \in DOMAIN reb' : x[1] = r => reb'[x].state \in Finished
Answered     == ReqStates \ {"none", "new", "deleted"}
ReqStep(r) ==
    \/ req'[r].state = req[r].state
    \/ req[r].state = "none" /\ req'[r].state = "new"
    \/ req'[r].state = "deleted" /\ \A x \in DOMAIN reb' : x[1] # r
    \/ /\ req[r].state = "new" /\ res'.pc = "idle"
       /\ req'[r].state \in Answered /\ (req'[r].state = "finished" => DoneAfter(r))
    \/ /\ req[r].state \in Answered
       /\ req'[r].state \in Answered /\ (req'[r].state = "finished" => DoneAfter(r))

BuildStep ==
    /\ Len(builds) <= Len(builds')
    /\ \A b \in 1..Len(builds) :
          /\ builds'[b].x = builds[b].x
          /\ builds'[b].gone = "replaced" =>
                builds[b].gone = "replaced" \/ (sch.pc = "project" /\ builds[b].x = sch.x)

TableStep == /\ TableType' /\ (\A x \in DOMAIN reb' : RowStep(x))
             /\ (\A r \in Requests : ReqStep(r)) /\ BuildStep

LEMMA SameTables ==
    ASSUME TableType, UNCHANGED <<req, reb, builds>> PROVE TableStep
BY DEF TableType, TableStep, RowStep, Stays, ReqStep, BuildStep, CoprBuild

(* A sequence rebuilt element by element *)
LEMMA Rebuilt ==
    ASSUME builds \in Seq(CoprBuild), DOMAIN builds' = DOMAIN builds,
           builds' = [b \in DOMAIN builds |-> builds'[b]],
           \A b \in DOMAIN builds : builds'[b] \in CoprBuild
    PROVE  builds' \in Seq(CoprBuild) /\ Len(builds') = Len(builds)
OBVIOUS

LEMMA SameBuilds ==
    ASSUME CoprInv, builds' = builds PROVE BuildStep
BY DEF BuildStep, CoprInv, CoprType, TableType, CoprBuild

LEMMA NewRequestTables ==
    ASSUME CoprInv, NEW r \in Requests, NEW c \in Counts, NewRequest(r, c)
    PROVE  TableStep
<1>1. /\ req' = [req EXCEPT ![r].state = "new", ![r].count = c]
      /\ req \in [Requests -> ReqRow] /\ c \in Nat /\ reb' = reb /\ builds' = builds
  BY CoprAssumption DEF NewRequest, CoprInv, CoprType, TableType
<1>2. TableType'
  BY <1>1 DEF CoprInv, CoprType, TableType, ReqRow, ReqStates
<1>3. \A q \in Requests : ReqStep(q)
  BY <1>1 DEF ReqStep, ReqRow, NewRequest
<1>q. QED
  BY <1>1, <1>2, <1>3 DEF TableStep, RowStep, Stays, BuildStep, CoprInv, CoprType, TableType, CoprBuild

LEMMA ResolverTables ==
    ASSUME CoprInv, (\E r \in Requests : Resolve(r)) \/ AddRepoToSack
    PROVE  TableStep
<1>1. reb' = reb /\ builds' = builds
  BY DEF Resolve, AddRepoToSack, ResolverOnly
<1>2. CASE UNCHANGED req
  BY <1>1, <1>2, SameTables DEF CoprInv, CoprType
<1>3. CASE \E r \in Requests : req[r].state = "new" /\ res'.pc = "idle"
                               /\ req' = [req EXCEPT ![r].state = "failed"]
  <2>1. PICK r \in Requests : req[r].state = "new" /\ res'.pc = "idle"
                              /\ req' = [req EXCEPT ![r].state = "failed"]
    BY <1>3
  <2>2. TableType'
    BY <1>1, <2>1 DEF CoprInv, CoprType, TableType, ReqRow, ReqStates
  <2>3. \A q \in Requests : ReqStep(q)
    BY <2>1 DEF ReqStep, ReqRow, CoprInv, CoprType, TableType, Answered, ReqStates
  <2>q. QED
    BY <1>1, <2>2, <2>3 DEF TableStep, RowStep, Stays, BuildStep, CoprInv, CoprType, TableType, CoprBuild
<1>4. UNCHANGED req \/ \E r \in Requests : req[r].state = "new" /\ res'.pc = "idle"
                               /\ req' = [req EXCEPT ![r].state = "failed"]
  <2>1. CASE \E r \in Requests : Resolve(r)
    BY <2>1 DEF Resolve
  <2>2. CASE AddRepoToSack
    <3>1. res.r \in Requests /\ req[res.r].state \in {"new", "deleted"}
      BY <2>2 DEF AddRepoToSack, CoprInv, ResKnows, CoprType, LocalType, ResLocal
    <3>q. QED
      BY <2>2, <3>1 DEF AddRepoToSack, Present
  <2>q. QED
    BY <2>1, <2>2
<1>q. QED
  BY <1>2, <1>3, <1>4

LEMMA ResolveRequestTables ==
    ASSUME CoprInv, NEW S \in SUBSET Packages, NEW c \in BOOLEAN,
           NEW order \in SetToSeqs(S), ResolveRequest(order, c)
    PROVE  TableStep
<1> DEFINE new == {<<res.r, p>> : p \in ToSet(order)}
           pos(p) == CHOOSE i \in DOMAIN order : order[i] = p
           to == IF order # <<>> \/ c THEN "in progress" ELSE "finished"
<1>1. /\ reb' = [x \in DOMAIN reb \cup new |->
                   IF x \in new THEN [build |-> 0, state |-> "null", order |-> pos(x[2]) - 1]
                   ELSE reb[x]]
      /\ req' = [req EXCEPT ![res.r].state = to]
      /\ res'.pc = "idle" /\ builds' = builds
  BY DEF ResolveRequest, ResolverOnly
<1>2. DOMAIN order \subseteq Int /\ \A i \in DOMAIN order : order[i] \in Packages
  BY DEF SetToSeqs
<1>3. \A p \in ToSet(order) : p \in Packages /\ pos(p) \in Int
  BY <1>2 DEF ToSet
<1>4. res.r \in Requests /\ req[res.r].state = "new" /\ \A x \in DOMAIN reb : x[1] # res.r
  BY DEF ResolveRequest, Present, CoprInv, CoprType, LocalType, ResLocal, ResKnows, RowsKnown
<1>5. new # {} => to = "in progress"
  BY <1>2 DEF ToSet
<1>6. \A x \in new : /\ x \in Rebuilds /\ x[1] = res.r
                     /\ reb'[x] \in RebRow /\ reb'[x].build = 0 /\ reb'[x].state = "null"
  <2>1. TAKE x \in new
  <2>2. PICK p \in ToSet(order) : x = <<res.r, p>>
    OBVIOUS
  <2>3. reb'[x] = [build |-> 0, state |-> "null", order |-> pos(p) - 1]
    BY <1>1, <2>2
  <2>q. QED
    BY <1>3, <1>4, <2>2, <2>3 DEF Rebuilds, RebRow, RowStates
<1>7. \A x \in DOMAIN reb : x \notin new /\ reb'[x] = reb[x]
  BY <1>1, <1>4, <1>6
<1>8. DOMAIN reb' = DOMAIN reb \cup new /\ to \in {"in progress", "finished"}
  BY <1>1
<1> HIDE DEF new, pos, to
<1>9. TableType'
  <2>1. req' \in [Requests -> ReqRow]
    BY ZenonT(60), <1>1, <1>4, <1>8 DEF CoprInv, CoprType, TableType, ReqRow, ReqStates
  <2>2. DOMAIN reb' \subseteq Rebuilds /\ \A x \in DOMAIN reb' : reb'[x] \in RebRow
    BY <1>6, <1>7, <1>8 DEF CoprInv, CoprType, TableType, RebRow, RowStates
  <2>3. reb' \in [DOMAIN reb' -> RebRow]
    BY <1>1, <2>2
  <2>4. \A x \in DOMAIN reb' : /\ reb'[x].build = 0 <=> reb'[x].state = "null"
                               /\ reb'[x].build <= Len(builds)
    <3>1. Len(builds) \in Nat
      BY DEF CoprInv, CoprType, TableType
    <3>2. \A x \in DOMAIN reb : /\ reb[x].build = 0 <=> reb[x].state = "null"
                                /\ reb[x].build <= Len(builds)
      BY DEF CoprInv, CoprType, TableType
    <3>3. TAKE x \in DOMAIN reb'
    <3>4. CASE x \in DOMAIN reb
      BY <1>7, <3>2, <3>4
    <3>5. CASE x \in new
      BY <1>6, <3>1, <3>5
    <3>q. QED
      BY <1>8, <3>4, <3>5
  <2>q. QED
    BY <1>1, <2>1, <2>2, <2>3, <2>4 DEF CoprInv, CoprType, TableType
<1>10. ASSUME NEW x \in DOMAIN reb' PROVE RowStep(x)
  <2>1. CASE x \in DOMAIN reb
    BY <1>7, <2>1 DEF RowStep, Stays
  <2>2. CASE x \in new
    BY ZenonT(60), <1>1, <1>4, <1>5, <1>6, <2>2 DEF RowStep, Added, CoprInv, CoprType, TableType, ReqRow
  <2>q. QED
    BY <1>8, <2>1, <2>2
<1>11. ASSUME NEW r \in Requests PROVE ReqStep(r)
  <2>1. CASE r # res.r
    BY <1>1, <2>1 DEF ReqStep, CoprInv, CoprType, TableType
  <2>2. CASE r = res.r
    <3>1. req'[r].state = to
      BY <1>1, <2>2 DEF CoprInv, CoprType, TableType, ReqRow
    <3>2. to = "finished" => DoneAfter(r)
      BY <1>4, <1>5, <1>8, <2>2 DEF DoneAfter
    <3>q. QED
      BY <1>1, <1>4, <1>8, <2>2, <3>1, <3>2 DEF ReqStep, Answered, ReqStates
  <2>q. QED
    BY <2>1, <2>2
<1>q. QED
  BY <1>1, <1>9, <1>10, <1>11 DEF TableStep, BuildStep, CoprInv, CoprType, TableType, CoprBuild

(* Rotating the queue changes indexes only *)
LEMMA RotatedRows ==
    ASSUME CoprInv, sch.pc \in {"decide", "project", "build", "commit"}
    PROVE  /\ Rotated \in [Requests -> ReqRow]
           /\ \A r \in Requests : Rotated[r].state = req[r].state
<1>1. sch.last \in Nat /\ sch.r \in Requests
  BY DEF CoprInv, CoprType, LocalType, SchLocal
<1>q. QED
  BY <1>1 DEF CoprInv, CoprType, TableType, ReqRow, Rotated

LEMMA FinishSchedulingTables ==
    ASSUME CoprInv, FinishScheduling PROVE TableStep
<1>1. CASE ~ Present(sch.r)
  BY <1>1, SameTables DEF FinishScheduling, CoprInv, CoprType
<1>2. CASE Present(sch.r)
  <2>1. /\ req' = [Rotated EXCEPT ![sch.r].state = "scheduled"]
        /\ reb' = reb /\ builds' = builds /\ sch.pc = "decide"
    BY <1>2 DEF FinishScheduling
  <2>2. sch.r \in Requests /\ req[sch.r].state \in Answered
    <3>1. sch.r \in Requests /\ Known(sch.r)
      BY <2>1 DEF CoprInv, CoprType, LocalType, SchLocal, SchKnows
    <3>q. QED
      BY <1>2, <3>1 DEF Known, Present, Answered, CoprInv, CoprType, TableType, ReqRow
  <2>3. /\ req' \in [Requests -> ReqRow] /\ req'[sch.r].state = "scheduled"
        /\ \A r \in Requests : r # sch.r => req'[r].state = req[r].state
    BY <2>1, <2>2, RotatedRows DEF ReqRow, ReqStates
  <2>4. \A r \in Requests : ReqStep(r)
    BY <2>2, <2>3 DEF ReqStep, Answered, ReqStates
  <2>q. QED
    BY <2>1, <2>3, <2>4
       DEF TableStep, RowStep, Stays, BuildStep, CoprInv, CoprType, TableType, CoprBuild
<1>q. QED
  BY <1>1, <1>2

LEMMA ScheduleRebuildTables ==
    ASSUME CoprInv, ScheduleRebuild PROVE TableStep
<1>1. /\ sch.pc = "commit" /\ sch.x \in DOMAIN reb /\ sch'.pc = "idle"
      /\ reb' = [reb EXCEPT ![sch.x].build = Len(builds), ![sch.x].state = "running"]
      /\ req' = Rotated /\ builds' = builds
  BY DEF ScheduleRebuild, Idle
<1>2. Len(builds) \in Nat \ {0}
  BY <1>1 DEF CoprInv, SchKnows, CoprType, TableType
<1>3. /\ DOMAIN reb' = DOMAIN reb /\ reb' \in [DOMAIN reb -> RebRow]
      /\ reb'[sch.x].build = Len(builds) /\ reb'[sch.x].state = "running"
      /\ \A x \in DOMAIN reb : x # sch.x => reb'[x] = reb[x]
  BY <1>1, <1>2 DEF CoprInv, CoprType, TableType, RebRow, RowStates
<1>4. TableType'
  BY <1>1, <1>2, <1>3, RotatedRows DEF CoprInv, CoprType, TableType
<1>5. \A x \in DOMAIN reb' : RowStep(x)
  BY <1>1, <1>3 DEF RowStep, Stays, Submits
<1>6. \A r \in Requests : ReqStep(r)
  BY <1>1, RotatedRows DEF ReqStep
<1>q. QED
  BY <1>1, <1>4, <1>5, <1>6 DEF TableStep, BuildStep, CoprInv, CoprType, TableType, CoprBuild

(* A refresh that ends the request has seen every other row finished *)
LEMMA CommitStateTables ==
    ASSUME CoprInv, NEW a \in Refreshers, CommitState(a) PROVE TableStep
<1> DEFINE t == txn[a]  r == txn[a].x[1]
<1>1. /\ t.pc = "commit" /\ builds' = builds
      /\ reb' = IF t.wrote THEN [reb EXCEPT ![t.x].state = t.new] ELSE reb
      /\ req' = IF t.finish /\ Present(r) THEN [req EXCEPT ![r].state = "finished"] ELSE req
  BY DEF CommitState
<1>2. t.x \in Rebuilds /\ t.new \in Finished /\ r \in Requests
  <2>1. t \in TxnLocal
    BY DEF CoprInv, CoprType, LocalType
  <2>q. QED
    BY <1>1, <2>1 DEF TxnLocal, Rebuilds
<1>3. /\ Known(r) /\ Built(t.x) /\ (~ t.wrote => Over(t.x)) /\ (t.finish => OthersOver(t.x))
  BY <1>1 DEF CoprInv, TxnKnows
<1>4. /\ DOMAIN reb' = DOMAIN reb /\ reb' \in [DOMAIN reb -> RebRow]
      /\ \A x \in DOMAIN reb : /\ reb'[x].build = reb[x].build
                               /\ reb'[x].state = IF t.wrote /\ x = t.x THEN t.new ELSE reb[x].state
  BY <1>1, <1>2 DEF CoprInv, CoprType, TableType, RebRow, RowStates
<1>5. /\ req' \in [Requests -> ReqRow]
      /\ \A q \in Requests : \/ req'[q].state = req[q].state
                             \/ q = r /\ t.finish /\ req'[q].state = "finished" /\ Present(r)
  <2>1. req \in [Requests -> ReqRow] /\ req[r] \in ReqRow
    BY <1>2 DEF CoprInv, CoprType, TableType
  <2>2. CASE req' = req
    BY <2>1, <2>2
  <2>3. CASE t.finish /\ Present(r) /\ req' = [req EXCEPT ![r].state = "finished"]
    <3>1. req'[r] = [req[r] EXCEPT !.state = "finished"]
      BY <1>2, <2>1, <2>3
    <3>2. req'[r] \in ReqRow /\ req'[r].state = "finished"
      BY <2>1, <3>1 DEF ReqRow, ReqStates
    <3>3. \A q \in Requests \ {r} : req'[q] = req[q]
      BY <2>1, <2>3
    <3>4. req' \in [Requests -> ReqRow]
      BY <2>1, <2>3, <3>2, <3>3
    <3>q. QED
      BY <2>3, <3>2, <3>3, <3>4
  <2>q. QED
    BY <1>1, <2>2, <2>3
<1> HIDE DEF t, r
<1>6. TableType'
  BY <1>1, <1>2, <1>3, <1>4, <1>5 DEF CoprInv, CoprType, TableType, Built, Finished
<1>7. \A x \in DOMAIN reb' : RowStep(x)
  BY <1>2, <1>3, <1>4 DEF RowStep, Stays, Ends, Built
<1>8. ASSUME t.finish PROVE DoneAfter(r)
  BY <1>2, <1>3, <1>4, <1>8 DEF DoneAfter, OthersOver, Over, Rows, r, t
<1>9. \A q \in Requests : ReqStep(q)
  <2>1. Present(r) => req[r].state \in Answered
    BY <1>2, <1>3 DEF Known, Present, Answered, CoprInv, CoprType, TableType, ReqRow
  <2>q. QED
    BY <1>5, <1>8, <2>1 DEF ReqStep, Answered, ReqStates
<1>q. QED
  BY <1>1, <1>6, <1>7, <1>9 DEF TableStep, BuildStep, CoprInv, CoprType, TableType, CoprBuild

(* Shifting the order of other rows keeps what they record *)
LEMMA OrdersShifted ==
    ASSUME CoprInv, NEW d \in Int
    PROVE  /\ DOMAIN OrdersAfter(d) = DOMAIN reb
           /\ OrdersAfter(d) \in [DOMAIN reb -> RebRow]
           /\ \A x \in DOMAIN reb : /\ OrdersAfter(d)[x].build = reb[x].build
                                    /\ OrdersAfter(d)[x].state = reb[x].state
BY DEF OrdersAfter, CoprInv, CoprType, TableType, RebRow

LEMMA MoveTopTables ==
    ASSUME CoprInv, MoveTop PROVE TableStep
<1> DEFINE r == edit.x[1]  shifted == OrdersAfter(1)
           pending == {shifted[y].order : y \in Pending(r)}
<1>1. CASE UNCHANGED <<req, reb>>
  BY <1>1, SameTables DEF MoveTop, EditOnly, CoprInv, CoprType
<1>2. CASE edit.x \in DOMAIN reb /\ pending # {}
  <2>1. PICK o \in pending : reb' = [shifted EXCEPT ![edit.x].order = o - 1]
    BY <1>2 DEF MoveTop
  <2>2. /\ req' = [req EXCEPT ![r].count = edit.count + 1,
                       ![r].state = IF edit.state = "in progress" THEN @ ELSE "in progress"]
        /\ builds' = builds /\ edit.pc \in {"finish", "wait"}
    BY <1>2 DEF MoveTop, EditOnly
  <2>3. edit.x \in Rebuilds /\ r \in Requests /\ edit.count \in Nat /\ req[r].state \in Answered
    <3>1. edit.x \in Rebuilds /\ r \in Requests /\ edit.count \in Nat
      BY <2>2 DEF CoprInv, CoprType, LocalType, EditLocal, Rebuilds
    <3>q. QED
      BY <1>2, <3>1 DEF CoprInv, CoprType, TableType, ReqRow, RowsKnown, Answered
  <2>4. /\ shifted \in [DOMAIN reb -> RebRow]
        /\ \A x \in DOMAIN reb : /\ shifted[x].build = reb[x].build
                                 /\ shifted[x].state = reb[x].state
    BY OrdersShifted
  <2>5. o \in Int
    BY <2>4 DEF Pending, Rows, RebRow
  <2> HIDE DEF shifted
  <2>6. /\ DOMAIN reb' = DOMAIN reb /\ reb' \in [DOMAIN reb -> RebRow]
        /\ \A x \in DOMAIN reb : reb'[x].build = reb[x].build /\ reb'[x].state = reb[x].state
    <3>1. DOMAIN reb' = DOMAIN reb /\ \A x \in DOMAIN reb : x # edit.x => reb'[x] = shifted[x]
      BY <2>1, <2>4
    <3>2. reb'[edit.x] = [shifted[edit.x] EXCEPT !.order = o - 1]
      BY <1>2, <2>1, <2>4
    <3>3. /\ reb'[edit.x] \in RebRow /\ reb'[edit.x].build = shifted[edit.x].build
          /\ reb'[edit.x].state = shifted[edit.x].state
      BY <1>2, <2>4, <2>5, <3>2 DEF RebRow
    <3>q. QED
      BY <2>1, <2>4, <3>1, <3>3
  <2>7. /\ req' \in [Requests -> ReqRow]
        /\ \A q \in Requests : \/ req'[q].state = req[q].state
                               \/ q = r /\ req'[q].state = "in progress"
    <3> DEFINE n == edit.count + 1
    <3>0. n \in Nat /\ req \in [Requests -> ReqRow]
      BY <2>3 DEF CoprInv, CoprType, TableType
    <3> HIDE DEF n, r
    <3>1. CASE edit.state = "in progress"
      <4>1. req' = [req EXCEPT ![r].count = n]
        BY <2>2, <2>3, <3>0, <3>1 DEF ReqRow, n
      <4>q. QED
        BY <2>3, <3>0, <4>1 DEF ReqRow
    <3>2. CASE edit.state # "in progress"
      <4>1. req' = [req EXCEPT ![r].count = n, ![r].state = "in progress"]
        BY <2>2, <3>2 DEF n
      <4>q. QED
        BY <2>3, <3>0, <4>1 DEF ReqRow, ReqStates
    <3>q. QED
      BY <3>1, <3>2
  <2>8. TableType'
    BY ZenonT(60), <2>2, <2>6, <2>7 DEF CoprInv, CoprType, TableType
  <2>9. \A q \in Requests : ReqStep(q)
    BY <2>3, <2>7 DEF ReqStep, Answered, ReqStates
  <2>10. \A x \in DOMAIN reb' : RowStep(x)
    BY <2>6 DEF RowStep, Stays
  <2>q. QED
    BY <2>2, <2>8, <2>9, <2>10, SameBuilds DEF TableStep
<1>q. QED
  BY <1>1, <1>2 DEF MoveTop

LEMMA RemoveRebuildTables ==
    ASSUME CoprInv, RemoveRebuild PROVE TableStep
<1>1. CASE reb' = reb
  BY <1>1, SameTables DEF RemoveRebuild, EditOnly, CoprInv, CoprType
<1>2. CASE edit.x \in DOMAIN reb
  <2>1. /\ reb' = [y \in DOMAIN reb \ {edit.x} |-> OrdersAfter(-1)[y]]
        /\ req' = req /\ builds' = builds
    BY <1>2 DEF RemoveRebuild, EditOnly
  <2>2. /\ DOMAIN reb' \subseteq DOMAIN reb /\ reb' \in [DOMAIN reb' -> RebRow]
        /\ \A x \in DOMAIN reb' : reb'[x].build = reb[x].build /\ reb'[x].state = reb[x].state
    BY <2>1, OrdersShifted
  <2>3. TableType'
    BY ZenonT(60), <2>1, <2>2 DEF CoprInv, CoprType, TableType
  <2>4. \A x \in DOMAIN reb' : RowStep(x)
    BY <2>2 DEF RowStep, Stays
  <2>q. QED
    BY <2>1, <2>3, <2>4, SameBuilds DEF TableStep, ReqStep
<1>q. QED
  BY <1>1, <1>2 DEF RemoveRebuild

LEMMA CleanRowsTables ==
    ASSUME CoprInv, CleanRows PROVE TableStep
<1> DEFINE gone == UNION {Rows(r) : r \in clean.ids}
<1>1. /\ req' = [r \in Requests |-> IF r \in clean.ids
                                    THEN [state |-> "deleted", count |-> 0, index |-> 0]
                                    ELSE req[r]]
      /\ reb' = [x \in DOMAIN reb \ gone |-> reb[x]] /\ builds' = builds
  BY DEF CleanRows, Without
<1>2. \A x \in DOMAIN reb' : x \in DOMAIN reb /\ reb'[x] = reb[x] /\ x[1] \notin clean.ids
  BY <1>1 DEF Rows
<1>3. req' \in [Requests -> ReqRow]
  BY <1>1 DEF CoprInv, CoprType, TableType, ReqRow, ReqStates
<1>4. reb' \in [DOMAIN reb' -> RebRow]
  BY <1>1 DEF CoprInv, CoprType, TableType
<1> HIDE DEF gone
<1>5. \A r \in Requests : ReqStep(r)
  BY <1>1, <1>2 DEF ReqStep
<1>q. QED
  BY <1>1, <1>2, <1>3, <1>4, <1>5
     DEF TableStep, RowStep, Stays, BuildStep, CoprInv, CoprType, TableType, CoprBuild

LEMMA BuildsTables ==
    ASSUME CoprInv, UNCHANGED <<req, reb>>, builds' \in Seq(CoprBuild), BuildStep
    PROVE  TableStep
BY DEF TableStep, RowStep, Stays, ReqStep, BuildStep, CoprInv, CoprType, TableType, RebRow

(* Copr deletes the projects of some rebuilds *)
LEMMA ProjectsDeleted ==
    ASSUME CoprInv, UNCHANGED <<req, reb>>, NEW S, NEW why \in {"replaced", "cleaned"},
           why = "replaced" => sch.pc = "project" /\ S = {sch.x},
           builds' = [b \in DOMAIN builds |->
                         IF builds[b].x \in S /\ builds[b].gone = "no"
                         THEN [builds[b] EXCEPT !.gone = why] ELSE builds[b]]
    PROVE  TableStep
<1>1. builds \in Seq(CoprBuild)
  BY DEF CoprInv, CoprType, TableType
<1>2. \A b \in DOMAIN builds : builds[b] \in CoprBuild
  BY <1>1
<1>3. \A b \in DOMAIN builds : /\ builds'[b] \in CoprBuild /\ builds'[b].x = builds[b].x
                               /\ \/ builds'[b].gone = builds[b].gone
                                  \/ builds[b].x \in S /\ builds'[b].gone = why
  BY <1>2 DEF CoprBuild
<1>4. builds' \in Seq(CoprBuild) /\ Len(builds') = Len(builds)
  BY <1>1, <1>3, Rebuilt
<1>5. BuildStep
  BY <1>1, <1>3, <1>4 DEF BuildStep
<1>q. QED
  BY <1>4, <1>5, BuildsTables

LEMMA CoprTables ==
    ASSUME CoprInv,
           \/ CreateCoprProject \/ CreateFromUrl
           \/ \E b \in DOMAIN builds, s \in Outcomes : CoprBuildEnds(b, s)
           \/ \E failed \in SUBSET DOMAIN reb : CleanProjects(failed)
    PROVE  TableStep
<1>0. builds \in Seq(CoprBuild)
  BY DEF CoprInv, CoprType, TableType
<1>1. CASE CreateCoprProject
  <2>1. builds' = [b \in DOMAIN builds |->
                     IF builds[b].x \in {sch.x} /\ builds[b].gone = "no"
                     THEN [builds[b] EXCEPT !.gone = "replaced"] ELSE builds[b]]
    BY <1>1 DEF CreateCoprProject
  <2>q. QED
    BY <1>1, <2>1, ProjectsDeleted DEF CreateCoprProject
<1>2. CASE CreateFromUrl
  <2>1. /\ builds' = Append(builds, [x |-> sch.x, state |-> "running", gone |-> "no"])
        /\ sch.pc = "build" /\ UNCHANGED <<req, reb>>
    BY <1>2 DEF CreateFromUrl
  <2>2. [x |-> sch.x, state |-> "running", gone |-> "no"] \in CoprBuild
    BY <2>1 DEF CoprInv, CoprType, LocalType, SchLocal, CoprBuild
  <2>3. builds' \in Seq(CoprBuild) /\ BuildStep
    BY <1>0, <2>1, <2>2 DEF BuildStep
  <2>q. QED
    BY <2>1, <2>3, BuildsTables
<1>3. CASE \E b \in DOMAIN builds, s \in Outcomes : CoprBuildEnds(b, s)
  <2>1. PICK b \in DOMAIN builds, s \in Outcomes : CoprBuildEnds(b, s)
    BY <1>3
  <2>2. builds' = [builds EXCEPT ![b].state = s] /\ UNCHANGED <<req, reb>>
    BY <2>1 DEF CoprBuildEnds
  <2>3. s \in {"succeeded", "failed"}
    BY CoprAssumption DEF StateMap
  <2>4. \A c \in DOMAIN builds : builds[c] \in CoprBuild
    BY <1>0
  <2>5. /\ DOMAIN builds' = DOMAIN builds
        /\ \A c \in DOMAIN builds : /\ builds'[c] \in CoprBuild /\ builds'[c].x = builds[c].x
                                    /\ builds'[c].gone = builds[c].gone
    BY <2>2, <2>3, <2>4 DEF CoprBuild
  <2>6. builds' \in Seq(CoprBuild) /\ Len(builds') = Len(builds)
    BY <1>0, <2>2, <2>5, Rebuilt
  <2>7. BuildStep
    BY <1>0, <2>5, <2>6 DEF BuildStep
  <2>q. QED
    BY <2>2, <2>6, <2>7, BuildsTables
<1>4. CASE \E failed \in SUBSET DOMAIN reb : CleanProjects(failed)
  <2>1. PICK failed \in SUBSET DOMAIN reb : CleanProjects(failed)
    BY <1>4
  <2>2. PICK S : builds' = [b \in DOMAIN builds |->
                              IF builds[b].x \in S /\ builds[b].gone = "no"
                              THEN [builds[b] EXCEPT !.gone = "cleaned"] ELSE builds[b]]
    BY <2>1 DEF CleanProjects
  <2>q. QED
    BY <2>1, <2>2, ProjectsDeleted DEF CleanProjects
<1>q. QED
  BY <1>1, <1>2, <1>3, <1>4

LEMMA NextTables == CoprInv /\ [Next]_vars => TableStep
<1>1. SUFFICES ASSUME CoprInv, [Next]_vars PROVE TableStep
  OBVIOUS
<1>2. CASE UNCHANGED <<req, reb, builds>>
  BY <1>1, <1>2, SameTables DEF CoprInv, CoprType
<1>3. CASE \/ \E r \in Requests, c \in Counts : NewRequest(r, c)
           \/ (\E r \in Requests : Resolve(r)) \/ AddRepoToSack
           \/ \E S \in SUBSET Packages, c \in BOOLEAN :
                 \E order \in SetToSeqs(S) : ResolveRequest(order, c)
  BY <1>1, <1>3, NewRequestTables, ResolverTables, ResolveRequestTables
<1>4. CASE FinishScheduling \/ ScheduleRebuild \/ \E a \in Refreshers : CommitState(a)
  BY <1>1, <1>4, FinishSchedulingTables, ScheduleRebuildTables, CommitStateTables
<1>5. CASE MoveTop \/ RemoveRebuild \/ CleanRows
  BY <1>1, <1>5, MoveTopTables, RemoveRebuildTables, CleanRowsTables
<1>6. CASE \/ CreateCoprProject \/ CreateFromUrl
           \/ \E b \in DOMAIN builds, s \in Outcomes : CoprBuildEnds(b, s)
           \/ \E failed \in SUBSET DOMAIN reb : CleanProjects(failed)
  BY <1>1, <1>6, CoprTables
<1>7. CASE PrepareComps \/ ResolverLosesRow \/ ResolverCrash
  BY <1>2, <1>7 DEF PrepareComps, ResolverLosesRow, ResolverCrash, ResolverOnly
<1>8. CASE \/ (\E r \in Requests : PickRequest(r)) \/ RotateQueue
           \/ (\E x \in DOMAIN reb : ChooseRebuild(x)) \/ SchedulerAborts \/ SchedulerCrash
  BY <1>2, <1>8 DEF PickRequest, RotateQueue, ChooseRebuild, SchedulerAborts, SchedulerCrash,
                    SchedulerEnds
<1>9. CASE PollCopr \/ \E a \in Refreshers :
               \/ \E x \in Requests \X Packages : RefreshBuildState(a, x)
               \/ WriteState(a) \/ RefreshCrash(a)
  BY <1>2, <1>9 DEF PollCopr, RefreshBuildState, WriteState, RefreshCrash
<1>10. CASE \/ \E x \in DOMAIN reb, action \in {"move-top", "remove"} : LoadRebuild(x, action)
            \/ ShiftOthers \/ WaitForRequest \/ EditAbort \/ LoseStorage
  BY <1>2, <1>10 DEF LoadRebuild, ShiftOthers, WaitForRequest, EditAbort, EditOnly, LoseStorage
<1>q. QED
  BY <1>1, <1>2, <1>3, <1>4, <1>5, <1>6, <1>7, <1>8, <1>9, <1>10
     DEF Next, vars, ResolverStep, SchedulerStep, RefreshStep, EditStep

-----------------------------------------------------------------------------
(* Which process moves *)

ResolverMoves ==
    \/ ResolverStep \/ ResolverCrash
SchedulerMoves == SchedulerStep \/ SchedulerCrash
RefreshMoves(a) == RefreshStep(a) \/ RefreshCrash(a)
EditMoves ==
    \/ \E x \in DOMAIN reb, action \in {"move-top", "remove"} : LoadRebuild(x, action)
    \/ EditStep \/ EditAbort
CleanMoves == (\E failed \in SUBSET DOMAIN reb : CleanProjects(failed)) \/ CleanRows

LEMMA Movers ==
    ASSUME [Next]_vars
    PROVE  /\ UNCHANGED res \/ ResolverMoves
           /\ UNCHANGED sch \/ SchedulerMoves
           /\ UNCHANGED txn \/ PollCopr \/ \E a \in Refreshers : RefreshMoves(a)
           /\ UNCHANGED edit \/ EditMoves
           /\ UNCHANGED clean \/ CleanMoves
<1>1. CASE \/ \E r \in Requests, c \in Counts : NewRequest(r, c)
           \/ \E b \in DOMAIN builds, s \in Outcomes : CoprBuildEnds(b, s)
           \/ LoseStorage
  BY <1>1 DEF NewRequest, CoprBuildEnds, LoseStorage
<1>2. CASE ResolverMoves
  BY <1>2 DEF ResolverMoves, ResolverStep, ResolverCrash, Resolve, AddRepoToSack, PrepareComps,
              ResolverLosesRow, ResolveRequest, ResolverOnly
<1>3. CASE SchedulerMoves
  BY <1>3 DEF SchedulerMoves, SchedulerStep, SchedulerCrash, PickRequest, RotateQueue,
              FinishScheduling, ChooseRebuild, CreateCoprProject, CreateFromUrl,
              ScheduleRebuild, SchedulerAborts, SchedulerEnds, SchedulerOnly
<1>4. CASE PollCopr \/ \E a \in Refreshers : RefreshMoves(a)
  BY <1>4 DEF PollCopr, RefreshMoves, RefreshStep, RefreshCrash, RefreshBuildState,
              WriteState, CommitState
<1>5. CASE EditMoves
  BY <1>5 DEF EditMoves, LoadRebuild, EditStep, EditAbort, ShiftOthers, WaitForRequest, MoveTop,
              RemoveRebuild, EditOnly
<1>6. CASE CleanMoves
  BY <1>6 DEF CleanMoves, CleanProjects, CleanRows
<1>7. CASE UNCHANGED vars
  BY <1>7 DEF vars
<1>q. QED
  BY <1>1, <1>2, <1>3, <1>4, <1>5, <1>6, <1>7
     DEF Next, ResolverMoves, SchedulerMoves, RefreshMoves, EditMoves, CleanMoves

(* What each process does with its locals *)
LEMMA ResolverLocal ==
    ASSUME CoprInv, ResolverMoves
    PROVE  /\ res' \in ResLocal
           /\ \/ res'.pc = "idle"
              \/ res'.r = res.r /\ res.pc # "idle"
              \/ req[res'.r].state = "new" /\ req' = req
           /\ res'.pc = "link" =>
                 (res.pc = "repo" /\ res'.r = res.r /\ comps' = comps \ {res.r})
<1>0. res \in ResLocal
  BY DEF CoprInv, CoprType, LocalType
<1>1. CASE res' = [pc |-> "idle", leaked |-> FALSE] \/ res' = [pc |-> "idle", leaked |-> TRUE]
           \/ (res.pc = "idle" /\ res' = res)
  <2>1. res' \in ResLocal /\ res'.pc = "idle"
    <3>1. CASE res' = [pc |-> "idle", leaked |-> FALSE]
      BY <3>1 DEF ResLocal
    <3>2. CASE res' = [pc |-> "idle", leaked |-> TRUE]
      BY <3>2 DEF ResLocal
    <3>q. QED
      BY <1>0, <1>1, <3>1, <3>2
  <2>q. QED
    BY <2>1
<1>2. CASE \E r \in Requests : Resolve(r)
  <2>1. CASE \E r \in Requests : req[r].state = "new" /\ req' = req
                                 /\ res' = [pc |-> "repo", r |-> r, leaked |-> FALSE]
    <3>1. PICK r \in Requests : req[r].state = "new" /\ req' = req
                                /\ res' = [pc |-> "repo", r |-> r, leaked |-> FALSE]
      BY <2>1
    <3>2. res' \in ResLocal /\ res'.r = r /\ res'.pc = "repo"
      BY <3>1 DEF ResLocal
    <3>q. QED
      BY <3>1, <3>2
  <2>q. QED
    BY <1>1, <1>2, <2>1 DEF Resolve, ResolverEnds
<1>3. CASE AddRepoToSack
  <2>1. CASE res' = [res EXCEPT !.pc = "link"]
    <3>1. res' \in ResLocal /\ res'.r = res.r /\ res'.pc = "link"
      BY <1>0, <1>3, <2>1 DEF AddRepoToSack, ResLocal
    <3>q. QED
      BY <1>3, <3>1 DEF AddRepoToSack, NewUserRepo
  <2>q. QED
    BY <1>1, <1>3, <2>1 DEF AddRepoToSack, ResolverEnds
<1>4. CASE PrepareComps
  <2>1. CASE res' = [res EXCEPT !.pc = "resolve"]
    <3>1. res' \in ResLocal /\ res'.r = res.r /\ res'.pc = "resolve"
      BY <1>0, <1>4, <2>1 DEF PrepareComps, ResLocal
    <3>q. QED
      BY <1>4, <3>1 DEF PrepareComps
  <2>q. QED
    BY <1>1, <1>4, <2>1 DEF PrepareComps, ResolverEnds
<1>5. CASE ResolverLosesRow \/ ResolverCrash
           \/ \E S \in SUBSET Packages, c \in BOOLEAN :
                 \E order \in SetToSeqs(S) : ResolveRequest(order, c)
  BY <1>1, <1>5 DEF ResolverLosesRow, ResolverCrash, ResolveRequest, ResolverEnds
<1>q. QED
  BY <1>2, <1>3, <1>4, <1>5 DEF ResolverMoves, ResolverStep

LEMMA NextResolver ==
    ASSUME CoprInv, [Next]_vars, TableStep
    PROVE  res' \in ResLocal /\ ResKnows'
<1>1. CASE UNCHANGED res
  <2>1. res' \in ResLocal
    BY <1>1 DEF CoprInv, CoprType, LocalType
  <2>2. ASSUME res'.pc # "idle" PROVE req'[res'.r].state \in {"new", "deleted"}
    <3>1. res.r \in Requests /\ req[res.r].state \in {"new", "deleted"} /\ ReqStep(res.r)
      BY <1>1, <2>2 DEF CoprInv, CoprType, LocalType, ResLocal, ResKnows, TableStep
    <3>q. QED
      BY <1>1, <2>2, <3>1 DEF ReqStep, Answered
  <2>q. QED
    BY <2>1, <2>2 DEF ResKnows
<1>2. CASE ResolverMoves
  <2>1. res' \in ResLocal
    BY <1>2, ResolverLocal
  <2>2. ASSUME res'.pc # "idle" PROVE req'[res'.r].state \in {"new", "deleted"}
    <3>1. res'.r \in Requests /\ ReqStep(res'.r)
      BY <2>1, <2>2 DEF ResLocal, TableStep
    <3>2. req[res'.r].state \in {"new", "deleted"}
      BY <1>2, <2>2, ResolverLocal DEF CoprInv, ResKnows
    <3>q. QED
      BY <2>2, <3>1, <3>2 DEF ReqStep, Answered
  <2>q. QED
    BY <2>1, <2>2 DEF ResKnows
<1>q. QED
  BY <1>1, <1>2, Movers

(* Rows that were submitted, or ended, stay so while the request is known *)
LEMMA KnownStays ==
    ASSUME TableStep, NEW r \in Requests, Known(r) PROVE Known(r)'
<1>1. ReqStep(r)
  BY DEF TableStep
<1>q. QED
  BY <1>1 DEF ReqStep, Known, Answered

LEMMA BuiltStays ==
    ASSUME CoprInv, TableStep, NEW x \in Rebuilds, Known(x[1]), Built(x) PROVE Built(x)'
<1>1. SUFFICES ASSUME x \in DOMAIN reb' PROVE reb'[x].build # 0
  BY DEF Built
<1>2. RowStep(x)
  BY <1>1 DEF TableStep
<1>3. ~ Added(x)
  BY DEF Added, Known
<1>4. CASE Stays(x) \/ Ends(x)
  BY <1>4 DEF Stays, Ends, Built
<1>5. CASE Submits(x)
  BY <1>5 DEF Submits, CoprInv, SchKnows
<1>q. QED
  BY <1>2, <1>3, <1>4, <1>5 DEF RowStep

LEMMA OverStays ==
    ASSUME CoprInv, TableStep, NEW x \in Rebuilds, Known(x[1]), Over(x) PROVE Over(x)'
<1>1. SUFFICES ASSUME x \in DOMAIN reb' PROVE reb'[x].state \in Finished
  BY DEF Over
<1>2. RowStep(x)
  BY <1>1 DEF TableStep
<1>3. ~ Added(x)
  BY DEF Added, Known
<1>4. CASE Stays(x) \/ Ends(x)
  BY <1>4 DEF Stays, Ends, Over
<1>5. ~ Submits(x)
  BY DEF Submits, CoprInv, SchKnows, CoprType, TableType, Over, Finished
<1>q. QED
  BY <1>2, <1>3, <1>4, <1>5 DEF RowStep

LEMMA OthersOverStays ==
    ASSUME CoprInv, TableStep, NEW x \in Rebuilds, Known(x[1]), OthersOver(x)
    PROVE  OthersOver(x)'
<1>1. SUFFICES ASSUME NEW y \in DOMAIN reb', y[1] = x[1], y # x PROVE reb'[y].state \in Finished
  BY DEF OthersOver, Rows
<1>2. y \in Rebuilds /\ Known(y[1])
  BY <1>1 DEF TableStep, TableType
<1>3. Over(y)
  BY <1>1 DEF OthersOver, Rows, Over
<1>q. QED
  BY <1>1, <1>2, <1>3, OverStays DEF Over

-----------------------------------------------------------------------------
(* The scheduler *)
LEMMA SchedulerLocal ==
    ASSUME CoprInv, [Next]_vars, TableStep, SchedulerMoves
    PROVE  sch' \in SchLocal /\ SchKnows' /\ (sch'.pc # "idle" => sch.pc # "idle" \/ ~ AtMaxBuilds)
<1>0. sch \in SchLocal
  BY DEF CoprInv, CoprType, LocalType
<1>1. CASE sch' = Idle
  BY <1>1 DEF Idle, SchLocal, SchKnows
<1>2. CASE \E r \in Requests : PickRequest(r)
  <2>1. PICK r \in Requests : PickRequest(r)
    BY <1>2
  <2>2. PICK q \in Requests : sch' = [pc |-> "rotate", r |-> r, count |-> req[r].count,
                                      last |-> req[q].index + 1]
    BY <2>1 DEF PickRequest
  <2>3. req[r].count \in Nat /\ req[q].index \in Nat
    BY DEF CoprInv, CoprType, TableType, ReqRow
  <2>4. sch' \in SchLocal /\ sch'.pc = "rotate" /\ sch'.r = r
    BY <2>2, <2>3 DEF SchLocal
  <2>5. Known(r)'
    BY <2>1 DEF PickRequest, InProgress, Known
  <2>q. QED
    BY <2>1, <2>4, <2>5 DEF PickRequest, SchKnows, Known
<1>3. CASE RotateQueue
  <2>1. sch' \in SchLocal /\ sch'.pc = "decide" /\ sch'.r = sch.r /\ sch.pc = "rotate"
    BY <1>0, <1>3 DEF RotateQueue, SchLocal
  <2>q. QED
    BY <1>3, <2>1 DEF RotateQueue, SchKnows, Known, CoprInv
<1>4. CASE \E x \in DOMAIN reb : ChooseRebuild(x)
  <2>1. PICK x \in DOMAIN reb : ChooseRebuild(x)
    BY <1>4
  <2>2. /\ sch' = [pc |-> "project", r |-> sch.r, last |-> sch.last, x |-> x]
        /\ sch.pc = "decide" /\ reb' = reb /\ req' = req /\ reb[x].build = 0
    BY <2>1 DEF ChooseRebuild, NextRebuilds, Unsubmitted
  <2>3. sch.r \in Requests /\ sch.last \in Nat /\ x \in Rebuilds
    BY <1>0, <2>2 DEF SchLocal, CoprInv, CoprType, TableType
  <2>4. sch' \in SchLocal /\ sch'.pc = "project" /\ sch'.r = sch.r /\ sch'.x = x
    BY <2>2, <2>3 DEF SchLocal
  <2>5. Known(sch.r) /\ Known(x[1])
    BY <2>2 DEF CoprInv, SchKnows, RowsKnown, Known
  <2>q. QED
    BY <2>2, <2>4, <2>5 DEF SchKnows, Known
<1>5. CASE CreateCoprProject
  <2>1. /\ sch' \in SchLocal /\ sch'.pc = "build" /\ sch'.r = sch.r /\ sch'.x = sch.x
        /\ sch.pc = "project"
    BY <1>0, <1>5 DEF CreateCoprProject, SchLocal
  <2>q. QED
    BY <1>5, <2>1 DEF CreateCoprProject, SchKnows, Known, CoprInv
<1>6. CASE CreateFromUrl
  <2>1. /\ sch' \in SchLocal /\ sch'.pc = "commit" /\ sch'.r = sch.r /\ sch'.x = sch.x
        /\ sch.pc = "build" /\ sch.x \in Rebuilds
    BY <1>0, <1>6 DEF CreateFromUrl, SchLocal
  <2>2. /\ Len(builds') > 0 /\ builds'[Len(builds')].x = sch.x
        /\ builds'[Len(builds')].gone # "replaced"
    <3>1. [x |-> sch.x, state |-> "running", gone |-> "no"] \in CoprBuild
      BY <2>1 DEF CoprBuild
    <3>2. builds \in Seq(CoprBuild)
      BY DEF CoprInv, CoprType, TableType
    <3>q. QED
      BY <1>6, <3>1, <3>2 DEF CreateFromUrl
  <2>q. QED
    BY <1>6, <2>1, <2>2 DEF CreateFromUrl, SchKnows, Known, CoprInv
<1>q. QED
  BY <1>1, <1>2, <1>3, <1>4, <1>5, <1>6
     DEF SchedulerMoves, SchedulerStep, SchedulerCrash, SchedulerAborts, SchedulerEnds,
         FinishScheduling, ScheduleRebuild

(* Only the scheduler creates Copr builds *)
LEMMA SameLength ==
    ASSUME CoprInv, [Next]_vars, ~ SchedulerMoves
    PROVE  Len(builds') = Len(builds)
<1>0. builds \in Seq(CoprBuild)
  BY DEF CoprInv, CoprType, TableType
<1>1. CASE builds' = builds
  BY <1>1
<1>2. CASE \E b \in DOMAIN builds, s \in Outcomes : CoprBuildEnds(b, s)
  <2>1. PICK b \in DOMAIN builds, s \in Outcomes : builds' = [builds EXCEPT ![b].state = s]
    BY <1>2 DEF CoprBuildEnds
  <2>q. QED
    BY <1>0, <2>1
<1>3. CASE \E failed \in SUBSET DOMAIN reb : CleanProjects(failed)
  <2>1. DOMAIN builds' = DOMAIN builds
    BY <1>3 DEF CleanProjects
  <2>2. TableStep
    BY NextTables
  <2>3. builds' \in Seq(CoprBuild)
    BY <2>2 DEF TableStep, TableType
  <2>q. QED
    BY <1>0, <2>1, <2>3
<1>q. QED
  <2>1. CASE (\E r \in Requests, c \in Counts : NewRequest(r, c)) \/ ResolverMoves
    BY <1>1, <2>1 DEF NewRequest, ResolverMoves, ResolverStep, ResolverCrash, Resolve,
                      AddRepoToSack, PrepareComps, ResolverLosesRow, ResolveRequest, ResolverOnly
  <2>2. CASE PollCopr \/ \E a \in Refreshers : RefreshMoves(a)
    BY <1>1, <2>2 DEF PollCopr, RefreshMoves, RefreshStep, RefreshCrash, RefreshBuildState,
                      WriteState, CommitState
  <2>3. CASE EditMoves
    BY <1>1, <2>3 DEF EditMoves, LoadRebuild, EditStep, EditAbort, ShiftOthers, WaitForRequest,
                      MoveTop, RemoveRebuild, EditOnly
  <2>4. CASE CleanRows \/ LoseStorage \/ UNCHANGED vars
    BY <1>1, <2>4 DEF CleanRows, LoseStorage, vars
  <2>q. QED
    BY <1>2, <1>3, <2>1, <2>2, <2>3, <2>4
       DEF Next, ResolverMoves, SchedulerMoves, RefreshMoves, EditMoves, CleanMoves

LEMMA NextScheduler ==
    ASSUME CoprInv, [Next]_vars, TableStep
    PROVE  sch' \in SchLocal /\ SchKnows' /\ (sch'.pc # "idle" => sch.pc # "idle" \/ ~ AtMaxBuilds)
<1>1. CASE SchedulerMoves
  BY <1>1, SchedulerLocal
<1>2. CASE ~ SchedulerMoves
  <2>1. sch' = sch /\ sch \in SchLocal
    BY <1>2, Movers DEF CoprInv, CoprType, LocalType
  <2>2. ASSUME sch.pc # "idle" PROVE Known(sch.r)'
    <3>1. sch.r \in Requests /\ Known(sch.r)
      BY <2>1, <2>2 DEF SchLocal, CoprInv, SchKnows
    <3>q. QED
      BY <3>1, <2>1, KnownStays DEF Known
  <2>3. ASSUME sch.pc \in {"project", "build", "commit"}
        PROVE  Known(sch.x[1])' /\ (sch.x \in DOMAIN reb' => reb'[sch.x].build = 0)
    <3>1. /\ sch.x \in Rebuilds /\ Known(sch.x[1])
          /\ sch.x \in DOMAIN reb => reb[sch.x].build = 0
      BY <2>1, <2>3 DEF SchLocal, CoprInv, SchKnows
    <3>2. Known(sch.x[1])'
      BY <3>1, <2>1, KnownStays DEF Known, Rebuilds
    <3>3. ASSUME sch.x \in DOMAIN reb' PROVE reb'[sch.x].build = 0
      <4>1. RowStep(sch.x)
        BY <3>3 DEF TableStep
      <4>q. QED
        BY <2>1, <2>3, <3>1, <4>1 DEF RowStep, Stays, Ends, Added, Submits
    <3>q. QED
      BY <3>2, <3>3
  <2>4. ASSUME sch.pc = "commit"
        PROVE  /\ Len(builds') > 0 /\ builds'[Len(builds')].x = sch.x
               /\ builds'[Len(builds')].gone # "replaced"
    <3>1. /\ Len(builds) > 0 /\ builds[Len(builds)].x = sch.x
          /\ builds[Len(builds)].gone # "replaced" /\ Len(builds) \in Nat
      BY <2>4 DEF CoprInv, SchKnows, CoprType, TableType
    <3>2. Len(builds') = Len(builds)
      BY <1>2, SameLength
    <3>q. QED
      BY <2>4, <3>1, <3>2 DEF TableStep, BuildStep
  <2>q. QED
    BY <2>1, <2>2, <2>3, <2>4 DEF SchKnows
<1>q. QED
  BY <1>1, <1>2

-----------------------------------------------------------------------------
(* The refreshing services *)
LEMMA TxnStays ==
    ASSUME CoprInv, TableStep, NEW a \in Refreshers, txn'[a] = txn[a]
    PROVE  TxnKnows(a)'
<1>0. txn[a] \in TxnLocal /\ TxnKnows(a)
  BY DEF CoprInv, CoprType, LocalType
<1>1. ASSUME NEW x \in txn[a].queue PROVE Known(x[1])' /\ Built(x)'
  <2>1. x \in Rebuilds /\ x[1] \in Requests /\ Known(x[1]) /\ Built(x)
    BY <1>0, <1>1 DEF TxnLocal, TxnKnows, Rebuilds
  <2>q. QED
    BY <2>1, KnownStays, BuiltStays
<1>2. ASSUME txn[a].pc # "idle", NEW x \in Rebuilds, x = txn[a].x
      PROVE  /\ Known(x[1])' /\ Built(x)' /\ (Over(x) => Over(x)')
             /\ (OthersOver(x) => OthersOver(x)')
  <2>1. x[1] \in Requests /\ Known(x[1]) /\ Built(x)
    BY <1>0, <1>2 DEF TxnKnows, Rebuilds
  <2>q. QED
    BY <2>1, KnownStays, BuiltStays, OverStays, OthersOverStays
<1>3. CASE txn[a].pc = "idle"
  BY <1>1, <1>3 DEF TxnKnows
<1>4. CASE txn[a].pc # "idle"
  <2>1. txn[a].x \in Rebuilds
    BY <1>0, <1>4 DEF TxnLocal
  <2>2. PICK x \in Rebuilds : x = txn[a].x
    BY <2>1
  <2>3. /\ Known(x[1])' /\ Built(x)' /\ (Over(x) => Over(x)')
        /\ (OthersOver(x) => OthersOver(x)')
    BY <1>2, <1>4, <2>2
  <2>4. /\ txn[a].pc = "write" /\ txn[a].seen = txn[a].new => Over(x)
        /\ txn[a].pc = "commit" /\ ~ txn[a].wrote => Over(x)
        /\ txn[a].pc = "commit" /\ txn[a].finish => OthersOver(x)
    BY <1>0, <2>2 DEF TxnKnows
  <2>5. txn'[a].x = x
    BY <2>2
  <2>q. QED
    BY <1>1, <2>3, <2>4, <2>5 DEF TxnKnows
<1>q. QED
  BY <1>3, <1>4

LEMMA RefreshLocal ==
    ASSUME CoprInv, NEW a \in Refreshers, NEW x \in Rebuilds, RefreshBuildState(a, x)
    PROVE  txn' \in [Refreshers -> TxnLocal] /\ \A c \in Refreshers : TxnKnows(c)'
<1> DEFINE t == txn[a]
           new == IF x \notin DOMAIN reb \/ builds[reb[x].build].gone # "no"
                  THEN [pc |-> "idle", queue |-> {}]
                  ELSE IF builds[reb[x].build].state = "running"
                  THEN [t EXCEPT !.queue = @ \ {x}]
                  ELSE [pc |-> "write", queue |-> t.queue \ {x}, x |-> x, seen |-> reb[x].state,
                        new |-> StateMap[builds[reb[x].build].state]]
<1>1. txn' = [txn EXCEPT ![a] = new]
  BY DEF RefreshBuildState
<1>2. /\ t.pc = "idle" /\ Refreshes(a, x) /\ UNCHANGED <<req, reb, builds>>
      /\ txn \in [Refreshers -> TxnLocal] /\ t \in TxnLocal /\ TxnKnows(a)
  BY DEF RefreshBuildState, CoprInv, CoprType, LocalType
<1>3. ASSUME x \in DOMAIN reb
      PROVE  Known(x[1]) /\ Built(x) /\ reb[x].state \in RowStates /\ builds[reb[x].build] \in CoprBuild
  <2>1. Known(x[1])
    BY <1>3 DEF CoprInv, RowsKnown, Known
  <2>2. Built(x)
    BY <1>2 DEF Refreshes, TxnKnows, Built
  <2>3. reb[x].build \in 1..Len(builds)
    BY <1>3, <2>2 DEF Built, CoprInv, CoprType, TableType, RebRow
  <2>q. QED
    BY <1>3, <2>1, <2>2, <2>3 DEF CoprInv, CoprType, TableType, RebRow
<1>4. new \in TxnLocal /\ new.queue \subseteq t.queue /\
      (new.pc # "idle" => /\ new.pc = "write" /\ new.x = x /\ x \in DOMAIN reb
                          /\ new.seen = reb[x].state /\ new.new \in Finished)
  <2>1. CASE x \notin DOMAIN reb \/ builds[reb[x].build].gone # "no"
    <3>1. new = [pc |-> "idle", queue |-> {}]
      BY <2>1
    <3>q. QED
      BY <3>1 DEF TxnLocal
  <2>2. CASE x \in DOMAIN reb /\ builds[reb[x].build].gone = "no"
             /\ builds[reb[x].build].state = "running"
    <3>1. new = [t EXCEPT !.queue = @ \ {x}]
      BY <2>2
    <3> HIDE DEF new, t
    <3>q. QED
      BY <1>2, <3>1 DEF TxnLocal
  <2>3. CASE x \in DOMAIN reb /\ builds[reb[x].build].gone = "no"
             /\ builds[reb[x].build].state # "running"
    <3>1. new = [pc |-> "write", queue |-> t.queue \ {x}, x |-> x, seen |-> reb[x].state,
                 new |-> StateMap[builds[reb[x].build].state]]
      BY <2>3
    <3>2. StateMap[builds[reb[x].build].state] \in Finished
      BY <1>3, <2>3 DEF StateMap, Finished, CoprBuild
    <3>3. t.queue \in SUBSET Rebuilds
      BY <1>2 DEF TxnLocal
    <3> HIDE DEF new, t
    <3>q. QED
      BY <1>3, <2>3, <3>1, <3>2, <3>3 DEF TxnLocal
  <2>q. QED
    BY <2>1, <2>2, <2>3
<1> HIDE DEF new
<1>5. /\ txn' \in [Refreshers -> TxnLocal] /\ txn'[a] = new
      /\ \A c \in Refreshers : c # a => txn'[c] = txn[c]
  BY <1>1, <1>2, <1>4
<1>6. \A y : (Known(y)' <=> Known(y)) /\ (Built(y)' <=> Built(y)) /\ (Over(y)' <=> Over(y))
  BY <1>2 DEF Known, Built, Over
<1>7. TxnKnows(a)'
  <2>1. \A y \in new.queue : Known(y[1])' /\ Built(y)'
    BY <1>2, <1>4, <1>6 DEF TxnKnows
  <2>2. new.pc # "idle" => Known(x[1])' /\ Built(x)'
    BY <1>3, <1>4, <1>6
  <2>3. new.pc = "write" /\ new.seen = new.new => Over(x)'
    BY <1>4, <1>6 DEF Over
  <2>4. /\ new.pc # "commit" /\ (new.pc # "idle" => new.x = x)
    BY <1>4
  <2>5. txn'[a] = new
    BY <1>5
  <2>q. QED
    BY <2>1, <2>2, <2>3, <2>4, <2>5 DEF TxnKnows
<1>8. ASSUME NEW c \in Refreshers, c # a PROVE TxnKnows(c)'
  <2>1. TableStep
    BY <1>2, SameTables DEF CoprInv, CoprType
  <2>q. QED
    BY <1>5, <1>8, <2>1, TxnStays
<1>q. QED
  BY <1>5, <1>7, <1>8

LEMMA WriteLocal ==
    ASSUME CoprInv, NEW a \in Refreshers, WriteState(a)
    PROVE  txn' \in [Refreshers -> TxnLocal] /\ \A c \in Refreshers : TxnKnows(c)'
<1> DEFINE t == txn[a]
           wrote == t.seen # t.new
           done == NoneUnfinished(a)
           new == IF wrote /\ t.x \notin DOMAIN reb THEN [pc |-> "idle", queue |-> {}]
                  ELSE [pc |-> "commit", queue |-> t.queue, x |-> t.x, new |-> t.new,
                        wrote |-> wrote, finish |-> done]
<1>1. txn' = [txn EXCEPT ![a] = new]
  BY DEF WriteState
<1>2. /\ t.pc = "write" /\ UNCHANGED <<req, reb, builds>>
      /\ txn \in [Refreshers -> TxnLocal] /\ t \in TxnLocal /\ TxnKnows(a)
  BY DEF WriteState, CoprInv, CoprType, LocalType
<1>3. t.x \in Rebuilds /\ t.new \in Finished /\ t.queue \in SUBSET Rebuilds
  BY <1>2 DEF TxnLocal
<1>4. done <=> OthersOver(t.x)
  BY DEF NoneUnfinished, CountsFinished, OthersOver
<1>5. wrote \in BOOLEAN
  OBVIOUS
<1>6. done \in BOOLEAN
  BY DEF NoneUnfinished, CountsFinished
<1>7. ~ wrote => Over(t.x)
  BY <1>2 DEF TxnKnows
<1> HIDE DEF wrote, done
<1>8. PICK w \in BOOLEAN : w = wrote
  BY <1>5
<1>9. PICK d \in BOOLEAN : d = done
  BY <1>6
<1>10. \/ new = [pc |-> "idle", queue |-> {}]
       \/ new = [pc |-> "commit", queue |-> t.queue, x |-> t.x, new |-> t.new,
                 wrote |-> w, finish |-> d]
  BY <1>8, <1>9
<1> HIDE DEF new
<1>11. /\ new \in TxnLocal /\ new.queue \subseteq t.queue /\ new.pc # "write"
       /\ new.pc # "idle" => new.pc = "commit" /\ new.x = t.x
  <2>1. CASE new = [pc |-> "idle", queue |-> {}]
    BY <2>1 DEF TxnLocal
  <2>2. CASE new = [pc |-> "commit", queue |-> t.queue, x |-> t.x, new |-> t.new,
                    wrote |-> w, finish |-> d]
    BY <1>3, <2>2 DEF TxnLocal
  <2>q. QED
    BY <1>10, <2>1, <2>2
<1>12. new.pc # "idle" => (new.wrote <=> w) /\ (new.finish <=> d)
  BY <1>10
<1>13. /\ txn' \in [Refreshers -> TxnLocal] /\ txn'[a] = new
       /\ \A c \in Refreshers : c # a => txn'[c] = txn[c]
  BY <1>1, <1>2, <1>11
<1>14. \A y : /\ (Known(y)' <=> Known(y)) /\ (Built(y)' <=> Built(y))
              /\ (Over(y)' <=> Over(y)) /\ (OthersOver(y)' <=> OthersOver(y))
  BY <1>2 DEF Known, Built, Over, OthersOver, Rows
<1>15. TxnKnows(a)'
  <2>1. \A y \in new.queue : Known(y[1])' /\ Built(y)'
    BY <1>2, <1>11, <1>14 DEF TxnKnows
  <2>2. PICK x \in Rebuilds : x = t.x
    BY <1>3
  <2>3. new.pc # "idle" => Known(x[1])' /\ Built(x)'
    BY <1>2, <1>14, <2>2 DEF TxnKnows
  <2>4. /\ new.pc # "idle" /\ ~ new.wrote => Over(x)'
        /\ new.pc # "idle" /\ new.finish => OthersOver(x)'
    <3>1. (new.pc # "idle" /\ ~ new.wrote => Over(x)) /\ (new.pc # "idle" /\ new.finish => OthersOver(x))
      BY <1>4, <1>7, <1>8, <1>9, <1>12, <2>2
    <3>q. QED
      BY <1>14, <3>1
  <2>5. txn'[a] = new /\ new.pc # "write" /\ (new.pc # "idle" => new.x = x)
    BY <1>11, <1>13, <2>2
  <2>q. QED
    BY <2>1, <2>3, <2>4, <2>5 DEF TxnKnows
<1>16. ASSUME NEW c \in Refreshers, c # a PROVE TxnKnows(c)'
  <2>1. TableStep
    BY <1>2, SameTables DEF CoprInv, CoprType
  <2>q. QED
    BY <1>13, <1>16, <2>1, TxnStays
<1>q. QED
  BY <1>13, <1>15, <1>16

(* A service that becomes idle keeps a part of its queue *)
LEMMA IdleLocal ==
    ASSUME CoprInv, TableStep, NEW a \in Refreshers, NEW Q \in SUBSET Rebuilds,
           txn' = [txn EXCEPT ![a] = [pc |-> "idle", queue |-> Q]],
           \A x \in Q : Known(x[1]) /\ Built(x)
    PROVE  txn' \in [Refreshers -> TxnLocal] /\ \A c \in Refreshers : TxnKnows(c)'
<1>1. txn \in [Refreshers -> TxnLocal] /\ [pc |-> "idle", queue |-> Q] \in TxnLocal
  BY DEF CoprInv, CoprType, LocalType, TxnLocal
<1>2. /\ txn' \in [Refreshers -> TxnLocal] /\ txn'[a] = [pc |-> "idle", queue |-> Q]
      /\ \A c \in Refreshers : c # a => txn'[c] = txn[c]
  BY <1>1
<1>3. \A x \in Q : Known(x[1])' /\ Built(x)'
  <2>1. TAKE x \in Q
  <2>2. x \in Rebuilds /\ x[1] \in Requests
    BY DEF Rebuilds
  <2>q. QED
    BY <2>1, <2>2, KnownStays, BuiltStays
<1>4. TxnKnows(a)'
  BY <1>2, <1>3 DEF TxnKnows
<1>q. QED
  BY <1>2, <1>4, TxnStays

LEMMA NextTxn ==
    ASSUME CoprInv, [Next]_vars, TableStep
    PROVE  txn' \in [Refreshers -> TxnLocal] /\ \A a \in Refreshers : TxnKnows(a)'
<1>0. txn \in [Refreshers -> TxnLocal]
  BY DEF CoprInv, CoprType, LocalType
<1>1. CASE UNCHANGED txn
  BY <1>0, <1>1, TxnStays
<1>2. CASE PollCopr
  <2>1. txn["polling"].pc = "idle" /\ txn' = [txn EXCEPT !["polling"].queue = Running]
    BY <1>2 DEF PollCopr
  <2>2. "polling" \in Refreshers /\ txn["polling"] \in [pc : {"idle"}, queue : SUBSET Rebuilds]
    BY <1>0, <2>1 DEF Refreshers, TxnLocal
  <2>3. txn' = [txn EXCEPT !["polling"] = [pc |-> "idle", queue |-> Running]]
    <3>1. [txn["polling"] EXCEPT !.queue = Running] = [pc |-> "idle", queue |-> Running]
      BY <2>2
    <3>q. QED
      BY <2>1, <3>1
  <2>4. Running \in SUBSET Rebuilds /\ \A x \in Running : Known(x[1]) /\ Built(x)
    BY DEF Running, Known, Built, CoprInv, RowsKnown, CoprType, TableType
  <2>q. QED
    BY <2>2, <2>3, <2>4, IdleLocal
<1>3. ASSUME NEW a \in Refreshers, RefreshMoves(a)
      PROVE  txn' \in [Refreshers -> TxnLocal] /\ \A c \in Refreshers : TxnKnows(c)'
  <2>1. ASSUME NEW x \in Requests \X Packages, RefreshBuildState(a, x)
        PROVE  txn' \in [Refreshers -> TxnLocal] /\ \A c \in Refreshers : TxnKnows(c)'
    BY <2>1, RefreshLocal DEF Rebuilds
  <2>2. CASE WriteState(a)
    BY <2>2, WriteLocal
  <2>3. CASE CommitState(a)
    <3>1. PICK Q : Q = txn[a].queue
      OBVIOUS
    <3>2. txn' = [txn EXCEPT ![a] = [pc |-> "idle", queue |-> Q]]
      BY <2>3, <3>1 DEF CommitState
    <3>3. txn[a] \in TxnLocal /\ TxnKnows(a)
      BY <1>0 DEF CoprInv
    <3>4. Q \in SUBSET Rebuilds /\ \A x \in Q : Known(x[1]) /\ Built(x)
      BY <3>1, <3>3 DEF TxnLocal, TxnKnows
    <3>q. QED
      BY <3>2, <3>4, IdleLocal
  <2>4. CASE RefreshCrash(a)
    <3>1. txn' = [txn EXCEPT ![a] = [pc |-> "idle", queue |-> {}]]
      BY <2>4 DEF RefreshCrash
    <3>2. {} \in SUBSET Rebuilds /\ \A x \in {} : Known(x[1]) /\ Built(x)
      OBVIOUS
    <3>q. QED
      BY <3>1, <3>2, IdleLocal
  <2>q. QED
    BY <1>3, <2>1, <2>2, <2>3, <2>4 DEF RefreshMoves, RefreshStep
<1>q. QED
  BY <1>1, <1>2, <1>3, Movers

-----------------------------------------------------------------------------
(* The forms and the cleanup *)
LEMMA NextEdit ==
    ASSUME CoprInv, [Next]_vars, TableStep
    PROVE  edit' \in EditLocal /\ EditKnows'
<1>0. edit \in EditLocal
  BY DEF CoprInv, CoprType, LocalType
<1>1. CASE edit' = Idle
  BY <1>1 DEF Idle, EditLocal, EditKnows
<1>2. CASE edit' \in EditLocal /\ edit.pc # "idle" /\ edit'.x = edit.x
  <2>1. edit.x[1] \in Requests /\ Known(edit.x[1])
    BY <1>0, <1>2 DEF EditLocal, Rebuilds, CoprInv, EditKnows
  <2>2. PICK r \in Requests : r = edit.x[1]
    BY <2>1
  <2>3. Known(r)'
    BY <2>1, <2>2, KnownStays
  <2>q. QED
    BY <1>2, <2>2, <2>3 DEF EditKnows
<1>3. CASE UNCHANGED edit
  <2>1. CASE edit.pc = "idle"
    BY <1>0, <1>3, <2>1 DEF EditKnows
  <2>q. QED
    BY <1>0, <1>2, <1>3, <2>1
<1>4. ASSUME NEW x \in DOMAIN reb, NEW action \in {"move-top", "remove"}, LoadRebuild(x, action)
      PROVE  edit' \in EditLocal /\ EditKnows'
  <2>1. /\ edit' = [pc |-> "shift", x |-> x, action |-> action, order |-> reb[x].order,
                    count |-> req[x[1]].count, state |-> req[x[1]].state]
        /\ req' = req
    BY <1>4 DEF LoadRebuild
  <2>2. x \in Rebuilds /\ x[1] \in Requests /\ reb[x].order \in Int
    BY DEF CoprInv, CoprType, TableType, RebRow, Rebuilds
  <2>3. req[x[1]].count \in Nat /\ req[x[1]].state \in ReqStates /\ Known(x[1])
    BY <2>2 DEF CoprInv, CoprType, TableType, ReqRow, RowsKnown, Known
  <2>4. edit' \in EditLocal /\ edit'.x = x
    BY <2>1, <2>2, <2>3 DEF EditLocal, Actions
  <2>q. QED
    BY <2>1, <2>3, <2>4 DEF EditKnows, Known
<1>5. CASE ShiftOthers
  <2>1. /\ edit' = [pc |-> "finish", x |-> edit.x, action |-> edit.action, count |-> edit.count,
                    state |-> edit.state, rows |-> Shifted]
        /\ edit.pc = "shift"
    BY <1>5 DEF ShiftOthers
  <2>2. Shifted \in SUBSET Rebuilds
    BY DEF Shifted, Rows, CoprInv, CoprType, TableType
  <2>q. QED
    BY <1>0, <1>2, <2>1, <2>2 DEF EditLocal
<1>6. CASE WaitForRequest
  BY <1>0, <1>2, <1>6 DEF WaitForRequest, EditLocal
<1>q. QED
  BY <1>1, <1>3, <1>4, <1>5, <1>6, Movers
     DEF EditMoves, EditStep, EditAbort, MoveTop, RemoveRebuild

LEMMA NextClean ==
    ASSUME CoprInv, [Next]_vars PROVE clean' \in CleanLocal
<1>0. clean \in CleanLocal
  BY DEF CoprInv, CoprType, LocalType
<1>1. ASSUME NEW failed \in SUBSET DOMAIN reb, CleanProjects(failed) PROVE clean' \in CleanLocal
  <2>1. PICK old : old \subseteq Old
                   /\ clean' = [pc |-> "rows", ids |-> old \ {x[1] : x \in failed}]
    BY <1>1 DEF CleanProjects
  <2>q. QED
    BY <2>1, CoprAssumption DEF CleanLocal
<1>2. CASE CleanRows
  BY <1>2 DEF CleanRows, Idle, CleanLocal
<1>q. QED
  BY <1>0, <1>1, <1>2, Movers DEF CleanMoves

-----------------------------------------------------------------------------
(* The invariants *)
LEMMA NextRowsKnown ==
    ASSUME CoprInv, TableStep PROVE RowsKnown'
<1>1. SUFFICES ASSUME NEW x \in DOMAIN reb' PROVE req'[x[1]].state \notin {"none", "new", "deleted"}
  BY DEF RowsKnown
<1>2. x[1] \in Requests /\ RowStep(x) /\ ReqStep(x[1])
  BY DEF TableStep, TableType, Rebuilds
<1>3. CASE x \in DOMAIN reb
  BY <1>2, <1>3 DEF CoprInv, RowsKnown, ReqStep, Answered
<1>q. QED
  BY <1>2, <1>3 DEF RowStep, Stays, Ends, Submits, Added

LEMMA NextFinished ==
    ASSUME CoprInv, TableStep PROVE FinishedMeansDone'
<1>1. SUFFICES ASSUME NEW r \in Requests, req'[r].state = "finished",
                      NEW x \in DOMAIN reb', x[1] = r
               PROVE  reb'[x].state \in Finished
  BY DEF FinishedMeansDone, Rows
<1>2. RowStep(x) /\ ReqStep(r)
  BY DEF TableStep
<1>3. CASE req[r].state = "finished"
  <2>1. x \in DOMAIN reb => reb[x].state \in Finished
    BY <1>1, <1>3 DEF CoprInv, FinishedMeansDone, Rows
  <2>2. ~ Added(x)
    BY <1>1 DEF Added
  <2>3. ~ Submits(x)
    BY <2>1 DEF Submits, CoprInv, SchKnows, CoprType, TableType, Finished
  <2>q. QED
    BY <1>2, <2>1, <2>2, <2>3 DEF RowStep, Stays, Ends
<1>4. CASE req[r].state # "finished"
  BY <1>1, <1>2, <1>4 DEF ReqStep, DoneAfter
<1>q. QED
  BY <1>3, <1>4

LEMMA NextRecorded ==
    ASSUME CoprInv, TableStep PROVE RecordedBuildStays'
<1>1. SUFFICES ASSUME NEW x \in DOMAIN reb', reb'[x].build # 0
               PROVE  /\ builds'[reb'[x].build].x = x
                      /\ builds'[reb'[x].build].gone # "replaced"
  BY DEF RecordedBuildStays
<1>2. RowStep(x) /\ BuildStep
  BY DEF TableStep
<1>3. CASE Stays(x) \/ Ends(x)
  <2>1. x \in DOMAIN reb /\ reb'[x].build = reb[x].build
    BY <1>3 DEF Stays, Ends
  <2>2. reb[x].build \in 1..Len(builds)
    BY <1>1, <2>1 DEF CoprInv, CoprType, TableType, RebRow
  <2>3. builds[reb[x].build].x = x /\ builds[reb[x].build].gone # "replaced"
    BY <1>1, <2>1 DEF CoprInv, RecordedBuildStays
  <2>4. ~ (sch.pc = "project" /\ x = sch.x)
    BY <1>1, <2>1 DEF CoprInv, SchKnows
  <2>q. QED
    BY <1>2, <2>1, <2>2, <2>3, <2>4 DEF BuildStep
<1>4. CASE Submits(x)
  BY <1>4 DEF Submits, CoprInv, SchKnows
<1>q. QED
  BY <1>1, <1>2, <1>3, <1>4 DEF RowStep, Added

LEMMA NextRoom ==
    ASSUME CoprInv, TableStep, sch'.pc # "idle" => sch.pc # "idle" \/ ~ AtMaxBuilds
    PROVE  Room'
<1>0. /\ IsFiniteSet(Running) /\ Cardinality(Running) \in Nat /\ Cardinality(Running) <= MaxBuilds
      /\ sch.pc # "idle" => Cardinality(Running) < MaxBuilds
      /\ MaxBuilds \in Nat
  BY CoprAssumption, FS_CardinalityType DEF CoprInv, Room
<1>1. CASE \E x \in DOMAIN reb' : Submits(x)
  <2>1. sch.pc = "commit" /\ sch'.pc = "idle"
    BY <1>1 DEF Submits
  <2>2. Running' \subseteq Running \cup {sch.x}
    BY DEF TableStep, RowStep, Running, Stays, Ends, Added, Submits, Finished
  <2>3. IsFiniteSet(Running \cup {sch.x}) /\ Cardinality(Running \cup {sch.x}) <= Cardinality(Running) + 1
    BY <1>0, FS_AddElement
  <2>4. IsFiniteSet(Running') /\ Cardinality(Running') <= Cardinality(Running \cup {sch.x})
    BY <2>2, <2>3, FS_Subset
  <2>5. Cardinality(Running') \in Nat /\ Cardinality(Running \cup {sch.x}) \in Nat
    BY <2>3, <2>4, FS_CardinalityType
  <2>q. QED
    BY <1>0, <2>1, <2>3, <2>4, <2>5 DEF Room
<1>2. CASE ~ \E x \in DOMAIN reb' : Submits(x)
  <2>1. Running' \subseteq Running
    BY <1>2 DEF TableStep, RowStep, Running, Stays, Ends, Added, Finished
  <2>2. IsFiniteSet(Running') /\ Cardinality(Running') <= Cardinality(Running)
    BY <1>0, <2>1, FS_Subset
  <2>3. Cardinality(Running') \in Nat
    BY <2>2, FS_CardinalityType
  <2>q. QED
    BY <1>0, <2>2, <2>3 DEF Room, AtMaxBuilds
<1>q. QED
  BY <1>1, <1>2

LEMMA NextComps ==
    ASSUME CoprInv, [Next]_vars PROVE CompsNotYetLinked'
<1>1. CASE ResolverMoves
  BY <1>1, ResolverLocal DEF CompsNotYetLinked
<1>2. CASE CreateCoprProject
  <2>1. res' = res /\ comps' = comps \cup {sch.x[1]} /\ sch.x \in DOMAIN reb
    BY <1>2 DEF CreateCoprProject, SchedulerOnly
  <2>2. res.pc = "link" => res.r # sch.x[1]
    BY <2>1 DEF CoprInv, RowsKnown, ResKnows
  <2>q. QED
    BY <2>1, <2>2 DEF CoprInv, CompsNotYetLinked
<1>3. CASE res' = res /\ comps' \subseteq comps
  BY <1>3 DEF CoprInv, CompsNotYetLinked
<1>4. ASSUME ~ ResolverMoves, ~ CreateCoprProject PROVE res' = res /\ comps' \subseteq comps
  <2>0. res' = res
    BY <1>4, Movers
  <2>1. CASE SchedulerMoves
    BY <1>4, <2>1 DEF SchedulerMoves, SchedulerStep, SchedulerCrash, PickRequest, RotateQueue,
              FinishScheduling, ChooseRebuild, CreateFromUrl,
              ScheduleRebuild, SchedulerAborts, SchedulerEnds, SchedulerOnly
  <2>2. CASE PollCopr \/ \E a \in Refreshers : RefreshMoves(a)
    BY <2>2 DEF PollCopr, RefreshMoves, RefreshStep, RefreshCrash, RefreshBuildState,
                WriteState, CommitState
  <2>3. CASE EditMoves
    BY <2>3 DEF EditMoves, LoadRebuild, EditStep, EditAbort, ShiftOthers, WaitForRequest,
                MoveTop, RemoveRebuild, EditOnly
  <2>4. CASE \/ CleanMoves \/ LoseStorage \/ UNCHANGED vars
             \/ \E r \in Requests, c \in Counts : NewRequest(r, c)
             \/ \E b \in DOMAIN builds, s \in Outcomes : CoprBuildEnds(b, s)
    BY <2>4 DEF CleanMoves, CleanProjects, CleanRows, LoseStorage, vars, NewRequest, CoprBuildEnds
  <2>q. QED
    BY <1>4, <2>0, <2>1, <2>2, <2>3, <2>4
       DEF Next, ResolverMoves, SchedulerMoves, RefreshMoves, EditMoves, CleanMoves
<1>q. QED
  BY <1>1, <1>2, <1>3, <1>4

LEMMA InitCopr == Init => CoprInv
<1>1. SUFFICES ASSUME Init PROVE CoprInv
  OBVIOUS
<1>2. DOMAIN reb = {} /\ builds \in Seq(CoprBuild)
  BY <1>1 DEF Init
<1>3. TableType
  BY <1>1, <1>2 DEF Init, TableType, ReqRow, ReqStates
<1>4. LocalType
  <2>1. res \in ResLocal
    BY <1>1 DEF Init, ResLocal
  <2>2. sch \in SchLocal /\ edit \in EditLocal /\ clean \in CleanLocal
    BY <1>1 DEF Init, Idle, SchLocal, EditLocal, CleanLocal
  <2>3. txn \in [Refreshers -> TxnLocal]
    BY <1>1 DEF Init, TxnLocal
  <2>q. QED
    BY <2>1, <2>2, <2>3 DEF LocalType
<1>5. RowsKnown /\ RecordedBuildStays /\ FinishedMeansDone
  BY <1>1, <1>2 DEF RowsKnown, RecordedBuildStays, FinishedMeansDone, Rows
<1>6. ResKnows /\ SchKnows /\ EditKnows /\ CompsNotYetLinked
  BY <1>1 DEF Init, Idle, ResKnows, SchKnows, EditKnows, CompsNotYetLinked
<1>7. \A a \in Refreshers : TxnKnows(a)
  BY <1>1 DEF Init, TxnKnows
<1>8. Room
  <2>1. Running = {}
    BY <1>2 DEF Running
  <2>q. QED
    BY <2>1, FS_EmptySet, CoprAssumption DEF Room
<1>q. QED
  BY <1>3, <1>4, <1>5, <1>6, <1>7, <1>8 DEF CoprInv, CoprType

(* Every reachable state satisfies the invariant *)
THEOREM CoprInvariant == Spec => []CoprInv
<1>1. CoprInv /\ [Next]_vars => CoprInv'
  <2>1. SUFFICES ASSUME CoprInv, [Next]_vars PROVE CoprInv'
    OBVIOUS
  <2>2. TableStep
    BY <2>1, NextTables
  <2>3. CoprType'
    BY <2>1, <2>2, NextResolver, NextScheduler, NextTxn, NextEdit, NextClean
       DEF CoprType, LocalType, TableStep
  <2>4. RowsKnown' /\ FinishedMeansDone' /\ RecordedBuildStays' /\ CompsNotYetLinked'
    BY <2>1, <2>2, NextRowsKnown, NextFinished, NextRecorded, NextComps
  <2>5. Room'
    BY <2>1, <2>2, NextScheduler, NextRoom
  <2>6. ResKnows' /\ SchKnows' /\ EditKnows' /\ \A a \in Refreshers : TxnKnows(a)'
    BY <2>1, <2>2, NextResolver, NextScheduler, NextTxn, NextEdit
  <2>q. QED
    BY <2>3, <2>4, <2>5, <2>6 DEF CoprInv
<1>q. QED
  BY <1>1, InitCopr, PTL DEF Spec

(* At most copr.max_builds rebuilds run, although the scheduler counts them *)
(* before its calls to Copr and writes the state after them, while rows are *)
(* refreshed, edited and cleaned (CoprScheduler.main).                      *)
THEOREM CoprLimitKept == Spec => []CoprWithinLimit
<1>1. CoprInv => CoprWithinLimit
  BY DEF CoprInv, Room, CoprWithinLimit
<1>q. QED
  BY <1>1, CoprInvariant, PTL

(* The project that create_copr_project deletes never holds the build that  *)
(* a row records, whatever crash left it behind.                            *)
THEOREM RecordedBuildsStay == Spec => []RecordedBuildStays
<1>1. CoprInv => RecordedBuildStays
  BY DEF CoprInv
<1>q. QED
  BY <1>1, CoprInvariant, PTL

(* A finished request has only finished rebuilds, although the service that *)
(* ends it counts them in an earlier statement than its commit, while the   *)
(* scheduler, the other service and the forms go on (refresh_build_state).  *)
THEOREM FinishedRequestsAreDone == Spec => []FinishedMeansDone
<1>1. CoprInv => FinishedMeansDone
  BY DEF CoprInv
<1>q. QED
  BY <1>1, CoprInvariant, PTL

(* prepare_comps of the resolver finds no comps.xml of an earlier attempt,  *)
(* nor one that the scheduler linked.                                       *)
THEOREM CompsLinkedOnce == Spec => []CompsNotYetLinked
<1>1. CoprInv => CompsNotYetLinked
  BY DEF CoprInv
<1>q. QED
  BY <1>1, CoprInvariant, PTL
=============================================================================
