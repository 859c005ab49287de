------------------------------ MODULE LastBuild ------------------------------
(****************************************************************************)
(* The rows of the build and package tables, and the functions computed     *)
(* from them: the trigger function update_last_build (triggers.sql), the    *)
(* state strings and the schedulability test of Package (models.py).        *)
(* Everything here is a pure operator on a view v: a function from row      *)
(* identifiers (builds and packages alike) to rows.                         *)
(****************************************************************************)
EXTENDS Integers, FiniteSets

CONSTANTS
    Packages,      \* identifiers of package rows
    MaxBuildId,    \* bound: number of build rows ever inserted
    MaxStamp,      \* bound: number of distinct points in time
    MaxVersion,    \* bound: number of releases of a package
    NULL           \* SQL NULL; also stands for a row that does not exist

BuildIds == 1..MaxBuildId
Stamps   == 1..MaxStamp
Versions == 1..MaxVersion
Rows     == BuildIds \cup Packages

ASSUME BoundsAssumption ==
    /\ MaxBuildId \in Nat
    /\ MaxStamp \in Nat
    /\ MaxVersion \in Nat

ASSUME RowsAssumption ==
    /\ Packages \cap Int = {}
    /\ NULL \notin Packages
    /\ NULL \notin Int

-----------------------------------------------------------------------------
(* Build.STATE_MAP *)
RUNNING  == 2
COMPLETE == 3
FAILED   == 5
FinishedStates == {COMPLETE, FAILED}

(* A row of table build. task is the Koji task, identified by its creation  *)
(* time; started is Build.started; ver stands for (epoch, version, release).*)
BuildRow ==
    [package : Packages, state : {RUNNING} \cup FinishedStates, task : Stamps,
     started : Stamps, ver : Versions, real : BOOLEAN, untagged : BOOLEAN,
     last_complete : BOOLEAN, cancel_requested : BOOLEAN]

(* A row of table package. The package is tracked, is not blocked and its   *)
(* collection has a resolved repo.                                          *)
PackageRow ==
    [last_build : BuildIds \cup {NULL},
     last_complete_build : BuildIds \cup {NULL},
     last_complete_build_state : FinishedStates \cup {NULL},
     resolved : BOOLEAN \cup {NULL}, manual_priority : Int,
     build_priority : Nat]

(* NULL is not a row *)
ASSUME NullAssumption == NULL \notin BuildRow

BuildsOf(v, p) == {b \in BuildIds : v[b] # NULL /\ v[b].package = p}

RunningBuilds(v) == {b \in BuildIds : v[b] # NULL /\ v[b].state = RUNNING}

(* ORDER BY started DESC LIMIT 1, NULL when nothing matches *)
Latest(v, S) ==
    IF S = {} THEN NULL
    ELSE CHOOSE b \in S : \A c \in S : v[c].started =< v[b].started

-----------------------------------------------------------------------------
(* update_last_build: the two SELECT ... INTO *)
TaggedBuildsOf(v, p) == {b \in BuildsOf(v, p) : ~ v[b].untagged}

LastBuildOf(v, p) == Latest(v, TaggedBuildsOf(v, p))

LastCompleteBuildRunning(v, p) == LastBuildOf(v, p)

LastCompleteBuildOf(v, p) ==
    LET lb == LastBuildOf(v, p)
    IN  IF lb # NULL /\ v[lb].state = RUNNING
        THEN Latest(v, {b \in TaggedBuildsOf(v, p) : v[b].state \in FinishedStates})
        ELSE lb

-----------------------------------------------------------------------------
(* Package.msg_state_string of a tracked, unblocked package *)
MsgState(pkg) ==
    CASE pkg.resolved = FALSE                          -> "unresolved"
      [] pkg.resolved # FALSE /\ pkg.last_complete_build_state = COMPLETE -> "ok"
      [] pkg.resolved # FALSE /\ pkg.last_complete_build_state = FAILED   -> "failing"
      [] OTHER                                         -> "ignored"

MsgStates == {"unresolved", "ok", "failing", "ignored"}

(* Scheduler.get_priorities joins the last build and keeps the packages     *)
(* whose current_priority_expression is not NULL. The expression is NULL    *)
(* only when its WHEN is TRUE: "last_complete_build_id != last_build_id" is *)
(* NULL, hence not TRUE, when last_complete_build_id is NULL.               *)
HasPriority(pkg) ==
    /\ pkg.last_build # NULL
    /\ ~ (/\ pkg.last_complete_build # NULL
          /\ pkg.last_complete_build # pkg.last_build)
    /\ pkg.resolved = TRUE

(* util.is_build_newer: NULL stands for "no build" *)
IsBuildNewer(current, new) ==
    current # NULL => (new # NULL /\ current < new)

(* Version of package.last_build, NULL when the relationship is None *)
LastBuildVersion(v, p) ==
    LET b == v[p].last_build
    IN  IF b = NULL \/ v[b] = NULL THEN NULL ELSE v[b].ver
=============================================================================
