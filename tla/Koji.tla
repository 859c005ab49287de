-------------------------------- MODULE Koji ---------------------------------
(****************************************************************************)
(* The Koji build system as Koschei uses it: tasks, and the build of every  *)
(* package that is tagged latest in the destination tag. External code.     *)
(*                                                                          *)
(* A task is identified by its creation time (create_ts), which is all that *)
(* the code compares. Scratch tasks are created by submit_build, the tasks  *)
(* of real builds by packagers.                                             *)
(****************************************************************************)
EXTENDS LastBuild

CONSTANTS
    MaxTagMoves    \* bound: how often the tag of some package changes

ASSUME MaxTagMovesAssumption == MaxTagMoves \in Nat

VARIABLES
    clock,         \* next point in time
    koji,          \* state of every task, NULL before it is created
    real,          \* real[p][v]: task of the real build of version v of p
    tagged,        \* version of p tagged latest, 0 when there is none
    moves          \* tag changes so far

kojiVars == <<clock, koji, real, tagged, moves>>

(* FREE: no subtask yet. OPEN: the buildArch subtask exists, with a repo.   *)
(* FAULT: failed with a Koji fault. NOREPO: ended before any buildArch.     *)
Unfinished == {"FREE", "OPEN"}
TaskStates == Unfinished \cup {"CLOSED", "FAILED", "FAULT", "NOREPO", "CANCELED"}

(* NULL is not the state of a task *)
ASSUME TaskStatesAssumption == NULL \notin TaskStates

(* koji.TASK_STATES name that getTaskInfo and the messages report *)
StateName(s) == IF s \in {"FAULT", "NOREPO"} THEN "FAILED" ELSE s

StateNames == {"FREE", "OPEN", "CLOSED", "FAILED", "CANCELED"}

(* Names a task has reported so far: what messages about it may say *)
ReportedNames(s) ==
    {"FREE"} \cup (IF s = "FREE" THEN {} ELSE {StateName(s)})
             \cup (IF s \in {"CLOSED", "FAILED", "FAULT"} THEN {"OPEN"} ELSE {})

HasSubtasks(s) == s \notin {"FREE", "NOREPO"}

KojiInit ==
    /\ clock = 1
    /\ koji = [t \in Stamps |-> NULL]
    /\ real = [p \in Packages |-> [v \in Versions |-> NULL]]
    /\ tagged = [p \in Packages |-> 0]
    /\ moves = 0

KojiOpenTask(t) ==
    /\ koji[t] = "FREE"
    /\ koji' = [koji EXCEPT ![t] = "OPEN"]
    /\ UNCHANGED <<clock, real, tagged, moves>>

KojiEndTask(t) ==
    /\ \/ koji[t] = "FREE" /\ koji' = [koji EXCEPT ![t] = "NOREPO"]
       \/ /\ koji[t] = "OPEN"
          /\ \E s \in {"CLOSED", "FAILED", "FAULT"} : koji' = [koji EXCEPT ![t] = s]
    /\ UNCHANGED <<clock, real, tagged, moves>>

(* A packager builds the next version; the build is tagged by KojiTag. *)
KojiRealBuild(p) ==
    /\ clock \in Stamps
    /\ \E v \in Versions, s \in {"CLOSED", "NOREPO"} :
          /\ real[p][v] = NULL
          /\ \A w \in 1..(v - 1) : real[p][w] # NULL
          /\ real' = [real EXCEPT ![p][v] = clock]
          /\ koji' = [koji EXCEPT ![clock] = s]
    /\ clock' = clock + 1
    /\ UNCHANGED <<tagged, moves>>

KojiTag(p) ==
    /\ moves < MaxTagMoves
    /\ moves' = moves + 1
    /\ \E v \in {0} \cup {w \in Versions : real[p][w] # NULL} :
          /\ v # tagged[p]
          /\ tagged' = [tagged EXCEPT ![p] = v]
    /\ UNCHANGED <<clock, koji, real>>

KojiStep ==
    \/ \E t \in Stamps : KojiOpenTask(t) \/ KojiEndTask(t)
    \/ \E p \in Packages : KojiRealBuild(p) \/ KojiTag(p)

-----------------------------------------------------------------------------
(* Calls. cancelTask has no effect on a finished task: it raises            *)
(* GenericError, which the caller ignores.                                  *)
CancelTask(t) ==
    koji' = IF koji[t] \in Unfinished THEN [koji EXCEPT ![t] = "CANCELED"] ELSE koji

NewScratchTask == koji' = [koji EXCEPT ![clock] = "FREE"] /\ clock' = clock + 1
=============================================================================
