------------------------------- MODULE Frontend ------------------------------
(****************************************************************************)
(* The views that write what the services read: cancel_build and            *)
(* edit_package (frontend/views.py).                                        *)
(****************************************************************************)
EXTENDS Database

CONSTANTS
    UserPriority     \* manual priorities a user may set

ASSUME UserPriorityAssumption == UserPriority \subseteq Int

(* cancel_build: the build is read, found running, and marked *)
RequestCancel(q, b) ==
    /\ proc[q].pc = "idle"
    /\ db[b] # NULL
    /\ db[b].state = RUNNING
    /\ ~ db[b].cancel_requested
    /\ proc' = [proc EXCEPT ![q].b = b, ![q].pc = "cancel"]
    /\ UNCHANGED <<dbVars, nextId>>

(* UPDATE build SET cancel_requested; a deleted row is a StaleDataError *)
MarkCanceled(q) ==
    /\ proc[q].pc = "cancel"
    /\ WriteBlockers(q, proc[q].b) = {}
    /\ IF db[proc[q].b] = NULL
       THEN UNCHANGED <<db, work>>
       ELSE /\ db' = [db EXCEPT ![proc[q].b].cancel_requested = TRUE]
            /\ work' = [work EXCEPT ![proc[q].b].cancel_requested = TRUE]
    /\ EndHandler(q)
    /\ UNCHANGED <<xlock, keyed, share, nextId>>

(* edit_package: data.set_package_attribute(manual_priority) *)
EditPriority(q, p, n) ==
    /\ proc[q].pc = "idle"
    /\ WriteBlockers(q, p) = {}
    /\ db[p].manual_priority # n
    /\ db' = [db EXCEPT ![p].manual_priority = n]
    /\ work' = [work EXCEPT ![p].manual_priority = n]
    /\ UNCHANGED <<xlock, keyed, share, nextId, proc>>

ServeRequest(q) ==
    \/ \E b \in BuildIds : RequestCancel(q, b)
    \/ MarkCanceled(q)
    \/ \E p \in Packages, n \in UserPriority : EditPriority(q, p, n)

FrontendBlockers(q) ==
    IF proc[q].pc = "cancel" THEN WriteBlockers(q, proc[q].b) ELSE {}
=============================================================================
