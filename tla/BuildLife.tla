----------------------------- MODULE BuildLife -----------------------------
(****************************************************************************)
(* The life of a build as users, and the listeners of Koschei's messages,   *)
(* see it: a number is used for one build, which is submitted, or imported  *)
(* from Koji as complete, ends in one state, and is announced at most once  *)
(* and only when its end is public. Nothing is said of services, locks,     *)
(* transactions and Koji.                                                   *)
(****************************************************************************)
EXTENDS Naturals

CONSTANT Builds

VARIABLES
    status,    \* what is publicly known of each build
    events     \* messages sent about the end of each build

LifeInit ==
    /\ status = [b \in Builds |-> "none"]
    /\ events = [b \in Builds |-> 0]

Ended == {"complete", "failed", "gone"}

Submit(b)   == status[b] = "none" /\ status'[b] = "running"
Register(b) == status[b] = "none" /\ status'[b] = "complete"

(* The number is lost: the transaction that drew it was rolled back *)
Abandon(b) == status[b] = "none" /\ status'[b] = "gone"

Finish(b) == status[b] = "running" /\ status'[b] \in {"complete", "failed"}

Delete(b) == status[b] \in {"running", "complete", "failed"} /\ status'[b] = "gone"

Announce(b) ==
    /\ status[b] \in Ended /\ events[b] = 0
    /\ events'[b] = 1

Change(b) == Submit(b) \/ Register(b) \/ Abandon(b) \/ Finish(b) \/ Delete(b)

(* One commit may concern several builds *)
LifeNext ==
    \A b \in Builds :
        /\ Change(b) \/ status'[b] = status[b]
        /\ Announce(b) \/ events'[b] = events[b]

LifeSpec == LifeInit /\ [][LifeNext]_<<status, events>>
=============================================================================
