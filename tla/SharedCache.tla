---------------------------- MODULE SharedCache ----------------------------
(***************************************************************************)
(* What file_cache.FileCache promises the services that share a cache      *)
(* directory: an item is handed out only when it is whole, and is neither  *)
(* refilled nor removed while anyone uses it.  Nothing is said of locks,   *)
(* the index or the capacity.                                              *)
(***************************************************************************)
CONSTANTS Procs, Keys, NoKey

VARIABLES stored,   \* what the directory of a key holds: "none", "partial" or "full"
          using     \* the item a process was given, or NoKey

NotUsed(k) == \A p \in Procs : using[p] # k

CacheInit ==
    /\ stored = [k \in Keys |-> "none"]
    /\ using  = [p \in Procs |-> NoKey]

Change(k) ==
    /\ NotUsed(k)
    /\ \E s \in {"none", "partial", "full"} : stored' = [stored EXCEPT ![k] = s]
    /\ UNCHANGED using

Use(p, k) ==
    /\ using[p] = NoKey /\ stored[k] = "full"
    /\ using' = [using EXCEPT ![p] = k]
    /\ UNCHANGED stored

Release(p) ==
    /\ using[p] # NoKey
    /\ using' = [using EXCEPT ![p] = NoKey]
    /\ UNCHANGED stored

CacheNext ==
    \/ \E k \in Keys : Change(k)
    \/ \E p \in Procs : Release(p) \/ \E k \in Keys : Use(p, k)

CacheSpec == CacheInit /\ [][CacheNext]_<<stored, using>>
=============================================================================
