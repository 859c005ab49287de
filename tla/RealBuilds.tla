----------------------------- MODULE RealBuilds ------------------------------
(****************************************************************************)
(* register_real_builds and refresh_latest_builds (backend/__init__.py):    *)
(* builds done by packagers. The watcher registers a build when told of a   *)
(* tag change; the polling service compares the tag with the database,      *)
(* registers new builds and marks builds that left the tag as untagged.     *)
(* Neither locks the package before it decides; register_real_builds locks  *)
(* it before it inserts, the UPDATEs of untagged lock build rows only.      *)
(* A refresh handles one package per transaction.                           *)
(****************************************************************************)
EXTENDS Database, Koji

(* The build info Koji returned: its version, and the task behind it *)
InfoTask(q) == real[proc[q].p][proc[q].info]

NothingRegistered(v, p) == {}

RegisteredTasks(v, p) == {v[b].task : b \in {c \in BuildsOf(v, p) : v[c].real}}

Expired == 0    \* the ORM will read the last build again

-----------------------------------------------------------------------------
(* Watcher.register_real_build, get_newer_build_if_exists *)
WatchTag(q, p) ==
    /\ "tag" \in WatchTopics
    /\ proc[q].pc = "idle"
    /\ tagged[p] # 0
    /\ IsBuildNewer(LastBuildVersion(db, p), tagged[p])
    /\ proc' = [proc EXCEPT ![q].p = p, ![q].info = tagged[p],
                            ![q].pc = "register", ![q].cont = "done"]
    /\ UNCHANGED <<dbVars, nextId, kojiVars>>

(* refresh_latest_builds: listTagged, the package map with the last builds, *)
(* then _check_new_real_builds                                              *)
RefreshPackage(q, p) ==
    /\ "latest" \in PollParts
    /\ proc[q].pc = "idle"
    /\ tagged[p] # 0
    /\ LET isnew == /\ real[p][tagged[p]] \notin RegisteredTasks(db, p)
                    /\ IsBuildNewer(LastBuildVersion(db, p), tagged[p])
       IN  proc' = [proc EXCEPT ![q].p = p, ![q].info = tagged[p],
                                ![q].last = LastBuildVersion(db, p),
                                ![q].pc = IF isnew THEN "register" ELSE "untag",
                                ![q].cont = "untag"]
    /\ UNCHANGED <<dbVars, nextId, kojiVars>>

-----------------------------------------------------------------------------
(* register_real_builds for one build *)
RegisterNoRepo(q) ==
    /\ proc[q].pc = "register"
    /\ ~ HasSubtasks(koji[InfoTask(q)])
    /\ IF proc[q].cont = "done" THEN EndHandler(q) ELSE Goto(q, proc[q].cont)
    /\ UNCHANGED <<dbVars, nextId, kojiVars>>

NewRealBuild(q) ==
    [package |-> proc[q].p, state |-> COMPLETE, task |-> InfoTask(q),
     started |-> InfoTask(q), ver |-> proc[q].info, real |-> TRUE,
     untagged |-> FALSE, last_complete |-> FALSE, cancel_requested |-> FALSE]

RegisterLock(q) ==
    /\ proc[q].pc = "register"
    /\ HasSubtasks(koji[InfoTask(q)])
    /\ ForUpdateBlockers(q, proc[q].p) = {}
    /\ LET p   == proc[q].p
           new == InfoTask(q) \notin RegisteredTasks(View(q), p)
           ids == IF new THEN {nextId} ELSE {}
       IN  /\ new => nextId \in BuildIds
           /\ Write(q, [r \in {p} \cup ids |->
                           IF r = p THEN [View(q)[p] EXCEPT !.manual_priority = 0,
                                                            !.build_priority = 0]
                           ELSE NewRealBuild(q)], {p})
           /\ nextId' = IF new THEN nextId + 1 ELSE nextId
           /\ proc' = [proc EXCEPT ![q].fires = IF new THEN 1 ELSE 0,
                                   ![q].ret = "registered",
                                   ![q].pc = IF new THEN "trigger" ELSE "registered"]
    /\ UNCHANGED <<share, kojiVars>>

RegisterCommit(q) ==
    /\ proc[q].pc = "registered"
    /\ Commit(q)
    /\ IF proc[q].cont = "done" THEN EndHandler(q)
       ELSE proc' = [proc EXCEPT ![q].pc = proc[q].cont, ![q].last = Expired]
    /\ UNCHANGED <<nextId, kojiVars>>

-----------------------------------------------------------------------------
(* _check_untagged_builds: the last build is newer than the tagged one. If  *)
(* the tagged one is not in the table it is registered first. All builds    *)
(* started after it are then marked, row by row, waiting for row locks.     *)
LastValidBuild(v, p, info) == Latest(v, {b \in BuildsOf(v, p) : v[b].ver = info})

BuildsAfter(v, p, valid) ==
    {b \in BuildsOf(v, p) : valid = NULL \/ v[b].started > v[valid].started}

(* Begin an UPDATE of the rows S; the trigger fires after the last of them *)
BeginUpdate(q, S, pc, next) ==
    proc' = [proc EXCEPT ![q].todo = S, ![q].ret = next, ![q].fires = 0,
                         ![q].pc = IF S = {} THEN next ELSE pc]

Untag(q) ==
    /\ proc[q].pc = "untag"
    /\ LET v     == View(q)
           p     == proc[q].p
           last  == IF proc[q].last = Expired THEN LastBuildVersion(v, p) ELSE proc[q].last
           valid == LastValidBuild(v, p, proc[q].info)
       IN  IF ~ IsBuildNewer(proc[q].info, last) THEN Goto(q, "retag")
           ELSE IF valid = NULL
                THEN proc' = [proc EXCEPT ![q].pc = "register", ![q].cont = "untag_registered"]
                ELSE BeginUpdate(q, BuildsAfter(v, p, valid), "untag_rows", "retag")
    /\ UNCHANGED <<dbVars, nextId, kojiVars>>

UntagRegistered(q) ==
    /\ proc[q].pc = "untag_registered"
    /\ LET v == View(q)
           p == proc[q].p
       IN  BeginUpdate(q, BuildsAfter(v, p, LastValidBuild(v, p, proc[q].info)),
                       "untag_rows", "retag")
    /\ UNCHANGED <<dbVars, nextId, kojiVars>>

(* _check_retagged_builds *)
Retag(q) ==
    /\ proc[q].pc = "retag"
    /\ LET v == View(q)
       IN  BeginUpdate(q, {b \in BuildsOf(v, proc[q].p) :
                              v[b].ver = proc[q].info /\ v[b].untagged},
                       "retag_rows", "refreshed")
    /\ UNCHANGED <<dbVars, nextId, kojiVars>>

(* One row of either UPDATE. A row deleted, or no longer qualifying, while  *)
(* the statement waited for it is skipped.                                  *)
NextRow(q) == CHOOSE r \in proc[q].todo : \A s \in proc[q].todo : r =< s

UpdateRow(q) ==
    /\ proc[q].pc \in {"untag_rows", "retag_rows"}
    /\ WriteBlockers(q, NextRow(q)) = {}
    /\ LET b      == NextRow(q)
           val    == proc[q].pc = "untag_rows"
           row    == View(q)[b]
           hit    == row # NULL /\ (val \/ row.untagged)
           fires  == IF hit /\ row.untagged # val THEN proc[q].fires + 1 ELSE proc[q].fires
           rest   == proc[q].todo \ {b}
       IN  /\ Write(q, [r \in (IF hit THEN {b} ELSE {}) |->
                            [row EXCEPT !.untagged = val]], {})
           /\ proc' = [proc EXCEPT ![q].todo = rest, ![q].fires = fires,
                                   ![q].pc = IF rest # {} THEN @
                                             ELSE IF fires > 0 THEN "trigger"
                                             ELSE proc[q].ret]
    /\ UNCHANGED <<share, nextId, kojiVars>>

RefreshCommit(q) ==
    /\ proc[q].pc = "refreshed"
    /\ Commit(q)
    /\ EndHandler(q)
    /\ UNCHANGED <<nextId, kojiVars>>

RegisterRealBuilds(q) ==
    \/ RegisterNoRepo(q)
    \/ RegisterLock(q)
    \/ RegisterCommit(q)

RefreshLatestBuilds(q) ==
    \/ Untag(q)
    \/ UntagRegistered(q)
    \/ Retag(q)
    \/ UpdateRow(q)
    \/ RefreshCommit(q)

RealBuildsBlockers(q) ==
    CASE proc[q].pc = "register" /\ HasSubtasks(koji[InfoTask(q)]) ->
            ForUpdateBlockers(q, proc[q].p)
      [] proc[q].pc \in {"untag_rows", "retag_rows"} -> WriteBlockers(q, NextRow(q))
      [] OTHER -> {}
=============================================================================
