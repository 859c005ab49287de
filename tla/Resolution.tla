----------------------------- MODULE Resolution -----------------------------
(***************************************************************************)
(* The resolver services: repo_resolver resolves all packages of a         *)
(* collection in a new repo and stores what changed since their last       *)
(* build; build_resolver stores the dependencies of finished builds.  Any  *)
(* number of processes of each may run, next to the services that submit,  *)
(* finish, delete and register builds (module Koschei, taken here as one   *)
(* step each) and users who edit packages.                                 *)
(***************************************************************************)
EXTENDS Integers, Sequences, FiniteSets, SequencesExt

CONSTANTS Packages,     \* packages of one collection
          RepoProcs,    \* repo_resolver processes
          BuildProcs,   \* build_resolver processes
          Nevras,       \* what a package can depend on, numbered
          Installs,     \* what the solver may install from each repo
          MaxRepos, MaxBuilds,   \* bounds
          MaxFaults,    \* bound on crashes, deleted repos, user edits and cleanups together
          QueueSize,    \* dependency.resolver_queue_size
          ChunkSize,    \* dependency.persist_chunk_size
          CacheSize     \* dependency.dependency_cache_capacity

ASSUME ResolutionAssumption ==
    /\ Nevras \subseteq Nat \ {0} /\ MaxRepos \in Nat \ {0} /\ MaxBuilds \in Nat \ {0}
    /\ MaxFaults \in Nat /\ Installs \in [1 .. MaxRepos -> SUBSET Nevras]
    /\ QueueSize \in Nat \ {0} /\ ChunkSize \in Nat /\ CacheSize \in Nat \ {0}
    /\ IsFiniteSet(Packages)

VARIABLES koji,      \* latest repo and the repos deleted since
          coll,      \* latest_repo_id and latest_repo_resolved
          pkg,       \* package rows with their unapplied changes and history
          bld,       \* build rows by <<package, number>>
          dep,       \* dependency: id of each NEVRA, 0 when absent
          nextDep,   \* its sequence, which no rollback sets back
          applied,   \* how often applied changes of a build were inserted
          rlock, block,       \* advisory locks: the collection's, one per repo id
          rr, br, cache,      \* processes, and the DependencyCache of each build_resolver
          faults

repoVars  == <<coll, rlock, rr>>
buildVars == <<applied, block, br, cache>>
vars == <<koji, coll, pkg, bld, dep, nextDep, applied, rlock, block, rr, br, cache,
          faults>>

Nobody  == "nobody"
Idle    == [pc |-> "idle"]
ASSUME NobodyAssumption == Nobody \notin RepoProcs
EmptyCache == [ids |-> <<>>, nevras |-> [n \in Nevras |-> 0], broken |-> FALSE]
Builds(p)   == {b \in DOMAIN bld : b[1] = p}
LastOf(B)   == CHOOSE b \in B : \A c \in B : c[2] <= b[2]
LastBuild(p) == <<p, pkg[p].last>>
Finished(b) == bld[b].state = "done"

(* mutant: without the condition on Build.started *)
AnyOtherBuild(b) == {c \in Builds(b[1]) : c # b /\ bld[c].deps = "ok"}

(* get_prev_build_for_comparison: the newest resolved build before b *)
PrevBuilds(b) == {c \in Builds(b[1]) : c[2] < b[2] /\ bld[c].deps = "ok"}

Init ==
    /\ koji = [latest |-> 1, dead |-> {}]
    /\ coll = [latest |-> 0, ok |-> FALSE]
    /\ pkg = [p \in Packages |-> [last |-> 1, seq |-> 1, resolved |-> "none", skip |-> FALSE,
                                  un |-> 0, prio |-> 0, added |-> FALSE, history |-> <<>>]]
    /\ bld = [b \in Packages \X {1} |->
                [state |-> "done", deps |-> "none", keys |-> {}, repo |-> 1]]
    /\ dep = [n \in Nevras |-> 0] /\ nextDep = 1
    /\ applied = [b \in Packages \X (1 .. MaxBuilds) |-> 0]
    /\ rlock = Nobody /\ block = [r \in 1 .. MaxRepos |-> Nobody]
    /\ rr = [q \in RepoProcs |-> Idle] /\ br = [q \in BuildProcs |-> Idle]
    /\ cache = [q \in BuildProcs |-> EmptyCache]
    /\ faults = 0

Fault == faults < MaxFaults /\ faults' = faults + 1

-----------------------------------------------------------------------------
(* The rest of the system *)
Elsewhere == UNCHANGED <<repoVars, buildVars, dep, nextDep>>

KojiNewRepo ==
    /\ koji.latest < MaxRepos /\ koji' = [koji EXCEPT !.latest = @ + 1]
    /\ UNCHANGED <<pkg, bld, faults>> /\ Elsewhere

KojiDeleteRepo(r) ==
    /\ r < koji.latest /\ r \notin koji.dead /\ Fault
    /\ koji' = [koji EXCEPT !.dead = @ \cup {r}]
    /\ UNCHANGED <<pkg, bld>> /\ Elsewhere

(* a build transaction in flight has written the rows of its build and of the
   build before it *)
RowLocked(b) == \E q \in BuildProcs : br[q].pc = "commit" /\ br[q].b = b

ClearPriorityData(p) == [pkg[p] EXCEPT !.un = 0, !.prio = 0, !.added = FALSE]

(* a scratch build is submitted, or a real one registered, which also clears
   the priorities *)
NewBuild(p, s) ==
    LET n == 1 + pkg[p].seq IN
    /\ n <= MaxBuilds /\ ~ \E b \in Builds(p) : ~ Finished(b)
    /\ bld' = [b \in DOMAIN bld \cup {<<p, n>>} |->
                 IF b = <<p, n>> THEN [state |-> s, deps |-> "none", keys |-> {},
                                       repo |-> koji.latest]
                 ELSE bld[b]]
    /\ pkg' = [pkg EXCEPT ![p] = IF s = "done" THEN [ClearPriorityData(p) EXCEPT !.last = n, !.seq = n]
                                 ELSE [pkg[p] EXCEPT !.last = n, !.seq = n]]
    /\ UNCHANGED <<koji, faults>> /\ Elsewhere

BuildEnds(b) ==          \* update_build_state and clear_priority_data
    /\ ~ Finished(b) /\ ~ RowLocked(b)
    /\ bld' = [bld EXCEPT ![b].state = "done"]
    /\ pkg' = [pkg EXCEPT ![b[1]] = ClearPriorityData(b[1])]
    /\ UNCHANGED <<koji, faults>> /\ Elsewhere

\* canceled, ended with a Koji fault, or without a repo; a finished build that a late
\* report deletes is one of OldBuilds, because last_complete_build_id cannot be deleted
BuildDeleted(b) ==
    /\ ~ Finished(b) /\ ~ RowLocked(b)
    /\ bld' = [c \in DOMAIN bld \ {b} |-> bld[c]]
    /\ pkg' = [pkg EXCEPT ![b[1]].last = LastOf(Builds(b[1]) \ {b})[2]]
    /\ UNCHANGED <<koji, faults>> /\ Elsewhere

(* the cleanup command keeps last_build and last_complete_build; cut[p] is the
   number of history entries that are too old, at most MaxRepos at once *)
OldBuilds == {b \in DOMAIN bld : Finished(b) /\ \E c \in Builds(b[1]) : Finished(c) /\ c[2] > b[2]}

Cleanup(B, cut) ==
    /\ Fault /\ ~ \E b \in B : RowLocked(b)
    /\ \A p \in Packages : cut[p] <= Len(pkg[p].history)
    /\ bld' = [b \in DOMAIN bld \ B |-> bld[b]]
    /\ pkg' = [p \in Packages |->
                 [pkg[p] EXCEPT !.history = SubSeq(pkg[p].history, cut[p] + 1, Len(pkg[p].history))]]
    /\ UNCHANGED koji /\ Elsewhere

EditPackage(p) ==        \* skip_resolution in the edit form
    /\ Fault
    /\ pkg' = IF pkg[p].skip THEN [pkg EXCEPT ![p].skip = FALSE]
              ELSE [pkg EXCEPT ![p].skip = TRUE, ![p].resolved = "none", ![p].un = 0]
    /\ UNCHANGED <<koji, bld>> /\ Elsewhere

-----------------------------------------------------------------------------
(* RepoResolver *)
RepoOnly == UNCHANGED <<koji, bld, buildVars>>
RepoStep(q, s) == rr' = [rr EXCEPT ![q] = s]

LoadCollections(q) ==    \* main reads the collection before it has the lock
    /\ rr[q].pc = "idle" /\ RepoStep(q, [pc |-> "lock", seen |-> coll])
    /\ UNCHANGED <<coll, rlock, pkg, dep, nextDep, faults>> /\ RepoOnly

IgnoreLock(q) ==         \* mutant: the result of pg_try_advisory_lock is ignored
    rlock' = q /\ RepoStep(q, [pc |-> "repo", seen |-> rr[q].seen])

PgSessionLock(q) ==
    IF rlock = Nobody THEN rlock' = q /\ RepoStep(q, [pc |-> "repo", seen |-> rr[q].seen])
    ELSE RepoStep(q, Idle) /\ UNCHANGED rlock

TryLock(q) ==
    /\ rr[q].pc = "lock" /\ PgSessionLock(q)
    /\ UNCHANGED <<coll, pkg, dep, nextDep, faults>> /\ RepoOnly

Unlocked(q) == IF rlock = q THEN Nobody ELSE rlock

Eligible(p, onlyNew) == ~ pkg[p].skip /\ (onlyNew => pkg[p].resolved = "none")

(* get_new_repo_id, or the known repo when there are new packages; a repo that
   died or cannot be downloaded raises and ends the process *)
ProcessRepo(q) ==
    LET seen == rr[q].seen
        new  == koji.latest > seen.latest
        repo == IF new THEN koji.latest ELSE seen.latest
    IN  /\ rr[q].pc = "repo"
        /\ \/ /\ new \/ (seen.ok /\ \E p \in Packages : Eligible(p, TRUE))
              /\ repo \notin koji.dead
              /\ RepoStep(q, [pc |-> IF new THEN "base" ELSE "load",
                              repo |-> repo, onlyNew |-> ~ new])
              /\ UNCHANGED rlock
           \/ /\ ~ new
              /\ ~ (seen.ok /\ repo \notin koji.dead /\ \E p \in Packages : Eligible(p, TRUE))
              /\ RepoStep(q, Idle) /\ rlock' = Unlocked(q)
        /\ UNCHANGED <<coll, pkg, dep, nextDep, faults>> /\ RepoOnly

ResolveRepo(q, ok) ==
    /\ rr[q].pc = "base"
    /\ coll' = [latest |-> rr[q].repo, ok |-> ok]
    /\ IF ok THEN RepoStep(q, [rr[q] EXCEPT !.pc = "load"]) /\ UNCHANGED rlock
       ELSE RepoStep(q, Idle) /\ rlock' = Unlocked(q)
    /\ UNCHANGED <<pkg, dep, nextDep, faults>> /\ RepoOnly

(* get_packages loads the rows that all results are computed from *)
GetPackages(q) ==
    LET row(p) == [p |-> p, last |-> pkg[p].last, resolved |-> pkg[p].resolved,
                   build |-> bld[LastBuild(p)]]
        ps == {row(p) : p \in {p \in Packages : Eligible(p, rr[q].onlyNew)}}
    IN  /\ rr[q].pc = "load"
        /\ \E todo \in SetToSeqs(ps) :          \* the query has no ORDER BY
              RepoStep(q, [pc |-> "run", repo |-> rr[q].repo, todo |-> todo,
                           queue |-> <<>>, results |-> <<>>])
        /\ UNCHANGED <<coll, rlock, pkg, dep, nextDep, faults>> /\ RepoOnly

(* parallel_generator: a thread runs the solver ahead of the consumer and
   blocks on a full queue; the sentinel is the end of todo and queue *)
WorkerFn(q, out, n) ==
    /\ rr[q].pc = "run" /\ rr[q].todo # <<>> /\ Len(rr[q].queue) < QueueSize
    /\ IF out = "ok" THEN n \in Installs[rr[q].repo] ELSE n = 0
    /\ RepoStep(q, [rr[q] EXCEPT !.todo = Tail(@),
                      !.queue = Append(@, [row |-> Head(rr[q].todo), out |-> out, n |-> n])])
    /\ UNCHANGED <<coll, rlock, pkg, dep, nextDep, faults>> /\ RepoOnly

(* get_build_for_comparison *)
ComparisonKeys(row) ==
    LET prev == PrevBuilds(<<row.p, row.last>>) IN
    IF row.build.state # "done" THEN {}
    ELSE IF row.build.deps = "ok" THEN row.build.keys
    ELSE IF row.build.deps = "bad" /\ prev # {} THEN bld[LastOf(prev)].keys ELSE {}

NevrasOf(keys) == {n \in Nevras : dep[n] \in keys}

Unknown(r) == r.n # 0 /\ ComparisonKeys(r.row) # {} /\ NevrasOf(ComparisonKeys(r.row)) = {}

Consume(q) ==            \* one round of the loop in generate_dependency_changes
    LET r == Head(rr[q].queue)  before == NevrasOf(ComparisonKeys(r.row))
        changed == r.n # 0 /\ before \notin {{}, {r.n}}
        results == Append(rr[q].results, [row |-> r.row, out |-> r.out, n |-> r.n,
                                          changed |-> changed])
    IN  /\ rr[q].pc = "run" /\ rr[q].queue # <<>>
        /\ ~ Unknown(r)                      \* assert res in get_by_ids
        /\ RepoStep(q, [rr[q] EXCEPT !.queue = Tail(@), !.results = results,
                          !.pc = IF Len(results) > ChunkSize THEN "persist" ELSE "run"])
        /\ UNCHANGED <<coll, rlock, pkg, dep, nextDep, faults>> /\ RepoOnly

LastChunk(q) ==
    /\ rr[q].pc = "run" /\ rr[q].todo = <<>> /\ rr[q].queue = <<>>
    /\ RepoStep(q, [rr[q] EXCEPT !.pc = "persist"])
    /\ UNCHANGED <<coll, rlock, pkg, dep, nextDep, faults>> /\ RepoOnly

(* persist_resolution_output, under the row locks of the whole chunk *)
IsResolved(out) == IF out = "ok" THEN "yes" ELSE "no"

NewResolution(p, r) ==   \* compared with the row loaded at the start
    \/ r.row.resolved # IsResolved(r.out)
    \/ r.out # "ok" /\ (pkg[p].history = <<>> \/ r.out # pkg[p].history[Len(pkg[p].history)])

NeverOutdated(p, r) == FALSE     \* mutant: no check for concurrent builds
Outdated(p, r) == r.row.last # pkg[p].last

Stored(p, r) ==
    IF Outdated(p, r) THEN [pkg[p] EXCEPT !.un = 0]
    ELSE [pkg[p] EXCEPT !.resolved = IsResolved(r.out),
                        !.un   = IF r.changed THEN r.row.last ELSE 0,
                        !.prio = IF r.changed THEN r.row.last ELSE 0,
                        !.history = IF NewResolution(p, r) THEN Append(@, r.out) ELSE @]

Result(q, p) == {r \in ToSet(rr[q].results) : r.row.p = p}
Done(q) == rr[q].todo = <<>> /\ rr[q].queue = <<>>

Persist(q) ==
    LET new == [p \in Packages |-> IF Result(q, p) = {} THEN pkg[p]
                                   ELSE Stored(p, CHOOSE r \in Result(q, p) : TRUE)]
        ins == {n \in Nevras : dep[n] = 0 /\
                  \E r \in ToSet(rr[q].results) : r.changed /\ r.n = n}
    IN  /\ rr[q].pc = "persist"
        /\ \A c \in BuildProcs : br[c].pc = "commit" => br[c].ins \cap ins = {}
        /\ \A p \in Packages : ~ (new[p].skip /\ new[p].resolved # "none")  \* CHECK
        /\ pkg' = new
        /\ dep' = [n \in Nevras |-> IF n \in ins
                     THEN nextDep + Cardinality({m \in ins : m < n}) ELSE dep[n]]
        /\ nextDep' = nextDep + Cardinality(ins)
        /\ IF Done(q) THEN RepoStep(q, Idle) /\ rlock' = Unlocked(q)
           ELSE RepoStep(q, [rr[q] EXCEPT !.pc = "run", !.results = <<>>]) /\ UNCHANGED rlock
        /\ UNCHANGED <<coll, faults>> /\ RepoOnly

RepoEnds(q) ==
    /\ RepoStep(q, Idle) /\ rlock' = Unlocked(q)
    /\ UNCHANGED <<coll, pkg, dep, nextDep>> /\ RepoOnly

(* exceptions: a repo that is gone, keys without rows, the CHECK constraint on
   skip_resolution, which rolls back the chunk *)
RepoFails(q) ==
    /\ \/ rr[q].pc = "repo" /\ koji.latest <= rr[q].seen.latest
          /\ rr[q].seen.latest \in koji.dead /\ rr[q].seen.ok
       \/ rr[q].pc = "run" /\ rr[q].queue # <<>> /\ Unknown(Head(rr[q].queue))
       \/ rr[q].pc = "persist" /\ \E r \in ToSet(rr[q].results) :
             pkg[r.row.p].skip /\ ~ Outdated(r.row.p, r)
    /\ RepoEnds(q) /\ UNCHANGED faults

RepoCrash(q) == rr[q].pc # "idle" /\ RepoEnds(q) /\ Fault

-----------------------------------------------------------------------------
(* DependencyCache of a build_resolver process: ids in LRU order, and the index
   by NEVRA, which a rollback of the transaction does not touch *)
Access(c, d) == [c EXCEPT !.ids = Append(SelectSeq(@, LAMBDA e : e.id # d.id), d)]

Add(c, d) ==
    LET ids == Append(c.ids, d)  nevras == [c.nevras EXCEPT ![d.n] = d.id]  old == Head(ids) IN
    IF Len(ids) <= CacheSize THEN [c EXCEPT !.ids = ids, !.nevras = nevras]
    ELSE [ids |-> Tail(ids), nevras |-> [nevras EXCEPT ![old.n] = 0],
          broken |-> c.broken \/ nevras[old.n] = 0]         \* KeyError in _compact

GetOrCreateNevra(c, n) ==
    IF c.nevras[n] # 0 THEN Access(c, [id |-> c.nevras[n], n |-> n])
    ELSE Add(c, [id |-> IF dep[n] # 0 THEN dep[n] ELSE nextDep, n |-> n])

Known(c, id) == {e \in ToSet(c.ids) : e.id = id} \cup
                {[id |-> id, n |-> n] : n \in {n \in Nevras : dep[n] = id}}

GetById(c, id) ==        \* a cached id wins over the table
    LET d == CHOOSE e \in Known(c, id) : TRUE IN
    IF d \in ToSet(c.ids) THEN Access(c, d) ELSE Add(c, d)

(* BuildResolver *)
BuildOnly == UNCHANGED <<koji, repoVars>>
BuildStep(q, s) == br' = [br EXCEPT ![q] = s]
Ungrouped(todo) == IF todo = {} THEN Idle ELSE [pc |-> "group", todo |-> todo]

(* mutant: builds that are resolved already are listed again *)
NotUnresolved == {b \in DOMAIN bld : bld[b].deps # "bad"}
Unprocessed == {b \in DOMAIN bld : bld[b].deps = "none"}

BRLoad(q) ==             \* the list is read once, before any lock
    LET todo == {[b |-> b, repo |-> bld[b].repo] : b \in Unprocessed} IN
    /\ br[q].pc = "idle" /\ todo # {} /\ BuildStep(q, Ungrouped(todo))
    /\ UNCHANGED <<pkg, bld, dep, nextDep, applied, block, cache, faults>> /\ BuildOnly

ProcessUnresolved(B) ==
    /\ bld' = [b \in DOMAIN bld |-> IF b \in B THEN [bld[b] EXCEPT !.deps = "bad"] ELSE bld[b]]
    /\ pkg' = [p \in Packages |-> [pkg[p] EXCEPT !.added = @ \/ LastBuild(p) \in B]]

FirstGroup(q) == {t \in br[q].todo : \A u \in br[q].todo : t.repo <= u.repo}
GroupRepo(q)  == (CHOOSE t \in FirstGroup(q) : TRUE).repo
GroupRows(q)  == {t.b : t \in FirstGroup(q)}

BRGroup(q) ==
    LET r == GroupRepo(q)  rest == br[q].todo \ FirstGroup(q) IN
    /\ br[q].pc = "group"
    /\ \/ /\ block[r] # Nobody                              \* Locked: next group
          /\ BuildStep(q, Ungrouped(rest)) /\ UNCHANGED <<block, bld, pkg>>
       \/ /\ block[r] = Nobody /\ r \in koji.dead           \* one commit for the group
          /\ GroupRows(q) \subseteq DOMAIN bld /\ ~ \E b \in GroupRows(q) : RowLocked(b)
          /\ ProcessUnresolved(GroupRows(q))
          /\ BuildStep(q, Ungrouped(rest)) /\ UNCHANGED block
       \/ /\ block[r] = Nobody /\ r \notin koji.dead /\ block' = [block EXCEPT ![r] = q]
          /\ BuildStep(q, [pc |-> "build", repo |-> r, group |-> GroupRows(q), todo |-> rest])
          /\ UNCHANGED <<bld, pkg>>
    /\ UNCHANGED <<dep, nextDep, applied, cache, faults>> /\ BuildOnly

(* the end of a group, also when no sack could be loaded *)
BRUnlock(q) ==
    /\ br[q].pc = "build" /\ block' = [block EXCEPT ![br[q].repo] = Nobody]
    /\ BuildStep(q, Ungrouped(br[q].todo))
    /\ UNCHANGED <<pkg, bld, dep, nextDep, applied, cache, faults>> /\ BuildOnly

Taken(q, b) == [pc |-> "build", repo |-> br[q].repo, group |-> br[q].group \ {b},
                todo |-> br[q].todo]

(* process_build: deleted concurrently, or without a solution *)
BRUnresolved(q, b) ==
    /\ br[q].pc = "build" /\ b \in br[q].group /\ ~ RowLocked(b)
    /\ ProcessUnresolved({b} \cap DOMAIN bld) /\ BuildStep(q, Taken(q, b))
    /\ UNCHANGED <<dep, nextDep, applied, block, cache, faults>> /\ BuildOnly

(* process_resolved_build up to the commit.  ins are NEVRAs inserted by this
   transaction, prev the build it compares with and reads the keys of *)
Inserts(q, n) == cache[q].nevras[n] = 0 /\ dep[n] = 0
Conflict(q, n) == Inserts(q, n) /\
    \E c \in BuildProcs \ {q} : br[c].pc = "commit" /\ n \in br[c].ins

NoPrev == <<"none", 0>>
PrevOf(b) == IF PrevBuilds(b) = {} THEN NoPrev ELSE LastOf(PrevBuilds(b))
PrevKeys(b) == IF PrevBuilds(b) = {} THEN {} ELSE bld[PrevOf(b)].keys

BRBuild(q, b, n) ==
    LET c1 == GetOrCreateNevra(cache[q], n)
        keys == PrevKeys(b)
        prev == CHOOSE k \in keys : TRUE
        old == (CHOOSE e \in Known(c1, prev) : TRUE)
        c2 == IF keys = {} THEN c1 ELSE GetById(c1, prev)
        changed == keys # {} /\ old.n # n
        c3 == IF changed THEN Access(Access(c2, old), [id |-> c1.nevras[n], n |-> n]) ELSE c2
    IN  /\ br[q].pc = "build" /\ n \in Installs[br[q].repo]
        /\ b \in br[q].group \cap DOMAIN bld /\ ~ RowLocked(b)
        /\ ~ Conflict(q, n) /\ (keys # {} => Known(c1, prev) # {}) /\ ~ c3.broken
        /\ cache' = [cache EXCEPT ![q] = c3]
        /\ nextDep' = IF Inserts(q, n) THEN nextDep + 1 ELSE nextDep
        /\ BuildStep(q, [pc |-> "commit", repo |-> br[q].repo, group |-> br[q].group \ {b},
                         todo |-> br[q].todo, b |-> b, prev |-> PrevOf(b), clears |-> keys # {},
                         ins |-> IF Inserts(q, n) THEN {n} ELSE {}, n |-> n, id |-> c1.nevras[n],
                         change |-> IF changed THEN {old.id, c1.nevras[n]} ELSE {}])
        /\ UNCHANGED <<pkg, bld, dep, applied, block, faults>> /\ BuildOnly

Clear(q) == ~ br[q].clears   \* no UPDATE of the earlier build, or its row is there
            \/ br[q].prev \in DOMAIN bld

Restored(q) == [pc |-> "build", repo |-> br[q].repo, group |-> br[q].group, todo |-> br[q].todo]
ClearedPrev(q) == IF br[q].clears THEN {br[q].prev} ELSE {}

BRCommit(q) ==
    LET s == br[q] IN
    /\ s.pc = "commit" /\ Clear(q)
    /\ dep' = [n \in Nevras |-> IF n \in s.ins THEN s.id ELSE dep[n]]
    /\ s.change \subseteq {dep'[n] : n \in Nevras}          \* foreign keys
    /\ s.clears => ~ RowLocked(s.prev)
    /\ bld' = [b \in DOMAIN bld |->
                 IF b = s.b THEN [bld[b] EXCEPT !.deps = "ok", !.keys = {s.id}]
                 ELSE IF b \in ClearedPrev(q) THEN [bld[b] EXCEPT !.keys = {}] ELSE bld[b]]
    /\ applied' = [applied EXCEPT ![s.b] = IF s.change = {} THEN @ ELSE @ + 1]
    /\ BuildStep(q, Restored(q))
    /\ UNCHANGED <<pkg, nextDep, block, cache, faults>> /\ BuildOnly

(* StaleDataError: the earlier build is gone; rolled back, but not the cache *)
BRRollback(q) ==
    /\ br[q].pc = "commit" /\ ~ Clear(q) /\ BuildStep(q, Restored(q))
    /\ UNCHANGED <<pkg, bld, dep, nextDep, applied, block, cache, faults>> /\ BuildOnly

BREnds(q) ==             \* the process ends; its successor has an empty cache
    /\ BuildStep(q, Idle) /\ cache' = [cache EXCEPT ![q] = EmptyCache]
    /\ block' = [r \in DOMAIN block |-> IF block[r] = q THEN Nobody ELSE block[r]]
    /\ UNCHANGED <<pkg, bld, dep, nextDep, applied>> /\ BuildOnly

(* exceptions: a build of a dead repo is gone, a concurrent insert of the same
   NEVRA, keys without rows, a change that refers to a missing row *)
BRFails(q) ==
    /\ \/ /\ br[q].pc = "group" /\ block[GroupRepo(q)] = Nobody /\ GroupRepo(q) \in koji.dead
          /\ ~ (GroupRows(q) \subseteq DOMAIN bld)
       \/ /\ br[q].pc = "build"
          /\ \E b \in br[q].group \cap DOMAIN bld, n \in Installs[br[q].repo] :
                \/ Conflict(q, n)
                \/ \E k \in PrevKeys(b) : Known(GetOrCreateNevra(cache[q], n), k) = {}
       \/ /\ br[q].pc = "commit" /\ Clear(q)
          /\ ~ (br[q].change \subseteq {dep[n] : n \in Nevras} \cup (IF br[q].ins = {} THEN {} ELSE {br[q].id}))
    /\ BREnds(q) /\ UNCHANGED faults

BRCrash(q) == br[q].pc # "idle" /\ BREnds(q) /\ Fault

-----------------------------------------------------------------------------
Environment ==
    \/ KojiNewRepo
    \/ \E r \in 1 .. MaxRepos : KojiDeleteRepo(r)
    \/ \E p \in Packages : NewBuild(p, "running") \/ NewBuild(p, "done") \/ EditPackage(p)
    \/ \E b \in DOMAIN bld : BuildEnds(b) \/ BuildDeleted(b)
    \/ \E B \in SUBSET OldBuilds, cut \in [Packages -> 0 .. MaxRepos] : Cleanup(B, cut)

RepoResolver(q) ==
    \/ LoadCollections(q) \/ TryLock(q) \/ ProcessRepo(q) \/ GetPackages(q)
    \/ ResolveRepo(q, TRUE) \/ ResolveRepo(q, FALSE)
    \/ \E n \in Nevras : WorkerFn(q, "ok", n)
    \/ WorkerFn(q, "problem", 0)
    \/ Consume(q) \/ LastChunk(q) \/ Persist(q) \/ RepoFails(q)

BuildResolver(q) ==
    \/ BRLoad(q) \/ BRGroup(q) \/ BRUnlock(q) \/ BRCommit(q) \/ BRRollback(q) \/ BRFails(q)
    \/ \E b \in DOMAIN applied : BRUnresolved(q, b) \/ \E n \in Nevras : BRBuild(q, b, n)

Next ==
    \/ Environment
    \/ \E q \in RepoProcs : RepoResolver(q) \/ RepoCrash(q)
    \/ \E q \in BuildProcs : BuildResolver(q) \/ BRCrash(q)

Spec == Init /\ [][Next]_vars

-----------------------------------------------------------------------------
(* What the resolver stores, and the dependency priority computed from it, is
   about the package's last build: nothing is left of a comparison with an
   earlier build once the last build has finished (persist_resolution_output
   discards results of packages with a concurrently registered build) *)
NoStaleChanges ==
    \A p \in Packages : Finished(LastBuild(p)) =>
        pkg[p].un \in {0, pkg[p].last} /\ pkg[p].prio \in {0, pkg[p].last}

(* no process of an older list of collections takes the collection back to an
   earlier repo (process_repo runs under the collection's advisory lock) *)
LatestMonotone == [][coll'.latest >= coll.latest]_vars

(* an entry of the resolution history is a change: it differs from the entry
   before it, or the package was not resolved then *)
HistoryChanges ==
    [][\A p \in Packages : LET h == pkg[p].history  new == pkg'[p].history IN
         Len(new) > Len(h) /\ h # <<>> /\ pkg[p].resolved # "none" =>
            new[Len(new)] # h[Len(h)]]_vars

(* a build gives its keys up only to a newer resolved build of its package, so a
   comparison never falls back on an older set of dependencies; builds are
   resolved out of order when their repos are (process_resolved_build) *)
KeysMoveForward ==
    [][\A b \in DOMAIN bld \cap DOMAIN bld' : bld[b].keys # {} /\ bld'[b].keys = {} =>
         \E c \in DOMAIN bld' : c[1] = b[1] /\ c[2] > b[2] /\ bld'[c].keys # {}]_vars

(* a build that is the newest resolved one of its package keeps the keys that
   the package's current dependencies are compared with; docstring of
   UnappliedChange: "the difference is done between package's last complete
   build and package's current set of dependencies" *)
LastBuildComparable ==
    \A p \in Packages : Finished(LastBuild(p)) /\ bld[LastBuild(p)].deps = "ok" => bld[LastBuild(p)].keys # {}

(* a build's changes are inserted once, although a crash, a rolled back commit
   or a dead repo makes the service list it again; true of the one process
   that is deployed, not of two that list builds before they lock the repo *)
AppliedOnce == \A b \in DOMAIN applied : applied[b] <= 1
=============================================================================
