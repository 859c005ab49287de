--------------------------- MODULE ResolutionProofs ---------------------------
(***************************************************************************)
(* The resolver services, for any number of packages, repos, builds,       *)
(* repo_resolver processes, user edits and crashes: what is stored about a *)
(* package fits its last build and its history, the collection never goes  *)
(* back to an older repo, and one build_resolver applies changes once.     *)
(***************************************************************************)
EXTENDS Resolution, FiniteSetTheorems, WellFoundedInduction, TLAPS

Numbers  == 1 .. MaxBuilds
BuildIds == Packages \X Numbers
Outs     == {"ok", "problem"}

(* Rows and local variables are records with these fields *)
BuildRow(r) == r = [state |-> r.state, deps |-> r.deps, keys |-> r.keys, repo |-> r.repo]
PackageRow(r) ==
    r = [last |-> r.last, seq |-> r.seq, resolved |-> r.resolved, skip |-> r.skip,
         un |-> r.un, prio |-> r.prio, added |-> r.added, history |-> r.history]
RunLocal(r) == r = [pc |-> r.pc, repo |-> r.repo, todo |-> r.todo, queue |-> r.queue,
                    results |-> r.results]
BaseLocal(r) == r = [pc |-> r.pc, repo |-> r.repo, onlyNew |-> r.onlyNew]
IsSeq(s) == \E S : s \in Seq(S)

PackageType(r) == /\ PackageRow(r) /\ r.last \in Numbers /\ r.seq \in Numbers
                  /\ r.history \in Seq(Outs)
TableInv ==
    /\ koji = [latest |-> koji.latest, dead |-> koji.dead] /\ koji.latest \in Nat
    /\ DOMAIN pkg = Packages /\ pkg = [p \in Packages |-> pkg[p]]
    /\ \A p \in Packages : PackageType(pkg[p])
    /\ DOMAIN bld \subseteq BuildIds /\ bld = [b \in DOMAIN bld |-> bld[b]]
    /\ \A b \in DOMAIN bld : BuildRow(bld[b])

(* The newest finished build of its package *)
Newest(f) == /\ f \in DOMAIN bld /\ Finished(f)
             /\ \A b \in DOMAIN bld : b[1] = f[1] /\ Finished(b) => b[2] <= f[2]

(* Build numbers grow, only the last build runs, one build is finished, and *)
(* what is stored about a package is about its newest finished build.       *)
BuildsInv ==
    \A p \in Packages :
        /\ LastBuild(p) \in DOMAIN bld /\ pkg[p].last <= pkg[p].seq
        /\ \A b \in Builds(p) : b[2] <= pkg[p].last /\ (~ Finished(b) => b[2] = pkg[p].last)
        /\ \E f \in Builds(p) : /\ Newest(f)
                                /\ pkg[p].un \in {0, f[2]} /\ pkg[p].prio \in {0, f[2]}

(* What a resolution status says about the history, if any is left *)
Fits(resolved, h) ==
    /\ resolved \in {"none", "yes", "no"}
    /\ resolved = "yes" /\ h # <<>> => h[Len(h)] = "ok"
    /\ resolved = "no" /\ h # <<>> => h[Len(h)] = "problem"
HistoryInv == \A p \in Packages : Fits(pkg[p].resolved, pkg[p].history)

(* A row that a repo_resolver loaded and has not stored yet *)
RowOK(r) ==
    /\ r.p \in Packages /\ r.last \in Numbers /\ r.last <= pkg[r.p].seq
    /\ r.build.state = "done" /\ <<r.p, r.last>> \in DOMAIN bld => Finished(<<r.p, r.last>>)
    /\ Fits(r.resolved, pkg[r.p].history)
    /\ pkg[r.p].resolved # "none" => r.resolved # "none"

ListsOK(l) ==
    /\ RunLocal(l) /\ IsSeq(l.todo) /\ IsSeq(l.queue) /\ IsSeq(l.results)
    /\ \A i \in 1 .. Len(l.todo) : RowOK(l.todo[i])
    /\ \A i \in 1 .. Len(l.queue) : RowOK(l.queue[i].row) /\ l.queue[i].out \in Outs
    /\ \A i \in 1 .. Len(l.results) :
          /\ RowOK(l.results[i].row) /\ l.results[i].out \in Outs
          /\ l.results[i].changed => l.results[i].row.build.state = "done"

(* A package is in the lists once *)
DistinctLists(todo, queue, results) ==
    /\ \A i, j \in 1 .. Len(todo) : i # j => todo[i].p # todo[j].p
    /\ \A i, j \in 1 .. Len(queue) : i # j => queue[i].row.p # queue[j].row.p
    /\ \A i \in 1 .. Len(todo), j \in 1 .. Len(queue) : todo[i].p # queue[j].row.p
    /\ \A i \in 1 .. Len(todo), j \in 1 .. Len(results) : todo[i].p # results[j].row.p
    /\ \A i \in 1 .. Len(queue), j \in 1 .. Len(results) : queue[i].row.p # results[j].row.p
Distinct(l) == DistinctLists(l.todo, l.queue, l.results)

Locked == {"repo", "base", "load", "run", "persist"}
RepoInv(q) ==
    /\ rr[q].pc \in {"idle", "lock"} \cup Locked
    /\ rr[q].pc \in Locked => rlock = q
    /\ rr[q].pc = "base" => /\ BaseLocal(rr[q]) /\ rr[q].repo \in Nat
                            /\ coll.latest <= rr[q].repo /\ rr[q].repo <= koji.latest
    /\ rr[q].pc \in {"run", "persist"} => ListsOK(rr[q]) /\ Distinct(rr[q])
RepoProcsInv == /\ DOMAIN rr = RepoProcs /\ rr = [q \in RepoProcs |-> rr[q]]
                /\ \A q \in RepoProcs : RepoInv(q)
                /\ coll.latest \in Nat /\ coll.latest <= koji.latest

(* A build transaction in flight keeps the row of its build, which is newer *)
(* than the build it takes the keys from.                                   *)
BuildInv(q) ==
    br[q].pc = "commit" =>
        /\ br[q].b \in DOMAIN bld
        /\ br[q].clears => br[q].prev[1] = br[q].b[1] /\ br[q].prev[2] < br[q].b[2]
BuildProcsInv == /\ DOMAIN br = BuildProcs /\ br = [q \in BuildProcs |-> br[q]]
                 /\ \A q \in BuildProcs : BuildInv(q)

ResolutionInv == TableInv /\ BuildsInv /\ HistoryInv /\ RepoProcsInv /\ BuildProcsInv

(* One build_resolver: a listed build has no dependencies yet, or is gone *)
Fresh(b) == /\ b \in BuildIds /\ b[2] <= pkg[b[1]].seq
            /\ b \in DOMAIN bld => bld[b].deps = "none"
Listed(s) ==
    /\ s.pc \in {"idle", "group", "build", "commit"}
    /\ s.pc # "idle" => /\ \A t \in s.todo : Fresh(t.b)
                        /\ \A t, u \in s.todo : t.b = u.b => t = u
    /\ s.pc \in {"build", "commit"} => \A b \in s.group : Fresh(b) /\ \A t \in s.todo : t.b # b
    /\ s.pc = "commit" => Fresh(s.b) /\ s.b \notin s.group /\ \A t \in s.todo : t.b # s.b
ListInv(q) == Listed(br[q])
AppliedInv ==
    /\ DOMAIN applied = BuildIds /\ applied = [b \in BuildIds |-> applied[b]]
    /\ \A b \in BuildIds : /\ applied[b] \in {0, 1}
                           /\ applied[b] = 1 => b[2] <= pkg[b[1]].seq
                           /\ b \in DOMAIN bld /\ bld[b].deps = "none" => applied[b] = 0
OnceInv == AppliedInv /\ \A q \in BuildProcs : ListInv(q)

-----------------------------------------------------------------------------
(* Sequences of anything *)
LEMMA SeqAppend ==
    ASSUME NEW s, IsSeq(s), NEW e
    PROVE  /\ IsSeq(Append(s, e)) /\ Len(s) \in Nat /\ Len(Append(s, e)) = Len(s) + 1
           /\ (\A i \in 1 .. Len(s) : Append(s, e)[i] = s[i]) /\ Append(s, e)[Len(s) + 1] = e
<1>1. PICK S : s \in Seq(S)
  BY DEF IsSeq
<1>2. s \in Seq(S \cup {e})
  BY <1>1
<1>3. Append(s, e) \in Seq(S \cup {e})
  BY <1>2
<1>q. QED
  BY <1>2, <1>3 DEF IsSeq

LEMMA SeqTail ==
    ASSUME NEW s, IsSeq(s), s # <<>>
    PROVE  /\ IsSeq(Tail(s)) /\ Len(s) \in Nat \ {0} /\ Len(Tail(s)) = Len(s) - 1
           /\ (\A i \in 1 .. Len(s) - 1 : Tail(s)[i] = s[i + 1]) /\ Head(s) = s[1]
<1>1. PICK S : s \in Seq(S)
  BY DEF IsSeq
<1>2. Tail(s) \in Seq(S)
  BY <1>1
<1>q. QED
  BY <1>1, <1>2 DEF IsSeq

LEMMA SeqEmpty == IsSeq(<<>>) /\ Len(<<>>) = 0
<1>1. <<>> \in Seq({})
  OBVIOUS
<1>q. QED
  BY <1>1 DEF IsSeq

LEMMA SeqSet ==
    ASSUME NEW s, IsSeq(s), NEW e \in ToSet(s)
    PROVE  \E i \in 1 .. Len(s) : s[i] = e
BY DEF IsSeq, ToSet

(* The least number principle, and its converse below a bound *)
LEMMA SmallestOf ==
    ASSUME NEW T, T \subseteq Nat, T # {} PROVE \E x \in T : \A y \in T : x <= y
<1>1. \E x \in T : \A y \in T : ~ (<<y, x>> \in OpToRel(<, Nat))
  BY NatLessThanWellFounded, WFMin
<1>2. OpToRel(<, Nat) = {s \in Nat \X Nat : s[1] < s[2]}
  BY DEF OpToRel
<1>3. PICK x \in T : \A y \in T : ~ (<<y, x>> \in {s \in Nat \X Nat : s[1] < s[2]})
  BY <1>1, <1>2
<1>4. ASSUME NEW y \in T PROVE x <= y
  <2>1. x \in Nat /\ y \in Nat
    OBVIOUS
  <2>2. ~ (y < x)
    BY <1>3, <2>1
  <2>q. QED
    BY <2>1, <2>2
<1>q. QED
  BY <1>4

LEMMA LargestOf ==
    ASSUME NEW T, NEW n \in Nat, T \subseteq 0 .. n, T # {}
    PROVE  \E x \in T : \A y \in T : y <= x
<1> DEFINE D == {n - x : x \in T}
<1>1. D \subseteq Nat /\ D # {}
  <2>1. \A x \in T : n - x \in Nat
    OBVIOUS
  <2>q. QED
    BY <2>1
<1>2. PICK d \in D : \A e \in D : d <= e
  BY <1>1, SmallestOf
<1>3. PICK x \in T : d = n - x
  OBVIOUS
<1>4. ASSUME NEW y \in T PROVE y <= x
  <2>1. n - y \in D
    OBVIOUS
  <2>2. n - x <= n - y
    BY <1>2, <1>3, <2>1
  <2>3. x \in Int /\ y \in Int
    OBVIOUS
  <2>q. QED
    BY <2>2, <2>3
<1>q. QED
  BY <1>4

(* LastOf picks a build with the highest number *)
LEMMA LastOfBuilds ==
    ASSUME NEW B, B \subseteq BuildIds, B # {}
    PROVE  LastOf(B) \in B /\ \A c \in B : c[2] <= LastOf(B)[2]
<1> DEFINE T == {b[2] : b \in B}
<1>1. MaxBuilds \in Nat /\ T \subseteq 0 .. MaxBuilds /\ T # {}
  BY ResolutionAssumption DEF BuildIds, Numbers
<1>2. PICK n \in T : \A m \in T : m <= n
  BY <1>1, LargestOf
<1>3. PICK b \in B : b[2] = n
  OBVIOUS
<1>4. \A c \in B : c[2] <= b[2]
  BY <1>2, <1>3
<1>q. QED
  BY <1>4 DEF LastOf

-----------------------------------------------------------------------------
(* What one step does to the rows *)
DataStep ==
    /\ TableInv'
    /\ \A p \in Packages : pkg[p].seq <= pkg'[p].seq
    /\ \A b \in DOMAIN bld' :
          \/ b \in DOMAIN bld /\ (Finished(b) => bld'[b].state = "done")
          \/ pkg[b[1]].seq < b[2] /\ bld'[b].deps = "none"
    /\ \A b \in DOMAIN bld : b \in DOMAIN bld' \/ ~ RowLocked(b)

Shorter(new, h) == Len(new) <= Len(h) /\ \A r : Fits(r, h) => Fits(r, new)

(* Every step but the commit of a repo_resolver's chunk *)
SafeStep ==
    /\ DataStep
    /\ \A p \in Packages : /\ pkg'[p].history = pkg[p].history \/ Shorter(pkg'[p].history, pkg[p].history)
                           /\ pkg'[p].resolved \in {pkg[p].resolved, "none"}

LEMMA QuietStep ==
    ASSUME ResolutionInv, UNCHANGED <<pkg, bld>>,
           koji' = [latest |-> koji'.latest, dead |-> koji'.dead], koji'.latest \in Nat
    PROVE  SafeStep /\ BuildsInv' /\ HistoryInv'
<1>1. TableInv'
  BY DEF ResolutionInv, TableInv
<1>2. \A p \in Packages : pkg[p].seq <= pkg'[p].seq
  BY DEF ResolutionInv, TableInv, PackageType, Numbers
<1>3. BuildsInv' /\ HistoryInv'
  BY DEF ResolutionInv, BuildsInv, HistoryInv, Fits, LastBuild, Builds, Finished, Newest
<1>q. QED
  BY <1>1, <1>2, <1>3 DEF SafeStep, DataStep, Finished

LEMMA HistorySafe ==
    ASSUME ResolutionInv, SafeStep PROVE HistoryInv'
<1> SUFFICES ASSUME NEW p \in Packages PROVE Fits(pkg'[p].resolved, pkg'[p].history)
  BY DEF HistoryInv
<1>1. Fits(pkg[p].resolved, pkg[p].history)
  BY DEF ResolutionInv, HistoryInv
<1>2. Fits(pkg[p].resolved, pkg'[p].history)
  BY <1>1 DEF SafeStep, Shorter
<1>q. QED
  BY <1>2 DEF SafeStep, Fits

(* The rows of the other packages *)
LEMMA PackageChange ==
    ASSUME TableInv, NEW p \in Packages, NEW new, PackageType(new), pkg' = [pkg EXCEPT ![p] = new]
    PROVE  /\ DOMAIN pkg' = Packages /\ pkg' = [x \in Packages |-> pkg'[x]]
           /\ \A x \in Packages : PackageType(pkg'[x])
           /\ pkg'[p] = new /\ \A x \in Packages : x # p => pkg'[x] = pkg[x]
BY DEF TableInv

LEMMA NewBuildStep ==
    ASSUME ResolutionInv, NEW p \in Packages, NEW s \in {"running", "done"}, NewBuild(p, s)
    PROVE  SafeStep /\ BuildsInv'
<1>0. PICK n \in Numbers : n = 1 + pkg[p].seq
  BY DEF NewBuild, ResolutionInv, TableInv, PackageType, Numbers
<1> DEFINE row == IF s = "done" THEN [ClearPriorityData(p) EXCEPT !.last = n, !.seq = n]
                  ELSE [pkg[p] EXCEPT !.last = n, !.seq = n]
           bnew == [state |-> s, deps |-> "none", keys |-> {}, repo |-> koji.latest]
<1>1. /\ n <= MaxBuilds /\ ~ (\E b \in Builds(p) : ~ Finished(b))
      /\ bld' = [b \in DOMAIN bld \cup {<<p, n>>} |-> IF b = <<p, n>> THEN bnew ELSE bld[b]]
      /\ pkg' = [pkg EXCEPT ![p] = row] /\ koji' = koji
  BY <1>0 DEF NewBuild
<1>2. TableInv /\ PackageType(pkg[p]) /\ n \in Numbers /\ BuildsInv
  BY DEF ResolutionInv, TableInv, PackageType, Numbers
<1>3. /\ PackageType(row) /\ row.last = n /\ row.seq = n /\ row.history = pkg[p].history
      /\ row.resolved = pkg[p].resolved
      /\ IF s = "done" THEN row.un = 0 /\ row.prio = 0
         ELSE row.un = pkg[p].un /\ row.prio = pkg[p].prio
  <2>1. CASE s = "done"
    <3>1. row = [last |-> n, seq |-> n, resolved |-> pkg[p].resolved, skip |-> pkg[p].skip,
                 un |-> 0, prio |-> 0, added |-> FALSE, history |-> pkg[p].history]
      BY <1>2, <2>1 DEF ClearPriorityData, PackageType, PackageRow
    <3> HIDE DEF row
    <3>q. QED
      BY <1>2, <2>1, <3>1 DEF PackageType, PackageRow
  <2>2. CASE s # "done"
    <3>1. row = [last |-> n, seq |-> n, resolved |-> pkg[p].resolved, skip |-> pkg[p].skip,
                 un |-> pkg[p].un, prio |-> pkg[p].prio, added |-> pkg[p].added,
                 history |-> pkg[p].history]
      BY <1>2, <2>2 DEF PackageType, PackageRow
    <3> HIDE DEF row
    <3>q. QED
      BY <1>2, <2>2, <3>1 DEF PackageType, PackageRow
  <2>q. QED
    BY <2>1, <2>2
<1> HIDE DEF row
<1>4. /\ DOMAIN pkg' = Packages /\ pkg' = [x \in Packages |-> pkg'[x]]
      /\ \A x \in Packages : PackageType(pkg'[x])
      /\ pkg'[p] = row /\ \A x \in Packages : x # p => pkg'[x] = pkg[x]
  BY <1>1, <1>2, <1>3, PackageChange
<1>5. /\ DOMAIN bld' = DOMAIN bld \cup {<<p, n>>} /\ bld' = [b \in DOMAIN bld' |-> bld'[b]]
      /\ bld'[<<p, n>>] = bnew /\ \A b \in DOMAIN bld : b # <<p, n>> => bld'[b] = bld[b]
  BY <1>1
<1>6. \A b \in DOMAIN bld : b[1] \in Packages /\ b[2] \in Numbers /\ b[2] <= pkg[b[1]].last
                            /\ b # <<p, n>> /\ (b[1] = p => Finished(b) /\ b[2] < n)
  <2>1. TAKE b \in DOMAIN bld
  <2>2. b[1] \in Packages /\ b[2] \in Numbers
    BY <1>2 DEF TableInv, BuildIds
  <2>3. b \in Builds(b[1]) /\ b[2] <= pkg[b[1]].last /\ pkg[b[1]].last <= pkg[b[1]].seq
        /\ pkg[b[1]].last \in Numbers /\ pkg[b[1]].seq \in Numbers
    BY <1>2, <2>2 DEF Builds, BuildsInv, TableInv, PackageType
  <2>4. b[1] = p => b[2] < n
    BY <1>0, <2>2, <2>3 DEF Numbers
  <2>q. QED
    BY <1>1, <2>2, <2>3, <2>4 DEF Numbers
<1>7. TableInv'
  <2>1. \A b \in DOMAIN bld' : BuildRow(bld'[b])
    BY <1>2, <1>5 DEF BuildRow, TableInv
  <2>2. DOMAIN bld' \subseteq BuildIds
    BY <1>2, <1>5 DEF TableInv, BuildIds
  <2>q. QED
    BY <1>1, <1>2, <1>4, <1>5, <2>1, <2>2 DEF TableInv
<1>8. SafeStep
  <2>1. \A x \in Packages : pkg[x].seq <= pkg'[x].seq
    BY <1>0, <1>2, <1>3, <1>4 DEF PackageType, Numbers, TableInv
  <2>2. \A b \in DOMAIN bld' : \/ b \in DOMAIN bld /\ (Finished(b) => bld'[b].state = "done")
                               \/ pkg[b[1]].seq < b[2] /\ bld'[b].deps = "none"
    <3>1. pkg[p].seq < n
      BY <1>0, <1>2 DEF PackageType, Numbers
    <3>q. QED
      BY <1>5, <1>6, <3>1 DEF Finished
  <2>3. \A x \in Packages : pkg'[x].history = pkg[x].history /\ pkg'[x].resolved = pkg[x].resolved
    BY <1>3, <1>4
  <2>q. QED
    BY <1>5, <1>7, <2>1, <2>2, <2>3 DEF SafeStep, DataStep
<1>9. ASSUME NEW x \in Packages
      PROVE  /\ LastBuild(x)' \in DOMAIN bld' /\ pkg'[x].last <= pkg'[x].seq
             /\ \A b \in Builds(x)' : b[2] <= pkg'[x].last /\ (~ Finished(b)' => b[2] = pkg'[x].last)
             /\ \E f \in Builds(x)' : /\ Newest(f)'
                                      /\ pkg'[x].un \in {0, f[2]} /\ pkg'[x].prio \in {0, f[2]}
  <2>0. PICK f \in Builds(x) : Newest(f) /\ pkg[x].un \in {0, f[2]} /\ pkg[x].prio \in {0, f[2]}
    BY <1>2 DEF BuildsInv
  <2>1. CASE x # p
    <3>1. /\ LastBuild(x) \in DOMAIN bld /\ LastBuild(x)' = LastBuild(x) /\ pkg'[x] = pkg[x]
          /\ Builds(x)' = Builds(x)
          /\ \A b \in Builds(x) : bld'[b] = bld[b] /\ b \in DOMAIN bld
      BY <1>2, <1>4, <1>5, <1>6, <2>1 DEF BuildsInv, LastBuild, Builds
    <3>2. Newest(f)'
      BY <1>5, <1>6, <2>0, <2>1, <3>1 DEF Newest, Builds, Finished
    <3>q. QED
      BY <1>2, <1>5, <2>0, <3>1, <3>2 DEF BuildsInv, Finished
  <2>2. CASE x = p
    <3>1. /\ LastBuild(x)' = <<p, n>> /\ pkg'[x].last = n /\ pkg'[x].seq = n
          /\ Builds(x)' = Builds(x) \cup {<<p, n>>}
      BY <1>3, <1>4, <1>5, <2>2 DEF LastBuild, Builds
    <3>2. \A b \in Builds(x) : b[2] < n /\ b \in DOMAIN bld /\ bld'[b] = bld[b] /\ Finished(b)
      BY <1>5, <1>6, <2>2 DEF Builds
    <3>5. /\ LastBuild(x)' \in DOMAIN bld' /\ pkg'[x].last <= pkg'[x].seq
          /\ \A b \in Builds(x)' : b[2] <= n /\ (~ Finished(b)' => b[2] = n)
      <4>1. \A b \in Builds(x) : b[2] <= n /\ Finished(b)'
        BY <1>2, <1>6, <3>2 DEF Finished, Numbers
      <4>2. n <= n /\ <<p, n>>[2] = n
        BY <1>2 DEF Numbers
      <4>q. QED
        BY <1>5, <3>1, <4>1, <4>2
    <3>3. CASE s = "done"
      <4>1. Newest(<<p, n>>)'
        BY <1>2, <1>5, <1>6, <3>3 DEF Newest, Finished, Numbers
      <4>2. <<p, n>> \in Builds(x)' /\ pkg'[x].un = 0 /\ pkg'[x].prio = 0
        BY <1>3, <1>4, <2>2, <3>1, <3>3
      <4>q. QED
        BY <3>1, <3>5, <4>1, <4>2
    <3>4. CASE s # "done"
      <4>1. Newest(f)'
        BY <1>5, <1>6, <2>0, <2>2, <3>2, <3>4 DEF Newest, Finished, Builds
      <4>2. f \in Builds(x)' /\ pkg'[x].un = pkg[x].un /\ pkg'[x].prio = pkg[x].prio
        BY <1>3, <1>4, <2>0, <2>2, <3>1, <3>4
      <4>q. QED
        BY <2>0, <3>1, <3>5, <4>1, <4>2
    <3>q. QED
      BY <3>3, <3>4
  <2>q. QED
    BY <2>1, <2>2
<1>q. QED
  BY <1>8, <1>9 DEF BuildsInv

(* Clearing what is stored about a package *)
LEMMA Cleared ==
    ASSUME NEW p, PackageType(pkg[p])
    PROVE  /\ PackageType(ClearPriorityData(p))
           /\ ClearPriorityData(p).un = 0 /\ ClearPriorityData(p).prio = 0
           /\ ClearPriorityData(p).last = pkg[p].last /\ ClearPriorityData(p).seq = pkg[p].seq
           /\ ClearPriorityData(p).history = pkg[p].history
           /\ ClearPriorityData(p).resolved = pkg[p].resolved
<1>1. PICK row : row = pkg[p]
  OBVIOUS
<1>2. PICK r : r = [row EXCEPT !.un = 0, !.prio = 0, !.added = FALSE]
  OBVIOUS
<1>4. ClearPriorityData(p) = r
  BY <1>1, <1>2 DEF ClearPriorityData
<1>5. PackageType(row)
  BY <1>1
<1>6. r = [last |-> row.last, seq |-> row.seq, resolved |-> row.resolved, skip |-> row.skip,
           un |-> 0, prio |-> 0, added |-> FALSE, history |-> row.history]
  BY <1>2, <1>5 DEF PackageType, PackageRow
<1>7. /\ PackageType(r) /\ r.un = 0 /\ r.prio = 0 /\ r.last = row.last /\ r.seq = row.seq
      /\ r.history = row.history /\ r.resolved = row.resolved
  BY <1>5, <1>6 DEF PackageType, PackageRow
<1>q. QED
  BY <1>1, <1>4, <1>7

LEMMA BuildEndsStep ==
    ASSUME ResolutionInv, NEW b \in DOMAIN bld, BuildEnds(b)
    PROVE  SafeStep /\ BuildsInv'
<1>0. PICK p \in Packages : p = b[1]
  BY DEF ResolutionInv, TableInv, BuildIds
<1>1. /\ ~ Finished(b) /\ bld' = [bld EXCEPT ![b].state = "done"]
      /\ pkg' = [pkg EXCEPT ![p] = ClearPriorityData(p)] /\ koji' = koji
  BY <1>0 DEF BuildEnds
<1>2. TableInv /\ PackageType(pkg[p]) /\ BuildsInv /\ BuildRow(bld[b])
  BY DEF ResolutionInv, TableInv
<1>3. /\ DOMAIN pkg' = Packages /\ pkg' = [x \in Packages |-> pkg'[x]]
      /\ \A x \in Packages : PackageType(pkg'[x])
      /\ pkg'[p] = ClearPriorityData(p) /\ \A x \in Packages : x # p => pkg'[x] = pkg[x]
  BY <1>1, <1>2, Cleared, PackageChange
<1>4. /\ pkg'[p].un = 0 /\ pkg'[p].prio = 0
      /\ \A x \in Packages : /\ pkg'[x].last = pkg[x].last /\ pkg'[x].seq = pkg[x].seq
                             /\ pkg'[x].history = pkg[x].history /\ pkg'[x].resolved = pkg[x].resolved
  BY <1>2, <1>3, Cleared
<1>5. /\ DOMAIN bld' = DOMAIN bld /\ bld' = [c \in DOMAIN bld' |-> bld'[c]]
      /\ BuildRow(bld'[b]) /\ bld'[b].state = "done" /\ bld'[b].keys = bld[b].keys
      /\ \A c \in DOMAIN bld : c # b => bld'[c] = bld[c]
  <2>1. /\ DOMAIN bld' = DOMAIN bld /\ bld' = [c \in DOMAIN bld' |-> bld'[c]]
        /\ \A c \in DOMAIN bld : c # b => bld'[c] = bld[c]
    BY <1>1, <1>2 DEF TableInv
  <2>2. bld'[b] = [bld[b] EXCEPT !.state = "done"]
    BY <1>1, <1>2 DEF TableInv
  <2>3. bld'[b] = [state |-> "done", deps |-> bld[b].deps, keys |-> bld[b].keys, repo |-> bld[b].repo]
    BY <1>2, <2>2 DEF BuildRow
  <2>q. QED
    BY <2>1, <2>3 DEF BuildRow
<1>6. TableInv'
  BY <1>1, <1>2, <1>3, <1>5 DEF TableInv
<1>7. SafeStep
  BY <1>2, <1>4, <1>5, <1>6 DEF SafeStep, DataStep, PackageType, Numbers, TableInv, Finished
<1>8. b \in Builds(p) /\ b[2] = pkg[p].last /\ \A c \in Builds(p) : c[2] <= b[2]
  BY <1>0, <1>1, <1>2 DEF BuildsInv, Builds
<1>9. ASSUME NEW x \in Packages
      PROVE  /\ LastBuild(x)' \in DOMAIN bld' /\ pkg'[x].last <= pkg'[x].seq
             /\ \A c \in Builds(x)' : c[2] <= pkg'[x].last /\ (~ Finished(c)' => c[2] = pkg'[x].last)
             /\ \E f \in Builds(x)' : /\ Newest(f)'
                                      /\ pkg'[x].un \in {0, f[2]} /\ pkg'[x].prio \in {0, f[2]}
  <2>0. PICK f \in Builds(x) : Newest(f) /\ pkg[x].un \in {0, f[2]} /\ pkg[x].prio \in {0, f[2]}
    BY <1>2 DEF BuildsInv
  <2>1. Builds(x)' = Builds(x) /\ LastBuild(x)' = LastBuild(x)
    BY <1>4, <1>5 DEF Builds, LastBuild
  <2>2. /\ LastBuild(x)' \in DOMAIN bld' /\ pkg'[x].last <= pkg'[x].seq
        /\ \A c \in Builds(x)' : c[2] <= pkg'[x].last /\ (~ Finished(c)' => c[2] = pkg'[x].last)
    BY <1>2, <1>4, <1>5, <2>1 DEF BuildsInv, Builds, Finished
  <2>3. CASE x # p
    <3>1. Newest(f)'
      BY <1>0, <1>5, <2>0, <2>3 DEF Newest, Builds, Finished
    <3>q. QED
      BY <1>3, <2>0, <2>1, <2>2, <2>3, <3>1
  <2>4. CASE x = p
    <3>1. Newest(b)'
      BY <1>0, <1>5, <1>8 DEF Newest, Builds, Finished
    <3>q. QED
      BY <1>4, <1>8, <2>1, <2>2, <2>4, <3>1
  <2>q. QED
    BY <2>3, <2>4
<1>q. QED
  BY <1>7, <1>9 DEF BuildsInv

LEMMA BuildDeletedStep ==
    ASSUME ResolutionInv, NEW b \in DOMAIN bld, BuildDeleted(b)
    PROVE  SafeStep /\ BuildsInv'
<1>0. PICK p \in Packages : p = b[1]
  BY DEF ResolutionInv, TableInv, BuildIds
<1> DEFINE rest == Builds(p) \ {b}
           m == LastOf(rest)[2]
<1>1. /\ ~ Finished(b)
      /\ bld' = [c \in DOMAIN bld \ {b} |-> bld[c]]
      /\ pkg' = [pkg EXCEPT ![p].last = m] /\ koji' = koji /\ ~ RowLocked(b)
  BY <1>0 DEF BuildDeleted
<1>2. TableInv /\ PackageType(pkg[p]) /\ BuildsInv
  BY DEF ResolutionInv, TableInv
<1>3. \A x \in Packages : \A c \in Builds(x) : c \in DOMAIN bld /\ c[1] = x /\ c[2] \in Numbers
  BY <1>2 DEF TableInv, BuildIds, Builds
<1>4. PICK f \in Builds(p) : Newest(f) /\ pkg[p].un \in {0, f[2]} /\ pkg[p].prio \in {0, f[2]}
  BY <1>2 DEF BuildsInv
<1>5. f # b /\ f \in rest
  BY <1>1, <1>4 DEF Newest
<1>6. LastOf(rest) \in rest /\ \A c \in rest : c[2] <= m
  BY <1>2, <1>5, LastOfBuilds DEF TableInv, Builds
<1>7. m \in Numbers /\ <<p, m>> = LastOf(rest) /\ m <= pkg[p].seq
  <2>1. LastOf(rest) \in Builds(p) /\ LastOf(rest) \in BuildIds /\ LastOf(rest)[1] = p
    BY <1>2, <1>6 DEF Builds, TableInv
  <2>2. m \in Numbers /\ LastOf(rest) = <<p, m>>
    BY <2>1 DEF BuildIds
  <2>3. m <= pkg[p].last /\ pkg[p].last <= pkg[p].seq
    BY <1>2, <2>1 DEF BuildsInv
  <2>q. QED
    BY <1>2, <2>2, <2>3 DEF PackageType, Numbers
<1> HIDE DEF m
<1>8. /\ DOMAIN pkg' = Packages /\ pkg' = [x \in Packages |-> pkg'[x]]
      /\ \A x \in Packages : PackageType(pkg'[x])
      /\ pkg'[p].last = m /\ pkg'[p].seq = pkg[p].seq /\ pkg'[p].history = pkg[p].history
      /\ pkg'[p].resolved = pkg[p].resolved /\ pkg'[p].un = pkg[p].un /\ pkg'[p].prio = pkg[p].prio
      /\ \A x \in Packages : x # p => pkg'[x] = pkg[x]
  <2>1. PICK new : new = [pkg[p] EXCEPT !.last = m]
    OBVIOUS
  <2>2. new = [last |-> m, seq |-> pkg[p].seq, resolved |-> pkg[p].resolved,
               skip |-> pkg[p].skip, un |-> pkg[p].un, prio |-> pkg[p].prio,
               added |-> pkg[p].added, history |-> pkg[p].history]
    BY <1>2, <2>1 DEF PackageType, PackageRow
  <2>3. PackageType(new)
    BY <1>2, <1>7, <2>2 DEF PackageType, PackageRow
  <2>4. pkg' = [pkg EXCEPT ![p] = new]
    BY <1>1, <2>1
  <2>5. /\ DOMAIN pkg' = Packages /\ pkg' = [x \in Packages |-> pkg'[x]]
        /\ \A x \in Packages : PackageType(pkg'[x])
        /\ pkg'[p] = new /\ \A x \in Packages : x # p => pkg'[x] = pkg[x]
    BY <1>2, <2>3, <2>4, PackageChange
  <2>q. QED
    BY <2>2, <2>5
<1>9. TableInv'
  BY <1>1, <1>2, <1>8 DEF TableInv
<1>10. SafeStep
  <2>1. \A x \in Packages : pkg[x].seq <= pkg'[x].seq
    BY <1>2, <1>8 DEF PackageType, Numbers, TableInv
  <2>2. \A x \in Packages : pkg'[x].history = pkg[x].history /\ pkg'[x].resolved = pkg[x].resolved
    BY <1>8
  <2>q. QED
    BY <1>1, <1>9, <2>1, <2>2 DEF SafeStep, DataStep, Finished
<1>11. ASSUME NEW x \in Packages
       PROVE  /\ LastBuild(x)' \in DOMAIN bld' /\ pkg'[x].last <= pkg'[x].seq
              /\ \A c \in Builds(x)' : c[2] <= pkg'[x].last /\ (~ Finished(c)' => c[2] = pkg'[x].last)
              /\ \E g \in Builds(x)' : /\ Newest(g)'
                                       /\ pkg'[x].un \in {0, g[2]} /\ pkg'[x].prio \in {0, g[2]}
  <2>0. \A g : Newest(g) /\ g # b => Newest(g)'
    BY <1>1 DEF Newest, Finished
  <2>1. CASE x # p
    <3>1. Builds(x)' = Builds(x) /\ pkg'[x] = pkg[x] /\ LastBuild(x)' = LastBuild(x)
      BY <1>0, <1>1, <1>8, <2>1 DEF Builds, LastBuild
    <3>2. /\ LastBuild(x) \in DOMAIN bld' /\ \A c \in Builds(x) : Finished(c)' <=> Finished(c)
      BY <1>0, <1>1, <1>2, <1>3, <2>1 DEF BuildsInv, LastBuild, Finished
    <3>3. PICK g \in Builds(x) : Newest(g) /\ pkg[x].un \in {0, g[2]} /\ pkg[x].prio \in {0, g[2]}
      BY <1>2 DEF BuildsInv
    <3>4. g # b
      BY <1>0, <1>3, <2>1
    <3>q. QED
      BY <1>2, <2>0, <3>1, <3>2, <3>3, <3>4 DEF BuildsInv
  <2>2. CASE x = p
    <3>1. Builds(x)' = rest /\ LastBuild(x)' = LastOf(rest)
      BY <1>0, <1>1, <1>7, <1>8, <2>2 DEF Builds, LastBuild
    <3>2. LastOf(rest) \in DOMAIN bld' /\ pkg'[x].last <= pkg'[x].seq
      BY <1>1, <1>3, <1>6, <1>7, <1>8, <2>2
    <3>3. ASSUME NEW c \in rest PROVE c[2] <= m /\ (~ Finished(c)' => c[2] = m)
      <4>1. c[2] <= m /\ c \in Builds(p) /\ c \in DOMAIN bld /\ (Finished(c)' <=> Finished(c))
        BY <1>1, <1>3, <1>6 DEF Finished, m
      <4>2. ASSUME ~ Finished(c) PROVE c[2] = m
        <5>1. c[2] = pkg[p].last /\ m <= pkg[p].last
          BY <1>2, <1>6, <4>1, <4>2 DEF BuildsInv, m
        <5>q. QED
          BY <1>3, <1>7, <4>1, <5>1 DEF Numbers
      <4>q. QED
        BY <4>1, <4>2
    <3>4. Newest(f)'
      BY <1>4, <1>5, <2>0
    <3>q. QED
      BY <1>4, <1>5, <1>8, <2>2, <3>1, <3>2, <3>3, <3>4
  <2>q. QED
    BY <2>1, <2>2
<1>q. QED
  BY <1>10, <1>11 DEF BuildsInv

LEMMA EditPackageStep ==
    ASSUME ResolutionInv, NEW p \in Packages, EditPackage(p)
    PROVE  SafeStep /\ BuildsInv'
<1>1. TableInv /\ PackageType(pkg[p]) /\ BuildsInv /\ bld' = bld /\ koji' = koji
  BY DEF ResolutionInv, TableInv, EditPackage
<1>2. PICK new : /\ pkg' = [pkg EXCEPT ![p] = new] /\ PackageType(new)
                 /\ new.last = pkg[p].last /\ new.seq = pkg[p].seq /\ new.prio = pkg[p].prio
                 /\ new.history = pkg[p].history /\ new.un \in {0, pkg[p].un}
                 /\ new.resolved \in {pkg[p].resolved, "none"}
  <2>1. CASE pkg[p].skip
    <3>1. pkg' = [pkg EXCEPT ![p].skip = FALSE]
      BY <2>1 DEF EditPackage
    <3>2. PICK new : new = [pkg[p] EXCEPT !.skip = FALSE]
      OBVIOUS
    <3>3. new = [last |-> pkg[p].last, seq |-> pkg[p].seq, resolved |-> pkg[p].resolved,
                 skip |-> FALSE, un |-> pkg[p].un, prio |-> pkg[p].prio,
                 added |-> pkg[p].added, history |-> pkg[p].history]
      BY <1>1, <3>2 DEF PackageType, PackageRow
    <3>4. PackageType(new)
      BY <1>1, <3>3 DEF PackageType, PackageRow
    <3>q. QED
      BY <3>1, <3>2, <3>3, <3>4
  <2>2. CASE ~ pkg[p].skip
    <3>1. pkg' = [pkg EXCEPT ![p].skip = TRUE, ![p].resolved = "none", ![p].un = 0]
      BY <2>2 DEF EditPackage
    <3>2. PICK new : new = [pkg[p] EXCEPT !.skip = TRUE, !.resolved = "none", !.un = 0]
      OBVIOUS
    <3>3. new = [last |-> pkg[p].last, seq |-> pkg[p].seq, resolved |-> "none",
                 skip |-> TRUE, un |-> 0, prio |-> pkg[p].prio,
                 added |-> pkg[p].added, history |-> pkg[p].history]
      BY <1>1, <3>2 DEF PackageType, PackageRow
    <3>4. PackageType(new)
      BY <1>1, <3>3 DEF PackageType, PackageRow
    <3>5. pkg' = [pkg EXCEPT ![p] = new]
      BY <1>1, <3>1, <3>2 DEF TableInv
    <3>6. /\ new.last = pkg[p].last /\ new.seq = pkg[p].seq /\ new.prio = pkg[p].prio
          /\ new.history = pkg[p].history /\ new.un = 0 /\ new.resolved = "none"
      BY <3>3
    <3>q. QED
      BY <3>4, <3>5, <3>6
  <2>q. QED
    BY <2>1, <2>2
<1>3. /\ DOMAIN pkg' = Packages /\ pkg' = [x \in Packages |-> pkg'[x]]
      /\ \A x \in Packages : PackageType(pkg'[x])
      /\ pkg'[p] = new /\ \A x \in Packages : x # p => pkg'[x] = pkg[x]
  BY <1>1, <1>2, PackageChange
<1>4. TableInv'
  BY <1>1, <1>3 DEF TableInv
<1>5. SafeStep
  <2>1. \A x \in Packages : pkg[x].seq <= pkg'[x].seq
    BY <1>1, <1>2, <1>3 DEF PackageType, Numbers, TableInv
  <2>q. QED
    BY <1>1, <1>2, <1>3, <1>4, <2>1 DEF SafeStep, DataStep, Finished
<1>6. ASSUME NEW x \in Packages
      PROVE  /\ LastBuild(x)' \in DOMAIN bld' /\ pkg'[x].last <= pkg'[x].seq
             /\ \A c \in Builds(x)' : c[2] <= pkg'[x].last /\ (~ Finished(c)' => c[2] = pkg'[x].last)
             /\ \E f \in Builds(x)' : /\ Newest(f)'
                                      /\ pkg'[x].un \in {0, f[2]} /\ pkg'[x].prio \in {0, f[2]}
  <2>1. /\ pkg'[x].last = pkg[x].last /\ pkg'[x].seq = pkg[x].seq /\ pkg'[x].prio = pkg[x].prio
        /\ pkg'[x].un \in {0, pkg[x].un}
    BY <1>2, <1>3
  <2>2. /\ Builds(x)' = Builds(x) /\ LastBuild(x)' = LastBuild(x)
        /\ \A c : (Finished(c)' <=> Finished(c)) /\ (Newest(c)' <=> Newest(c))
    BY <1>1, <2>1 DEF Builds, LastBuild, Finished, Newest
  <2>3. PICK f \in Builds(x) : Newest(f) /\ pkg[x].un \in {0, f[2]} /\ pkg[x].prio \in {0, f[2]}
    BY <1>1 DEF BuildsInv
  <2>q. QED
    BY <1>1, <2>1, <2>2, <2>3 DEF BuildsInv
<1>q. QED
  BY <1>5, <1>6 DEF BuildsInv

LEMMA CleanupStep ==
    ASSUME ResolutionInv, NEW B, B \subseteq OldBuilds, NEW cut \in [Packages -> Nat],
           Cleanup(B, cut)
    PROVE  SafeStep /\ BuildsInv'
<1>1. TableInv /\ BuildsInv /\ koji' = koji /\ bld' = [c \in DOMAIN bld \ B |-> bld[c]]
      /\ \A b \in B : ~ RowLocked(b)
  BY DEF ResolutionInv, Cleanup
<1>2. /\ DOMAIN bld' = DOMAIN bld \ B /\ bld' = [c \in DOMAIN bld' |-> bld'[c]]
      /\ \A c \in DOMAIN bld' : bld'[c] = bld[c]
  BY <1>1
<1>3. ASSUME NEW p \in Packages
      PROVE  /\ PackageType(pkg'[p]) /\ pkg'[p].last = pkg[p].last /\ pkg'[p].seq = pkg[p].seq
             /\ pkg'[p].un = pkg[p].un /\ pkg'[p].prio = pkg[p].prio
             /\ pkg'[p].resolved = pkg[p].resolved /\ Shorter(pkg'[p].history, pkg[p].history)
  <2>1. PICK row, n : row = pkg[p] /\ n = cut[p]
    OBVIOUS
  <2>2. PICK h : h = SubSeq(row.history, n + 1, Len(row.history))
    OBVIOUS
  <2>3. PICK new : new = [row EXCEPT !.history = h]
    OBVIOUS
  <2>4. pkg'[p] = new
    BY <2>1, <2>2, <2>3 DEF Cleanup
  <2>5. PackageType(row) /\ row.history \in Seq(Outs) /\ n \in Nat /\ n <= Len(row.history)
    BY <1>1, <2>1 DEF TableInv, PackageType, Cleanup
  <2>6. new = [last |-> row.last, seq |-> row.seq, resolved |-> row.resolved, skip |-> row.skip,
               un |-> row.un, prio |-> row.prio, added |-> row.added, history |-> h]
    BY <2>3, <2>5 DEF PackageType, PackageRow
  <2>7. h \in Seq(Outs) /\ Len(h) = Len(row.history) - n /\ Len(row.history) \in Nat
        /\ \A i \in 1 .. Len(row.history) - n : h[i] = row.history[n + i]
    BY <2>2, <2>5
  <2>8. PackageType(new)
    BY <2>5, <2>6, <2>7 DEF PackageType, PackageRow
  <2>9. Len(h) <= Len(row.history) /\ (h # <<>> => row.history # <<>> /\ h[Len(h)] = row.history[Len(row.history)])
    BY <2>5, <2>7
  <2>10. Shorter(h, row.history)
    BY <2>9 DEF Shorter, Fits
  <2>q. QED
    BY <2>1, <2>4, <2>6, <2>8, <2>10
<1>4. TableInv'
  <2>1. DOMAIN pkg' = Packages /\ pkg' = [p \in Packages |-> pkg'[p]]
    BY DEF Cleanup
  <2>2. koji' = [latest |-> koji'.latest, dead |-> koji'.dead] /\ koji'.latest \in Nat
    BY <1>1 DEF TableInv
  <2>q. QED
    BY <1>1, <1>2, <1>3, <2>1, <2>2 DEF TableInv
<1>5. SafeStep
  <2>1. \A p \in Packages : pkg[p].seq <= pkg'[p].seq
    BY <1>1, <1>3 DEF PackageType, Numbers, TableInv
  <2>2. DataStep
    BY <1>1, <1>2, <1>4, <2>1 DEF DataStep, Finished
  <2>q. QED
    BY <1>3, <2>2 DEF SafeStep
<1>6. ASSUME NEW x \in Packages
      PROVE  /\ LastBuild(x)' \in DOMAIN bld' /\ pkg'[x].last <= pkg'[x].seq
             /\ \A c \in Builds(x)' : c[2] <= pkg'[x].last /\ (~ Finished(c)' => c[2] = pkg'[x].last)
             /\ \E g \in Builds(x)' : /\ Newest(g)'
                                      /\ pkg'[x].un \in {0, g[2]} /\ pkg'[x].prio \in {0, g[2]}
  <2>1. \A b \in B : /\ b \in DOMAIN bld /\ b[1] \in Packages /\ b[2] \in Numbers /\ Finished(b)
                     /\ \E c \in Builds(b[1]) : Finished(c) /\ c[2] > b[2]
    BY <1>1 DEF OldBuilds, TableInv, BuildIds
  <2>2. \A c \in Builds(x) : c \in DOMAIN bld /\ c[1] = x /\ c[2] \in Numbers /\ c[2] <= pkg[x].last
    BY <1>1 DEF Builds, BuildsInv, TableInv, BuildIds
  <2>3. LastBuild(x) = <<x, pkg[x].last>> /\ pkg[x].last \in Numbers /\ LastBuild(x) \in DOMAIN bld
    BY <1>1 DEF LastBuild, BuildsInv, TableInv, PackageType
  <2>4. LastBuild(x) \notin B
    BY <2>1, <2>2, <2>3 DEF Numbers
  <2>5. PICK f \in Builds(x) : Newest(f) /\ pkg[x].un \in {0, f[2]} /\ pkg[x].prio \in {0, f[2]}
    BY <1>1 DEF BuildsInv
  <2>6. f \notin B
    <3>1. SUFFICES ASSUME f \in B PROVE FALSE
      OBVIOUS
    <3>2. PICK c \in Builds(x) : Finished(c) /\ c[2] > f[2]
      BY <2>1, <2>2, <3>1
    <3>3. c[2] <= f[2] /\ c[2] \in Numbers /\ f[2] \in Numbers
      BY <2>2, <2>5, <3>2 DEF Newest
    <3>q. QED
      BY <3>2, <3>3 DEF Numbers
  <2>7. Newest(f)' /\ f \in Builds(x)'
    BY <1>2, <2>2, <2>5, <2>6 DEF Newest, Finished, Builds
  <2>8. LastBuild(x)' = LastBuild(x) /\ LastBuild(x) \in DOMAIN bld'
    BY <1>2, <1>3, <2>3, <2>4 DEF LastBuild
  <2>9. \A c \in Builds(x)' : c[2] <= pkg[x].last /\ (~ Finished(c)' => c[2] = pkg[x].last)
    <3>1. \A c \in Builds(x)' : c \in Builds(x) /\ (Finished(c)' <=> Finished(c))
      BY <1>2 DEF Builds, Finished
    <3>q. QED
      BY <1>1, <3>1 DEF BuildsInv
  <2>10. pkg[x].last <= pkg[x].seq
    BY <1>1 DEF BuildsInv
  <2>q. QED
    BY <1>3, <2>5, <2>7, <2>8, <2>9, <2>10
<1>q. QED
  BY <1>5, <1>6 DEF BuildsInv

(* Steps that change neither the order of builds nor what is about them *)
SameRows ==
    /\ TableInv' /\ DOMAIN bld' = DOMAIN bld
    /\ \A b \in DOMAIN bld : bld'[b].state = bld[b].state
    /\ \A p \in Packages :
          /\ pkg'[p].last = pkg[p].last /\ pkg'[p].seq = pkg[p].seq
          /\ pkg'[p].un = pkg[p].un /\ pkg'[p].prio = pkg[p].prio
          /\ pkg'[p].history = pkg[p].history /\ pkg'[p].resolved = pkg[p].resolved

LEMMA SameRowsStep ==
    ASSUME ResolutionInv, SameRows
    PROVE  SafeStep /\ BuildsInv'
<1>1. TableInv /\ BuildsInv
  BY DEF ResolutionInv
<1>2. \A b \in DOMAIN bld : Finished(b)' <=> Finished(b)
  BY DEF SameRows, Finished
<1>3. \A p \in Packages : Builds(p)' = Builds(p) /\ LastBuild(p)' = LastBuild(p)
  BY DEF SameRows, Builds, LastBuild
<1>4. \A f \in DOMAIN bld : Newest(f) => Newest(f)'
  BY <1>2 DEF SameRows, Newest
<1>5. \A p \in Packages : Builds(p) \subseteq DOMAIN bld
  BY DEF Builds
<1>6. ASSUME NEW x \in Packages
      PROVE  /\ LastBuild(x)' \in DOMAIN bld' /\ pkg'[x].last <= pkg'[x].seq
             /\ \A c \in Builds(x)' : c[2] <= pkg'[x].last /\ (~ Finished(c)' => c[2] = pkg'[x].last)
             /\ \E f \in Builds(x)' : /\ Newest(f)'
                                      /\ pkg'[x].un \in {0, f[2]} /\ pkg'[x].prio \in {0, f[2]}
  BY <1>1, <1>2, <1>3, <1>4, <1>5 DEF BuildsInv, SameRows
<1>7. BuildsInv'
  BY <1>6 DEF BuildsInv
<1>8. \A p \in Packages : pkg[p].seq <= pkg'[p].seq
  BY <1>1 DEF SameRows, TableInv, PackageType, Numbers
<1>9. DataStep
  BY <1>8 DEF SameRows, DataStep, Finished
<1>q. QED
  BY <1>7, <1>9 DEF SafeStep, SameRows

LEMMA UnresolvedStep ==
    ASSUME ResolutionInv, NEW B, ProcessUnresolved(B), koji' = koji
    PROVE  SafeStep /\ BuildsInv'
<1>1. TableInv
  BY DEF ResolutionInv
<1>2. /\ DOMAIN bld' = DOMAIN bld /\ bld' = [b \in DOMAIN bld' |-> bld'[b]]
      /\ \A b \in DOMAIN bld : bld'[b] = IF b \in B THEN [bld[b] EXCEPT !.deps = "bad"] ELSE bld[b]
  BY DEF ProcessUnresolved
<1>3. ASSUME NEW b \in DOMAIN bld
      PROVE  BuildRow(bld'[b]) /\ bld'[b].state = bld[b].state /\ bld'[b].keys = bld[b].keys
  <2>1. PICK r : r = bld'[b]
    OBVIOUS
  <2>2. BuildRow(bld[b])
    BY <1>1 DEF TableInv
  <2>3. CASE b \in B
    <3>1. r = [state |-> bld[b].state, deps |-> "bad", keys |-> bld[b].keys, repo |-> bld[b].repo]
      BY <1>2, <2>1, <2>2, <2>3 DEF BuildRow
    <3>q. QED
      BY <2>1, <3>1 DEF BuildRow
  <2>4. CASE b \notin B
    BY <1>2, <2>2, <2>4
  <2>q. QED
    BY <2>3, <2>4
<1>4. DOMAIN pkg' = Packages /\ pkg' = [p \in Packages |-> pkg'[p]]
  BY DEF ProcessUnresolved
<1>5. ASSUME NEW p \in Packages
      PROVE  /\ PackageType(pkg'[p]) /\ pkg'[p].last = pkg[p].last /\ pkg'[p].seq = pkg[p].seq
             /\ pkg'[p].un = pkg[p].un /\ pkg'[p].prio = pkg[p].prio
             /\ pkg'[p].history = pkg[p].history /\ pkg'[p].resolved = pkg[p].resolved
  <2>1. PICK row, a : row = pkg[p] /\ a = (pkg[p].added \/ LastBuild(p) \in B)
    OBVIOUS
  <2>2. PICK new : new = [row EXCEPT !.added = a]
    OBVIOUS
  <2>3. pkg'[p] = new
    BY <2>1, <2>2 DEF ProcessUnresolved
  <2>4. PackageType(row)
    BY <1>1, <2>1 DEF TableInv
  <2>5. new = [last |-> row.last, seq |-> row.seq, resolved |-> row.resolved, skip |-> row.skip,
               un |-> row.un, prio |-> row.prio, added |-> a, history |-> row.history]
    BY <2>2, <2>4 DEF PackageType, PackageRow
  <2>6. PackageType(new)
    BY <2>4, <2>5 DEF PackageType, PackageRow
  <2>q. QED
    BY <2>1, <2>3, <2>5, <2>6
<1>6. TableInv'
  BY <1>1, <1>2, <1>3, <1>4, <1>5 DEF TableInv
<1>7. SameRows
  BY <1>2, <1>3, <1>5, <1>6 DEF SameRows
<1>q. QED
  BY <1>7, SameRowsStep

LEMMA CommitStep ==
    ASSUME ResolutionInv, NEW q, BRCommit(q)
    PROVE  SafeStep /\ BuildsInv'
<1>1. TableInv
  BY DEF ResolutionInv
<1>2. /\ DOMAIN bld' = DOMAIN bld /\ bld' = [b \in DOMAIN bld' |-> bld'[b]]
      /\ \A b \in DOMAIN bld :
           bld'[b] = IF b = br[q].b THEN [bld[b] EXCEPT !.deps = "ok", !.keys = {br[q].id}]
                     ELSE IF b \in ClearedPrev(q) THEN [bld[b] EXCEPT !.keys = {}] ELSE bld[b]
      /\ pkg' = pkg /\ koji' = koji
  BY DEF BRCommit, BuildOnly
<1>3. ASSUME NEW b \in DOMAIN bld
      PROVE  BuildRow(bld'[b]) /\ bld'[b].state = bld[b].state
  <2>1. PICK r : r = bld'[b]
    OBVIOUS
  <2>2. BuildRow(bld[b])
    BY <1>1 DEF TableInv
  <2>3. CASE b = br[q].b
    <3>1. r = [state |-> bld[b].state, deps |-> "ok", keys |-> {br[q].id}, repo |-> bld[b].repo]
      BY <1>2, <2>1, <2>2, <2>3 DEF BuildRow
    <3>q. QED
      BY <2>1, <3>1 DEF BuildRow
  <2>4. CASE b # br[q].b /\ b \in ClearedPrev(q)
    <3>1. r = [state |-> bld[b].state, deps |-> bld[b].deps, keys |-> {}, repo |-> bld[b].repo]
      BY <1>2, <2>1, <2>2, <2>4 DEF BuildRow
    <3>q. QED
      BY <2>1, <3>1 DEF BuildRow
  <2>5. CASE b # br[q].b /\ b \notin ClearedPrev(q)
    BY <1>2, <2>2, <2>5
  <2>q. QED
    BY <2>3, <2>4, <2>5
<1>4. TableInv'
  BY <1>1, <1>2, <1>3 DEF TableInv
<1>5. SameRows
  BY <1>2, <1>3, <1>4 DEF SameRows
<1>q. QED
  BY <1>5, SameRowsStep

(* What persist_resolution_output stores about a package *)
LEMMA StoredRow ==
    ASSUME ResolutionInv, NEW p \in Packages, NEW r, RowOK(r.row), r.row.p = p, r.out \in Outs,
           r.changed => r.row.build.state = "done"
    PROVE  /\ PackageType(Stored(p, r))
           /\ Stored(p, r).last = pkg[p].last /\ Stored(p, r).seq = pkg[p].seq
           /\ Fits(Stored(p, r).resolved, Stored(p, r).history)
           /\ Stored(p, r).un \in {0, pkg[p].last} /\ Stored(p, r).prio \in {0, pkg[p].last, pkg[p].prio}
           /\ Stored(p, r).un # 0 \/ Stored(p, r).prio \notin {0, pkg[p].prio} =>
                 Finished(LastBuild(p))
           /\ LET h == pkg[p].history  new == Stored(p, r).history IN
                 Len(new) > Len(h) /\ h # <<>> /\ pkg[p].resolved # "none" => new[Len(new)] # h[Len(h)]
<1>1. PICK row : row = pkg[p]
  OBVIOUS
<1>2. PackageType(row) /\ Fits(row.resolved, row.history) /\ LastBuild(p) \in DOMAIN bld
      /\ LastBuild(p) = <<p, row.last>>
  BY <1>1 DEF ResolutionInv, TableInv, HistoryInv, BuildsInv, LastBuild
<1>3. CASE Outdated(p, r)
  <2>1. PICK new : new = [row EXCEPT !.un = 0]
    OBVIOUS
  <2>2. Stored(p, r) = new
    BY <1>1, <1>3, <2>1 DEF Stored
  <2>3. new = [last |-> row.last, seq |-> row.seq, resolved |-> row.resolved, skip |-> row.skip,
               un |-> 0, prio |-> row.prio, added |-> row.added, history |-> row.history]
    BY <1>2, <2>1 DEF PackageType, PackageRow
  <2>4. PackageType(new)
    BY <1>2, <2>3 DEF PackageType, PackageRow
  <2>5. Len(row.history) \in Nat
    BY <1>2 DEF PackageType
  <2>6. /\ new.last = row.last /\ new.seq = row.seq /\ new.resolved = row.resolved
        /\ new.history = row.history /\ new.un = 0 /\ new.prio = row.prio
    BY <2>3
  <2>q. QED
    BY <1>1, <1>2, <2>2, <2>4, <2>5, <2>6
<1>4. CASE ~ Outdated(p, r)
  <2>1. r.row.last = row.last
    BY <1>1, <1>4 DEF Outdated
  <2>2. PICK u : u = IF r.changed THEN r.row.last ELSE 0
    OBVIOUS
  <2>3. u \in {0, row.last} /\ (u # 0 => Finished(LastBuild(p)))
    BY <1>2, <2>1, <2>2 DEF RowOK
  <2>4. PICK h : h = IF NewResolution(p, r) THEN Append(row.history, r.out) ELSE row.history
    OBVIOUS
  <2>5. PICK y : y = IsResolved(r.out)
    OBVIOUS
  <2>6. PICK new : new = [row EXCEPT !.resolved = y, !.un = u, !.prio = u, !.history = h]
    OBVIOUS
  <2>7. Stored(p, r) = new
    BY <1>1, <1>4, <2>2, <2>4, <2>5, <2>6 DEF Stored
  <2>8. new = [last |-> row.last, seq |-> row.seq, resolved |-> y, skip |-> row.skip,
               un |-> u, prio |-> u, added |-> row.added, history |-> h]
    BY <1>2, <2>6 DEF PackageType, PackageRow
  <2>9. h \in Seq(Outs) /\ row.history \in Seq(Outs) /\ Len(row.history) \in Nat
    BY <1>2, <2>4 DEF PackageType
  <2>10. PackageType(new)
    BY <1>2, <2>8, <2>9 DEF PackageType, PackageRow
  <2>11. /\ new.last = row.last /\ new.seq = row.seq /\ new.resolved = y
         /\ new.history = h /\ new.un = u /\ new.prio = u
    BY <2>8
  <2>12. /\ Fits(r.row.resolved, row.history)
         /\ row.resolved # "none" => r.row.resolved # "none"
    BY <1>1 DEF RowOK
  <2>13. y = (IF r.out = "ok" THEN "yes" ELSE "no")
    BY <2>5 DEF IsResolved
  <2>14. CASE NewResolution(p, r)
    <3>1. h = Append(row.history, r.out)
      BY <2>4, <2>14
    <3>2. h # <<>> /\ Len(h) = Len(row.history) + 1 /\ h[Len(h)] = r.out
      BY <2>9, <3>1
    <3>3. Fits(y, h)
      BY <2>13, <3>2 DEF Fits, Outs
    <3>4. \/ r.row.resolved # y
          \/ r.out # "ok" /\ (row.history = <<>> \/ r.out # row.history[Len(row.history)])
      BY <1>1, <2>5, <2>14 DEF NewResolution
    <3>5. row.history # <<>> /\ row.resolved # "none" => h[Len(h)] # row.history[Len(row.history)]
      BY <2>12, <2>13, <3>2, <3>4 DEF Fits, Outs
    <3>q. QED
      BY <1>1, <2>3, <2>7, <2>10, <2>11, <3>3, <3>5
  <2>15. CASE ~ NewResolution(p, r)
    <3>1. h = row.history
      BY <2>4, <2>15
    <3>2. /\ r.row.resolved = y
          /\ r.out # "ok" => row.history # <<>> /\ r.out = row.history[Len(row.history)]
      BY <1>1, <2>5, <2>15 DEF NewResolution
    <3>3. Fits(y, h)
      BY <2>12, <2>13, <3>1, <3>2 DEF Fits, Outs
    <3>q. QED
      BY <1>1, <2>3, <2>7, <2>9, <2>10, <2>11, <3>1, <3>3
  <2>q. QED
    BY <2>14, <2>15
<1>q. QED
  BY <1>3, <1>4

(* Steps that change the rows of some packages, in the way a chunk does *)
LEMMA PersistData ==
    ASSUME ResolutionInv, NEW q \in RepoProcs, Persist(q)
    PROVE  /\ DataStep /\ BuildsInv' /\ HistoryInv'
           /\ \A p \in Packages : \/ pkg'[p] = pkg[p]
                                  \/ \E i \in 1 .. Len(rr[q].results) : rr[q].results[i].row.p = p
           /\ \A p \in Packages : LET h == pkg[p].history  new == pkg'[p].history IN
                 Len(new) > Len(h) /\ h # <<>> /\ pkg[p].resolved # "none" =>
                    new[Len(new)] # h[Len(h)]
<1>1. TableInv /\ BuildsInv /\ HistoryInv /\ ListsOK(rr[q])
  BY DEF ResolutionInv, RepoProcsInv, RepoInv, Persist
<1>2. /\ bld' = bld /\ koji' = koji
      /\ pkg' = [p \in Packages |-> IF Result(q, p) = {} THEN pkg[p]
                                    ELSE Stored(p, CHOOSE r \in Result(q, p) : TRUE)]
  BY DEF Persist, RepoOnly
<1>3. ASSUME NEW p \in Packages
      PROVE  /\ PackageType(pkg'[p]) /\ pkg'[p].last = pkg[p].last /\ pkg'[p].seq = pkg[p].seq
             /\ Fits(pkg'[p].resolved, pkg'[p].history)
             /\ pkg'[p].un \in {0, pkg[p].un, pkg[p].last}
             /\ pkg'[p].prio \in {0, pkg[p].prio, pkg[p].last}
             /\ pkg'[p].un \notin {0, pkg[p].un} \/ pkg'[p].prio \notin {0, pkg[p].prio} =>
                   Finished(LastBuild(p))
             /\ \/ pkg'[p] = pkg[p]
                \/ \E i \in 1 .. Len(rr[q].results) : rr[q].results[i].row.p = p
             /\ LET h == pkg[p].history  new == pkg'[p].history IN
                   Len(new) > Len(h) /\ h # <<>> /\ pkg[p].resolved # "none" =>
                      new[Len(new)] # h[Len(h)]
  <2>1. CASE Result(q, p) = {}
    <3>1. pkg'[p] = pkg[p]
      BY <1>2, <2>1
    <3>2. PackageType(pkg[p]) /\ Fits(pkg[p].resolved, pkg[p].history) /\ Len(pkg[p].history) \in Nat
      BY <1>1 DEF TableInv, HistoryInv, PackageType
    <3>q. QED
      BY <3>1, <3>2
  <2>2. CASE Result(q, p) # {}
    <3>1. PICK r \in Result(q, p) : pkg'[p] = Stored(p, r)
      BY <1>2, <2>2
    <3>2. PICK i \in 1 .. Len(rr[q].results) : rr[q].results[i] = r /\ r.row.p = p
      BY <1>1, <3>1, SeqSet DEF Result, ListsOK
    <3>3. RowOK(r.row) /\ r.out \in Outs /\ (r.changed => r.row.build.state = "done")
      BY <1>1, <3>2 DEF ListsOK
    <3>q. QED
      BY <3>1, <3>2, <3>3, StoredRow
  <2>q. QED
    BY <2>1, <2>2
<1>4. TableInv'
  <2>1. DOMAIN pkg' = Packages /\ pkg' = [p \in Packages |-> pkg'[p]]
    BY <1>2
  <2>q. QED
    BY <1>1, <1>2, <1>3, <2>1 DEF TableInv
<1>5. HistoryInv'
  BY <1>3 DEF HistoryInv
<1>6. ASSUME NEW x \in Packages
      PROVE  /\ LastBuild(x)' \in DOMAIN bld' /\ pkg'[x].last <= pkg'[x].seq
             /\ \A c \in Builds(x)' : c[2] <= pkg'[x].last /\ (~ Finished(c)' => c[2] = pkg'[x].last)
             /\ \E f \in Builds(x)' : /\ Newest(f)'
                                      /\ pkg'[x].un \in {0, f[2]} /\ pkg'[x].prio \in {0, f[2]}
  <2>1. Builds(x)' = Builds(x) /\ LastBuild(x)' = LastBuild(x)
    BY <1>2, <1>3 DEF Builds, LastBuild
  <2>2. \A c : (Finished(c)' <=> Finished(c)) /\ (Newest(c)' <=> Newest(c))
    BY <1>2 DEF Finished, Newest
  <2>3. /\ LastBuild(x)' \in DOMAIN bld' /\ pkg'[x].last <= pkg'[x].seq
        /\ \A c \in Builds(x)' : c[2] <= pkg'[x].last /\ (~ Finished(c)' => c[2] = pkg'[x].last)
    BY <1>1, <1>2, <1>3, <2>1, <2>2 DEF BuildsInv
  <2>4. PICK f \in Builds(x) : Newest(f) /\ pkg[x].un \in {0, f[2]} /\ pkg[x].prio \in {0, f[2]}
    BY <1>1 DEF BuildsInv
  <2>5. Finished(LastBuild(x)) => f[2] = pkg[x].last
    <3>1. LastBuild(x)[1] = x /\ LastBuild(x)[2] = pkg[x].last /\ LastBuild(x) \in DOMAIN bld
      BY <1>1 DEF LastBuild, BuildsInv
    <3>2. f[2] <= pkg[x].last /\ f[1] = x /\ f[2] \in Numbers /\ pkg[x].last \in Numbers
      BY <1>1, <2>4 DEF BuildsInv, TableInv, BuildIds, Builds, PackageType
    <3>3. Finished(LastBuild(x)) => pkg[x].last <= f[2]
      BY <2>4, <3>1, <3>2 DEF Newest
    <3>q. QED
      BY <3>2, <3>3 DEF Numbers
  <2>6. pkg'[x].un \in {0, f[2]} /\ pkg'[x].prio \in {0, f[2]}
    BY <1>3, <2>4, <2>5
  <2>q. QED
    BY <2>1, <2>2, <2>3, <2>4, <2>6
<1>7. BuildsInv'
  BY <1>6 DEF BuildsInv
<1>8. \A p \in Packages : pkg[p].seq <= pkg'[p].seq
  BY <1>1, <1>3 DEF TableInv, PackageType, Numbers
<1>9. DataStep
  BY <1>2, <1>4, <1>8 DEF DataStep, Finished
<1>q. QED
  BY <1>3, <1>5, <1>7, <1>9

-----------------------------------------------------------------------------
(* What a repo_resolver holds *)
LEMMA RowStays ==
    ASSUME ResolutionInv, SafeStep, NEW r, RowOK(r)
    PROVE  RowOK(r)'
<1>1. r.p \in Packages /\ r.last \in Numbers /\ r.last <= pkg[r.p].seq
  BY DEF RowOK
<1>2. r.last <= pkg'[r.p].seq
  BY <1>1 DEF SafeStep, DataStep, TableInv, PackageType, Numbers, ResolutionInv
<1>3. /\ pkg'[r.p].resolved \in {pkg[r.p].resolved, "none"}
      /\ Fits(r.resolved, pkg'[r.p].history)
  BY <1>1 DEF SafeStep, Shorter, RowOK
<1>4. ASSUME r.build.state = "done", <<r.p, r.last>> \in DOMAIN bld'
      PROVE  Finished(<<r.p, r.last>>)'
  <2>1. \/ <<r.p, r.last>> \in DOMAIN bld /\ (Finished(<<r.p, r.last>>) => bld'[<<r.p, r.last>>].state = "done")
        \/ pkg[r.p].seq < r.last
    BY <1>4 DEF SafeStep, DataStep
  <2>2. ~ (pkg[r.p].seq < r.last)
    BY <1>1 DEF ResolutionInv, TableInv, PackageType, Numbers
  <2>q. QED
    BY <1>4, <2>1, <2>2 DEF RowOK, Finished
<1>q. QED
  BY <1>1, <1>2, <1>3, <1>4 DEF RowOK

LEMMA ListsStay ==
    ASSUME ResolutionInv, SafeStep, NEW l, ListsOK(l)
    PROVE  ListsOK(l)'
<1>1. \A r : RowOK(r) => RowOK(r)'
  BY RowStays
<1>q. QED
  BY <1>1 DEF ListsOK

(* A step of q leaves the other processes what they hold *)
LEMMA RepoProcsStay ==
    ASSUME ResolutionInv, NEW q, NEW s, rr' = [rr EXCEPT ![q] = s], q \in RepoProcs => RepoInv(q)',
           SafeStep \/ rlock = q, coll' = coll \/ rlock = q,
           rlock' = rlock \/ rlock = Nobody \/ rlock = q,
           koji.latest <= koji'.latest, koji'.latest \in Nat,
           coll'.latest \in Nat, coll'.latest <= koji'.latest
    PROVE  RepoProcsInv'
<1>1. /\ DOMAIN rr' = RepoProcs /\ rr' = [c \in RepoProcs |-> rr'[c]]
      /\ \A c \in RepoProcs : c # q => rr'[c] = rr[c]
  BY DEF ResolutionInv, RepoProcsInv
<1>2. ASSUME NEW c \in RepoProcs, c # q
      PROVE  RepoInv(c)'
  <2>1. RepoInv(c) /\ rr'[c] = rr[c]
    BY <1>1, <1>2 DEF ResolutionInv, RepoProcsInv
  <2>2. CASE rr[c].pc \in Locked
    <3>1. rlock = c /\ c # Nobody
      BY <2>1, <2>2, NobodyAssumption DEF RepoInv
    <3>2. rlock' = c /\ SafeStep /\ coll' = coll
      BY <1>2, <3>1
    <3>3. rr[c].pc = "base" => coll.latest <= rr[c].repo /\ rr[c].repo <= koji'.latest
      <4>1. koji.latest \in Nat
        BY DEF ResolutionInv, TableInv
      <4>q. QED
        BY <2>1, <4>1 DEF RepoInv
    <3>4. rr[c].pc \in {"run", "persist"} => ListsOK(rr[c])' /\ Distinct(rr[c])
      <4>1. PICK l : l = rr[c]
        OBVIOUS
      <4>2. l.pc \in {"run", "persist"} => ListsOK(l)
        BY <2>1, <4>1 DEF RepoInv
      <4>3. l.pc \in {"run", "persist"} => ListsOK(l)'
        BY <3>2, <4>2, ListsStay
      <4>q. QED
        BY <2>1, <4>1, <4>3 DEF RepoInv
    <3>q. QED
      BY <2>1, <3>2, <3>3, <3>4 DEF RepoInv
  <2>3. CASE rr[c].pc \notin Locked
    BY <2>1, <2>3 DEF RepoInv, Locked
  <2>q. QED
    BY <2>2, <2>3
<1>q. QED
  BY <1>1, <1>2 DEF RepoProcsInv

(* Steps outside of the repo_resolvers *)
LEMMA RepoProcsKept ==
    ASSUME ResolutionInv, SafeStep, UNCHANGED <<rr, rlock, coll>>,
           koji.latest <= koji'.latest, koji'.latest \in Nat
    PROVE  RepoProcsInv'
<1>1. coll'.latest \in Nat /\ coll'.latest <= koji'.latest
  BY DEF ResolutionInv, RepoProcsInv, TableInv
<1>2. ASSUME NEW c \in RepoProcs
      PROVE  RepoInv(c)'
  <2>1. RepoInv(c) /\ rr'[c] = rr[c] /\ koji.latest \in Nat
    BY DEF ResolutionInv, RepoProcsInv, TableInv
  <2>2. rr[c].pc \in {"run", "persist"} => ListsOK(rr[c])' /\ Distinct(rr[c])
    <3>1. PICK l : l = rr[c]
      OBVIOUS
    <3>2. l.pc \in {"run", "persist"} => ListsOK(l)
      BY <2>1, <3>1 DEF RepoInv
    <3>3. l.pc \in {"run", "persist"} => ListsOK(l)'
      BY <3>2, ListsStay
    <3>q. QED
      BY <2>1, <3>1, <3>3 DEF RepoInv
  <2>q. QED
    BY <2>1, <2>2 DEF RepoInv
<1>q. QED
  BY <1>1, <1>2 DEF ResolutionInv, RepoProcsInv

(* The steps of a repo_resolver that change neither packages nor builds *)
LEMMA QuietRepoStep ==
    ASSUME ResolutionInv, NEW q \in RepoProcs, NEW s, rr' = [rr EXCEPT ![q] = s],
           UNCHANGED <<pkg, bld, koji>>, coll' = coll,
           rlock' = rlock \/ rlock = Nobody \/ rlock = q, RepoInv(q)'
    PROVE  SafeStep /\ BuildsInv' /\ HistoryInv' /\ RepoProcsInv'
<1>1. TableInv /\ coll.latest \in Nat /\ coll.latest <= koji.latest
  BY DEF ResolutionInv, RepoProcsInv
<1>2. koji.latest \in Nat /\ koji = [latest |-> koji.latest, dead |-> koji.dead]
  BY <1>1 DEF TableInv
<1>3. SafeStep /\ BuildsInv' /\ HistoryInv'
  BY <1>2, QuietStep
<1>4. koji.latest <= koji'.latest /\ koji'.latest \in Nat /\ coll'.latest \in Nat /\ coll'.latest <= koji'.latest
  BY <1>1, <1>2
<1>q. QED
  BY <1>3, <1>4, RepoProcsStay

LEMMA NotInLists ==
    ASSUME ResolutionInv, NEW q \in RepoProcs
    PROVE  /\ rr[q].pc \in {"run", "persist"} => ListsOK(rr[q]) /\ Distinct(rr[q])
           /\ rr[q].pc \in Locked => rlock = q
           /\ \A s : rr' = [rr EXCEPT ![q] = s] => rr'[q] = s
BY DEF ResolutionInv, RepoProcsInv, RepoInv

LEMMA SmallRepoSteps ==
    ASSUME ResolutionInv, NEW q \in RepoProcs,
           LoadCollections(q) \/ TryLock(q) \/ ProcessRepo(q) \/ RepoFails(q) \/ RepoCrash(q)
    PROVE  SafeStep /\ BuildsInv' /\ HistoryInv' /\ RepoProcsInv'
<1>0. UNCHANGED <<pkg, bld, koji>> /\ coll' = coll
  BY DEF LoadCollections, TryLock, ProcessRepo, RepoFails, RepoCrash, RepoEnds, RepoOnly
<1>1. CASE LoadCollections(q)
  <2>1. PICK s : s = [pc |-> "lock", seen |-> coll] /\ rr' = [rr EXCEPT ![q] = s] /\ rlock' = rlock
    BY <1>1 DEF LoadCollections, RepoStep
  <2>2. rr'[q] = s /\ s.pc = "lock"
    BY <2>1, NotInLists
  <2>3. RepoInv(q)'
    BY <2>2 DEF RepoInv, Locked
  <2>q. QED
    BY <1>0, <2>1, <2>3, QuietRepoStep
<1>2. CASE TryLock(q)
  <2>1. PICK s : /\ rr' = [rr EXCEPT ![q] = s]
                 /\ \/ rlock = Nobody /\ rlock' = q /\ s = [pc |-> "repo", seen |-> rr[q].seen]
                    \/ rlock' = rlock /\ s = Idle
    BY <1>2 DEF TryLock, PgSessionLock, RepoStep
  <2>2. rr'[q] = s /\ (s.pc = "idle" \/ (s.pc = "repo" /\ rlock' = q))
    <3>1. rr'[q] = s
      BY <2>1, NotInLists
    <3>2. CASE rlock' = q /\ s = [pc |-> "repo", seen |-> rr[q].seen]
      <4>1. s.pc = "repo" /\ rlock' = q
        BY <3>2
      <4>q. QED
        BY <3>1, <4>1
    <3>3. CASE s = Idle
      <4>1. s.pc = "idle"
        BY <3>3 DEF Idle
      <4>q. QED
        BY <3>1, <4>1
    <3>q. QED
      BY <2>1, <3>2, <3>3
  <2>3. RepoInv(q)'
    BY <2>2 DEF RepoInv, Locked
  <2>q. QED
    BY <1>0, <2>1, <2>3, QuietRepoStep
<1>3. CASE ProcessRepo(q)
  <2>0. rlock = q /\ koji.latest \in Nat /\ coll.latest <= koji.latest
    BY <1>3, NotInLists DEF ProcessRepo, Locked, ResolutionInv, TableInv, RepoProcsInv
  <2>1. PICK s : /\ rr' = [rr EXCEPT ![q] = s]
                 /\ \/ rlock' = rlock /\ s = [pc |-> "base", repo |-> koji.latest, onlyNew |-> FALSE]
                    \/ rlock' = rlock /\ s.pc = "load"
                    \/ rlock' = Unlocked(q) /\ s = Idle
    <3>1. CASE koji.latest > rr[q].seen.latest
      BY <1>3, <3>1 DEF ProcessRepo, RepoStep
    <3>2. CASE ~ (koji.latest > rr[q].seen.latest)
      BY ZenonT(60), <1>3, <3>2 DEF ProcessRepo, RepoStep
    <3>q. QED
      BY <3>1, <3>2
  <2>2. rr'[q] = s
    BY <2>1, NotInLists
  <2>3. RepoInv(q)'
    <3>1. CASE rlock' = rlock /\ s = [pc |-> "base", repo |-> koji.latest, onlyNew |-> FALSE]
      <4>1. s.pc = "base" /\ s.repo = koji.latest /\ BaseLocal(s)
        BY <3>1 DEF BaseLocal
      <4>q. QED
        BY <1>0, <2>0, <2>2, <3>1, <4>1 DEF RepoInv, Locked
    <3>2. CASE rlock' = rlock /\ s.pc = "load"
      BY <2>0, <2>2, <3>2 DEF RepoInv, Locked
    <3>3. CASE s = Idle
      <4>1. rr'[q].pc = "idle"
        BY <2>2, <3>3 DEF Idle
      <4>q. QED
        BY <4>1 DEF RepoInv, Locked
    <3>q. QED
      BY <2>1, <3>1, <3>2, <3>3
  <2>q. QED
    BY <1>0, <2>0, <2>1, <2>3, QuietRepoStep
<1>4. CASE RepoFails(q) \/ RepoCrash(q)
  <2>1. PICK s : s = Idle /\ rr' = [rr EXCEPT ![q] = s] /\ rlock' = Unlocked(q)
    BY <1>4 DEF RepoFails, RepoCrash, RepoEnds, RepoStep
  <2>2. rr'[q].pc = "idle"
    BY ZenonT(60), <2>1, NotInLists DEF Idle
  <2>3. RepoInv(q)'
    BY <2>2 DEF RepoInv, Locked
  <2>4. rlock' = rlock \/ rlock = q
    BY <2>1 DEF Unlocked
  <2>q. QED
    BY <1>0, <2>1, <2>3, <2>4, QuietRepoStep
<1>q. QED
  BY <1>1, <1>2, <1>3, <1>4

LEMMA ResolveRepoStep ==
    ASSUME ResolutionInv, NEW q \in RepoProcs, NEW ok, ResolveRepo(q, ok)
    PROVE  /\ SafeStep /\ BuildsInv' /\ HistoryInv' /\ RepoProcsInv'
           /\ coll'.latest >= coll.latest
<1>1. UNCHANGED <<pkg, bld, koji>> /\ rr[q].pc = "base" /\ coll' = [latest |-> rr[q].repo, ok |-> ok]
  BY DEF ResolveRepo, RepoOnly
<1>2. /\ rlock = q /\ BaseLocal(rr[q]) /\ rr[q].repo \in Nat
      /\ coll.latest <= rr[q].repo /\ rr[q].repo <= koji.latest
  BY <1>1 DEF ResolutionInv, RepoProcsInv, RepoInv, Locked
<1>3. TableInv /\ koji.latest \in Nat /\ koji = [latest |-> koji.latest, dead |-> koji.dead]
      /\ coll.latest \in Nat
  BY DEF ResolutionInv, TableInv, RepoProcsInv
<1>4. PICK s : /\ rr' = [rr EXCEPT ![q] = s]
               /\ \/ rlock' = rlock /\ s = [rr[q] EXCEPT !.pc = "load"]
                  \/ rlock' = Unlocked(q) /\ s = Idle
  BY DEF ResolveRepo, RepoStep
<1>5. rr'[q] = s /\ (s.pc = "idle" \/ (s.pc = "load" /\ rlock' = q))
  <2>0. rr'[q] = s
    BY <1>4, NotInLists
  <2>1. CASE rlock' = rlock /\ s = [rr[q] EXCEPT !.pc = "load"]
    <3>1. s.pc = "load"
      BY <1>2, <2>1 DEF BaseLocal
    <3>q. QED
      BY <1>2, <2>0, <2>1, <3>1
  <2>2. CASE s = Idle
    <3>1. s.pc = "idle"
      BY <2>2 DEF Idle
    <3>q. QED
      BY <2>0, <3>1
  <2>q. QED
    BY <1>4, <2>1, <2>2
<1>6. RepoInv(q)'
  BY <1>5 DEF RepoInv, Locked
<1>7. SafeStep /\ BuildsInv' /\ HistoryInv'
  BY <1>1, <1>3, QuietStep
<1>8. /\ coll'.latest = rr[q].repo /\ coll'.latest <= koji'.latest
      /\ koji.latest <= koji'.latest /\ koji'.latest \in Nat
  BY <1>1, <1>2, <1>3
<1>9. RepoProcsInv'
  BY <1>2, <1>4, <1>6, <1>7, <1>8, RepoProcsStay
<1>q. QED
  BY <1>2, <1>3, <1>7, <1>8, <1>9

(* The lists of a run: a package moves from todo to queue to results *)
LEMMA WorkerLists ==
    ASSUME NEW l, ListsOK(l), Distinct(l), l.todo # <<>>,
           NEW e, e.row = Head(l.todo), e.out \in Outs,
           NEW m, RunLocal(m), m.todo = Tail(l.todo), m.queue = Append(l.queue, e),
           m.results = l.results
    PROVE  ListsOK(m) /\ Distinct(m)
<1>1. PICK t, u : t = Tail(l.todo) /\ u = Append(l.queue, e)
  OBVIOUS
<1>3. m.todo = t /\ m.queue = u /\ m.results = l.results
  BY <1>1
<1>4. IsSeq(l.todo) /\ IsSeq(l.queue) /\ IsSeq(l.results)
  BY DEF ListsOK
<1>5. /\ IsSeq(t) /\ Len(l.todo) \in Nat \ {0} /\ Len(t) = Len(l.todo) - 1
      /\ (\A i \in 1 .. Len(l.todo) - 1 : t[i] = l.todo[i + 1]) /\ Head(l.todo) = l.todo[1]
  BY <1>1, <1>4, SeqTail
<1>6. /\ IsSeq(u) /\ Len(l.queue) \in Nat /\ Len(u) = Len(l.queue) + 1
      /\ (\A i \in 1 .. Len(l.queue) : u[i] = l.queue[i]) /\ u[Len(l.queue) + 1] = e
  BY <1>1, <1>4, SeqAppend
<1>7. \A i \in 1 .. Len(t) : i + 1 \in 1 .. Len(l.todo) /\ i + 1 # 1 /\ t[i] = l.todo[i + 1]
  BY <1>5
<1>8. \A i \in 1 .. Len(u) : \/ i \in 1 .. Len(l.queue) /\ u[i] = l.queue[i]
                             \/ i = Len(l.queue) + 1 /\ u[i] = e
  BY <1>6
<1>9. e.row = l.todo[1] /\ 1 \in 1 .. Len(l.todo)
  BY <1>5
<1>10. ListsOK(m)
  <2>1. \A i \in 1 .. Len(t) : RowOK(t[i])
    BY <1>7 DEF ListsOK
  <2>2. \A i \in 1 .. Len(u) : RowOK(u[i].row) /\ u[i].out \in Outs
    BY <1>8, <1>9 DEF ListsOK
  <2>q. QED
    BY <1>3, <1>4, <1>5, <1>6, <2>1, <2>2 DEF ListsOK
<1>11. Distinct(m)
  <2>1. \A i, j \in 1 .. Len(t) : i # j => t[i].p # t[j].p
    <3>1. TAKE i, j \in 1 .. Len(t)
    <3>2. /\ t[i] = l.todo[i + 1] /\ i + 1 \in 1 .. Len(l.todo)
          /\ t[j] = l.todo[j + 1] /\ j + 1 \in 1 .. Len(l.todo) /\ (i # j => i + 1 # j + 1)
      BY <1>7
    <3>q. QED
      BY <3>2 DEF Distinct, DistinctLists
  <2>2. \A i, j \in 1 .. Len(u) : i # j => u[i].row.p # u[j].row.p
    <3>1. TAKE i, j \in 1 .. Len(u)
    <3>2. \A k \in 1 .. Len(l.queue) : l.queue[k].row.p # e.row.p
      BY <1>9 DEF Distinct, DistinctLists
    <3>3. CASE i \in 1 .. Len(l.queue) /\ u[i] = l.queue[i] /\ j \in 1 .. Len(l.queue) /\ u[j] = l.queue[j]
      BY <3>3 DEF Distinct, DistinctLists
    <3>4. CASE i \in 1 .. Len(l.queue) /\ u[i] = l.queue[i] /\ u[j] = e
      BY <3>2, <3>4
    <3>5. CASE j \in 1 .. Len(l.queue) /\ u[j] = l.queue[j] /\ u[i] = e
      BY <3>2, <3>5
    <3>6. CASE i = Len(l.queue) + 1 /\ j = Len(l.queue) + 1
      BY <3>6
    <3>q. QED
      BY <1>8, <3>3, <3>4, <3>5, <3>6
  <2>3. ASSUME NEW i \in 1 .. Len(t), NEW j \in 1 .. Len(u) PROVE t[i].p # u[j].row.p
    <3>1. t[i] = l.todo[i + 1] /\ i + 1 \in 1 .. Len(l.todo) /\ i + 1 # 1
      BY <1>7
    <3>2. CASE j \in 1 .. Len(l.queue) /\ u[j] = l.queue[j]
      BY <3>1, <3>2 DEF Distinct, DistinctLists
    <3>3. CASE u[j] = e
      BY <1>9, <3>1, <3>3 DEF Distinct, DistinctLists
    <3>q. QED
      BY <1>8, <3>2, <3>3
  <2>4. \A i \in 1 .. Len(t), j \in 1 .. Len(l.results) : t[i].p # l.results[j].row.p
    BY <1>7 DEF Distinct, DistinctLists
  <2>5. \A i \in 1 .. Len(u), j \in 1 .. Len(l.results) : u[i].row.p # l.results[j].row.p
    BY SMTT(30), <1>8, <1>9 DEF Distinct, DistinctLists
  <2>6. DistinctLists(t, u, l.results)
    BY <2>1, <2>2, <2>3, <2>4, <2>5 DEF DistinctLists
  <2>q. QED
    BY <1>3, <2>6 DEF Distinct
<1>q. QED
  BY <1>10, <1>11

LEMMA ConsumeLists ==
    ASSUME NEW l, ListsOK(l), Distinct(l), l.queue # <<>>,
           NEW e, e.row = Head(l.queue).row, e.out = Head(l.queue).out,
           e.changed => e.row.build.state = "done",
           NEW m, RunLocal(m), m.todo = l.todo, m.queue = Tail(l.queue),
           m.results = Append(l.results, e)
    PROVE  ListsOK(m) /\ Distinct(m)
<1>1. PICK t, u : t = Tail(l.queue) /\ u = Append(l.results, e)
  OBVIOUS
<1>3. m.todo = l.todo /\ m.queue = t /\ m.results = u
  BY <1>1
<1>4. IsSeq(l.todo) /\ IsSeq(l.queue) /\ IsSeq(l.results)
  BY DEF ListsOK
<1>5. /\ IsSeq(t) /\ Len(l.queue) \in Nat \ {0} /\ Len(t) = Len(l.queue) - 1
      /\ (\A i \in 1 .. Len(l.queue) - 1 : t[i] = l.queue[i + 1]) /\ Head(l.queue) = l.queue[1]
  BY <1>1, <1>4, SeqTail
<1>6. /\ IsSeq(u) /\ Len(l.results) \in Nat /\ Len(u) = Len(l.results) + 1
      /\ (\A i \in 1 .. Len(l.results) : u[i] = l.results[i]) /\ u[Len(l.results) + 1] = e
  BY <1>1, <1>4, SeqAppend
<1>7. \A i \in 1 .. Len(t) : i + 1 \in 1 .. Len(l.queue) /\ i + 1 # 1 /\ t[i] = l.queue[i + 1]
  BY <1>5
<1>8. \A i \in 1 .. Len(u) : \/ i \in 1 .. Len(l.results) /\ u[i] = l.results[i]
                             \/ i = Len(l.results) + 1 /\ u[i] = e
  BY <1>6
<1>9. e.row = l.queue[1].row /\ e.out = l.queue[1].out /\ 1 \in 1 .. Len(l.queue)
  BY <1>5
<1>11. ListsOK(m)
  <2>1. \A i \in 1 .. Len(t) : RowOK(t[i].row) /\ t[i].out \in Outs
    BY <1>7 DEF ListsOK
  <2>2. \A i \in 1 .. Len(u) : /\ RowOK(u[i].row) /\ u[i].out \in Outs
                               /\ u[i].changed => u[i].row.build.state = "done"
    BY <1>8, <1>9 DEF ListsOK
  <2>q. QED
    BY <1>3, <1>4, <1>5, <1>6, <2>1, <2>2 DEF ListsOK
<1>12. Distinct(m)
  <2>1. \A i, j \in 1 .. Len(t) : i # j => t[i].row.p # t[j].row.p
    <3>1. TAKE i, j \in 1 .. Len(t)
    <3>2. /\ t[i] = l.queue[i + 1] /\ i + 1 \in 1 .. Len(l.queue)
          /\ t[j] = l.queue[j + 1] /\ j + 1 \in 1 .. Len(l.queue) /\ (i # j => i + 1 # j + 1)
      BY <1>7
    <3>q. QED
      BY <3>2 DEF Distinct, DistinctLists
  <2>2. \A i \in 1 .. Len(l.todo), j \in 1 .. Len(t) : l.todo[i].p # t[j].row.p
    BY <1>7 DEF Distinct, DistinctLists
  <2>3. \A i \in 1 .. Len(l.todo), j \in 1 .. Len(u) : l.todo[i].p # u[j].row.p
    BY <1>8, <1>9 DEF Distinct, DistinctLists
  <2>4. ASSUME NEW i \in 1 .. Len(t), NEW j \in 1 .. Len(u) PROVE t[i].row.p # u[j].row.p
    <3>1. t[i] = l.queue[i + 1] /\ i + 1 \in 1 .. Len(l.queue) /\ i + 1 # 1
      BY <1>7
    <3>2. CASE j \in 1 .. Len(l.results) /\ u[j] = l.results[j]
      BY <3>1, <3>2 DEF Distinct, DistinctLists
    <3>3. CASE u[j] = e
      BY <1>9, <3>1, <3>3 DEF Distinct, DistinctLists
    <3>q. QED
      BY <1>8, <3>2, <3>3
  <2>5. \A i, j \in 1 .. Len(l.todo) : i # j => l.todo[i].p # l.todo[j].p
    BY DEF Distinct, DistinctLists
  <2>6. DistinctLists(l.todo, t, u)
    BY <2>1, <2>2, <2>3, <2>4, <2>5 DEF DistinctLists
  <2>q. QED
    BY <1>3, <2>6 DEF Distinct
<1>q. QED
  BY <1>11, <1>12

LEMMA ListStep ==
    ASSUME ResolutionInv, NEW q \in RepoProcs, rr[q].pc \in Locked, NEW m, ListsOK(m), Distinct(m),
           m.pc \in {"run", "persist"}, rr' = [rr EXCEPT ![q] = m],
           UNCHANGED <<pkg, bld, koji>>, coll' = coll, rlock' = rlock
    PROVE  SafeStep /\ BuildsInv' /\ HistoryInv' /\ RepoProcsInv'
<1>1. koji' = [latest |-> koji'.latest, dead |-> koji'.dead] /\ koji'.latest \in Nat
  BY DEF ResolutionInv, TableInv
<1>2. SafeStep
  BY <1>1, QuietStep
<1>3. ListsOK(m)'
  BY <1>2, ListsStay
<1>4. rr'[q] = m /\ rlock' = q
  BY NotInLists
<1>5. RepoInv(q)'
  BY <1>3, <1>4 DEF RepoInv, Locked
<1>q. QED
  BY <1>5, QuietRepoStep

LEMMA GetPackagesStep ==
    ASSUME ResolutionInv, NEW q \in RepoProcs, GetPackages(q)
    PROVE  SafeStep /\ BuildsInv' /\ HistoryInv' /\ RepoProcsInv'
<1> DEFINE row(p) == [p |-> p, last |-> pkg[p].last, resolved |-> pkg[p].resolved,
                      build |-> bld[LastBuild(p)]]
           ps == {row(p) : p \in {p \in Packages : Eligible(p, rr[q].onlyNew)}}
<1>1. PICK todo \in SetToSeqs(ps) :
        rr' = [rr EXCEPT ![q] = [pc |-> "run", repo |-> rr[q].repo, todo |-> todo,
                                 queue |-> <<>>, results |-> <<>>]]
  BY DEF GetPackages, RepoStep
<1>2. UNCHANGED <<pkg, bld, koji>> /\ coll' = coll /\ rlock' = rlock /\ rr[q].pc \in Locked
  BY DEF GetPackages, RepoOnly, Locked
<1>3. Cardinality(ps) \in Nat
  <2>1. IsFiniteSet({p \in Packages : Eligible(p, rr[q].onlyNew)})
    BY ResolutionAssumption, FS_Subset
  <2>2. PICK E : E = {p \in Packages : Eligible(p, rr[q].onlyNew)}
    OBVIOUS
  <2>3. [p \in E |-> row(p)] \in Surjection(E, ps)
    <3> HIDE DEF row
    <3>q. QED
      BY <2>2 DEF Surjection
  <2>4. IsFiniteSet(ps)
    BY <2>1, <2>2, <2>3, FS_Surjection
  <2>q. QED
    BY <2>4, FS_CardinalityType
<1>4. ASSUME NEW p \in Packages
      PROVE  RowOK(row(p)) /\ row(p).p = p
  <2>1. PICK r : r = row(p)
    OBVIOUS
  <2>2. r.p = p /\ r.last = pkg[p].last /\ r.resolved = pkg[p].resolved /\ r.build = bld[LastBuild(p)]
    BY <2>1
  <2>3. /\ r.last \in Numbers /\ r.last <= pkg[p].seq
        /\ Fits(pkg[p].resolved, pkg[p].history) /\ LastBuild(p) = <<p, r.last>>
    BY <2>2 DEF ResolutionInv, TableInv, PackageType, BuildsInv, HistoryInv, LastBuild
  <2>4. RowOK(r)
    BY <2>2, <2>3 DEF RowOK, Finished
  <2>q. QED
    BY <2>1, <2>2, <2>4
<1> HIDE DEF row
<1>5. \A e \in ps : RowOK(e) /\ e.p \in Packages /\ e = row(e.p)
  BY <1>4
<1> HIDE DEF ps
<1>6. /\ todo \in [1 .. Cardinality(ps) -> ps]
      /\ \A i, j \in 1 .. Cardinality(ps) : i # j => todo[i] # todo[j]
  BY <1>1 DEF SetToSeqs
<1>7. IsSeq(todo) /\ Len(todo) = Cardinality(ps)
  <2>1. todo \in Seq(ps)
    BY <1>3, <1>6
  <2>q. QED
    BY <1>3, <1>6, <2>1 DEF IsSeq
<1>8. PICK m : m = [pc |-> "run", repo |-> rr[q].repo, todo |-> todo, queue |-> <<>>,
                    results |-> <<>>]
  OBVIOUS
<1>9. /\ m.pc = "run" /\ m.repo = rr[q].repo /\ m.todo = todo /\ m.queue = <<>> /\ m.results = <<>>
  BY <1>8
<1>10. ListsOK(m)
  <2>1. RunLocal(m)
    BY <1>8, <1>9 DEF RunLocal
  <2>2. \A i \in 1 .. Len(todo) : RowOK(todo[i])
    BY <1>5, <1>6, <1>7
  <2>q. QED
    BY <1>7, <1>9, <2>1, <2>2, SeqEmpty DEF ListsOK
<1>11. Distinct(m)
  <2>1. \A i, j \in 1 .. Len(todo) : i # j => todo[i].p # todo[j].p
    BY <1>5, <1>6, <1>7
  <2>2. DistinctLists(todo, <<>>, <<>>)
    BY <2>1, SeqEmpty DEF DistinctLists
  <2>q. QED
    BY <1>9, <2>2 DEF Distinct
<1>q. QED
  BY <1>1, <1>2, <1>8, <1>9, <1>10, <1>11, ListStep

LEMMA WorkerStep ==
    ASSUME ResolutionInv, NEW q \in RepoProcs, NEW out \in Outs, NEW n, WorkerFn(q, out, n)
    PROVE  SafeStep /\ BuildsInv' /\ HistoryInv' /\ RepoProcsInv'
<1>1. PICK l : l = rr[q]
  OBVIOUS
<1>2. PICK m : m = [l EXCEPT !.todo = Tail(@),
                             !.queue = Append(@, [row |-> Head(l.todo), out |-> out, n |-> n])]
  OBVIOUS
<1>3. /\ UNCHANGED <<pkg, bld, koji>> /\ coll' = coll /\ rlock' = rlock
      /\ l.pc = "run" /\ l.todo # <<>> /\ rr' = [rr EXCEPT ![q] = m]
  BY <1>1, <1>2 DEF WorkerFn, RepoOnly, RepoStep
<1>4. ListsOK(l) /\ Distinct(l) /\ l.pc \in Locked
  BY <1>1, <1>3, NotInLists DEF Locked
<1>5. PICK e : e = [row |-> Head(l.todo), out |-> out, n |-> n]
  OBVIOUS
<1>6. m = [pc |-> l.pc, repo |-> l.repo, todo |-> Tail(l.todo), queue |-> Append(l.queue, e),
           results |-> l.results]
  BY <1>2, <1>4, <1>5 DEF ListsOK, RunLocal
<1>7. /\ m.pc = l.pc /\ m.repo = l.repo /\ m.todo = Tail(l.todo) /\ m.queue = Append(l.queue, e)
      /\ m.results = l.results
  BY <1>6
<1>8. RunLocal(m) /\ e.row = Head(l.todo) /\ e.out = out
  BY <1>5, <1>6, <1>7 DEF RunLocal
<1>9. ListsOK(m) /\ Distinct(m)
  BY <1>3, <1>4, <1>7, <1>8, WorkerLists
<1>q. QED
  BY <1>1, <1>3, <1>4, <1>7, <1>9, ListStep

LEMMA ConsumeStep ==
    ASSUME ResolutionInv, NEW q \in RepoProcs, Consume(q)
    PROVE  SafeStep /\ BuildsInv' /\ HistoryInv' /\ RepoProcsInv'
<1>1. PICK l : l = rr[q]
  OBVIOUS
<1>2. PICK h, before : h = Head(l.queue) /\ before = NevrasOf(ComparisonKeys(h.row))
  OBVIOUS
<1>3. PICK c \in BOOLEAN : c = (h.n # 0 /\ before \notin {{}, {h.n}})
  OBVIOUS
<1>4. PICK e : e = [row |-> h.row, out |-> h.out, n |-> h.n, changed |-> c]
  OBVIOUS
<1>5. PICK results, k : /\ results = Append(l.results, e)
                        /\ k = IF Len(results) > ChunkSize THEN "persist" ELSE "run"
  OBVIOUS
<1>6. PICK m : m = [l EXCEPT !.queue = Tail(@), !.results = results, !.pc = k]
  OBVIOUS
<1>7. /\ UNCHANGED <<pkg, bld, koji>> /\ coll' = coll /\ rlock' = rlock
      /\ l.pc = "run" /\ l.queue # <<>> /\ rr' = [rr EXCEPT ![q] = m]
  BY <1>1, <1>2, <1>3, <1>4, <1>5, <1>6 DEF Consume, RepoOnly, RepoStep
<1>8. ListsOK(l) /\ Distinct(l) /\ l.pc \in Locked
  BY <1>1, <1>7, NotInLists DEF Locked
<1>9. m = [pc |-> k, repo |-> l.repo, todo |-> l.todo, queue |-> Tail(l.queue), results |-> results]
  BY <1>6, <1>8 DEF ListsOK, RunLocal
<1>10. /\ m.pc = k /\ m.repo = l.repo /\ m.todo = l.todo /\ m.queue = Tail(l.queue)
       /\ m.results = results
  BY <1>9
<1>11. c => h.row.build.state = "done"
  <2>1. ASSUME h.row.build.state # "done" PROVE before = {}
    <3>1. ComparisonKeys(h.row) = {}
      BY <2>1 DEF ComparisonKeys
    <3>q. QED
      BY <1>2, <3>1 DEF NevrasOf
  <2>2. c => before # {}
    BY <1>3
  <2>q. QED
    BY <2>1, <2>2
<1>12. e.row = h.row /\ e.out = h.out /\ e.changed = c
  BY <1>4
<1>13. RunLocal(m)
  BY <1>9, <1>10 DEF RunLocal
<1>14. ListsOK(m) /\ Distinct(m)
  BY <1>2, <1>5, <1>7, <1>8, <1>10, <1>11, <1>12, <1>13, ConsumeLists
<1>15. m.pc \in {"run", "persist"}
  BY <1>5, <1>10
<1>q. QED
  BY <1>1, <1>7, <1>8, <1>14, <1>15, ListStep

LEMMA LastChunkStep ==
    ASSUME ResolutionInv, NEW q \in RepoProcs, LastChunk(q)
    PROVE  SafeStep /\ BuildsInv' /\ HistoryInv' /\ RepoProcsInv'
<1>1. PICK l : l = rr[q]
  OBVIOUS
<1>2. PICK m : m = [l EXCEPT !.pc = "persist"]
  OBVIOUS
<1>3. /\ UNCHANGED <<pkg, bld, koji>> /\ coll' = coll /\ rlock' = rlock
      /\ l.pc = "run" /\ rr' = [rr EXCEPT ![q] = m]
  BY <1>1, <1>2 DEF LastChunk, RepoOnly, RepoStep
<1>4. ListsOK(l) /\ Distinct(l) /\ l.pc \in Locked
  BY <1>1, <1>3, NotInLists DEF Locked
<1>5. m = [pc |-> "persist", repo |-> l.repo, todo |-> l.todo, queue |-> l.queue,
           results |-> l.results]
  BY <1>2, <1>4 DEF ListsOK, RunLocal
<1>6. /\ m.pc = "persist" /\ m.repo = l.repo /\ m.todo = l.todo /\ m.queue = l.queue
      /\ m.results = l.results
  BY <1>5
<1>7. RunLocal(m)
  BY <1>5, <1>6 DEF RunLocal
<1>8. ListsOK(m) /\ Distinct(m)
  BY <1>4, <1>6, <1>7 DEF ListsOK, Distinct
<1>q. QED
  BY <1>1, <1>3, <1>4, <1>6, <1>8, ListStep

LEMMA PersistStep ==
    ASSUME ResolutionInv, NEW q \in RepoProcs, Persist(q)
    PROVE  RepoProcsInv'
<1>1. PICK l : l = rr[q]
  OBVIOUS
<1>2. l.pc = "persist" /\ bld' = bld /\ koji' = koji /\ coll' = coll
  BY <1>1 DEF Persist, RepoOnly
<1>3. ListsOK(l) /\ Distinct(l) /\ rlock = q
  BY <1>1, <1>2, NotInLists DEF Locked
<1>4. /\ TableInv /\ coll.latest \in Nat /\ coll.latest <= koji.latest /\ koji.latest \in Nat
  BY DEF ResolutionInv, RepoProcsInv, TableInv
<1>5. /\ koji.latest <= koji'.latest /\ koji'.latest \in Nat
      /\ coll'.latest \in Nat /\ coll'.latest <= koji'.latest
  BY <1>2, <1>4
<1>6. CASE Done(q)
  <2>1. PICK s : s = Idle /\ rr' = [rr EXCEPT ![q] = s] /\ rlock' = Unlocked(q)
    BY <1>6 DEF Persist, RepoStep
  <2>2. rr'[q].pc = "idle"
    BY ZenonT(60), <2>1, NotInLists DEF Idle
  <2>3. RepoInv(q)'
    BY <2>2 DEF RepoInv, Locked
  <2>q. QED
    BY <1>2, <1>3, <1>5, <2>1, <2>3, RepoProcsStay
<1>7. CASE ~ Done(q)
  <2>1. PICK m : m = [l EXCEPT !.pc = "run", !.results = <<>>]
    OBVIOUS
  <2>2. rr' = [rr EXCEPT ![q] = m] /\ rlock' = rlock
    BY <1>1, <1>7, <2>1 DEF Persist, RepoStep
  <2>3. m = [pc |-> "run", repo |-> l.repo, todo |-> l.todo, queue |-> l.queue, results |-> <<>>]
    BY <1>3, <2>1 DEF ListsOK, RunLocal
  <2>4. /\ m.pc = "run" /\ m.repo = l.repo /\ m.todo = l.todo /\ m.queue = l.queue
        /\ m.results = <<>>
    BY <2>3
  <2>5. RunLocal(m)
    BY <2>3, <2>4 DEF RunLocal
  <2>6. \A p \in Packages : \/ pkg'[p] = pkg[p]
                            \/ \E i \in 1 .. Len(l.results) : l.results[i].row.p = p
    BY <1>1, PersistData
  <2>7. \A r : RowOK(r) /\ pkg'[r.p] = pkg[r.p] => RowOK(r)'
    BY <1>2 DEF RowOK, Finished
  <2>8. \A i \in 1 .. Len(l.todo) : RowOK(l.todo[i])'
    <3>1. TAKE i \in 1 .. Len(l.todo)
    <3>2. RowOK(l.todo[i]) /\ \A j \in 1 .. Len(l.results) : l.todo[i].p # l.results[j].row.p
      BY <1>3 DEF ListsOK, Distinct, DistinctLists
    <3>3. l.todo[i].p \in Packages
      BY <3>2 DEF RowOK
    <3>q. QED
      BY <2>6, <2>7, <3>2, <3>3
  <2>9. \A i \in 1 .. Len(l.queue) : RowOK(l.queue[i].row)'
    <3>1. TAKE i \in 1 .. Len(l.queue)
    <3>2. /\ RowOK(l.queue[i].row)
          /\ \A j \in 1 .. Len(l.results) : l.queue[i].row.p # l.results[j].row.p
      BY <1>3 DEF ListsOK, Distinct, DistinctLists
    <3>3. l.queue[i].row.p \in Packages
      BY <3>2 DEF RowOK
    <3>q. QED
      BY <2>6, <2>7, <3>2, <3>3
  <2>10. ListsOK(m)'
    <3>1. IsSeq(l.todo) /\ IsSeq(l.queue) /\ \A i \in 1 .. Len(l.queue) : l.queue[i].out \in Outs
      BY <1>3 DEF ListsOK
    <3>q. QED
      BY <2>4, <2>5, <2>8, <2>9, <3>1, SeqEmpty DEF ListsOK
  <2>11. Distinct(m)
    <3>1. DistinctLists(l.todo, l.queue, <<>>)
      BY <1>3, SeqEmpty DEF Distinct, DistinctLists
    <3>q. QED
      BY <2>4, <3>1 DEF Distinct
  <2>12. rr'[q] = m /\ rlock' = q
    BY <1>3, <2>2, NotInLists
  <2>13. RepoInv(q)'
    BY <2>4, <2>10, <2>11, <2>12 DEF RepoInv, Locked
  <2>q. QED
    BY <1>2, <1>3, <1>5, <2>2, <2>13, RepoProcsStay
<1>q. QED
  BY <1>6, <1>7

-----------------------------------------------------------------------------
(* What a build_resolver holds *)
LEMMA BuildProcsKept ==
    ASSUME ResolutionInv, DataStep, br' = br
    PROVE  BuildProcsInv'
<1>1. ASSUME NEW q \in BuildProcs PROVE BuildInv(q)'
  <2>1. br[q].pc = "commit" => br[q].b \in DOMAIN bld /\ RowLocked(br[q].b)
    BY DEF ResolutionInv, BuildProcsInv, BuildInv, RowLocked
  <2>q. QED
    BY <2>1 DEF DataStep, ResolutionInv, BuildProcsInv, BuildInv
<1>q. QED
  BY <1>1 DEF ResolutionInv, BuildProcsInv

LEMMA BuildProcsStay ==
    ASSUME ResolutionInv, DataStep, NEW q \in BuildProcs, NEW s, br' = [br EXCEPT ![q] = s],
           s.pc = "commit" => /\ s.b \in DOMAIN bld'
                              /\ s.clears => s.prev[1] = s.b[1] /\ s.prev[2] < s.b[2]
    PROVE  BuildProcsInv'
<1>1. /\ DOMAIN br' = BuildProcs /\ br' = [c \in BuildProcs |-> br'[c]]
      /\ br'[q] = s /\ \A c \in BuildProcs : c # q => br'[c] = br[c]
  BY DEF ResolutionInv, BuildProcsInv
<1>2. ASSUME NEW c \in BuildProcs PROVE BuildInv(c)'
  <2>1. CASE c = q
    BY <1>1, <2>1 DEF BuildInv
  <2>2. CASE c # q
    <3>1. br[c].pc = "commit" => br[c].b \in DOMAIN bld /\ RowLocked(br[c].b)
      BY DEF ResolutionInv, BuildProcsInv, BuildInv, RowLocked
    <3>q. QED
      BY <1>1, <2>2, <3>1 DEF DataStep, ResolutionInv, BuildProcsInv, BuildInv
  <2>q. QED
    BY <2>1, <2>2
<1>q. QED
  BY <1>1, <1>2 DEF BuildProcsInv

(* The build it compares with is older *)
LEMMA PrevIsOlder ==
    ASSUME ResolutionInv, NEW b \in DOMAIN bld, PrevKeys(b) # {}
    PROVE  PrevOf(b) \in DOMAIN bld /\ PrevOf(b)[1] = b[1] /\ PrevOf(b)[2] < b[2]
<1>1. PrevBuilds(b) # {} /\ PrevBuilds(b) \subseteq BuildIds
  BY DEF PrevKeys, PrevBuilds, Builds, ResolutionInv, TableInv
<1>2. PrevOf(b) \in PrevBuilds(b)
  BY <1>1, LastOfBuilds DEF PrevOf
<1>q. QED
  BY <1>2 DEF PrevBuilds, Builds

LEMMA BuildResolverStep ==
    ASSUME ResolutionInv, NEW q \in BuildProcs, BuildResolver(q) \/ BRCrash(q)
    PROVE  SafeStep /\ BuildsInv' /\ HistoryInv' /\ RepoProcsInv' /\ BuildProcsInv'
<1>1. koji' = koji /\ UNCHANGED <<rr, rlock, coll>>
  BY ZenonT(60) DEF BuildResolver, BRCrash, BRLoad, BRGroup, BRUnlock, BRUnresolved, BRBuild, BRCommit,
         BRRollback, BRFails, BREnds, BuildOnly, repoVars
<1>2. koji.latest \in Nat /\ koji = [latest |-> koji.latest, dead |-> koji.dead]
  BY DEF ResolutionInv, TableInv
<1>3. \A todo : Ungrouped(todo).pc # "commit"
  BY DEF Ungrouped, Idle
<1>4. PICK s : /\ br' = [br EXCEPT ![q] = s] /\ SafeStep /\ BuildsInv'
               /\ s.pc = "commit" =>
                    /\ s.b \in DOMAIN bld'
                    /\ s.clears => s.prev[1] = s.b[1] /\ s.prev[2] < s.b[2]
  <2>1. ASSUME UNCHANGED <<pkg, bld>> PROVE SafeStep /\ BuildsInv'
    BY <1>1, <1>2, <2>1, QuietStep
  <2>2. CASE BRLoad(q) \/ BRUnlock(q) \/ BRRollback(q) \/ BRFails(q) \/ BRCrash(q)
    <3>1. UNCHANGED <<pkg, bld>>
      BY <2>2 DEF BRLoad, BRUnlock, BRRollback, BRFails, BRCrash, BREnds
    <3>2. \E s : br' = [br EXCEPT ![q] = s] /\ s.pc # "commit"
      BY <1>3, <2>2 DEF BRLoad, BRUnlock, BRRollback, BRFails, BRCrash, BREnds, BuildStep, Restored, Idle
    <3>q. QED
      BY <2>1, <3>1, <3>2
  <2>3. CASE BRGroup(q)
    <3>1. \E s : br' = [br EXCEPT ![q] = s] /\ s.pc # "commit"
      BY <1>3, <2>3 DEF BRGroup, BuildStep
    <3>2. UNCHANGED <<pkg, bld>> \/ \E B : ProcessUnresolved(B)
      BY <2>3 DEF BRGroup
    <3>3. SafeStep /\ BuildsInv'
      BY <1>1, <2>1, <3>2, UnresolvedStep
    <3>q. QED
      BY <3>1, <3>3
  <2>4. ASSUME NEW b, BRUnresolved(q, b) PROVE SafeStep /\ BuildsInv' /\ \E s : br' = [br EXCEPT ![q] = s] /\ s.pc # "commit"
    <3>1. \E s : br' = [br EXCEPT ![q] = s] /\ s.pc # "commit"
      <4>1. br' = [br EXCEPT ![q] = Taken(q, b)]
        BY <2>4 DEF BRUnresolved, BuildStep
      <4>2. Taken(q, b).pc # "commit"
        BY DEF Taken
      <4>q. QED
        BY <4>1, <4>2
    <3>2. \E B : ProcessUnresolved(B)
      BY <2>4 DEF BRUnresolved
    <3>q. QED
      BY <1>1, <3>1, <3>2, UnresolvedStep
  <2>5. CASE BRCommit(q)
    <3>1. \E s : br' = [br EXCEPT ![q] = s] /\ s.pc # "commit"
      <4>1. br' = [br EXCEPT ![q] = Restored(q)]
        BY <2>5 DEF BRCommit, BuildStep
      <4>2. Restored(q).pc # "commit"
        BY DEF Restored
      <4>q. QED
        BY <4>1, <4>2
    <3>q. QED
      BY <2>5, <3>1, CommitStep
  <2>6. ASSUME NEW b, NEW n, BRBuild(q, b, n)
        PROVE  /\ SafeStep /\ BuildsInv'
               /\ \E s : /\ br' = [br EXCEPT ![q] = s] /\ s.b \in DOMAIN bld'
                         /\ s.clears => s.prev[1] = s.b[1] /\ s.prev[2] < s.b[2]
    <3>1. UNCHANGED <<pkg, bld>> /\ b \in DOMAIN bld
      BY <2>6 DEF BRBuild
    <3>2. PICK c \in BOOLEAN : c = (PrevKeys(b) # {})
      OBVIOUS
    <3>3. \E repo, group, todo, ins, id, change : br' = [br EXCEPT ![q] =
            [pc |-> "commit", repo |-> repo, group |-> group, todo |-> todo, b |-> b,
             prev |-> PrevOf(b), clears |-> c, ins |-> ins, n |-> n, id |-> id,
             change |-> change]]
      BY ZenonT(60), <2>6, <3>2 DEF BRBuild, BuildStep
    <3>4. PICK s, repo, group, todo, ins, id, change :
            /\ br' = [br EXCEPT ![q] = s]
            /\ s = [pc |-> "commit", repo |-> repo, group |-> group, todo |-> todo, b |-> b,
                    prev |-> PrevOf(b), clears |-> c, ins |-> ins, n |-> n, id |-> id,
                    change |-> change]
      BY <3>3
    <3>5. s.b = b /\ s.prev = PrevOf(b) /\ s.clears = c
      BY <3>4
    <3>6. c => PrevOf(b)[1] = b[1] /\ PrevOf(b)[2] < b[2]
      BY <3>1, <3>2, PrevIsOlder
    <3>q. QED
      BY <2>1, <3>1, <3>4, <3>5, <3>6
  <2>q. QED
    BY <2>2, <2>3, <2>4, <2>5, <2>6 DEF BuildResolver
<1>5. BuildProcsInv'
  BY <1>4, BuildProcsStay DEF SafeStep
<1>6. RepoProcsInv'
  BY <1>1, <1>2, <1>4, RepoProcsKept
<1>q. QED
  BY <1>4, <1>5, <1>6, HistorySafe

-----------------------------------------------------------------------------
(* The invariant *)
LEMMA EnvironmentStep ==
    ASSUME ResolutionInv, Environment
    PROVE  SafeStep /\ BuildsInv' /\ HistoryInv' /\ RepoProcsInv' /\ BuildProcsInv'
<1>1. UNCHANGED <<rr, rlock, coll, br>>
  BY DEF Environment, KojiNewRepo, KojiDeleteRepo, NewBuild, EditPackage, BuildEnds, BuildDeleted,
         Cleanup, Elsewhere, repoVars, buildVars
<1>2. koji.latest \in Nat /\ koji = [latest |-> koji.latest, dead |-> koji.dead]
  BY DEF ResolutionInv, TableInv
<1>3. /\ koji.latest <= koji'.latest /\ koji'.latest \in Nat
      /\ koji' = [latest |-> koji'.latest, dead |-> koji'.dead]
  <2>1. CASE KojiNewRepo
    <3>1. koji' = [latest |-> koji.latest + 1, dead |-> koji.dead]
      BY <1>2, <2>1 DEF KojiNewRepo
    <3>q. QED
      BY <1>2, <3>1
  <2>2. ASSUME NEW r, KojiDeleteRepo(r)
        PROVE  koji' = [latest |-> koji.latest, dead |-> koji.dead \cup {r}]
    BY <1>2, <2>2 DEF KojiDeleteRepo
  <2>3. ASSUME NEW r, KojiDeleteRepo(r)
        PROVE  /\ koji.latest <= koji'.latest /\ koji'.latest \in Nat
               /\ koji' = [latest |-> koji'.latest, dead |-> koji'.dead]
    BY <1>2, <2>2, <2>3
  <2>4. CASE koji' = koji
    BY <1>2, <2>4
  <2>q. QED
    BY <2>1, <2>3, <2>4 DEF Environment, NewBuild, EditPackage, BuildEnds, BuildDeleted, Cleanup
<1>4. SafeStep /\ BuildsInv'
  <2>1. CASE KojiNewRepo \/ \E r \in 1 .. MaxRepos : KojiDeleteRepo(r)
    <3>1. UNCHANGED <<pkg, bld>>
      BY <2>1 DEF KojiNewRepo, KojiDeleteRepo
    <3>q. QED
      BY <1>3, <3>1, QuietStep
  <2>2. CASE \E p \in Packages : NewBuild(p, "running") \/ NewBuild(p, "done") \/ EditPackage(p)
    BY <2>2, NewBuildStep, EditPackageStep
  <2>3. CASE \E b \in DOMAIN bld : BuildEnds(b) \/ BuildDeleted(b)
    BY <2>3, BuildEndsStep, BuildDeletedStep
  <2>4. ASSUME NEW B \in SUBSET OldBuilds, NEW cut \in [Packages -> 0 .. MaxRepos], Cleanup(B, cut)
        PROVE  SafeStep /\ BuildsInv'
    <3>1. cut \in [Packages -> Nat]
      BY ResolutionAssumption
    <3>q. QED
      BY <2>4, <3>1, CleanupStep
  <2>q. QED
    BY <2>1, <2>2, <2>3, <2>4 DEF Environment
<1>5. RepoProcsInv'
  BY <1>1, <1>3, <1>4, RepoProcsKept
<1>6. BuildProcsInv'
  BY <1>1, <1>4, BuildProcsKept DEF SafeStep
<1>q. QED
  BY <1>4, <1>5, <1>6, HistorySafe

LEMMA RepoResolverStep ==
    ASSUME ResolutionInv, NEW q \in RepoProcs, RepoResolver(q) \/ RepoCrash(q)
    PROVE  DataStep /\ BuildsInv' /\ HistoryInv' /\ RepoProcsInv' /\ BuildProcsInv'
<1>1. br' = br
  BY DEF RepoResolver, RepoCrash, LoadCollections, TryLock, ProcessRepo, GetPackages, ResolveRepo,
         WorkerFn, Consume, LastChunk, Persist, RepoFails, RepoEnds, RepoOnly, buildVars
<1>2. DataStep /\ BuildsInv' /\ HistoryInv' /\ RepoProcsInv'
  <2>1. CASE Persist(q)
    BY <2>1, PersistData, PersistStep
  <2>2. CASE LoadCollections(q) \/ TryLock(q) \/ ProcessRepo(q) \/ RepoFails(q) \/ RepoCrash(q)
    BY <2>2, SmallRepoSteps DEF SafeStep
  <2>3. CASE GetPackages(q) \/ Consume(q) \/ LastChunk(q)
    BY <2>3, GetPackagesStep, ConsumeStep, LastChunkStep DEF SafeStep
  <2>4. CASE ResolveRepo(q, TRUE) \/ ResolveRepo(q, FALSE)
    BY <2>4, ResolveRepoStep DEF SafeStep
  <2>5. CASE (\E n \in Nevras : WorkerFn(q, "ok", n)) \/ WorkerFn(q, "problem", 0)
    BY <2>5, WorkerStep DEF SafeStep, Outs
  <2>q. QED
    BY <2>1, <2>2, <2>3, <2>4, <2>5 DEF RepoResolver
<1>q. QED
  BY <1>1, <1>2, BuildProcsKept

LEMMA ResolutionInit == Init => ResolutionInv
<1> SUFFICES ASSUME Init PROVE ResolutionInv
  OBVIOUS
<1>1. 1 \in Numbers
  BY ResolutionAssumption DEF Numbers
<1>2. PICK row : row = [last |-> 1, seq |-> 1, resolved |-> "none", skip |-> FALSE,
                        un |-> 0, prio |-> 0, added |-> FALSE, history |-> <<>>]
  OBVIOUS
<1>3. /\ row.last = 1 /\ row.seq = 1 /\ row.resolved = "none" /\ row.un = 0
      /\ row.prio = 0 /\ row.history = <<>>
  BY <1>2
<1>4. row.skip = FALSE /\ row.added = FALSE
  BY <1>2
<1>5. PackageType(row)
  BY <1>1, <1>2, <1>3, <1>4 DEF PackageType, PackageRow
<1>6. pkg = [p \in Packages |-> row]
  BY <1>2 DEF Init
<1>7. PICK b0 : b0 = [state |-> "done", deps |-> "none", keys |-> {}, repo |-> 1]
  OBVIOUS
<1>8. b0.state = "done" /\ BuildRow(b0)
  BY <1>7 DEF BuildRow
<1>9. bld = [b \in Packages \X {1} |-> b0]
  BY <1>7 DEF Init
<1>10. koji.latest = 1 /\ koji = [latest |-> koji.latest, dead |-> koji.dead]
  BY DEF Init
<1>11. TableInv
  BY <1>1, <1>5, <1>6, <1>8, <1>9, <1>10 DEF TableInv, BuildIds
<1>12. BuildsInv
  <2>1. SUFFICES ASSUME NEW p \in Packages
                 PROVE  /\ LastBuild(p) \in DOMAIN bld /\ pkg[p].last <= pkg[p].seq
                        /\ \A b \in Builds(p) : /\ b[2] <= pkg[p].last
                                                /\ ~ Finished(b) => b[2] = pkg[p].last
                        /\ \E f \in Builds(p) : /\ Newest(f)
                                                /\ pkg[p].un \in {0, f[2]}
                                                /\ pkg[p].prio \in {0, f[2]}
    BY DEF BuildsInv
  <2>2. Builds(p) = {<<p, 1>>} /\ LastBuild(p) = <<p, 1>> /\ Finished(<<p, 1>>)
    BY <1>3, <1>6, <1>8, <1>9 DEF Builds, LastBuild, Finished
  <2>3. Newest(<<p, 1>>)
    BY <1>9, <2>2 DEF Newest
  <2>q. QED
    BY <1>3, <1>6, <1>9, <2>2, <2>3
<1>13. HistoryInv
  BY <1>3, <1>6 DEF HistoryInv, Fits
<1>14. RepoProcsInv
  <2>1. \A q \in RepoProcs : rr[q].pc = "idle"
    BY DEF Init, Idle
  <2>2. coll.latest = 0
    BY DEF Init
  <2>3. DOMAIN rr = RepoProcs /\ rr = [q \in RepoProcs |-> rr[q]]
    BY DEF Init
  <2>q. QED
    BY <1>10, <2>1, <2>2, <2>3 DEF RepoProcsInv, RepoInv, Locked
<1>15. BuildProcsInv
  <2>1. \A q \in BuildProcs : br[q].pc = "idle"
    BY DEF Init, Idle
  <2>2. DOMAIN br = BuildProcs /\ br = [q \in BuildProcs |-> br[q]]
    BY DEF Init
  <2>q. QED
    BY <2>1, <2>2 DEF BuildProcsInv, BuildInv
<1>q. QED
  BY <1>11, <1>12, <1>13, <1>14, <1>15 DEF ResolutionInv

LEMMA ResolutionNext ==
    ASSUME ResolutionInv, [Next]_vars
    PROVE  ResolutionInv'
<1>1. CASE UNCHANGED vars
  <2>1. koji' = [latest |-> koji'.latest, dead |-> koji'.dead] /\ koji'.latest \in Nat
    BY <1>1 DEF vars, ResolutionInv, TableInv
  <2>2. UNCHANGED <<pkg, bld, koji, coll, rlock, rr, br>>
    BY <1>1 DEF vars
  <2>3. SafeStep /\ BuildsInv' /\ HistoryInv'
    BY <2>1, <2>2, QuietStep
  <2>4. koji.latest <= koji'.latest
    BY <2>2 DEF ResolutionInv, TableInv
  <2>5. RepoProcsInv' /\ BuildProcsInv'
    BY <2>1, <2>2, <2>3, <2>4, RepoProcsKept, BuildProcsKept DEF SafeStep
  <2>q. QED
    BY <2>3, <2>5 DEF ResolutionInv, SafeStep, DataStep
<1>2. CASE Environment
  BY <1>2, EnvironmentStep DEF ResolutionInv, SafeStep, DataStep
<1>3. ASSUME NEW q \in RepoProcs, RepoResolver(q) \/ RepoCrash(q) PROVE ResolutionInv'
  BY <1>3, RepoResolverStep DEF ResolutionInv, DataStep
<1>4. ASSUME NEW q \in BuildProcs, BuildResolver(q) \/ BRCrash(q) PROVE ResolutionInv'
  BY <1>4, BuildResolverStep DEF ResolutionInv, SafeStep, DataStep
<1>q. QED
  BY <1>1, <1>2, <1>3, <1>4 DEF Next

(* The inductive invariant of the resolver services: build numbers grow and   *)
(* only the last build of a package runs, its unapplied changes are about its *)
(* newest finished build, a resolution status agrees with the history, and    *)
(* every row a process loaded still fits what the tables say                  *)
(* (repo_resolver.py, build_resolver.py).                                     *)
THEOREM ResolutionInvariant == Spec => []ResolutionInv
<1>1. ResolutionInv /\ [Next]_vars => ResolutionInv'
  BY ResolutionNext
<1>q. QED
  BY <1>1, ResolutionInit, PTL DEF Spec

(* What is stored about a package whose last build has finished is about that *)
(* build: persist_resolution_output never leaves a comparison with an earlier *)
(* one, whatever is registered or deleted while the solver runs.              *)
THEOREM NothingStale == Spec => []NoStaleChanges
<1>1. ResolutionInv => NoStaleChanges
  <2> SUFFICES ASSUME ResolutionInv, NEW p \in Packages, Finished(LastBuild(p))
               PROVE  pkg[p].un \in {0, pkg[p].last} /\ pkg[p].prio \in {0, pkg[p].last}
    BY DEF NoStaleChanges
  <2>1. PICK f \in Builds(p) : Newest(f) /\ pkg[p].un \in {0, f[2]} /\ pkg[p].prio \in {0, f[2]}
    BY DEF ResolutionInv, BuildsInv
  <2>2. LastBuild(p)[1] = p /\ LastBuild(p)[2] = pkg[p].last /\ LastBuild(p) \in DOMAIN bld
    BY DEF LastBuild, ResolutionInv, BuildsInv
  <2>3. f[2] <= pkg[p].last /\ f[1] = p /\ f[2] \in Numbers /\ pkg[p].last \in Numbers
    BY <2>1 DEF ResolutionInv, BuildsInv, TableInv, BuildIds, Builds, PackageType
  <2>4. pkg[p].last <= f[2]
    BY <2>1, <2>2, <2>3 DEF Newest
  <2>5. f[2] = pkg[p].last
    BY <2>3, <2>4 DEF Numbers
  <2>q. QED
    BY <2>1, <2>5
<1>q. QED
  BY <1>1, ResolutionInvariant, PTL

(* No process of an older list of collections takes the collection back to an *)
(* earlier repo: process_repo runs under the collection's advisory lock, and  *)
(* only its owner stores a repo id, read from Koji under the lock.            *)
THEOREM CollectionNeverGoesBack == Spec => LatestMonotone
<1>1. ResolutionInv /\ [Next]_vars => [coll'.latest >= coll.latest]_vars
  <2> SUFFICES ASSUME ResolutionInv, Next PROVE coll'.latest >= coll.latest
    BY DEF vars
  <2>0. coll.latest \in Nat
    BY DEF ResolutionInv, RepoProcsInv
  <2>1. CASE coll' = coll
    BY <2>0, <2>1
  <2>2. ASSUME NEW q \in RepoProcs, NEW ok, ResolveRepo(q, ok) PROVE coll'.latest >= coll.latest
    BY <2>2, ResolveRepoStep
  <2>3. coll' = coll \/ \E q \in RepoProcs, ok \in BOOLEAN : ResolveRepo(q, ok)
    <3>1. CASE Environment
      BY <3>1 DEF Environment, KojiNewRepo, KojiDeleteRepo, NewBuild, EditPackage, BuildEnds,
                  BuildDeleted, Cleanup, Elsewhere, repoVars
    <3>2. ASSUME NEW q \in RepoProcs, RepoResolver(q) \/ RepoCrash(q)
          PROVE  coll' = coll \/ ResolveRepo(q, TRUE) \/ ResolveRepo(q, FALSE)
      BY <3>2 DEF RepoResolver, RepoCrash, LoadCollections, TryLock, ProcessRepo, GetPackages,
                  WorkerFn, Consume, LastChunk, Persist, RepoFails, RepoEnds
    <3>3. ASSUME NEW q \in BuildProcs, BuildResolver(q) \/ BRCrash(q) PROVE coll' = coll
      BY ZenonT(60), <3>3 DEF BuildResolver, BRCrash, BRLoad, BRGroup, BRUnlock, BRUnresolved, BRBuild,
                  BRCommit, BRRollback, BRFails, BREnds, BuildOnly, repoVars
    <3>q. QED
      BY <3>1, <3>2, <3>3 DEF Next
  <2>q. QED
    BY <2>1, <2>2, <2>3
<1>q. QED
  BY <1>1, ResolutionInvariant, PTL DEF Spec, LatestMonotone

(* An entry of the resolution history is a change: it differs from the entry  *)
(* before it, or the package was not resolved then.  The history is compared  *)
(* with a row that was loaded earlier (persist_resolution_output).            *)
THEOREM HistoryTellsChanges == Spec => HistoryChanges
<1> DEFINE Change(p) == LET h == pkg[p].history  new == pkg'[p].history IN
                 Len(new) > Len(h) /\ h # <<>> /\ pkg[p].resolved # "none" =>
                    new[Len(new)] # h[Len(h)]
<1>1. ResolutionInv /\ [Next]_vars => [\A p \in Packages : Change(p)]_vars
  <2> SUFFICES ASSUME ResolutionInv, Next, NEW p \in Packages PROVE Change(p)
    OBVIOUS
  <2>1. CASE SafeStep
    <3>1. /\ pkg'[p].history \in Seq(Outs) /\ pkg[p].history \in Seq(Outs)
          /\ pkg'[p].history = pkg[p].history \/ Len(pkg'[p].history) <= Len(pkg[p].history)
      BY <2>1 DEF SafeStep, DataStep, Shorter, ResolutionInv, TableInv, PackageType
    <3>2. Len(pkg'[p].history) \in Nat /\ Len(pkg[p].history) \in Nat
      BY <3>1
    <3>q. QED
      BY <3>1, <3>2
  <2>2. ASSUME NEW q \in RepoProcs, Persist(q) PROVE Change(p)
    BY <2>2, PersistData
  <2>3. SafeStep \/ \E q \in RepoProcs : Persist(q)
    <3>1. ASSUME NEW q \in RepoProcs, RepoResolver(q) \/ RepoCrash(q), ~ Persist(q)
          PROVE  SafeStep
      <4>1. CASE LoadCollections(q) \/ TryLock(q) \/ ProcessRepo(q) \/ RepoFails(q) \/ RepoCrash(q)
        BY <4>1, SmallRepoSteps
      <4>2. CASE GetPackages(q) \/ Consume(q) \/ LastChunk(q)
        BY <4>2, GetPackagesStep, ConsumeStep, LastChunkStep
      <4>3. CASE ResolveRepo(q, TRUE) \/ ResolveRepo(q, FALSE)
        BY <4>3, ResolveRepoStep
      <4>4. CASE (\E n \in Nevras : WorkerFn(q, "ok", n)) \/ WorkerFn(q, "problem", 0)
        BY <4>4, WorkerStep DEF Outs
      <4>q. QED
        BY <3>1, <4>1, <4>2, <4>3, <4>4 DEF RepoResolver
    <3>q. QED
      BY <3>1, EnvironmentStep, BuildResolverStep DEF Next
  <2>q. QED
    BY <2>1, <2>2, <2>3
<1>q. QED
  BY <1>1, ResolutionInvariant, PTL DEF Spec, HistoryChanges

(* A build gives its keys up only to a newer resolved build of its package:   *)
(* process_resolved_build clears those of the build it compared with, which   *)
(* get_prev_build_for_comparison chose before the transaction wrote anything. *)
THEOREM KeysGoToNewer == Spec => KeysMoveForward
<1> DEFINE Newer(b) == \E c \in DOMAIN bld' : c[1] = b[1] /\ c[2] > b[2] /\ bld'[c].keys # {}
           Forward == \A b \in DOMAIN bld \cap DOMAIN bld' :
                         bld[b].keys # {} /\ bld'[b].keys = {} => Newer(b)
           Kept == \A b \in DOMAIN bld \cap DOMAIN bld' : bld'[b].keys = bld[b].keys
<1>1. ResolutionInv /\ [Next]_vars => [Forward]_vars
  <2> SUFFICES ASSUME ResolutionInv, Next PROVE Forward
    OBVIOUS
  <2>0. /\ bld = [b \in DOMAIN bld |-> bld[b]] /\ DOMAIN bld \subseteq BuildIds
        /\ \A b \in DOMAIN bld : BuildRow(bld[b])
    BY DEF ResolutionInv, TableInv
  <2>1. CASE bld' = bld
    BY <2>1
  <2>2. ASSUME NEW p \in Packages, NEW s, NewBuild(p, s) PROVE Kept
    <3>1. PICK n : n = 1 + pkg[p].seq
      OBVIOUS
    <3>2. /\ bld' = [b \in DOMAIN bld \cup {<<p, n>>} |->
                IF b = <<p, n>> THEN [state |-> s, deps |-> "none", keys |-> {}, repo |-> koji.latest]
                ELSE bld[b]]
          /\ n <= MaxBuilds
      BY <2>2, <3>1 DEF NewBuild
    <3>3. <<p, n>> \notin DOMAIN bld
      <4>1. \A b \in DOMAIN bld : b[1] = p => b[2] < n
        BY SMTT(30), <3>1 DEF ResolutionInv, BuildsInv, TableInv, PackageType, Builds, BuildIds, Numbers
      <4>2. n \in Int
        BY <3>1 DEF ResolutionInv, TableInv, PackageType, Numbers
      <4>q. QED
        BY <4>1, <4>2
    <3>q. QED
      BY <3>2, <3>3
  <2>3. ASSUME NEW b \in DOMAIN bld, BuildEnds(b) PROVE Kept
    <3>1. bld' = [bld EXCEPT ![b].state = "done"]
      BY <2>3 DEF BuildEnds
    <3>2. PICK row : row = bld[b]
      OBVIOUS
    <3>3. PICK new : new = [row EXCEPT !.state = "done"]
      OBVIOUS
    <3>4. new.keys = row.keys
      BY <2>0, <3>2, <3>3 DEF BuildRow
    <3>5. bld' = [bld EXCEPT ![b] = new]
      BY <2>0, <3>1, <3>2, <3>3
    <3>q. QED
      BY <2>0, <3>2, <3>4, <3>5
  <2>4. ASSUME NEW D, bld' = [c \in DOMAIN bld \ D |-> bld[c]] PROVE Kept
    BY <2>4
  <2>5. ASSUME NEW B, ProcessUnresolved(B) PROVE Kept
    <3>1. TAKE b \in DOMAIN bld \cap DOMAIN bld'
    <3>2. CASE b \in B
      <4>1. PICK row : row = bld[b]
        OBVIOUS
      <4>2. PICK new : new = [row EXCEPT !.deps = "bad"]
        OBVIOUS
      <4>3. new.keys = row.keys
        BY <2>0, <4>1, <4>2 DEF BuildRow
      <4>4. bld'[b] = new
        BY <2>5, <3>2, <4>1, <4>2 DEF ProcessUnresolved
      <4>q. QED
        BY <4>1, <4>3, <4>4
    <3>3. CASE b \notin B
      BY <2>5, <3>3 DEF ProcessUnresolved
    <3>q. QED
      BY <3>2, <3>3
  <2>6. ASSUME NEW q \in BuildProcs, BRCommit(q) PROVE Forward
    <3>1. /\ DOMAIN bld' = DOMAIN bld /\ br[q].pc = "commit"
          /\ \A b \in DOMAIN bld :
               bld'[b] = IF b = br[q].b THEN [bld[b] EXCEPT !.deps = "ok", !.keys = {br[q].id}]
                         ELSE IF b \in ClearedPrev(q) THEN [bld[b] EXCEPT !.keys = {}] ELSE bld[b]
      BY <2>6 DEF BRCommit
    <3>2. /\ br[q].b \in DOMAIN bld
          /\ br[q].clears => br[q].prev[1] = br[q].b[1] /\ br[q].prev[2] < br[q].b[2]
      BY <3>1 DEF ResolutionInv, BuildProcsInv, BuildInv
    <3>3. bld'[br[q].b].keys # {}
      <4>1. PICK row : row = bld[br[q].b]
        OBVIOUS
      <4>2. PICK new : new = [row EXCEPT !.deps = "ok", !.keys = {br[q].id}]
        OBVIOUS
      <4>3. new.keys = {br[q].id}
        BY <2>0, <3>2, <4>1, <4>2 DEF BuildRow
      <4>4. bld'[br[q].b] = new
        BY <3>1, <3>2, <4>1, <4>2
      <4>q. QED
        BY <4>3, <4>4
    <3>4. ASSUME NEW b \in DOMAIN bld, bld[b].keys # {}, bld'[b].keys = {} PROVE Newer(b)
      <4>1. b # br[q].b
        BY <3>3, <3>4
      <4>2. b \in ClearedPrev(q)
        BY <3>1, <3>4, <4>1
      <4>3. br[q].clears /\ b = br[q].prev
        BY <4>2 DEF ClearedPrev
      <4>4. b[2] \in Int /\ br[q].b[2] \in Int
        BY <2>0, <3>2 DEF BuildIds, Numbers
      <4>q. QED
        BY <3>1, <3>2, <3>3, <4>3, <4>4
    <3>q. QED
      BY <3>1, <3>4
  <2>7. \/ bld' = bld
        \/ \E p \in Packages : NewBuild(p, "running") \/ NewBuild(p, "done")
        \/ \E b \in DOMAIN bld : BuildEnds(b)
        \/ \E D : bld' = [c \in DOMAIN bld \ D |-> bld[c]]
        \/ \E B : ProcessUnresolved(B)
        \/ \E q \in BuildProcs : BRCommit(q)
    <3>1. CASE Environment
      BY <3>1 DEF Environment, KojiNewRepo, KojiDeleteRepo, EditPackage, BuildDeleted, Cleanup
    <3>2. ASSUME NEW q \in RepoProcs, RepoResolver(q) \/ RepoCrash(q)
          PROVE  bld' = bld
      BY <3>2 DEF RepoResolver, RepoCrash, LoadCollections, TryLock, ProcessRepo, GetPackages,
                  ResolveRepo, WorkerFn, Consume, LastChunk, Persist, RepoFails, RepoEnds, RepoOnly
    <3>3. ASSUME NEW q \in BuildProcs, BuildResolver(q) \/ BRCrash(q)
          PROVE  bld' = bld \/ (\E B : ProcessUnresolved(B)) \/ BRCommit(q)
      <4>1. CASE BRCrash(q) \/ BRLoad(q) \/ BRGroup(q) \/ BRUnlock(q) \/ BRRollback(q) \/ BRFails(q)
        BY <4>1 DEF BRCrash, BRLoad, BRGroup, BRUnlock, BRRollback, BRFails, BREnds
      <4>2. CASE \E b \in DOMAIN applied : BRUnresolved(q, b) \/ \E n \in Nevras : BRBuild(q, b, n)
        BY ZenonT(60), <4>2 DEF BRUnresolved, BRBuild
      <4>q. QED
        BY <3>3, <4>1, <4>2 DEF BuildResolver
    <3>q. QED
      BY <3>1, <3>2, <3>3 DEF Next
  <2>8. Kept => Forward
    OBVIOUS
  <2> HIDE DEF Kept, Forward
  <2>q. QED
    BY <2>1, <2>2, <2>3, <2>4, <2>5, <2>6, <2>7, <2>8
<1>q. QED
  BY <1>1, ResolutionInvariant, PTL DEF Spec, KeysMoveForward

-----------------------------------------------------------------------------
(* One build_resolver *)
SameDeps == \A b \in DOMAIN bld \cap DOMAIN bld' : bld'[b].deps = bld[b].deps

(* No build that had dependencies, or none found, is unprocessed again *)
DepsStep == \A b \in DOMAIN bld \cap DOMAIN bld' : bld'[b].deps = "none" => bld[b].deps = "none"

LEMMA FreshStays ==
    ASSUME ResolutionInv, DataStep, NEW b, Fresh(b),
           b \in DOMAIN bld \cap DOMAIN bld' => bld'[b].deps = bld[b].deps
    PROVE  Fresh(b)'
<1>1. b \in BuildIds /\ b[1] \in Packages /\ b[2] \in Numbers /\ b[2] <= pkg[b[1]].seq
  BY DEF Fresh, BuildIds
<1>2. b[2] <= pkg'[b[1]].seq
  BY <1>1 DEF DataStep, ResolutionInv, TableInv, PackageType, Numbers
<1>3. b \in DOMAIN bld' => b \in DOMAIN bld
  <2>1. ~ (pkg[b[1]].seq < b[2])
    BY <1>1 DEF ResolutionInv, TableInv, PackageType, Numbers
  <2>q. QED
    BY <2>1 DEF DataStep
<1>q. QED
  BY <1>1, <1>2, <1>3 DEF Fresh

LEMMA AppliedStays ==
    ASSUME ResolutionInv, AppliedInv, DataStep, applied' = applied, DepsStep
    PROVE  AppliedInv'
<1>1. ASSUME NEW b \in BuildIds
      PROVE  /\ applied[b] = 1 => b[2] <= pkg'[b[1]].seq
             /\ b \in DOMAIN bld' /\ bld'[b].deps = "none" => applied[b] = 0
  <2>1. b[1] \in Packages /\ b[2] \in Numbers
    BY DEF BuildIds
  <2>2. /\ applied[b] \in {0, 1} /\ (applied[b] = 1 => b[2] <= pkg[b[1]].seq)
        /\ b \in DOMAIN bld /\ bld[b].deps = "none" => applied[b] = 0
    BY DEF AppliedInv
  <2>3. applied[b] = 1 => b[2] <= pkg'[b[1]].seq
    BY <2>1, <2>2 DEF DataStep, ResolutionInv, TableInv, PackageType, Numbers
  <2>4. b \in DOMAIN bld' => b \in DOMAIN bld \/ pkg[b[1]].seq < b[2]
    BY DEF DataStep
  <2>5. pkg[b[1]].seq < b[2] => applied[b] = 0
    BY <2>1, <2>2 DEF ResolutionInv, TableInv, PackageType, Numbers
  <2>q. QED
    BY <2>2, <2>3, <2>4, <2>5 DEF DepsStep
<1>q. QED
  BY <1>1 DEF AppliedInv

LEMMA OnceKept ==
    ASSUME ResolutionInv, OnceInv, DataStep, UNCHANGED <<applied, br>>, SameDeps
    PROVE  OnceInv'
<1>1. AppliedInv'
  BY AppliedStays DEF OnceInv, SameDeps, DepsStep
<1>2. \A b : Fresh(b) => Fresh(b)'
  BY FreshStays DEF SameDeps
<1>3. ASSUME NEW q \in BuildProcs PROVE ListInv(q)'
  <2>1. ListInv(q) /\ br'[q] = br[q]
    BY DEF OnceInv
  <2>q. QED
    BY <1>2, <2>1 DEF ListInv, Listed
<1>q. QED
  BY <1>1, <1>3 DEF OnceInv

(* The steps of the other services *)
LEMMA OthersKeepDeps ==
    ASSUME ResolutionInv,
           \/ Environment
           \/ \E q \in RepoProcs : RepoResolver(q) \/ RepoCrash(q)
    PROVE  SameDeps /\ UNCHANGED <<applied, br>>
<1>0. /\ bld = [b \in DOMAIN bld |-> bld[b]] /\ DOMAIN bld \subseteq BuildIds
      /\ \A b \in DOMAIN bld : BuildRow(bld[b])
  BY DEF ResolutionInv, TableInv
<1>1. UNCHANGED <<applied, br>>
  <2>1. CASE Environment
    BY <2>1 DEF Environment, KojiNewRepo, KojiDeleteRepo, NewBuild, EditPackage, BuildEnds,
                BuildDeleted, Cleanup, Elsewhere, buildVars
  <2>2. ASSUME NEW q \in RepoProcs, RepoResolver(q) \/ RepoCrash(q) PROVE UNCHANGED <<applied, br>>
    BY <2>2 DEF RepoResolver, RepoCrash, LoadCollections, TryLock, ProcessRepo, GetPackages,
                ResolveRepo, WorkerFn, Consume, LastChunk, Persist, RepoFails, RepoEnds, RepoOnly,
                buildVars
  <2>q. QED
    BY <2>1, <2>2
<1>2. ASSUME NEW p \in Packages, NEW s, NewBuild(p, s) PROVE SameDeps
  <2>1. PICK n : n = 1 + pkg[p].seq
    OBVIOUS
  <2>2. bld' = [b \in DOMAIN bld \cup {<<p, n>>} |->
          IF b = <<p, n>> THEN [state |-> s, deps |-> "none", keys |-> {}, repo |-> koji.latest]
          ELSE bld[b]]
    BY <1>2, <2>1 DEF NewBuild
  <2>3. <<p, n>> \notin DOMAIN bld
    <3>1. \A b \in DOMAIN bld : b[1] = p => b[2] < n
      BY SMTT(30), <2>1 DEF ResolutionInv, BuildsInv, TableInv, PackageType, Builds, BuildIds, Numbers
    <3>2. n \in Int
      BY <2>1 DEF ResolutionInv, TableInv, PackageType, Numbers
    <3>q. QED
      BY <3>1, <3>2
  <2>q. QED
    BY <2>2, <2>3 DEF SameDeps
<1>3. ASSUME NEW b \in DOMAIN bld, BuildEnds(b) PROVE SameDeps
  <2>1. bld' = [bld EXCEPT ![b].state = "done"]
    BY <1>3 DEF BuildEnds
  <2>2. PICK row : row = bld[b]
    OBVIOUS
  <2>3. PICK new : new = [row EXCEPT !.state = "done"]
    OBVIOUS
  <2>4. new.deps = row.deps
    BY <1>0, <2>2, <2>3 DEF BuildRow
  <2>5. bld' = [bld EXCEPT ![b] = new]
    BY <1>0, <2>1, <2>2, <2>3
  <2>q. QED
    BY <1>0, <2>2, <2>4, <2>5 DEF SameDeps
<1>4. ASSUME NEW D, bld' = [c \in DOMAIN bld \ D |-> bld[c]] PROVE SameDeps
  BY <1>4 DEF SameDeps
<1>5. bld' = bld => SameDeps
  BY DEF SameDeps
<1>6. ASSUME NEW q \in RepoProcs, RepoResolver(q) \/ RepoCrash(q) PROVE bld' = bld
  BY <1>6 DEF RepoResolver, RepoCrash, LoadCollections, TryLock, ProcessRepo, GetPackages,
              ResolveRepo, WorkerFn, Consume, LastChunk, Persist, RepoFails, RepoEnds, RepoOnly
<1>7. \/ bld' = bld
      \/ \E p \in Packages : NewBuild(p, "running") \/ NewBuild(p, "done")
      \/ \E b \in DOMAIN bld : BuildEnds(b)
      \/ \E D : bld' = [c \in DOMAIN bld \ D |-> bld[c]]
  BY <1>6 DEF Environment, KojiNewRepo, KojiDeleteRepo, EditPackage, BuildDeleted, Cleanup
<1>q. QED
  BY <1>1, <1>2, <1>3, <1>4, <1>5, <1>7

LEMMA UnresolvedDeps ==
    ASSUME ResolutionInv, NEW B, ProcessUnresolved(B)
    PROVE  DepsStep /\ \A b \in DOMAIN bld \ B : bld'[b].deps = bld[b].deps
<1>1. ASSUME NEW b \in DOMAIN bld
      PROVE  bld'[b].deps = IF b \in B THEN "bad" ELSE bld[b].deps
  <2>1. CASE b \in B
    <3>1. PICK row : row = bld[b]
      OBVIOUS
    <3>2. PICK new : new = [row EXCEPT !.deps = "bad"]
      OBVIOUS
    <3>3. new.deps = "bad"
      BY <3>1, <3>2 DEF ResolutionInv, TableInv, BuildRow
    <3>4. bld'[b] = new
      BY <2>1, <3>1, <3>2 DEF ProcessUnresolved
    <3>q. QED
      BY <2>1, <3>3, <3>4
  <2>2. CASE b \notin B
    BY <2>2 DEF ProcessUnresolved
  <2>q. QED
    BY <2>1, <2>2
<1>q. QED
  BY <1>1 DEF DepsStep

(* Lists of builds *)
LEMMA UngroupedListed ==
    ASSUME NEW todo, \A t \in todo : Fresh(t.b)', \A t, u \in todo : t.b = u.b => t = u
    PROVE  Listed(Ungrouped(todo))'
<1>1. CASE todo = {}
  <2>1. Ungrouped(todo).pc = "idle"
    BY <1>1 DEF Ungrouped, Idle
  <2>q. QED
    BY <2>1 DEF Listed
<1>2. CASE todo # {}
  <2>1. PICK s : s = Ungrouped(todo)
    OBVIOUS
  <2>2. s.pc = "group" /\ s.todo = todo
    BY <1>2, <2>1 DEF Ungrouped
  <2>3. Listed(s)'
    BY <2>2 DEF Listed
  <2>q. QED
    BY <2>1, <2>3
<1>q. QED
  BY <1>1, <1>2

LEMMA OnceStep ==
    ASSUME ResolutionInv, \A a, b \in BuildProcs : a = b, AppliedInv', NEW q \in BuildProcs, NEW s,
           br' = [br EXCEPT ![q] = s], Listed(s)'
    PROVE  OnceInv'
<1>1. br'[q] = s /\ \A c \in BuildProcs : c = q
  BY DEF ResolutionInv, BuildProcsInv
<1>q. QED
  BY <1>1 DEF OnceInv, ListInv

LEMMA LoadOnce ==
    ASSUME ResolutionInv, OnceInv, \A a, b \in BuildProcs : a = b, DataStep,
           NEW q \in BuildProcs, BRLoad(q)
    PROVE  OnceInv'
<1>1. PICK todo : /\ todo = {[b |-> b, repo |-> bld[b].repo] : b \in Unprocessed}
                  /\ br' = [br EXCEPT ![q] = Ungrouped(todo)]
  BY DEF BRLoad, BuildStep
<1>2. UNCHANGED <<bld, pkg, applied>>
  BY DEF BRLoad
<1>3. AppliedInv'
  BY <1>2, AppliedStays DEF OnceInv, DepsStep
<1>4. \A b \in Unprocessed : Fresh(b)
  <2>1. TAKE b \in Unprocessed
  <2>2. b \in DOMAIN bld /\ bld[b].deps = "none" /\ b \in BuildIds /\ b[1] \in Packages /\ b[2] \in Numbers
    BY DEF Unprocessed, ResolutionInv, TableInv, BuildIds
  <2>3. b \in Builds(b[1])
    BY <2>2 DEF Builds
  <2>4. b[2] <= pkg[b[1]].last /\ pkg[b[1]].last <= pkg[b[1]].seq
    BY <2>2, <2>3 DEF ResolutionInv, BuildsInv
  <2>q. QED
    BY <2>2, <2>4 DEF Fresh, ResolutionInv, TableInv, PackageType, Numbers
<1>5. \A t \in todo : t.b \in Unprocessed /\ t = [b |-> t.b, repo |-> bld[t.b].repo]
  BY <1>1
<1>6. \A t \in todo : Fresh(t.b)'
  BY <1>2, <1>4, <1>5 DEF Fresh
<1>7. Listed(Ungrouped(todo))'
  BY <1>5, <1>6, UngroupedListed
<1>q. QED
  BY <1>1, <1>3, <1>7, OnceStep

LEMMA GroupOnce ==
    ASSUME ResolutionInv, OnceInv, \A a, b \in BuildProcs : a = b, DataStep,
           NEW q \in BuildProcs, BRGroup(q)
    PROVE  OnceInv'
<1>1. PICK l : l = br[q] /\ l.pc = "group" /\ Listed(l)
  BY DEF BRGroup, OnceInv, ListInv
<1>2. PICK first, rest, rows : /\ first = FirstGroup(q) /\ rest = l.todo \ first
                               /\ rows = {t.b : t \in first}
  OBVIOUS
<1>3. /\ first \subseteq l.todo /\ \A t \in l.todo : Fresh(t.b)
      /\ \A t, u \in l.todo : t.b = u.b => t = u
      /\ rows = GroupRows(q) /\ applied' = applied
  BY <1>1, <1>2 DEF FirstGroup, Listed, GroupRows, BRGroup
<1>4. \A t \in rest : t \in l.todo /\ t.b \notin rows
  BY <1>2, <1>3
<1>5. CASE ProcessUnresolved(rows) /\ br' = [br EXCEPT ![q] = Ungrouped(rest)]
  <2>1. DepsStep /\ \A b \in DOMAIN bld \ rows : bld'[b].deps = bld[b].deps
    BY <1>5, UnresolvedDeps
  <2>2. AppliedInv'
    BY <1>3, <2>1, AppliedStays DEF OnceInv
  <2>3. \A t \in rest : Fresh(t.b)'
    BY <1>3, <1>4, <2>1, FreshStays
  <2>4. Listed(Ungrouped(rest))'
    BY <1>3, <1>4, <2>3, UngroupedListed
  <2>q. QED
    BY <1>5, <2>2, <2>4, OnceStep
<1>6. CASE UNCHANGED <<bld, pkg>>
  <2>1. AppliedInv' /\ \A b : Fresh(b) => Fresh(b)'
    BY <1>3, <1>6, AppliedStays DEF OnceInv, DepsStep, Fresh
  <2>2. CASE br' = [br EXCEPT ![q] = Ungrouped(rest)]
    <3>1. Listed(Ungrouped(rest))'
      BY <1>3, <1>4, <2>1, UngroupedListed
    <3>q. QED
      BY <2>1, <2>2, <3>1, OnceStep
  <2>3. CASE br' = [br EXCEPT ![q] = [pc |-> "build", repo |-> GroupRepo(q), group |-> rows, todo |-> rest]]
    <3>1. PICK s : s = [pc |-> "build", repo |-> GroupRepo(q), group |-> rows, todo |-> rest]
      OBVIOUS
    <3>2. s.pc = "build" /\ s.group = rows /\ s.todo = rest
      BY <3>1
    <3>3. \A b \in rows : Fresh(b)
      BY <1>2, <1>3
    <3>4. Listed(s)'
      BY <1>3, <1>4, <2>1, <3>2, <3>3 DEF Listed
    <3>q. QED
      BY <2>1, <2>3, <3>1, <3>4, OnceStep
  <2>q. QED
    BY <1>1, <1>2, <1>3, <1>6, <2>2, <2>3 DEF BRGroup, BuildStep, ProcessUnresolved
<1>q. QED
  BY <1>1, <1>2, <1>3, <1>5, <1>6 DEF BRGroup, BuildStep

LEMMA UnresolvedOnce ==
    ASSUME ResolutionInv, OnceInv, \A a, b \in BuildProcs : a = b, DataStep,
           NEW q \in BuildProcs, NEW b, BRUnresolved(q, b)
    PROVE  OnceInv'
<1>1. PICK l : l = br[q] /\ l.pc = "build" /\ Listed(l)
  BY DEF BRUnresolved, OnceInv, ListInv
<1>2. /\ b \in l.group /\ applied' = applied /\ ProcessUnresolved({b} \cap DOMAIN bld)
      /\ br' = [br EXCEPT ![q] = Taken(q, b)]
  BY <1>1 DEF BRUnresolved, BuildStep
<1>3. /\ \A t \in l.todo : Fresh(t.b) /\ t.b # b
      /\ \A t, u \in l.todo : t.b = u.b => t = u
      /\ \A c \in l.group : Fresh(c) /\ \A t \in l.todo : t.b # c
  BY <1>1, <1>2 DEF Listed
<1>4. DepsStep /\ \A c \in DOMAIN bld : c # b => bld'[c].deps = bld[c].deps
  BY <1>2, UnresolvedDeps
<1>5. AppliedInv'
  BY <1>2, <1>4, AppliedStays DEF OnceInv
<1>6. \A c : Fresh(c) /\ c # b => Fresh(c)'
  BY <1>4, FreshStays
<1>7. PICK s : s = Taken(q, b)
  OBVIOUS
<1>8. s.pc = "build" /\ s.group = l.group \ {b} /\ s.todo = l.todo
  BY <1>1, <1>7 DEF Taken
<1>9. Listed(s)'
  BY <1>3, <1>6, <1>8 DEF Listed
<1>q. QED
  BY <1>2, <1>5, <1>7, <1>9, OnceStep

LEMMA BuildOnce ==
    ASSUME ResolutionInv, OnceInv, \A a, b \in BuildProcs : a = b, DataStep,
           NEW q \in BuildProcs, NEW b, NEW n, BRBuild(q, b, n)
    PROVE  OnceInv'
<1>1. PICK l : l = br[q] /\ l.pc = "build" /\ Listed(l)
  BY DEF BRBuild, OnceInv, ListInv
<1>2. UNCHANGED <<bld, pkg, applied>> /\ b \in l.group
  BY <1>1 DEF BRBuild
<1>3. AppliedInv' /\ \A c : Fresh(c) => Fresh(c)'
  BY <1>2, AppliedStays DEF OnceInv, DepsStep, Fresh
<1>4. PICK k \in BOOLEAN : k = (PrevKeys(b) # {})
  OBVIOUS
<1>5. PICK s, repo, ins, id, change :
        /\ s = [pc |-> "commit", repo |-> repo, group |-> l.group \ {b}, todo |-> l.todo, b |-> b,
                prev |-> PrevOf(b), clears |-> k, ins |-> ins, n |-> n, id |-> id,
                change |-> change]
        /\ br' = [br EXCEPT ![q] = s]
  BY <1>1, <1>4 DEF BRBuild, BuildStep
<1>6. s.pc = "commit" /\ s.group = l.group \ {b} /\ s.todo = l.todo /\ s.b = b
  BY <1>5
<1>7. /\ \A t \in l.todo : Fresh(t.b)
      /\ \A t, u \in l.todo : t.b = u.b => t = u
      /\ \A c \in l.group : Fresh(c) /\ \A t \in l.todo : t.b # c
  BY <1>1 DEF Listed
<1>8. Listed(s)'
  BY <1>2, <1>3, <1>6, <1>7 DEF Listed
<1>q. QED
  BY <1>3, <1>5, <1>8, OnceStep

LEMMA CommitOnce ==
    ASSUME ResolutionInv, OnceInv, \A a, b \in BuildProcs : a = b, DataStep,
           NEW q \in BuildProcs, BRCommit(q)
    PROVE  OnceInv'
<1>1. PICK l : l = br[q] /\ l.pc = "commit" /\ Listed(l)
  BY DEF BRCommit, OnceInv, ListInv
<1>2. l.b \in DOMAIN bld /\ l.b \in BuildIds
  BY <1>1 DEF ResolutionInv, BuildProcsInv, BuildInv, TableInv
<1>3. Fresh(l.b) /\ bld[l.b].deps = "none" /\ applied[l.b] = 0
  BY <1>1, <1>2 DEF Listed, Fresh, OnceInv, AppliedInv
<1>4. \A b \in DOMAIN bld : bld'[b].deps = IF b = l.b THEN "ok" ELSE bld[b].deps
  <2>1. TAKE b \in DOMAIN bld
  <2>2. PICK row : row = bld[b] /\ BuildRow(row)
    BY DEF ResolutionInv, TableInv
  <2>3. CASE b = l.b
    <3>1. PICK new : new = [row EXCEPT !.deps = "ok", !.keys = {l.id}]
      OBVIOUS
    <3>2. new.deps = "ok"
      BY <2>2, <3>1 DEF BuildRow
    <3>3. bld'[b] = new
      BY <1>1, <2>2, <2>3, <3>1 DEF BRCommit
    <3>q. QED
      BY <2>3, <3>2, <3>3
  <2>4. CASE b # l.b /\ b \in ClearedPrev(q)
    <3>1. PICK new : new = [row EXCEPT !.keys = {}]
      OBVIOUS
    <3>2. new.deps = row.deps
      BY <2>2, <3>1 DEF BuildRow
    <3>3. bld'[b] = new
      BY <1>1, <2>2, <2>4, <3>1 DEF BRCommit
    <3>q. QED
      BY <2>2, <2>4, <3>2, <3>3
  <2>5. CASE b # l.b /\ b \notin ClearedPrev(q)
    BY <1>1, <2>5 DEF BRCommit
  <2>q. QED
    BY <2>3, <2>4, <2>5
<1>5. PICK k \in {0, 1} : applied' = [applied EXCEPT ![l.b] = k]
  <2>1. applied' = [applied EXCEPT ![l.b] = IF l.change = {} THEN @ ELSE @ + 1]
    BY <1>1 DEF BRCommit
  <2>2. CASE l.change = {}
    <3>1. applied' = [applied EXCEPT ![l.b] = 0]
      BY <1>3, <2>1, <2>2 DEF OnceInv, AppliedInv
    <3>q. QED
      BY <3>1
  <2>3. CASE l.change # {}
    <3>1. applied' = [applied EXCEPT ![l.b] = applied[l.b] + 1]
      BY <1>2, <2>1, <2>3 DEF OnceInv, AppliedInv
    <3>2. applied[l.b] + 1 = 1
      BY <1>3
    <3>q. QED
      BY <3>1, <3>2
  <2>q. QED
    BY <2>2, <2>3
<1>6. AppliedInv'
  <2>1. /\ DOMAIN applied' = BuildIds /\ applied' = [b \in BuildIds |-> applied'[b]]
        /\ \A b \in BuildIds : applied'[b] = IF b = l.b THEN k ELSE applied[b]
    BY <1>2, <1>5 DEF OnceInv, AppliedInv
  <2>2. DOMAIN bld' = DOMAIN bld /\ pkg' = pkg
    BY DEF BRCommit
  <2>3. ASSUME NEW b \in BuildIds
        PROVE  /\ applied'[b] \in {0, 1} /\ (applied'[b] = 1 => b[2] <= pkg[b[1]].seq)
               /\ b \in DOMAIN bld /\ bld'[b].deps = "none" => applied'[b] = 0
    <3>1. CASE b = l.b
      BY <1>2, <1>3, <1>4, <2>1, <3>1 DEF Fresh
    <3>2. CASE b # l.b
      BY <1>4, <2>1, <3>2 DEF OnceInv, AppliedInv
    <3>q. QED
      BY <3>1, <3>2
  <2>q. QED
    BY <2>1, <2>2, <2>3 DEF AppliedInv
<1>7. \A c : Fresh(c) /\ c # l.b => Fresh(c)'
  BY <1>4, FreshStays
<1>8. PICK s : s = Restored(q) /\ br' = [br EXCEPT ![q] = s]
  BY DEF BRCommit, BuildStep
<1>9. s.pc = "build" /\ s.group = l.group /\ s.todo = l.todo
  BY <1>1, <1>8 DEF Restored
<1>10. /\ \A t \in l.todo : Fresh(t.b) /\ t.b # l.b
       /\ \A t, u \in l.todo : t.b = u.b => t = u
       /\ \A c \in l.group : c # l.b /\ Fresh(c) /\ \A t \in l.todo : t.b # c
  BY <1>1 DEF Listed
<1>11. Listed(s)'
  BY <1>7, <1>9, <1>10 DEF Listed
<1>q. QED
  BY <1>6, <1>8, <1>11, OnceStep

LEMMA AsideOnce ==
    ASSUME ResolutionInv, OnceInv, \A a, b \in BuildProcs : a = b, DataStep, NEW q \in BuildProcs,
           BRUnlock(q) \/ BRRollback(q) \/ BRFails(q) \/ BRCrash(q)
    PROVE  OnceInv'
<1>1. PICK l : l = br[q] /\ Listed(l)
  BY DEF OnceInv, ListInv
<1>2. UNCHANGED <<bld, pkg, applied>>
  BY DEF BRUnlock, BRRollback, BRFails, BRCrash, BREnds
<1>3. AppliedInv' /\ \A c : Fresh(c) => Fresh(c)'
  BY <1>2, AppliedStays DEF OnceInv, DepsStep, Fresh
<1>4. CASE BRUnlock(q)
  <2>1. br' = [br EXCEPT ![q] = Ungrouped(l.todo)] /\ l.pc = "build"
    BY <1>1, <1>4 DEF BRUnlock, BuildStep
  <2>2. Listed(Ungrouped(l.todo))'
    BY <1>1, <1>3, <2>1, UngroupedListed DEF Listed
  <2>q. QED
    BY <1>3, <2>1, <2>2, OnceStep
<1>5. CASE BRRollback(q)
  <2>1. PICK s : s = Restored(q) /\ br' = [br EXCEPT ![q] = s] /\ l.pc = "commit"
    BY <1>1, <1>5 DEF BRRollback, BuildStep
  <2>2. s.pc = "build" /\ s.group = l.group /\ s.todo = l.todo
    BY <1>1, <2>1 DEF Restored
  <2>3. Listed(s)'
    BY <1>1, <1>3, <2>1, <2>2 DEF Listed
  <2>q. QED
    BY <1>3, <2>1, <2>3, OnceStep
<1>6. CASE BRFails(q) \/ BRCrash(q)
  <2>1. PICK s : s = Idle /\ br' = [br EXCEPT ![q] = s]
    BY <1>6 DEF BRFails, BRCrash, BREnds, BuildStep
  <2>2. s.pc = "idle"
    BY <2>1 DEF Idle
  <2>3. Listed(s)'
    BY <2>2 DEF Listed
  <2>q. QED
    BY <1>3, <2>1, <2>3, OnceStep
<1>q. QED
  BY <1>4, <1>5, <1>6

(* The changes of a build are inserted once by the one build_resolver that is  *)
(* deployed, although crashes, rollbacks and dead repos make it list builds   *)
(* again: a listed build has no dependencies yet, or its row is gone for good. *)
THEOREM ChangesAppliedOnce ==
    ASSUME \A a, b \in BuildProcs : a = b
    PROVE  Spec => []AppliedOnce
<1>1. Init => OnceInv
  <2> SUFFICES ASSUME Init PROVE OnceInv
    OBVIOUS
  <2>1. AppliedInv
    <3>1. applied = [b \in BuildIds |-> 0]
      BY DEF Init, BuildIds, Numbers
    <3>q. QED
      BY <3>1 DEF AppliedInv
  <2>2. ASSUME NEW q \in BuildProcs PROVE ListInv(q)
    <3>1. br[q].pc = "idle"
      BY DEF Init, Idle
    <3>q. QED
      BY <3>1 DEF ListInv, Listed
  <2>q. QED
    BY <2>1, <2>2 DEF OnceInv
<1>2. ResolutionInv /\ OnceInv /\ [Next]_vars => OnceInv'
  <2> SUFFICES ASSUME ResolutionInv, OnceInv, [Next]_vars PROVE OnceInv'
    OBVIOUS
  <2>1. CASE UNCHANGED vars
    BY <2>1 DEF vars, OnceInv, AppliedInv, ListInv, Listed, Fresh
  <2>2. CASE Environment
    <3>1. DataStep
      BY <2>2, EnvironmentStep DEF SafeStep
    <3>q. QED
      BY <2>2, <3>1, OthersKeepDeps, OnceKept
  <2>3. ASSUME NEW q \in RepoProcs, RepoResolver(q) \/ RepoCrash(q) PROVE OnceInv'
    <3>1. DataStep
      BY <2>3, RepoResolverStep
    <3>q. QED
      BY <2>3, <3>1, OthersKeepDeps, OnceKept
  <2>4. ASSUME NEW q \in BuildProcs, BuildResolver(q) \/ BRCrash(q) PROVE OnceInv'
    <3>1. DataStep
      BY <2>4, BuildResolverStep DEF SafeStep
    <3>q. QED
      BY <2>4, <3>1, LoadOnce, GroupOnce, UnresolvedOnce, BuildOnce, CommitOnce, AsideOnce
         DEF BuildResolver
  <2>q. QED
    BY <2>1, <2>2, <2>3, <2>4 DEF Next
<1>3. OnceInv => AppliedOnce
  <2> SUFFICES ASSUME OnceInv, NEW b \in DOMAIN applied PROVE applied[b] <= 1
    BY DEF AppliedOnce
  <2>1. applied[b] \in {0, 1}
    BY DEF OnceInv, AppliedInv
  <2>q. QED
    BY <2>1
<1>q. QED
  BY <1>1, <1>2, <1>3, ResolutionInvariant, PTL DEF Spec
===============================================================================
