---------------------------- MODULE Migrations ----------------------------
(***************************************************************************)
(* The database schema under alembic: a database of the time before the    *)
(* first revision that was migrated ever since, or one that                *)
(* `koschei-admin create-db' made from models.py and stamped with the      *)
(* newest revision; then any sequence of `alembic upgrade +1' and          *)
(* `alembic downgrade -1'.  A statement that fails rolls the whole command *)
(* back, so a failing command is a step that is not taken.                 *)
(***************************************************************************)
EXTENDS Revisions, Models

VARIABLES
    rev,        \* alembic_version, as the number of revisions applied
    schema,
    populated,  \* the tables have rows
    furthest    \* the newest revision the database has been at

vars == <<rev, schema, populated, furthest>>

Newest == Len(Revisions)

(* what the oldest revisions find in the database *)
BaseSchema ==
    (<<"db">> :> Object("table", {}, "")) @@
    Table("package", Required("package", {"id", "name", "manual_priority", "static_priority"}) @@
        Defaulted("package", {"added"}) @@ Index("package", "package_name_key", {"name"})) @@
    Table("build", Required("build", {"id", "state"}) @@
        Nullable("build", {"package_id", "task_id", "started", "finished", "logs_downloaded"}) @@
        ForeignKey("build", "package_id", "package", "fkey")) @@
    Table("repo", Required("repo", {"id"})) @@
    Table("dependency", Required("dependency", {"id", "name", "evr", "arch"}) @@
        Nullable("dependency", {"package_id", "repo_id"}) @@
        ForeignKey("dependency", "package_id", "package", "fkey") @@
        ForeignKey("dependency", "repo_id", "repo", "fkey")) @@
    Table("dependency_change", Required("dependency_change", {"id", "dep_name"}) @@
        Nullable("dependency_change", {"package_id", "prev_dep_evr", "curr_dep_evr", "weight"}) @@
        ForeignKey("dependency_change", "package_id", "package", "fkey")) @@
    Table("build_trigger", Required("build_trigger", {"id"}) @@
        Nullable("build_trigger", {"build_id", "comment"}) @@
        ForeignKey("build_trigger", "build_id", "build", "fkey"))

Init ==
    /\ populated = FALSE
    /\ \/ rev = 0 /\ schema = BaseSchema
       \/ rev = Newest /\ schema = CreateAll     \* create-db and stamp
    /\ furthest = rev

(* a command in one transaction *)
Migrate(ops, k) ==
    LET after == Run(schema, ops, populated)
    IN  /\ after # Failed
        /\ schema' = after
        /\ rev' = k
        /\ furthest' = IF k > furthest THEN k ELSE furthest
        /\ UNCHANGED populated

Upgrade ==
    /\ rev < Newest
    /\ Revisions[rev + 1].obsolete => rev = furthest
    /\ Migrate(Revisions[rev + 1].up, rev + 1)

Downgrade ==
    /\ rev > 0
    /\ Migrate(Revisions[rev].down, rev - 1)

(* the services run at some revision and write rows *)
Populate ==
    /\ ~ populated
    /\ populated' = TRUE
    /\ UNCHANGED <<rev, schema, furthest>>

Next == Upgrade \/ Downgrade \/ Populate

Spec == Init /\ [][Next]_vars
-----------------------------------------------------------------------------
ColumnsOf(s) == {k \in DOMAIN s : s[k].kind \in ColumnKinds}

(* a row that models.py writes to a column that is `want' there also fits a
   column that is `have' in the database *)
Accepts(have, want) ==
    \/ have = want
    \/ want = "not null" /\ have \in ColumnKinds

(* a constraint or a key under any name *)
Enforced(s, k) ==
    \E j \in DOMAIN s : j[1] = k[1] /\ s[j] = CreateAll[k]

(* models.py: "TODO migration" *)
Unmigrated == {"copr_rebuild", "copr_rebuild_request"}

(* The code that runs at the newest revision finds the tables that models.py
   declares, whichever way the database got there: every column exists and
   takes what the ORM writes, a column models.py does not know has a default
   or may be NULL, and, outside the tables models.py marks as not migrated,
   every key, check, index, function and trigger is there too. *)
NewestFitsModels == rev = Newest =>
    /\ \A k \in ColumnsOf(CreateAll) :
          k \in ColumnsOf(schema) /\ Accepts(schema[k].kind, CreateAll[k].kind)
    /\ \A k \in ColumnsOf(schema) \ ColumnsOf(CreateAll) : schema[k].kind # "not null"
    /\ \A k \in DOMAIN CreateAll \ ColumnsOf(CreateAll) :
          k[1] \in Unmigrated \/ Enforced(schema, k)

(* UniqueTaskId, UpdateResolvedManually, DropTaskIdIndex and CreateBuildGroup:
   their downgrade does not undo what their upgrade did *)
OneWay == {33, 34, 63, 120}

(* s is part of t *)
Keeps(s, t) == \A k \in DOMAIN s : k[1] \in Unmigrated \/ (k \in DOMAIN t /\ t[k] = s[k])

(* What alembic/README.md has a developer test of each revision ("downgrading
   DB, upgrading DB, and then comparing schema with initial one"), here for
   any database and after any history: a downgrade can be followed by the
   upgrade, which gives the schema back.  OneWay names the revisions of which
   this is not true. *)
UpgradeAfterDowngrade ==
    [][\A k \in 1..Newest \ OneWay :
          rev = k /\ rev' = k - 1 /\ ~ Revisions[k].obsolete =>
             LET again == Run(schema', Revisions[k].up, populated)
             IN  again # Failed /\ Keeps(schema, again)]_vars

=============================================================================
