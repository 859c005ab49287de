------------------------------- MODULE Models -------------------------------
(***************************************************************************)
(* The tables of models.py as create_all makes them in a new database, one *)
(* definition for each class.  A column is "default" when it has a         *)
(* server_default; a client-side default does not count.                   *)
(***************************************************************************)
EXTENDS Schema

Table(t, f) == f @@ (<<t>> :> Object("table", {}, ""))

User == Table("user",
    Required("user", {"id", "name"}) @@ Defaulted("user", {"admin"}) @@
    Index("user", "user_name_key", {"name"}))

Collection == Table("collection",
    Required("collection", {"id", "name", "display_name", "target", "dest_tag", "build_tag"}) @@
    Defaulted("collection", {"order", "secondary_mode", "priority_coefficient", "build_group",
                             "poll_untracked"}) @@
    Nullable("collection", {"bugzilla_product", "bugzilla_version", "latest_repo_id",
                            "latest_repo_resolved"}) @@
    Index("collection", "collection_name_key", {"name"}) @@
    Check("collection", "collection_latest_repo_id_check", {"latest_repo_resolved", "latest_repo_id"}))

CollectionGroup == Table("collection_group",
    Required("collection_group", {"id", "name", "display_name"}) @@
    Index("collection_group", "collection_group_name_key", {"name"}))

CollectionGroupRelation == Table("collection_group_relation",
    Required("collection_group_relation", {"group_id", "collection_id"}) @@
    ForeignKey("collection_group_relation", "group_id", "collection_group", "cascade") @@
    ForeignKey("collection_group_relation", "collection_id", "collection", "cascade"))

BasePackage == Table("base_package",
    Required("base_package", {"id", "name"}) @@ Defaulted("base_package", {"all_blocked"}) @@
    Index("base_package", "base_package_name_key", {"name"}))

Package == Table("package",
    Required("package", {"id", "base_id", "name", "collection_id"}) @@
    Nullable("package", {"arch_override", "last_complete_build_id", "last_complete_build_state",
                         "last_build_id", "resolved", "scheduler_skip_reason"}) @@
    Defaulted("package", {"skip_resolution", "static_priority", "manual_priority", "build_priority",
                          "dependency_priority", "tracked", "blocked"}) @@
    ForeignKey("package", "base_id", "base_package", "cascade") @@
    ForeignKey("package", "collection_id", "collection", "cascade") @@
    NamedKey("package", "fkey_package_last_complete_build_id", "last_complete_build_id", "build", "fkey") @@
    NamedKey("package", "fkey_package_last_build_id", "last_build_id", "build", "set null") @@
    Index("package", "ix_package_name", {"name"}) @@
    Index("package", "ix_package_collection_id", {"collection_id", "tracked"}) @@
    Index("package", "package_unique_in_collection", {"base_id", "collection_id"}) @@
    Check("package", "package_skip_resolution_check", {"skip_resolution", "resolved"}))

KojiTask == Table("koji_task",
    Required("koji_task", {"id", "build_id", "task_id", "arch", "state", "started"}) @@
    Nullable("koji_task", {"finished"}) @@
    ForeignKey("koji_task", "build_id", "build", "cascade") @@
    Index("koji_task", "ix_koji_task_build_id", {"build_id"}) @@
    Check("koji_task", "koji_task_state_check", {"state"}))

PackageGroupRelation == Table("package_group_relation",
    Required("package_group_relation", {"group_id", "base_id"}) @@
    ForeignKey("package_group_relation", "group_id", "package_group", "cascade") @@
    ForeignKey("package_group_relation", "base_id", "base_package", "cascade") @@
    Index("package_group_relation", "ix_package_group_relation_base_id", {"base_id"}))

GroupACL == Table("group_acl",
    Required("group_acl", {"group_id", "user_id"}) @@
    ForeignKey("group_acl", "group_id", "package_group", "cascade") @@
    ForeignKey("group_acl", "user_id", "user", "cascade"))

PackageGroup == Table("package_group",
    Required("package_group", {"id", "name"}) @@ Nullable("package_group", {"namespace"}) @@
    Index("package_group", "ix_package_group_name", {"namespace", "name"}))

(* task_id and started have no default; last_complete has one in Python only *)
Build == Table("build",
    Required("build", {"id", "state", "task_id", "started", "last_complete"}) @@
    Nullable("build", {"package_id", "finished", "epoch", "version", "release", "repo_id",
                       "deps_resolved", "dependency_keys"}) @@
    Defaulted("build", {"cancel_requested", "real", "untagged"}) @@
    ForeignKey("build", "package_id", "package", "cascade") @@
    Index("build", "ix_build_composite", {"package_id", "started"}) @@
    Index("build", "ix_builds_unprocessed", {"task_id", "deps_resolved", "repo_id"}) @@
    Index("build", "ix_builds_last_complete", {"package_id", "task_id", "last_complete"}) @@
    Check("build", "build_state_check", {"state"}) @@
    Check("build", "build_repo_id_check", {"state", "repo_id"}) @@
    Check("build", "build_version_check", {"state", "version"}) @@
    Check("build", "build_release_check", {"state", "release"}) @@
    Check("build", "build_real_complete_check", {"real", "state"}))

ResolutionChange == Table("resolution_change",
    Required("resolution_change", {"id", "resolved", "package_id"}) @@
    Defaulted("resolution_change", {"timestamp"}) @@
    ForeignKey("resolution_change", "package_id", "package", "cascade") @@
    Index("resolution_change", "ix_resolution_change_package_id", {"package_id"}))

ResolutionProblem == Table("resolution_problem",
    Required("resolution_problem", {"id", "resolution_id", "problem"}) @@
    ForeignKey("resolution_problem", "resolution_id", "resolution_change", "cascade") @@
    Index("resolution_problem", "ix_resolution_problem_resolution_id", {"resolution_id"}))

Dependency == Table("dependency",
    Required("dependency", {"id", "name", "version", "release", "arch"}) @@
    Nullable("dependency", {"epoch"}) @@
    Index("dependency", "ix_dependency_composite", {"name", "epoch", "version", "release", "arch"}))

Change(t, owner) ==
    Required(t, {"id", owner}) @@ Nullable(t, {"prev_dep_id", "curr_dep_id", "distance"}) @@
    ForeignKey(t, "prev_dep_id", "dependency", "fkey") @@
    ForeignKey(t, "curr_dep_id", "dependency", "fkey")

AppliedChange == Table("applied_change",
    Change("applied_change", "build_id") @@
    ForeignKey("applied_change", "build_id", "build", "cascade") @@
    Index("applied_change", "ix_applied_change_build_id", {"build_id"}) @@
    Index("applied_change", "ix_applied_change_prev_dep_id", {"prev_dep_id"}) @@
    Index("applied_change", "ix_applied_change_curr_dep_id", {"curr_dep_id"}) @@
    Check("applied_change", "applied_change_dep_id_check", {"prev_dep_id", "curr_dep_id"}))

UnappliedChange == Table("unapplied_change",
    Change("unapplied_change", "package_id") @@
    ForeignKey("unapplied_change", "package_id", "package", "cascade") @@
    Index("unapplied_change", "ix_unapplied_change_package_id", {"package_id"}) @@
    Index("unapplied_change", "ix_unapplied_change_prev_dep_id", {"prev_dep_id"}) @@
    Index("unapplied_change", "ix_unapplied_change_curr_dep_id", {"curr_dep_id"}) @@
    Check("unapplied_change", "unapplied_change_dep_id_check", {"prev_dep_id", "curr_dep_id"}))

BuildrootProblem == Table("buildroot_problem",
    Required("buildroot_problem", {"id", "problem"}) @@ Nullable("buildroot_problem", {"collection_id"}) @@
    ForeignKey("buildroot_problem", "collection_id", "collection", "cascade") @@
    Index("buildroot_problem", "ix_buildroot_problem_collection_id", {"collection_id"}))

AdminNotice == Table("admin_notice", Required("admin_notice", {"key", "content"}))

LogEntry == Table("log_entry",
    Required("log_entry", {"id", "environment", "message"}) @@
    Nullable("log_entry", {"user_id", "base_id"}) @@ Defaulted("log_entry", {"timestamp"}) @@
    ForeignKey("log_entry", "user_id", "user", "cascade") @@
    ForeignKey("log_entry", "base_id", "base_package", "cascade") @@
    Check("log_entry", "log_entry_user_id_check", {"user_id", "environment"}) @@
    Type("log_environment"))

RepoMapping == Table("repo_mapping",
    Required("repo_mapping", {"secondary_id", "task_id"}) @@ Nullable("repo_mapping", {"primary_id"}))

CoprRebuildRequest == Table("copr_rebuild_request",
    Required("copr_rebuild_request", {"id", "user_id", "collection_id", "repo_source"}) @@
    Defaulted("copr_rebuild_request", {"timestamp", "state"}) @@
    Nullable("copr_rebuild_request", {"yum_repo", "description", "repo_id", "schedule_count",
                                      "scheduler_queue_index", "error"}) @@
    ForeignKey("copr_rebuild_request", "user_id", "user", "cascade") @@
    ForeignKey("copr_rebuild_request", "collection_id", "collection", "cascade") @@
    Type("rebuild_request_state"))

CoprResolutionChange == Table("copr_resolution_change",
    Required("copr_resolution_change", {"request_id", "package_id", "prev_resolved", "curr_resolved"}) @@
    Nullable("copr_resolution_change", {"problems"}) @@
    ForeignKey("copr_resolution_change", "request_id", "copr_rebuild_request", "cascade") @@
    ForeignKey("copr_resolution_change", "package_id", "package", "cascade"))

CoprRebuild == Table("copr_rebuild",
    Required("copr_rebuild", {"request_id", "package_id", "prev_state", "order"}) @@
    Nullable("copr_rebuild", {"copr_build_id", "state", "approved"}) @@
    ForeignKey("copr_rebuild", "request_id", "copr_rebuild_request", "cascade") @@
    ForeignKey("copr_rebuild", "package_id", "package", "cascade") @@
    Index("copr_rebuild", "copr_rebuild_order", {"request_id", "package_id", "order"}) @@
    Check("copr_rebuild", "copr_rebuild_scheduled_build_has_copr_id_check", {"state", "copr_build_id"}) @@
    Check("copr_rebuild", "copr_rebuild_state_check", {"state"}))

(* the sequence of its id is owned by the table *)
BuildGroup == Table("build_group",
    Required("build_group", {"id"}) @@
    Nullable("build_group", {"repo_id", "collection_id", "base_collection_id", "state"}) @@
    ForeignKey("build_group", "base_collection_id", "collection", "set null") @@
    ForeignKey("build_group", "collection_id", "collection", "set null"))

ScalarStats == Table("scalar_stats", Required("scalar_stats",
    {"refresh_time", "packages", "tracked_packages", "blocked_packages", "builds", "real_builds",
     "scratch_builds"}))

ResourceConsumptionStats == Table("resource_consumption_stats",
    Required("resource_consumption_stats", {"name", "arch"}) @@
    Nullable("resource_consumption_stats", {"time", "time_percentage"}) @@
    Index("resource_consumption_stats", "ix_resource_consumption_stats_time", {"time"}))

(* triggers.sql and rpmvercmp.sql *)
Triggers ==
    Function("update_last_build(integer)", "1") @@ Function("update_last_build_trigger()", "1") @@
    Function("update_last_build_del()", "7") @@ Function("update_all_blocked()", "2") @@
    Trigger("build", "update_last_build_trigger", "insert", "update_last_build_trigger()") @@
    Trigger("build", "update_last_build_trigger_up", "update state or untagged",
            "update_last_build_trigger()") @@
    Trigger("build", "update_last_build_trigger_del", "after delete", "update_last_build_del()") @@
    Trigger("package", "update_all_blocked_trigger", "any blocked", "update_all_blocked()")
Rpmvercmp == Function("rpmvercmp()", "3") @@ Function("rpmvercmp_evr()", "2")

CreateAll ==
    (<<"db">> :> Object("table", {}, "")) @@ User @@ Collection @@ CollectionGroup @@
    CollectionGroupRelation @@ BasePackage @@ Package @@ KojiTask @@ PackageGroupRelation @@
    GroupACL @@ PackageGroup @@ Build @@ ResolutionChange @@ ResolutionProblem @@ Dependency @@
    AppliedChange @@ UnappliedChange @@ BuildrootProblem @@ AdminNotice @@ LogEntry @@ RepoMapping @@
    CoprRebuildRequest @@ CoprResolutionChange @@ CoprRebuild @@ BuildGroup @@ Triggers @@
    Rpmvercmp @@ ScalarStats @@ ResourceConsumptionStats
=============================================================================
