------------------------------ MODULE Revisions ------------------------------
(***************************************************************************)
(* The revisions under alembic/versions, one definition for each file, in  *)
(* the order of down_revision: the statements of upgrade(), then those of  *)
(* downgrade().  Statements that only move data are left out; a DELETE     *)
(* that empties a table makes a later NOT NULL column a Create, otherwise  *)
(* a required column without default is an Add, which fails on rows.       *)
(***************************************************************************)
EXTENDS Schema

(* 44ee2dab26cb *)
AddPackageState == Revision(
    <<Create(Defaulted("package", {"state"}))>>,
    <<Drop("package", {"state"})>>)

(* 39edf88c532a *)
PackageChange ==
    Required("package_change", {"id", "package_id"}) @@
    Nullable("package_change", {"prev_state", "curr_state", "applied_in_id"}) @@
    ForeignKey("package_change", "applied_in_id", "build", "fkey") @@
    ForeignKey("package_change", "package_id", "package", "fkey")
Refactored == Revision(
    <<CreateTable("package_change", PackageChange), DropTable("build_trigger"),
      Create(Nullable("dependency_change", {"applied_in_id"})),
      Alter(Required("dependency_change", {"package_id"}))>>,
    <<Alter(Nullable("dependency_change", {"package_id"})),
      Drop("dependency_change", {"applied_in_id"}),
      Raise>>)     \* DEFAULT nextval of a sequence that went with its table

(* 2cd60d55e403 *)
BuildrootDiff ==
    Required("buildroot_diff", {"id"}) @@
    Nullable("buildroot_diff", {"prev_build_id", "curr_build_id", "arch", "added", "removed"}) @@
    ForeignKey("buildroot_diff", "curr_build_id", "build", "fkey") @@
    ForeignKey("buildroot_diff", "prev_build_id", "build", "fkey")
AddBuildrootDiff == Revision(
    <<CreateTable("buildroot_diff", BuildrootDiff)>>, <<DropTable("buildroot_diff")>>)

(* 4db3e31c9b96 *)
AddPackageGroupTables == Revision(
    <<CreateTable("package_group", Required("package_group", {"id", "name"})),
      CreateTable("package_group_relation",
        Required("package_group_relation", {"group_id", "package_id"}) @@
        ForeignKey("package_group_relation", "group_id", "package_group", "fkey") @@
        ForeignKey("package_group_relation", "package_id", "package", "fkey"))>>,
    <<DropTable("package_group_relation"), DropTable("package_group")>>)

(* 403ac9cde8bc *)
ResolutionResult ==
    Required("resolution_result", {"id", "resolved"}) @@
    Nullable("resolution_result", {"package_id"})
ResolutionResultElement(del) ==
    Required("resolution_result_element", {"id", "problem"}) @@
    Nullable("resolution_result_element", {"resolution_id"}) @@
    ForeignKey("resolution_result_element", "resolution_id", "resolution_result", del)
TablesForResolution == Revision(
    <<CreateTable("resolution_result", ResolutionResult @@
        ForeignKey("resolution_result", "package_id", "package", "fkey")),
      CreateTable("resolution_result_element", ResolutionResultElement("fkey"))>>,
    <<DropTable("resolution_result_element"), DropTable("resolution_result")>>)

(* 34641b5a09a3 *)
ReplaceDependencyWeight == Revision(
    <<Create(Nullable("dependency_change", {"distance"})), Drop("dependency_change", {"weight"})>>,
    <<Create(Nullable("dependency_change", {"weight"})), Drop("dependency_change", {"distance"})>>)

(* 3770b40e6ef8; the downgrade needs the dropped sequence *)
RemovePackageStateChange == Revision(<<DropTable("package_change")>>, <<Raise>>)

(* c9c6e92946b *)
AddBuildOptsColumn == Revision(
    <<Create(Nullable("package", {"build_opts"}))>>, <<Drop("package", {"build_opts"})>>)

(* 31590b2e5f0a *)
ChangedEvrs == {"curr_epoch", "curr_version", "curr_release",
                "prev_epoch", "prev_version", "prev_release"}
StoreEvrComponents == Revision(
    <<Create(Nullable("dependency", {"epoch", "version", "release"})),
      Alter(Required("dependency", {"version", "release"})), Drop("dependency", {"evr"}),
      Create(Nullable("dependency_change", ChangedEvrs)),
      Drop("dependency_change", {"prev_dep_evr", "curr_dep_evr"})>>,
    <<Create(Nullable("dependency_change", {"curr_dep_evr", "prev_dep_evr"})),
      Drop("dependency_change", ChangedEvrs),
      Add(Required("dependency", {"evr"})), Drop("dependency", {"version", "epoch", "release"})>>)

(* 2144a94d8b4b *)
AddRepoIdToResolution == Revision(
    <<Create(Nullable("resolution_result", {"repo_id"}))>>,
    <<Drop("resolution_result", {"repo_id"})>>)

(* 6d8008117a5 *)
RememberEvrForEachBuild == Revision(
    <<Create(Nullable("build", {"release", "epoch", "version"}))>>,
    <<Drop("build", {"version", "epoch", "release"})>>)

(* 4c071375b510 *)
AddRealColumn == Revision(
    <<Create(Defaulted("build", {"real"}))>>, <<Drop("build", {"real"})>>)

(* 155bedecdab; refers to models that are no longer imported *)
AddCascade(t, c, to) == <<DropKey(t, c), Create(ForeignKey(t, c, to, "cascade"))>>
CascadingDeletes == Obsolete(
    AddCascade("build", "package_id", "package") \o
    AddCascade("buildroot_diff", "prev_build_id", "build") \o
    AddCascade("buildroot_diff", "curr_build_id", "build") \o
    <<Create(ForeignKey("resolution_result", "repo_id", "repo", "cascade"))>> \o
    AddCascade("resolution_result", "package_id", "package") \o
    AddCascade("resolution_result_element", "resolution_id", "resolution_result") \o
    AddCascade("dependency", "repo_id", "repo") \o
    AddCascade("dependency", "package_id", "package") \o
    <<Create(ForeignKey("dependency_change", "applied_in_id", "build", "cascade"))>> \o
    AddCascade("dependency_change", "package_id", "package") \o
    AddCascade("package_group_relation", "group_id", "package_group") \o
    AddCascade("package_group_relation", "package_id", "package"),
    NotImplementedError)

(* 440220ea1db1 *)
AddKojiTaskTable == Revision(
    <<CreateTable("koji_task",
        Required("koji_task", {"build_id", "task_id"}) @@
        Nullable("koji_task", {"arch", "state", "started", "finished"}) @@
        ForeignKey("koji_task", "build_id", "build", "cascade"))>>,
    <<DropTable("koji_task")>>)

(* 413dff986632 *)
AddRepoGenerationRequest == Revision(
    <<CreateTable("repo_generation_request",
        Required("repo_generation_request", {"repo_id", "requested"}))>>,
    <<DropTable("repo_generation_request")>>)

(* 2c9d7b6afc9b *)
AddRepoIdColumn == Revision(
    <<Create(Nullable("build", {"repo_id"}))>>, <<Drop("build", {"repo_id"})>>)

(* 2a5e201f5bce *)
AddDepsProcessed == Revision(
    <<Create(Defaulted("build", {"deps_processed"}))>>, <<Drop("build", {"deps_processed"})>>)

(* 4c8bb5a1cf4a *)
StoreDistance == Revision(
    <<Create(Nullable("dependency", {"distance"}))>>, <<Drop("dependency", {"distance"})>>)

(* 258ebf8f2f2a *)
AddIndexOnDependency == Revision(
    <<Create(Index("dependency", "ix_dependency_package_id", {"package_id"}))>>,
    <<Drop("dependency", {"ix_dependency_package_id"})>>)

(* 42ec52bcb3b4; filled in data from Koji *)
DownloadRepoId == Obsolete(<<>>, <<>>)

(* a0da55358f4 *)
RemoveLogsDownloaded == Revision(
    <<Drop("build", {"logs_downloaded"})>>, <<Add(Required("build", {"logs_downloaded"}))>>)

(* 585bbd75f3bc *)
DropRepoTable == Revision(
    <<DropKey("resolution_result", "repo_id"), DropKey("dependency", "repo_id"),
      Alter(Required("dependency", {"repo_id"})),
      Create(Defaulted("resolution_result", {"generated"})),
      Alter(Required("resolution_result", {"repo_id"})), DropTable("repo")>>,
    NotImplementedError)

(* 1867c701b *)
ComputePackageState == Revision(
    <<Create(Defaulted("package", {"ignored"})), Drop("package", {"state"})>>,
    <<Create(Defaulted("package", {"state"})), Drop("package", {"ignored"})>>)

(* 251fb2eae735 *)
CompositeIndexOnDependency == Revision(
    <<Drop("dependency", {"ix_dependency_package_id"}),
      Create(Index("dependency", "ix_dependency_composite", {"package_id", "repo_id"}))>>,
    NotImplementedError)

(* 498aaa82048d; the downgrade needs the dropped sequence *)
RemoveBuildrootDiff == Revision(<<DropTable("buildroot_diff")>>, <<Raise>>)

(* 5cd786f3176 *)
SequentialPkForRequest == Revision(
    <<DropTable("repo_generation_request"),
      CreateTable("repo_generation_request",
        Required("repo_generation_request", {"id", "repo_id", "requested"}))>>,
    NotImplementedError)

(* 42ad047fd7ff *)
AddUserTable == Revision(
    <<CreateTable("user", Required("user", {"id", "name", "email"}) @@
        Nullable("user", {"timezone"}) @@ Defaulted("user", {"admin"}) @@
        Index("user", "user_name_key", {"name"}))>>,
    <<DropTable("user")>>)

(* 195b4306b2e *)
AddDenormalizedFields == Revision(
    <<Create(Nullable("package", {"last_complete_build_id", "resolved"}))>>,
    <<Drop("package", {"resolved", "last_complete_build_id"})>>)

(* 1a1fdbad1017.  The bodies of the trigger functions are numbered: 1 orders
   builds by task_id, 2 by id, 3 stores the state too, 4 avoids no-op updates,
   5 sets build.last_complete, 6 orders by started *)
LastCompleteTrigger(when) ==
    Trigger("build", "update_last_complete_build_trigger", when, "update_last_complete_build()")
DenormTriggers == Revision(
    <<Replace(Function("update_last_complete_build()", "1")),
      DropIfExists("build", {"update_last_complete_build_trigger"}),
      Create(LastCompleteTrigger("insert or update")),
      Replace(Function("update_resolved()", "1")),
      DropIfExists("resolution_result", {"update_resolved_trigger"}),
      Create(Trigger("resolution_result", "update_resolved_trigger", "insert or update",
                     "update_resolved()"))>>,
    NotImplementedError)

(* 49f4b34c2712 *)
PackageIdOrdered == Index("build", "build_package_id_ordered", {"package_id"})
AddSortedIndex == Revision(
    <<Create(PackageIdOrdered)>>, <<Drop("build", {"build_package_id_ordered"})>>)

(* 4507ca8c33d4 *)
LastCompleteKey ==
    NamedKey("package", "fkey_package_last_complete_build_id", "last_complete_build_id", "build", "fkey")
ForeignKeyOnLastComplete == Revision(<<Create(LastCompleteKey)>>, NotImplementedError)

(* ab659dbe41b *)
LastCompleteTriggers ==
    <<DropIfExists("build", {"update_last_complete_build_trigger"}),
      Create(LastCompleteTrigger("insert finished")),
      DropIfExists("build", {"update_last_complete_build_trigger_up"}),
      Create(Trigger("build", "update_last_complete_build_trigger_up", "update state",
                     "update_last_complete_build()"))>>
ConditionalizeTriggers == Revision(LastCompleteTriggers, NotImplementedError)

(* 2d07429daa10 *)
UniqueTaskId == Revision(
    <<Create(Index("build", "ix_build_task_id", {"task_id"})),
      Create(Index("build", "build_task_id_key", {"task_id"}))>>,
    <<Drop("build", {"ix_build_task_id"})>>)

(* 40b065559e29 *)
UpdateResolvedManually == Revision(
    <<Drop("resolution_result", {"update_resolved_trigger"}), Drop("db", {"update_resolved()"})>>,
    <<>>)

(* 3869a1748e08 *)
MoreIndexes == Revision(
    <<Create(Index("resolution_result", "ix_resolution_result_package_id", {"package_id"})),
      Create(Index("resolution_result_element", "ix_resolution_result_element_resolution_id",
                   {"resolution_id"}))>>,
    <<Drop("resolution_result_element", {"ix_resolution_result_element_resolution_id"}),
      Drop("resolution_result", {"ix_resolution_result_package_id"})>>)

(* 142da5a07bc *)
IndexForKojiTask == Revision(
    <<Create(Index("koji_task", "ix_koji_task_build_id", {"build_id"}))>>,
    <<Drop("koji_task", {"ix_koji_task_build_id"})>>)

(* 4d1820f32ac9 *)
StoreLastResolutionId == Revision(
    <<Create(Nullable("package", {"last_resolution_id"}))>>,
    <<Drop("package", {"last_resolution_id"})>>)

(* 260dfbee9be1 *)
CurrentPriority == Revision(
    <<Create(Nullable("package", {"current_priority"}))>>, <<Drop("package", {"current_priority"})>>)

(* 525ad809cccb *)
AddAdminNotice == Revision(
    <<CreateTable("admin_notice", Required("admin_notice", {"key", "content"}))>>,
    <<DropTable("admin_notice")>>)

(* 5576cfc14700; the downgrade needs sequences that went with their tables *)
GetRidOfResolutionResult == Revision(
    <<CreateTable("repo", Required("repo", {"repo_id"})), Drop("package", {"last_resolution_id"}),
      CreateTable("resolution_problem",
        Required("resolution_problem", {"id", "package_id", "problem"}) @@
        ForeignKey("resolution_problem", "package_id", "package", "cascade")),
      Create(Index("resolution_problem", "ix_resolution_problem_package_id", {"package_id"})),
      DropTable("resolution_result_element"), DropTable("resolution_result")>>,
    <<Create(Nullable("package", {"last_resolution_id"})), Raise>>)

(* c6ec45be136 *)
IndexOnAppliedIn == Revision(
    <<Create(Index("dependency_change", "ix_dependency_change_applied_in_id", {"applied_in_id"}))>>,
    <<Drop("dependency_change", {"ix_dependency_change_applied_in_id"})>>)

(* 538a778fcd5d *)
BuildComposite(by) == Index("build", "ix_build_composite", {"package_id", by})
BetterCompositeKey == Revision(
    <<Create(BuildComposite("task_id")), Drop("build", {"build_package_id_ordered"})>>,
    <<Create(PackageIdOrdered), Drop("build", {"ix_build_composite"})>>)

(* 4be96f2685d *)
AddDepsResolved == Revision(
    <<Create(Defaulted("build", {"deps_resolved"}))>>, <<Drop("build", {"deps_resolved"})>>)

(* 250e19717740 *)
OrderBuildsById == Revision(
    <<Drop("build", {"ix_build_composite"}), Create(BuildComposite("id")),
      Replace(Function("update_last_complete_build()", "2"))>> \o LastCompleteTriggers,
    NotImplementedError)

(* 1d3bd1ceb2d5 *)
ReplaceBuildOpts == Revision(
    <<Create(Nullable("package", {"arch_override"})), Drop("package", {"build_opts"})>>,
    <<Create(Nullable("package", {"build_opts"})), Drop("package", {"arch_override"})>>)

(* 4552a3543a68 *)
UserPackageRelation ==
    Required("user_package_relation", {"user_id", "package_id"}) @@
    ForeignKey("user_package_relation", "package_id", "package", "cascade") @@
    ForeignKey("user_package_relation", "user_id", "user", "cascade")
AddUserPackageRelation == Revision(
    <<CreateTable("user_package_relation", UserPackageRelation)>>,
    <<DropTable("user_package_relation")>>)

(* 2c84d6f01e8c *)
AddPackagesRetrieved == Revision(
    <<Create(Defaulted("user", {"packages_retrieved"}))>>, <<Drop("user", {"packages_retrieved"})>>)

(* 1e18cb9177ed *)
MakeEmailNullable == Revision(
    <<Alter(Nullable("user", {"email"}))>>, <<Alter(Required("user", {"email"}))>>)

(* 45c6ca63548c *)
AddBaseResolved == Revision(
    <<Create(Nullable("repo", {"base_resolved"}))>>, <<Drop("repo", {"base_resolved"})>>)

(* 236df7dfaf3d *)
AddBuildrootProblem == Revision(
    <<CreateTable("buildroot_problem",
        Required("buildroot_problem", {"id", "problem"}) @@
        Nullable("buildroot_problem", {"repo_id"}) @@
        ForeignKey("buildroot_problem", "repo_id", "repo", "fkey")),
      Create(Index("buildroot_problem", "ix_buildroot_problem_repo_id", {"repo_id"}))>>,
    <<Drop("buildroot_problem", {"ix_buildroot_problem_repo_id"}), DropTable("buildroot_problem")>>)

(* 29c20e85e5fe *)
AddNamespacedGroups == Revision(
    <<CreateTable("group_acl",
        Required("group_acl", {"group_id", "user_id"}) @@
        ForeignKey("group_acl", "group_id", "package_group", "cascade") @@
        ForeignKey("group_acl", "user_id", "user", "cascade")),
      Create(Nullable("package_group", {"namespace"})),
      Create(Index("package_group", "ix_package_group_name", {"namespace", "name"}))>>,
    <<Drop("package_group", {"ix_package_group_name"}), Drop("package_group", {"namespace"}),
      DropTable("group_acl")>>)

(* 457551e5c8ab *)
SplitIgnoredField == Revision(
    <<Create(Defaulted("package", {"blocked", "tracked"})), Drop("package", {"ignored"})>>,
    NotImplementedError)

(* 4feeaaf796ad *)
MakeBaseResolvedRequired == Revision(
    <<Alter(Required("repo", {"base_resolved"}))>>, <<Alter(Nullable("repo", {"base_resolved"}))>>)

(* 31d647dbc4c5 *)
LastBuildKey(del) == NamedKey("package", "fkey_package_last_build_id", "last_build_id", "build", del)
LastBuildTriggers ==
    <<DropIfExists("build", {"update_last_complete_build_trigger", "update_last_build_trigger",
                             "update_last_complete_build_trigger_up"}),
      Create(LastCompleteTrigger("insert finished")),
      Create(Trigger("build", "update_last_build_trigger", "insert", "update_last_build()")),
      Create(Trigger("build", "update_last_complete_build_trigger_up", "update state",
                     "update_last_complete_build()"))>>
AddLastBuildId == Revision(
    <<Create(Nullable("package", {"last_build_id"})),
      DropIfExists("package", {"fkey_package_last_complete_build_id", "fkey_package_last_build_id"}),
      Create(LastBuildKey("fkey")), Create(LastCompleteKey),
      Replace(Function("update_last_complete_build()", "2")),
      Replace(Function("update_last_build()", "2"))>> \o LastBuildTriggers,
    NotImplementedError)

(* 14ef9d47d314 *)
SplitDependencyChanges == Revision(
    <<CreateTable("unapplied_change",
        Required("unapplied_change", {"id", "dep_name", "package_id"}) @@
        Nullable("unapplied_change", ChangedEvrs \cup {"distance"}) @@
        ForeignKey("unapplied_change", "package_id", "package", "cascade")),
      Create(Index("unapplied_change", "ix_unapplied_change_package_id", {"package_id"})),
      RenameTable("dependency_change", "applied_change"),
      RenameColumn("applied_change", "applied_in_id", "build_id"),
      Alter(Required("applied_change", {"build_id"})), Drop("applied_change", {"package_id"}),
      Drop("applied_change", {"ix_dependency_change_applied_in_id"}),
      Create(Index("applied_change", "ix_applied_change_build_id", {"build_id"}))>>,
    NotImplementedError)

(* 3aca44fabc38; unapplied_change is emptied first *)
AddPrevBuildId == Revision(
    <<Create(Nullable("applied_change", {"prev_build_id"})),
      Create(Index("applied_change", "ix_applied_change_prev_build_id", {"prev_build_id"})),
      Create(NamedKey("applied_change", "fkey_applied_change_prev_build", "prev_build_id", "build",
                      "set null")),
      Create(Required("unapplied_change", {"prev_build_id"})),
      Create(Index("unapplied_change", "ix_unapplied_change_prev_build_id", {"prev_build_id"})),
      Create(NamedKey("unapplied_change", "fkey_unapplied_change_prev_build", "prev_build_id",
                      "build", "cascade"))>>,
    <<Drop("unapplied_change", {"ix_unapplied_change_prev_build_id"}),
      Drop("unapplied_change", {"prev_build_id"}),
      Drop("applied_change", {"ix_applied_change_prev_build_id"}),
      Drop("applied_change", {"prev_build_id"})>>)

(* 4cb89cde58f *)
LastBuildTriggerDel(when) ==
    Trigger("build", "update_last_build_trigger_del", when, "update_last_build_del()")
UpdateTriggers == Revision(
    <<Replace(Function("update_last_complete_build()", "2")),
      Replace(Function("update_last_build()", "2")),
      Replace(Function("update_last_build_del()", "2"))>> \o LastBuildTriggers \o
    <<DropIfExists("build", {"update_last_build_trigger_del"}),
      Create(LastBuildTriggerDel("before delete"))>>,
    NotImplementedError)

(* 2914ccf886ef *)
AddLastCompleteBuildState == Revision(
    <<Create(Nullable("package", {"last_complete_build_state"})),
      Replace(Function("update_last_complete_build()", "3"))>> \o LastBuildTriggers,
    <<Drop("package", {"last_complete_build_state"})>>)

(* 4926285d0b76 *)
OnDeleteSetNull == Revision(
    <<Drop("package", {"fkey_package_last_build_id"}), Create(LastBuildKey("set null"))>>,
    <<Drop("package", {"fkey_package_last_build_id"}), Create(LastBuildKey("fkey"))>>)

(* 3532a68d11c9; the downgrade drops a constraint without a name *)
ChangeDependencyFk == Revision(
    <<DropKey("dependency", "package_id"), Drop("dependency", {"ix_dependency_composite"}),
      Create(Nullable("dependency", {"build_id"})),
      Create(Index("build", "asdf", {"package_id", "repo_id", "id"})), Drop("build", {"asdf"}),
      Alter(Required("dependency", {"build_id"})),
      Create(Index("dependency", "ix_dependency_build_id", {"build_id"})),
      Create(ForeignKey("dependency", "build_id", "build", "cascade")),
      Drop("dependency", {"package_id", "repo_id"})>>,
    <<Add(Required("dependency", {"repo_id"})), Create(Nullable("dependency", {"package_id"})), Raise>>)

(* 4114061e4db2 *)
GeneratedIdForKojiTask == Revision(
    <<DropIfExists("build", {"build_task_id_key"}), Create(Required("koji_task", {"id"}))>>,
    NotImplementedError)

(* 2706ecb50274 *)
DropTaskIdSequence == Revision(<<DropIfExists("db", {"koji_task_task_id_seq"})>>, <<>>)

(* 5ac6e922818a *)
DropTaskIdIndex == Revision(<<Drop("build", {"ix_build_task_id"})>>, <<>>)

(* 4f0081f9226f *)
BuildRunning == Index("build", "ix_build_running", {"package_id"})
AddIndexForRunning == Revision(<<Create(BuildRunning)>>, <<Drop("build", {"ix_build_running"})>>)

(* 1cf99f3c1f74 *)
AddSchedulerSkipReason == Revision(
    <<Create(Nullable("package", {"scheduler_skip_reason"}))>>,
    <<Drop("package", {"scheduler_skip_reason"})>>)

(* 2946d55e18d *)
Collections == Revision(
    <<CreateTable("collection",
        Required("collection", {"id", "name", "display_name", "target_tag", "build_tag"}) @@
        Defaulted("collection", {"priority_coefficient"}) @@
        Nullable("collection", {"latest_repo_id", "latest_repo_resolved"}) @@
        Index("collection", "collection_name_key", {"name"})),
      Create(Nullable("buildroot_problem", {"collection_id"})),
      Create(Index("buildroot_problem", "ix_buildroot_problem_collection_id", {"collection_id"})),
      Drop("buildroot_problem", {"ix_buildroot_problem_repo_id"}),
      DropKey("buildroot_problem", "repo_id"),
      Create(ForeignKey("buildroot_problem", "collection_id", "collection", "cascade")),
      Drop("buildroot_problem", {"repo_id"}),
      Create(Required("package", {"collection_id"})), Drop("package", {"package_name_key"}),
      Create(ForeignKey("package", "collection_id", "collection", "cascade")),
      DropTable("repo_generation_request"), DropTable("repo")>>,
    NotImplementedError)

(* 5de968d3311 *)
PackageCollection(on) == Index("package", "ix_package_collection_id", on)
AddIndexInCollectionId == Revision(
    <<Create(PackageCollection({"collection_id"}))>>, <<Drop("package", {"ix_package_collection_id"})>>)

(* 515f0581e6f7 *)
CollectionArches == Defaulted("collection", {"resolution_arches", "resolve_for_arch"})
AddMoreCollectionFields == Revision(
    <<Create(Defaulted("collection", {"build_group", "order"}) @@ CollectionArches)>>,
    <<Drop("collection", {"resolve_for_arch", "resolution_arches", "order", "build_group"})>>)

(* 49889794b4d7 *)
AddCollectionBranch == Revision(
    <<Create(Nullable("collection", {"branch"}))>>, <<Drop("collection", {"branch"})>>)

(* 46698682c9a0 *)
DropUserPackageRelation == Revision(
    <<DropTable("user_package_relation")>>,
    <<CreateTable("user_package_relation", UserPackageRelation)>>)

(* 21bcf7db927c *)
GroupRelationIndexes ==
    Index("package_group_relation", "ix_package_group_relation_group_id", {"group_id"}) @@
    Index("package_group_relation", "ix_package_group_relation_package_name", {"package_name"})
ChangeGroupKey == Revision(
    <<Create(Required("package_group_relation", {"package_name"})), Create(GroupRelationIndexes),
      DropKey("package_group_relation", "package_id"),
      Drop("package_group_relation", {"package_id"})>>,
    <<Add(Required("package_group_relation", {"package_id"})),
      Create(ForeignKey("package_group_relation", "package_id", "package", "cascade")),
      Drop("package_group_relation",
           {"ix_package_group_relation_package_name", "ix_package_group_relation_group_id"}),
      Drop("package_group_relation", {"package_name"})>>)

(* 5992b944544b *)
AddRepoMapping == Revision(
    <<CreateTable("repo_mapping", Required("repo_mapping", {"secondary_id", "task_id"}) @@
                                  Nullable("repo_mapping", {"primary_id"}))>>,
    <<DropTable("repo_mapping")>>)

(* 2ffebbebb9e5 *)
AddPollUntracked == Revision(
    <<Create(Defaulted("collection", {"poll_untracked"}))>>, <<Drop("collection", {"poll_untracked"})>>)

(* 18d4f8beaba6 *)
StoreDependenciesCompressed == Revision(
    <<Create(Nullable("build", {"dependency_array"})), Drop("dependency", {"ix_dependency_build_id"}),
      Drop("dependency", {"build_id"}), Drop("dependency", {"distance"}),
      Create(Nullable("build", {"dependency_keys"})),
      Create(Index("dependency", "ix_dependency_composite",
                   {"name", "epoch", "version", "release", "arch"})),
      Drop("build", {"dependency_array"})>>,
    NotImplementedError)

(* 448688cfd5b6 *)
IndexOnTrackedPackages == Revision(
    <<Drop("package", {"ix_package_collection_id"}),
      Create(PackageCollection({"collection_id", "tracked"}))>>,
    NotImplementedError)

(* 1fb16842dd32 *)
AddCancelRequested == Revision(
    <<Create(Defaulted("build", {"cancel_requested"}))>>, <<Drop("build", {"cancel_requested"})>>)

(* 37de714441fd *)
DropUnusedUserFields == Revision(
    <<Drop("user", {"timezone", "packages_retrieved", "email"})>>,
    <<Create(Nullable("user", {"email", "timezone"}) @@ Defaulted("user", {"packages_retrieved"}))>>)

(* 13f40f47ff77 *)
AddBugzillaFields == Revision(
    <<Create(Nullable("collection", {"bugzilla_product", "bugzilla_version"}))>>,
    <<Drop("collection", {"bugzilla_version", "bugzilla_product"})>>)

(* 4852a7975500 *)
BuildChecks ==
    Check("build", "build_state_check", {"state"}) @@
    Check("build", "build_repo_id_check", {"state", "repo_id"}) @@
    Check("build", "build_version_check", {"state", "version"}) @@
    Check("build", "build_release_check", {"state", "release"}) @@
    Check("build", "build_real_complete_check", {"real", "state"})
AddConstraints == Revision(
    <<Create(Check("koji_task", "koji_task_state_check", {"state"})),
      Alter(Required("koji_task", {"arch"})), Create(BuildChecks), Alter(Required("build", {"task_id"}))>>,
    <<Drop("koji_task", {"koji_task_state_check"}), Alter(Nullable("koji_task", {"arch"})),
      Drop("build", {"build_state_check", "build_repo_id_check", "build_version_check",
                     "build_release_check", "build_real_complete_check"}),
      Alter(Nullable("build", {"task_id"}))>>)

(* 2176056cfb43 *)
DropCollectionArchFields == Revision(
    <<Drop("collection", {"resolution_arches", "resolve_for_arch"})>>, <<Create(CollectionArches)>>)

(* 4654004b5de6 *)
MakeTaskStateRequired == Revision(
    <<Alter(Required("koji_task", {"state"}))>>, <<Alter(Nullable("koji_task", {"state"}))>>)

(* 2f2fc00d0830 *)
MergeDepsProcessed == Revision(
    <<Alter(Nullable("build", {"deps_resolved"})), Drop("build", {"deps_processed"})>>,
    <<Create(Required("build", {"deps_processed"})), Alter(Defaulted("build", {"deps_resolved"}))>>)

(* 51611cd48682 *)
RemovePackageAdded == Revision(
    <<Drop("package", {"added"})>>, <<Create(Defaulted("package", {"added"}))>>)

(* 4400f139596f *)
SplitPackageTable == Revision(
    <<CreateTable("base_package", Required("base_package", {"id", "name"}) @@
                                  Index("base_package", "base_package_name_key", {"name"})),
      Create(Required("package", {"base_id"})), Create(Index("package", "ix_package_name", {"name"})),
      Create(Index("package", "package_unique_in_collection", {"base_id", "collection_id"})),
      Create(NamedKey("package", "fkey_package_base_id", "base_id", "base_package", "cascade"))>>,
    <<Drop("package", {"fkey_package_base_id"}), Drop("package", {"package_unique_in_collection"}),
      Drop("package", {"ix_package_name"}), Drop("package", {"base_id"}), DropTable("base_package")>>)

(* 511bcaac8f6b *)
UseBasePackageInGroups == Revision(
    <<Create(Nullable("package_group_relation", {"base_id"})),
      Drop("package_group_relation",
           {"ix_package_group_relation_package_name", "ix_package_group_relation_group_id"}),
      Drop("package_group_relation", {"package_name"}),
      Create(Index("package_group_relation", "ix_package_group_relation_base_id", {"base_id"})),
      Alter(Required("package_group_relation", {"base_id"})),
      Create(ForeignKey("package_group_relation", "base_id", "base_package", "cascade"))>>,
    <<Create(Nullable("package_group_relation", {"package_name"})),
      Drop("package_group_relation", {"ix_package_group_relation_base_id"}),
      Drop("package_group_relation", {"base_id"}),
      Alter(Required("package_group_relation", {"package_name"})), Create(GroupRelationIndexes)>>)

(* 3380d0441f34; the downgrade is DROP TRIGGER without a table, a syntax error *)
AddAllBlocked == Revision(
    <<Create(Defaulted("base_package", {"all_blocked"})),
      Replace(Function("update_all_blocked()", "1")),
      Create(Trigger("package", "update_all_blocked_trigger", "any blocked", "update_all_blocked()"))>>,
    <<Raise, Drop("db", {"update_all_blocked()"}), Drop("base_package", {"all_blocked"})>>)

(* 550be6fa6eff *)
AddSecondaryMode == Revision(
    <<Create(Defaulted("collection", {"secondary_mode"}))>>, <<Drop("collection", {"secondary_mode"})>>)

(* 5a5fb752d72b *)
AddPriorityDefaults == Revision(
    <<Alter(Defaulted("package", {"manual_priority", "static_priority"}))>>, <<>>)

(* 48ef45e53492 *)
AddCollectionGroup == Revision(
    <<CreateTable("collection_group", Required("collection_group", {"id", "name", "display_name"}) @@
                  Index("collection_group", "collection_group_name_key", {"name"})),
      CreateTable("collection_group_relation",
        Required("collection_group_relation", {"group_id", "collection_id"}) @@
        ForeignKey("collection_group_relation", "group_id", "collection_group", "cascade") @@
        ForeignKey("collection_group_relation", "collection_id", "collection", "cascade"))>>,
    <<DropTable("collection_group_relation"), DropTable("collection_group")>>)

(* 1cd95cdf6712 *)
AddCollectionTarget == Revision(
    <<Create(Nullable("collection", {"target"})), Alter(Required("collection", {"target"}))>>,
    <<Drop("collection", {"target"})>>)

(* e54c706fcae *)
RenameTargetTag == Revision(
    <<RenameColumn("collection", "target_tag", "dest_tag")>>,
    <<RenameColumn("collection", "dest_tag", "target_tag")>>)

(* 408d2abc986 *)
MakeStartedRequired == Revision(
    <<Alter(Required("build", {"started"})), Alter(Required("koji_task", {"started"}))>>,
    <<Alter(Nullable("build", {"started"})), Alter(Nullable("koji_task", {"started"}))>>)

(* 367d785e5e5; the downgrade gives a package only to the problems of its
   latest result, so the column cannot be NOT NULL where there are others *)
AddResolutionChange == Revision(
    <<CreateTable("resolution_change", Required("resolution_change", {"id", "package_id", "resolved"}) @@
        Defaulted("resolution_change", {"timestamp"}) @@
        ForeignKey("resolution_change", "package_id", "package", "cascade")),
      Create(Nullable("resolution_problem", {"resolution_id"}) @@
             ForeignKey("resolution_problem", "resolution_id", "resolution_change", "cascade")),
      Create(Index("resolution_change", "ix_resolution_result_package_id", {"package_id"})),
      Drop("resolution_problem", {"package_id"}),
      Alter(Required("resolution_problem", {"resolution_id"})),
      Create(Index("resolution_problem", "ix_resolution_problem_resolution_id", {"resolution_id"}))>>,
    <<Add(Required("resolution_problem", {"package_id"}) @@
          ForeignKey("resolution_problem", "package_id", "package", "cascade")),
      Drop("resolution_problem", {"resolution_id"}), DropTable("resolution_change")>>)

(* 154f49b41d6a *)
AddSkipResolution == Revision(
    <<Create(Defaulted("package", {"skip_resolution"}) @@
             Check("package", "package_skip_resolution_check", {"skip_resolution", "resolved"}))>>,
    <<Drop("package", {"skip_resolution"})>>)

(* 49d84bc25b26 *)
RpmvercmpFunction(body) == Function("rpmvercmp()", body)
RpmvercmpEvr(body) == Function("rpmvercmp_evr()", body)
AddRpmvercmp == Revision(
    <<Create(Index("applied_change", "ix_applied_change_dep_name", {"dep_name"})),
      Replace(RpmvercmpFunction("1")), Replace(RpmvercmpEvr("1"))>>,
    <<Drop("applied_change", {"ix_applied_change_dep_name"}),
      Drop("db", {"rpmvercmp()"}), Drop("db", {"rpmvercmp_evr()"})>>)

(* 31ac38a32230 *)
UpdateFunctions(complete, others, blocked) ==
    <<Replace(Function("update_last_complete_build()", complete)),
      Replace(Function("update_last_build()", others)),
      Replace(Function("update_last_build_del()", others)),
      Replace(Function("update_all_blocked()", blocked))>>
AvoidNoOpUpdates == Revision(UpdateFunctions("4", "4", "2"), UpdateFunctions("3", "2", "1"))

(* 7c789ce47e *)
CoprTables ==
    <<Create(Type("rebuild_request_state")),
      CreateTable("copr_rebuild_request",
        Required("copr_rebuild_request", {"id", "user_id", "collection_id", "repo_source"}) @@
        Defaulted("copr_rebuild_request", {"timestamp", "state"}) @@
        Nullable("copr_rebuild_request", {"yum_repo", "description", "repo_id", "schedule_count",
                                          "scheduler_queue_index", "error"})),
      CreateTable("copr_resolution_change",
        Required("copr_resolution_change", {"request_id", "package_id", "prev_resolved", "curr_resolved"}) @@
        Nullable("copr_resolution_change", {"problems"}) @@
        ForeignKey("copr_resolution_change", "request_id", "copr_rebuild_request", "cascade") @@
        ForeignKey("copr_resolution_change", "package_id", "package", "cascade")),
      CreateTable("copr_rebuild",
        Required("copr_rebuild", {"request_id", "package_id", "prev_state", "order"}) @@
        Nullable("copr_rebuild", {"copr_build_id", "state", "approved"}) @@
        Defaulted("copr_rebuild", {"running"}) @@
        ForeignKey("copr_rebuild", "request_id", "copr_rebuild_request", "cascade") @@
        ForeignKey("copr_rebuild", "package_id", "package", "cascade"))>>
NoCoprTables ==
    <<DropTable("copr_rebuild"), DropTable("copr_resolution_change"),
      DropTable("copr_rebuild_request"), Drop("db", {"rebuild_request_state"})>>
AddCoprTables == Revision(CoprTables, NoCoprTables)

(* 96210b1e8db3 *)
RemoveBuildRunning == Revision(<<Drop("build", {"ix_build_running"})>>, <<Create(BuildRunning)>>)

(* 2a0e9d5529c9 *)
OptimizeRpmvercmp == Revision(
    <<Replace(RpmvercmpFunction("2")), Replace(RpmvercmpEvr("2"))>>,
    <<Replace(RpmvercmpFunction("1")), Replace(RpmvercmpEvr("1"))>>)

(* 2f4667c1e18f *)
RedoPriorities == Revision(
    <<Create(Defaulted("package", {"build_priority", "dependency_priority"}))>>,
    <<Drop("package", {"build_priority", "dependency_priority"})>>)

(* 2cc3e44a68de *)
RemoveCurrentPriority == Revision(
    <<Drop("package", {"current_priority"})>>, <<Create(Nullable("package", {"current_priority"}))>>)

(* 75d9e5d27ba5 *)
IndexUnprocessed == Revision(
    <<Create(Index("build", "ix_builds_unprocessed", {"task_id", "deps_resolved", "repo_id"}))>>,
    <<Drop("build", {"ix_builds_unprocessed"})>>)

(* 684eada0e0d6 *)
CheckLatestRepo == Revision(
    <<Create(Check("collection", "collection_latest_repo_id_check",
                   {"latest_repo_resolved", "latest_repo_id"}))>>,
    <<Drop("collection", {"collection_latest_repo_id_check"})>>)

(* 57bfb7fa2997 *)
AddLastComplete == Revision(
    <<Create(Defaulted("build", {"last_complete"}))>>, <<Drop("build", {"last_complete"})>>)

(* 95fdd4ca39cb *)
IndexLastComplete == Revision(
    <<Create(Index("build", "ix_builds_last_complete", {"package_id", "task_id", "last_complete"}))>>,
    <<Drop("build", {"ix_builds_last_complete"})>>)

(* be498b0f08fe *)
TriggerLastComplete == Revision(
    <<Replace(Function("update_last_complete_build()", "5"))>>,
    <<Replace(Function("update_last_complete_build()", "4"))>>)

(* 62baf8e175d0; name and arch are NOT NULL in each version of the table *)
ConsumptionStats(times, index) ==
    CreateTable("resource_consumption_stats",
        Required("resource_consumption_stats", {"name", "arch"}) @@ times @@
        Index("resource_consumption_stats", index, {"time"}))
StatsTimes == {"time", "time_percentage"}
RequiredTimes == ConsumptionStats(Required("resource_consumption_stats", StatsTimes),
                                  "ix_resource_consumption_stats_total_time")
CreateScalarStats == CreateTable("scalar_stats", Required("scalar_stats",
    {"refresh_time", "packages", "tracked_packages", "blocked_packages", "builds", "real_builds",
     "scratch_builds"}))
AddMaterializedViews == Revision(
    <<RequiredTimes, CreateScalarStats>>,
    <<Drop("resource_consumption_stats", {"ix_resource_consumption_stats_total_time"}),
      DropTable("scalar_stats"), DropTable("resource_consumption_stats")>>)

(* e5a813259652 *)
FixTimePercentage == Revision(
    <<DropTable("resource_consumption_stats"), RequiredTimes>>,
    <<DropTable("resource_consumption_stats"), RequiredTimes>>)

(* 7ea8ffafe48b *)
RefactorMaterializedViews == Revision(
    <<DropTable("resource_consumption_stats"), DropTable("scalar_stats"),
      ConsumptionStats(Nullable("resource_consumption_stats", StatsTimes),
                       "ix_resource_consumption_stats_time"), CreateScalarStats>>,
    <<DropTable("resource_consumption_stats"), DropTable("scalar_stats"),
      RequiredTimes, CreateScalarStats>>)

(* 94f1b9dde3e1 *)
DropPrevBuildId == Revision(
    <<Drop("applied_change", {"prev_build_id"}), Drop("unapplied_change", {"prev_build_id"})>>,
    NotImplementedError)

(* 0300b36eeaf4 *)
StartedFunctions(complete, others) ==
    <<Replace(Function("update_last_complete_build()", complete)),
      Replace(Function("update_last_build()", others)),
      Replace(Function("update_last_build_del()", others))>>
OrderBuildsByStarted == Revision(
    <<Drop("build", {"ix_build_composite"}), Create(BuildComposite("started"))>> \o
        StartedFunctions("6", "6"),
    <<Drop("build", {"ix_build_composite"}), Create(BuildComposite("id"))>> \o
        StartedFunctions("5", "4"))

(* 6d4894cd2307 *)
AppliedChangeBuild ==
    ForeignKey("applied_change2", "build_id", "build", "cascade") @@
    Required("applied_change2", {"build_id"}) @@ Nullable("applied_change2", {"distance"})
ChangeDepIds(t) ==
    ForeignKey(t, "prev_dep_id", "dependency", "fkey") @@
    ForeignKey(t, "curr_dep_id", "dependency", "fkey") @@
    Nullable(t, {"prev_dep_id", "curr_dep_id"})
ChangeDepIndexes(t, prev, curr) == Index(t, prev, {"prev_dep_id"}) @@ Index(t, curr, {"curr_dep_id"})
ReferenceDependency == Revision(
    <<CreateTable("applied_change2", Required("applied_change2", {"id"}) @@ AppliedChangeBuild @@
        ChangeDepIds("applied_change2") @@
        Check("applied_change2", "applied_change_dep_id_check", {"prev_dep_id", "curr_dep_id"})),
      Drop("applied_change", {"ix_applied_change_dep_name"}),
      Drop("applied_change", {"ix_applied_change_build_id"}),
      DropIfExists("applied_change", {"ix_applied_change_prev_build_id"}),
      DropTable("applied_change"), RenameTable("applied_change2", "applied_change"),
      Create(Index("applied_change", "ix_applied_change_build_id", {"build_id"}) @@
             ChangeDepIndexes("applied_change", "ix_applied_change_prev_dep_id",
                              "ix_applied_change_curr_dep_id"))>>,
    <<CreateTable("applied_change2", Required("applied_change2", {"id", "dep_name"}) @@
        AppliedChangeBuild @@ Nullable("applied_change2", ChangedEvrs)),
      Drop("applied_change", {"ix_applied_change_build_id"}),
      DropTable("applied_change"), RenameTable("applied_change2", "applied_change"),
      Create(Index("applied_change", "ix_applied_change_build_id", {"build_id"}) @@
             Index("applied_change", "ix_applied_change_dep_name", {"dep_name"}))>>)

(* 93d173e53917 *)
RemoveCollectionBranch == Revision(
    <<Drop("collection", {"branch"})>>, <<Create(Nullable("collection", {"branch"}))>>)

(* 245edb2e0764 *)
LogEntryTable ==
    <<Create(Type("log_environment")),
      CreateTable("log_entry", Required("log_entry", {"id", "environment", "message"}) @@
        Nullable("log_entry", {"user_id", "base_id"}) @@ Defaulted("log_entry", {"timestamp"}) @@
        ForeignKey("log_entry", "user_id", "user", "cascade") @@
        ForeignKey("log_entry", "base_id", "base_package", "cascade") @@
        Check("log_entry", "log_entry_user_id_check", {"user_id", "environment"}))>>
LogEntryKeepsType == Revision(LogEntryTable, <<DropTable("log_entry")>>)
CreateLogEntry == Revision(
    LogEntryTable, <<DropTable("log_entry"), Drop("db", {"log_environment"})>>)

(* 8175c5b109d9 *)
AddUntaggedWithoutDefault == Revision(
    <<Create(Required("build", {"untagged"}))>>, <<Drop("build", {"untagged"})>>)
AddUntagged == Revision(
    <<Create(Defaulted("build", {"untagged"}))>>, <<Drop("build", {"untagged"})>>)

(* 0337520adb1e *)
RefactorLastBuildTriggers == Revision(
    <<Drop("build", {"update_last_complete_build_trigger", "update_last_complete_build_trigger_up",
                     "update_last_build_trigger", "update_last_build_trigger_del"}),
      DropIfExists("build", {"update_last_build_trigger_up"}),
      Drop("db", {"update_last_complete_build()", "update_last_build()", "update_last_build_del()"}),
      Create(Function("update_last_build(integer)", "1")),
      Create(Function("update_last_build_trigger()", "1")),
      Create(Function("update_last_build_del()", "7")),
      Create(Trigger("build", "update_last_build_trigger", "insert", "update_last_build_trigger()")),
      Create(Trigger("build", "update_last_build_trigger_up", "update state or untagged",
                     "update_last_build_trigger()")),
      Create(LastBuildTriggerDel("after delete"))>>,
    <<Drop("build", {"update_last_build_trigger", "update_last_build_trigger_up",
                     "update_last_build_trigger_del"}),
      Drop("db", {"update_last_build(integer)", "update_last_build_trigger()",
                  "update_last_build_del()"}),
      Create(Function("update_last_complete_build()", "6")), Create(Function("update_last_build()", "6")),
      Create(Function("update_last_build_del()", "6"))>> \o Tail(LastBuildTriggers) \o
    <<Create(LastBuildTriggerDel("before delete"))>>)

(* 8ab06d9c83e7; unapplied_change is emptied first *)
NormalizeUnappliedChange == Revision(
    <<Drop("unapplied_change", {"dep_name"} \cup ChangedEvrs),
      Create(ChangeDepIds("unapplied_change")),
      Create(Check("unapplied_change", "unapplied_change_dep_id_check", {"prev_dep_id", "curr_dep_id"})),
      Create(ChangeDepIndexes("unapplied_change", "ix_unapplied_change_prev_dep_id",
                              "ix_unapplied_change_curr_dep_id"))>>,
    <<Drop("unapplied_change", {"unapplied_change_dep_id_check"}),
      Drop("unapplied_change", {"prev_dep_id", "curr_dep_id"}),
      Create(Required("unapplied_change", {"dep_name"}) @@ Nullable("unapplied_change", ChangedEvrs))>>)

(* a52295dc8bcc; the value of a default is left out *)
TrackedDefault == Revision(
    <<Alter(Defaulted("package", {"tracked"}))>>, <<Alter(Defaulted("package", {"tracked"}))>>)

(* 0d2a8d58a582 *)
MatchRpm415 == Revision(
    <<Drop("db", {"rpmvercmp()"}), Create(RpmvercmpFunction("3"))>>,
    <<Drop("db", {"rpmvercmp()"}), Create(RpmvercmpFunction("2"))>>)

(* f97587df0763; the downgrade leaves the sequence behind *)
CreateBuildGroup == Revision(
    <<Create(Sequence("build_group_id_seq")),
      CreateTable("build_group", Required("build_group", {"id"}) @@
        Nullable("build_group", {"repo_id", "collection_id", "base_collection_id", "state"}) @@
        ForeignKey("build_group", "base_collection_id", "collection", "set null") @@
        ForeignKey("build_group", "collection_id", "collection", "set null"))>>,
    <<DropTable("build_group")>>)

(* 6804dc8bf7b1 *)
DropCoprTables == Revision(NoCoprTables, CoprTables)

(* 2eee9193fa2e; only the type of a column changes *)
UnappliedChangeBigint == Revision(
    <<Alter(Required("unapplied_change", {"id"}))>>, <<Alter(Required("unapplied_change", {"id"}))>>)

(* c3e9459e893f *)
ReAddCoprTables == Revision(CoprTables, NoCoprTables)

(* the chain of down_revision from the first revision to the head *)
Revisions == <<
    AddPackageState, Refactored, AddBuildrootDiff, AddPackageGroupTables, TablesForResolution,
    ReplaceDependencyWeight, RemovePackageStateChange, AddBuildOptsColumn, StoreEvrComponents,
    AddRepoIdToResolution, RememberEvrForEachBuild, AddRealColumn, CascadingDeletes,
    AddKojiTaskTable, AddRepoGenerationRequest, AddRepoIdColumn, AddDepsProcessed,
    StoreDistance, AddIndexOnDependency, DownloadRepoId, RemoveLogsDownloaded, DropRepoTable,
    ComputePackageState, CompositeIndexOnDependency, RemoveBuildrootDiff,
    SequentialPkForRequest, AddUserTable, AddDenormalizedFields, DenormTriggers,
    AddSortedIndex, ForeignKeyOnLastComplete, ConditionalizeTriggers, UniqueTaskId,
    UpdateResolvedManually, MoreIndexes, IndexForKojiTask, StoreLastResolutionId,
    CurrentPriority, AddAdminNotice, GetRidOfResolutionResult, IndexOnAppliedIn,
    BetterCompositeKey, AddDepsResolved, OrderBuildsById, ReplaceBuildOpts,
    AddUserPackageRelation, AddPackagesRetrieved, MakeEmailNullable, AddBaseResolved,
    AddBuildrootProblem, AddNamespacedGroups, SplitIgnoredField, MakeBaseResolvedRequired,
    AddLastBuildId, SplitDependencyChanges, AddPrevBuildId, UpdateTriggers,
    AddLastCompleteBuildState, OnDeleteSetNull, ChangeDependencyFk, GeneratedIdForKojiTask,
    DropTaskIdSequence, DropTaskIdIndex, AddIndexForRunning, AddSchedulerSkipReason,
    Collections, AddIndexInCollectionId, AddMoreCollectionFields, AddCollectionBranch,
    DropUserPackageRelation, ChangeGroupKey, AddRepoMapping, AddPollUntracked,
    StoreDependenciesCompressed, IndexOnTrackedPackages, AddCancelRequested,
    DropUnusedUserFields, AddBugzillaFields, AddConstraints, DropCollectionArchFields,
    MakeTaskStateRequired, MergeDepsProcessed, RemovePackageAdded, SplitPackageTable,
    UseBasePackageInGroups, AddAllBlocked, AddSecondaryMode, AddPriorityDefaults,
    AddCollectionGroup, AddCollectionTarget, RenameTargetTag, MakeStartedRequired,
    AddResolutionChange, AddSkipResolution, AddRpmvercmp, AvoidNoOpUpdates, AddCoprTables,
    RemoveBuildRunning, OptimizeRpmvercmp, RedoPriorities, RemoveCurrentPriority,
    IndexUnprocessed, CheckLatestRepo, AddLastComplete, IndexLastComplete, TriggerLastComplete,
    AddMaterializedViews, FixTimePercentage, RefactorMaterializedViews, DropPrevBuildId,
    OrderBuildsByStarted, ReferenceDependency, RemoveCollectionBranch, CreateLogEntry,
    AddUntagged, RefactorLastBuildTriggers, NormalizeUnappliedChange, TrackedDefault,
    MatchRpm415, CreateBuildGroup, DropCoprTables, UnappliedChangeBigint, ReAddCoprTables>>
=============================================================================
