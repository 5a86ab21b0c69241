--------------------------- MODULE MigrationScripts ---------------------------
(***************************************************************************)
(* migrations/versions: what upgrade() and downgrade() of the 54 revisions *)
(* do to the schema, operation by operation in their order.                *)
(*                                                                         *)
(* A schema is a set of objects <<kind, table, name, detail>>.  The detail *)
(* is what a foreign key refers to, the function a trigger calls, or which *)
(* text a constraint or function has where several revisions write it.     *)
(* Columns and constraints that come and go with their table are part of   *)
(* it; the rows that migrations insert as reference data are left out, and *)
(* Rows(x) stands for a statement on the rows that matter.                 *)
(***************************************************************************)
EXTENDS Sequences

-----------------------------------------------------------------------------
(* alembic's operations *)

Add(kind, t, names) == [do |-> "add", table |-> t, objs |-> {<<kind, t, n, "">> : n \in names}]
Drop(kind, t, names) == [do |-> "drop", table |-> t, objs |-> {<<kind, t, n>> : n \in names}]

\* create_table with the tables its foreign keys refer to, drop_table
Table(t, refs) == [do |-> "create", table |-> t,
    objs |-> {<<"table", t, "", "">>} \cup {<<"fk", t, r, r>> : r \in refs}]
NoTable(t) == [do |-> "drop_table", table |-> t, objs |-> {}]

Column(t, names) == Add("column", t, names)
NoColumn(t, names) == Drop("column", t, names)
NotNull(t, names) == Add("not null", t, names)
Nullable(t, names) == Drop("not null", t, names)
Index(t, names) == Add("index", t, names)
NoIndex(t, names) == Drop("index", t, names)
Unique(t, names) == Add("unique", t, names)
NoUnique(t, names) == Drop("unique", t, names)
Checks(t, names) == Add("check", t, names)
Check(t, n, text) == [do |-> "add", table |-> t, objs |-> {<<"check", t, n, text>>}]
NoCheck(t, names) == Drop("check", t, names)
Fk(t, n, r) == [do |-> "add", table |-> t, objs |-> {<<"fk", t, n, r>>}]
NoFk(t, names) == Drop("fk", t, names)

\* CREATE OR REPLACE FUNCTION, DROP FUNCTION IF EXISTS, triggers
Function(f, text) == [do |-> "replace", table |-> f, objs |-> {<<"function", f, "", text>>}]
NoFunction(f) == [do |-> "drop_function", table |-> f, objs |-> {<<"function", f, "">>}]
Trigger(t, n, f) == [do |-> "add", table |-> t, objs |-> {<<"trigger", t, n, f>>}]
NoTrigger(t, names) ==
    [do |-> "drop_trigger", table |-> t, objs |-> {<<"trigger", t, n>> : n \in names}]
Stamp(tables) == [do |-> "add", table |-> "",
    objs |-> {<<"trigger", t, "set_updated_at", "set_updated_at">> : t \in tables}]
NoStamp(tables) == [do |-> "drop_trigger", table |-> "",
    objs |-> {<<"trigger", t, "set_updated_at">> : t \in tables}]

Rows(x) == [do |-> "rows", table |-> x, objs |-> {}]

-----------------------------------------------------------------------------
(* The revisions *)

Up0001 == << Table("sprint1_seed_records", {}) >>
Down0001 == << NoTable("sprint1_seed_records") >>

Up0002 ==
    << Function("set_updated_at", ""), Table("tenants", {}), Table("actors", {"tenants"}),
       Table("principals", {"actors", "tenants"}),
       Table("workspaces", {"actors", "tenants"}),
       Table("projects", {"tenants", "workspaces"}),
       Table("repositories", {"projects", "tenants"}),
       Stamp({"tenants", "actors", "workspaces", "projects", "repositories"}) >>
Down0002 ==
    << NoStamp({"repositories", "projects", "workspaces", "actors", "tenants"}),
       NoTable("repositories"), NoTable("projects"), NoTable("workspaces"),
       NoTable("principals"), NoTable("actors"), NoTable("tenants"),
       NoFunction("set_updated_at") >>

Up0003 ==
    << Table("tickets", {"actors", "projects", "repositories", "tenants"}),
       Table("acceptance_criteria", {"projects", "tenants", "tickets"}),
       Table("ticket_relations", {"projects", "tenants", "tickets"}),
       Table("audit_events", {"actors", "principals", "tenants"}),
       Table("notification_events", {"actors", "tenants"}),
       Index("tickets", {"idx_project_status", "idx_created_by_actor",
           "idx_assignee_actor", "idx_repository"}),
       Index("acceptance_criteria", {"idx_ticket"}),
       Index("ticket_relations", {"idx_source", "idx_target"}),
       Index("audit_events", {"idx_trace", "idx_correlation", "idx_event_type"}),
       Index("notification_events", {"idx_unread_recipient"}),
       Stamp({"tickets", "acceptance_criteria"}) >>
Down0003 ==
    << NoStamp({"acceptance_criteria", "tickets"}), NoTable("notification_events"),
       NoTable("audit_events"), NoTable("ticket_relations"), NoTable("acceptance_criteria"),
       NoTable("tickets") >>

Up0004 ==
    << Table("secret_refs", {"actors", "tenants"}),
       Check("secret_refs", "ck_secret_uri_format", "sops"),
       Check("secret_refs", "ck_secret_uri_components_match", "sops"),
       Table("secret_capability_tokens", {"actors", "secret_refs", "tenants"}),
       Index("secret_refs", {"one_active_per_name", "one_pending_per_name", "idx_status",
           "idx_scope_name"}),
       Index("secret_capability_tokens", {"idx_expires_at", "idx_issued_status",
           "idx_issued_actor", "idx_issued_run"}), Stamp({"secret_refs"}) >>
Down0004 ==
    << NoStamp({"secret_refs"}), NoTable("secret_capability_tokens"),
       NoTable("secret_refs") >>

Up0005 ==
    << Table("policy_rules", {"projects", "tenants"}),
       Index("policy_rules", {"idx_tenant_action_class", "idx_policy_version"}),
       Stamp({"policy_rules"}) >>
Down0005 == << NoStamp({"policy_rules"}), NoTable("policy_rules") >>

Up0006 ==
    << Table("approval_requests", {"actors", "tenants"}),
       Table("policy_decisions", {"actors", "approval_requests", "tenants"}),
       Index("approval_requests", {"idx_tenant_status", "idx_tenant_run",
           "idx_requested_at"}),
       Index("policy_decisions", {"idx_tenant_action_class", "idx_tenant_approval",
           "idx_created_at"}) >>
Down0006 == << NoTable("policy_decisions"), NoTable("approval_requests") >>

Up0007 == << Checks("approval_requests", {"ck_decided_at_after_requested_at"}) >>
Down0007 == << NoCheck("approval_requests", {"ck_decided_at_after_requested_at"}) >>

Up0008 ==
    << Table("agent_runs", {"projects", "tenants"}),
       Index("agent_runs", {"idx_tenant_project_status", "idx_tenant_project_parent",
           "idx_tenant_created_at"}), Stamp({"agent_runs"}),
       Table("agent_run_events", {"actors", "agent_runs", "tenants"}),
       Check("agent_run_events", "ck_event_type", "22"),
       Check("agent_run_events", "ck_no_prohibited_payload_keys", "21"),
       Index("agent_run_events", {"uq_tenant_run_idempotency_key",
           "idx_tenant_run_created"}) >>
Down0008 ==
    << NoTable("agent_run_events"), NoStamp({"agent_runs"}), NoTable("agent_runs") >>

Up0009 ==
    << Table("artifacts", {"agent_runs", "tenants"}), Check("artifacts", "ck_kind", "6"),
       Check("artifacts", "ck_no_prohibited_payload_keys", "21"),
       Index("artifacts", {"idx_tenant_run_created", "idx_tenant_run_kind",
           "idx_tenant_content_hash", "idx_tenant_parent"}),
       Table("context_snapshots", {"agent_runs", "tenants"}),
       Checks("context_snapshots", {"ck_repo_state_required", "ck_tool_manifest_required",
           "ck_fingerprint_required", "ck_continuation_ref_required"}),
       Index("context_snapshots", {"idx_tenant_run_created", "idx_tenant_run_kind"}) >>
Down0009 ==
    << NoCheck("context_snapshots", {"ck_continuation_ref_required",
           "ck_fingerprint_required", "ck_tool_manifest_required", "ck_repo_state_required"}),
       NoTable("context_snapshots"), NoTable("artifacts") >>

Up0010 ==
    << Table("budgets", {"tenants"}),
       Index("budgets", {"uq_global_level_active", "uq_tenant_level_active",
           "uq_project_level_active", "uq_agent_run_level_active",
           "idx_tenant_level_active"}), Stamp({"budgets"}) >>
Down0010 == << NoStamp({"budgets"}), NoTable("budgets") >>

Up0011 ==
    << NoCheck("agent_run_events", {"ck_event_type"}),
       Check("agent_run_events", "ck_event_type", "25"),
       Column("artifacts", {"trust_level"}), Checks("artifacts", {"ck_trust_level"}) >>
Down0011 ==
    << NoCheck("artifacts", {"ck_trust_level"}), NoColumn("artifacts", {"trust_level"}),
       NoCheck("agent_run_events", {"ck_event_type"}),
       Check("agent_run_events", "ck_event_type", "22") >>

Up0012 == << NoCheck("artifacts", {"ck_kind"}), Check("artifacts", "ck_kind", "11") >>
Down0012 == << NoCheck("artifacts", {"ck_kind"}), Check("artifacts", "ck_kind", "6") >>

Up0013 ==
    << NoCheck("agent_run_events", {"ck_event_type"}),
       Check("agent_run_events", "ck_event_type", "28") >>
Down0013 ==
    << NoCheck("agent_run_events", {"ck_event_type"}),
       Check("agent_run_events", "ck_event_type", "25") >>

Up0014 ==
    << NoCheck("agent_run_events", {"ck_no_prohibited_payload_keys"}),
       Check("agent_run_events", "ck_no_prohibited_payload_keys", "21") >>
Down0014 ==
    << NoCheck("agent_run_events", {"ck_no_prohibited_payload_keys"}),
       Check("agent_run_events", "ck_no_prohibited_payload_keys", "18") >>

Up0015 ==
    << NoCheck("artifacts", {"ck_no_prohibited_payload_keys"}),
       Check("artifacts", "ck_no_prohibited_payload_keys", "21") >>
Down0015 ==
    << NoCheck("artifacts", {"ck_no_prohibited_payload_keys"}),
       Check("artifacts", "ck_no_prohibited_payload_keys", "18") >>

Up0016 ==
    << Table("research_tasks", {"actors", "projects", "tenants"}),
       Stamp({"research_tasks"}), Table("evidence_sources", {"tenants"}),
       Stamp({"evidence_sources"}) >>
Down0016 ==
    << NoStamp({"evidence_sources", "research_tasks"}), NoTable("evidence_sources"),
       NoTable("research_tasks") >>

Up0017 ==
    << Table("claims", {"research_tasks", "tenants"}), Stamp({"claims"}),
       Index("claims", {"ix_tenant_project_research_task_created"}),
       Table("evidence_items", {"claims", "evidence_sources", "tenants"}),
       Stamp({"evidence_items"}) >>
Down0017 ==
    << NoStamp({"evidence_items", "claims"}),
       NoIndex("claims", {"ix_tenant_project_research_task_created"}),
       NoTable("evidence_items"), NoTable("claims") >>

Up0018 ==
    << Table("dataset_versions", {"tenants"}),
       Index("dataset_versions", {"ix_tenant_kind_created"}),
       Table("eval_runs", {"agent_runs", "dataset_versions", "tenants"}),
       Index("eval_runs", {"ix_tenant_dataset_started"}),
       Table("eval_cases", {"dataset_versions", "tenants"}),
       Index("eval_cases", {"ix_tenant_dataset"}),
       Table("eval_scores", {"eval_cases", "eval_runs", "tenants"}),
       Index("eval_scores", {"ix_tenant_run_metric"}) >>
Down0018 ==
    << NoIndex("eval_scores", {"ix_tenant_run_metric"}),
       NoIndex("eval_cases", {"ix_tenant_dataset"}),
       NoIndex("eval_runs", {"ix_tenant_dataset_started"}),
       NoIndex("dataset_versions", {"ix_tenant_kind_created"}), NoTable("eval_scores"),
       NoTable("eval_cases"), NoTable("eval_runs"), NoTable("dataset_versions") >>

Up0019 ==
    << Column("artifacts", {"project_id"}), NotNull("artifacts", {"project_id"}),
       Fk("artifacts", "project_fkey", "projects"),
       Fk("artifacts", "run_project_fkey", "agent_runs"),
       Unique("artifacts", {"uq_tenant_project_id"}),
       Index("artifacts", {"idx_tenant_project_created"}) >>
Down0019 ==
    << NoIndex("artifacts", {"idx_tenant_project_created"}),
       NoUnique("artifacts", {"uq_tenant_project_id"}),
       NoFk("artifacts", {"run_project_fkey", "project_fkey"}),
       NoColumn("artifacts", {"project_id"}) >>

Up0020 ==
    << Table("project_agent_roles", {"actors", "projects", "tenants"}),
       Index("project_agent_roles", {"idx_tenant_project_role"}),
       Table("standard_role_ids_mirror", {}) >>
Down0020 ==
    << NoTable("standard_role_ids_mirror"),
       NoIndex("project_agent_roles", {"idx_tenant_project_role"}),
       NoTable("project_agent_roles") >>

Up0021 ==
    << Column("agent_runs", {"role_id", "role_scope", "orchestrator_lease_token",
           "orchestrator_lease_expires_at", "lease_renewed_at", "orchestrator_kill_at",
           "last_progress_at", "progress_seq"}),
       Checks("agent_runs", {"ck_role_scope", "role_consistency"}),
       Index("agent_runs", {"idx_lease_expires"}) >>
Down0021 ==
    << NoIndex("agent_runs", {"idx_lease_expires"}),
       NoCheck("agent_runs", {"role_consistency", "ck_role_scope"}),
       NoColumn("agent_runs", {"progress_seq", "last_progress_at", "orchestrator_kill_at",
           "lease_renewed_at", "orchestrator_lease_expires_at",
           "orchestrator_lease_token", "role_scope", "role_id"}) >>

Up0022 ==
    << Function("check_project_role_link", "0022"),
       Trigger("agent_runs", "check_project_role", "check_project_role_link") >>
Down0022 ==
    << NoTrigger("agent_runs", {"check_project_role"}),
       NoFunction("check_project_role_link") >>

Up0023 == << Table("sanitizer_policy_versions", {"tenants"}) >>
Down0023 == << NoTable("sanitizer_policy_versions") >>

Up0024 == << Function("check_project_role_link", "0024") >>
Down0024 == << Function("check_project_role_link", "0022") >>

Up0025 ==
    << NoCheck("agent_run_events", {"ck_event_type"}),
       Check("agent_run_events", "ck_event_type", "37") >>
Down0025 ==
    << NoCheck("agent_run_events", {"ck_event_type"}),
       Check("agent_run_events", "ck_event_type", "28") >>

Up0026 ==
    << Table("review_artifacts", {"agent_runs", "artifacts", "projects", "tenants"}),
       Index("review_artifacts", {"idx_tenant_project_parent",
           "idx_tenant_project_reviewer", "idx_target_action"}) >>
Down0026 ==
    << NoIndex("review_artifacts", {"idx_target_action", "idx_tenant_project_reviewer",
           "idx_tenant_project_parent"}), NoTable("review_artifacts") >>

Up0027 ==
    << Table("policy_profiles", {"tenants"}),
       Table("policy_profile_action_effects", {"policy_profiles", "tenants"}),
       Function("seed_policy_profiles_for_tenant", ""),
       Trigger("tenants", "seed_policy_profiles", "seed_policy_profiles_for_tenant"),
       NotNull("projects", {"policy_profile"}),
       Fk("projects", "policy_profile_fkey", "policy_profiles"),
       Column("policy_decisions", {"policy_profile", "profile_resolved_effect",
           "required_review_artifact_id"}),
       Function("set_policy_decision_profile_defaults", ""),
       Trigger("policy_decisions", "set_profile_defaults",
           "set_policy_decision_profile_defaults"),
       NotNull("policy_decisions", {"policy_profile", "profile_resolved_effect"}),
       Checks("policy_decisions", {"ck_profile_resolved_effect"}),
       Fk("policy_decisions", "policy_profile_fkey", "policy_profiles"),
       Fk("policy_decisions", "required_review_artifact_fkey", "review_artifacts"),
       Index("policy_decisions", {"idx_tenant_policy_profile",
           "idx_required_review_artifact"}) >>
Down0027 ==
    << NoTrigger("tenants", {"seed_policy_profiles"}),
       NoFunction("seed_policy_profiles_for_tenant"),
       NoIndex("policy_decisions", {"idx_required_review_artifact",
           "idx_tenant_policy_profile"}),
       NoFk("policy_decisions", {"required_review_artifact_fkey", "policy_profile_fkey"}),
       NoCheck("policy_decisions", {"ck_profile_resolved_effect"}),
       NoTrigger("policy_decisions", {"set_profile_defaults"}),
       NoFunction("set_policy_decision_profile_defaults"),
       NoColumn("policy_decisions", {"required_review_artifact_id",
           "profile_resolved_effect", "policy_profile"}),
       NoFk("projects", {"policy_profile_fkey"}), Nullable("projects", {"policy_profile"}),
       NoTable("policy_profile_action_effects"), NoTable("policy_profiles") >>

Up0028 ==
    << Table("tool_registry", {"tenants"}),
       Index("tool_registry", {"idx_tenant_network_access"}),
       Table("tool_network_policies", {"tenants", "tool_registry"}),
       Function("seed_tool_registry_network_for_tenant", "0028"),
       Trigger("tenants", "seed_tool_registry_network",
           "seed_tool_registry_network_for_tenant") >>
Down0028 ==
    << NoTrigger("tenants", {"seed_tool_registry_network"}),
       NoFunction("seed_tool_registry_network_for_tenant"),
       NoTable("tool_network_policies"),
       NoIndex("tool_registry", {"idx_tenant_network_access"}), NoTable("tool_registry") >>

Up0029 ==
    << Column("tool_registry", {"registry_version", "allowed_actions",
           "max_outgoing_data_class"}),
       NotNull("tool_registry", {"registry_version", "allowed_actions",
           "max_outgoing_data_class"}),
       Checks("tool_registry", {"ck_registry_version_non_empty", "ck_allowed_actions",
           "ck_max_outgoing_data_class"}),
       Table("tool_versions", {"tenants", "tool_registry"}),
       Index("tool_versions", {"idx_tenant_registry_version"}),
       Function("seed_tool_registry_network_for_tenant", "0029") >>
Down0029 ==
    << Function("seed_tool_registry_network_for_tenant", "0028"),
       NoIndex("tool_versions", {"idx_tenant_registry_version"}), NoTable("tool_versions"),
       NoCheck("tool_registry", {"ck_max_outgoing_data_class", "ck_allowed_actions",
           "ck_registry_version_non_empty"}),
       NoColumn("tool_registry", {"max_outgoing_data_class", "allowed_actions",
           "registry_version"}) >>

Up0030 ==
    << Table("inter_agent_messages", {"actors", "agent_runs", "approval_requests",
           "artifacts", "projects", "tenants"}),
       Index("inter_agent_messages", {"idx_unconsumed", "idx_receiver", "idx_sender_run",
           "idx_expires_at"}) >>
Down0030 ==
    << NoIndex("inter_agent_messages", {"idx_expires_at", "idx_sender_run",
           "idx_receiver", "idx_unconsumed"}), NoTable("inter_agent_messages") >>

Up0031 ==
    << Table("api_capability_tokens", {"actors", "principals", "projects", "tenants"}),
       Index("api_capability_tokens", {"idx_active", "idx_project"}) >>
Down0031 ==
    << NoIndex("api_capability_tokens", {"idx_project", "idx_active"}),
       NoTable("api_capability_tokens") >>

Up0032 ==
    << Table("memory_records", {"artifacts", "projects", "sanitizer_policy_versions",
           "tenants"}),
       Index("memory_records", {"idx_tenant_project_kind_created", "idx_active_retention"}),
       Table("memory_retrieval_artifacts", {"agent_runs", "context_snapshots",
           "memory_records", "projects", "sanitizer_policy_versions", "tenants"}),
       Index("memory_retrieval_artifacts", {"idx_tenant_project_record_created",
           "idx_retrieval_run"}) >>
Down0032 ==
    << NoIndex("memory_retrieval_artifacts", {"idx_retrieval_run",
           "idx_tenant_project_record_created"}), NoTable("memory_retrieval_artifacts"),
       NoIndex("memory_records", {"idx_active_retention", "idx_tenant_project_kind_created"}),
       NoTable("memory_records") >>

Up0033 ==
    << Unique("agent_run_events", {"uq_tenant_run_id"}),
       Table("adopted_artifacts", {"actors", "agent_run_events", "agent_runs",
           "artifacts", "projects", "tenants"}),
       Index("adopted_artifacts", {"idx_final_project_run", "idx_final_artifact"}) >>
Down0033 ==
    << NoIndex("adopted_artifacts", {"idx_final_artifact", "idx_final_project_run"}),
       NoTable("adopted_artifacts"), NoUnique("agent_run_events", {"uq_tenant_run_id"}) >>

Up0034 ==
    << Column("projects", {"autonomy_level"}), Checks("projects", {"ck_autonomy_level"}),
       Index("projects", {"idx_tenant_autonomy_level"}) >>
Down0034 ==
    << NoIndex("projects", {"idx_tenant_autonomy_level"}),
       NoCheck("projects", {"ck_autonomy_level"}),
       NoColumn("projects", {"autonomy_level"}) >>

Up0035 ==
    << Column("notification_events", {"severity", "required_action", "due_at",
           "snoozed_until", "resolved_at", "resolved_by_actor_id", "dedupe_key"}),
       Checks("notification_events", {"ck_severity", "ck_required_action",
           "ck_resolved_consistency"}),
       Fk("notification_events", "resolved_by_actor_fkey", "actors"),
       Index("notification_events", {"idx_triage_open", "uq_open_dedupe"}) >>
Down0035 ==
    << NoIndex("notification_events", {"uq_open_dedupe", "idx_triage_open"}),
       NoFk("notification_events", {"resolved_by_actor_fkey"}),
       NoCheck("notification_events", {"ck_resolved_consistency", "ck_required_action",
           "ck_severity"}),
       NoColumn("notification_events", {"dedupe_key", "resolved_by_actor_id",
           "resolved_at", "snoozed_until", "due_at", "required_action", "severity"}) >>

Up0036 ==
    << Table("approval_revision_requests", {"actors", "approval_requests", "tenants"}),
       Index("approval_revision_requests", {"uq_open_approval", "idx_approval",
           "idx_requested_by", "idx_superseded_by"}) >>
Down0036 ==
    << NoIndex("approval_revision_requests", {"idx_superseded_by", "idx_requested_by",
           "idx_approval", "uq_open_approval"}), NoTable("approval_revision_requests") >>

Up0037 == << Column("tickets", {"due_date"}) >>
Down0037 == << NoColumn("tickets", {"due_date"}) >>

Up0038 == << Column("projects", {"description"}) >>
Down0038 == << NoColumn("projects", {"description"}) >>

Up0039 ==
    << Column("tickets", {"deleted_at", "deleted_batch_id", "deleted_by_actor_id"}),
       Index("tickets", {"idx_active", "idx_deleted_batch"}) >>
Down0039_Unchecked ==
    << NoIndex("tickets", {"idx_deleted_batch", "idx_active"}),
       NoColumn("tickets", {"deleted_by_actor_id", "deleted_batch_id", "deleted_at"}) >>

Down0039 ==
    << Rows("none deleted"), NoIndex("tickets", {"idx_deleted_batch", "idx_active"}),
       NoColumn("tickets", {"deleted_by_actor_id", "deleted_batch_id", "deleted_at"}) >>

Up0040 ==
    << Column("agent_runs", {"ticket_id"}), Rows("ticket binding"),
       Index("agent_runs", {"idx_tenant_ticket"}),
       Fk("agent_runs", "ticket_fkey", "tickets"), Rows("binding resolved") >>
Down0040 ==
    << Rows("binding lossless"), NoFk("agent_runs", {"ticket_fkey"}),
       NoIndex("agent_runs", {"idx_tenant_ticket"}),
       NoColumn("agent_runs", {"ticket_id"}) >>

Up0041 ==
    << Function("agent_run_event_notify", ""),
       Trigger("agent_run_events", "agent_run_event_notify_trg", "agent_run_event_notify"),
       Function("agent_run_status_notify", ""),
       Trigger("agent_runs", "agent_run_status_notify_trg", "agent_run_status_notify") >>
Down0041 ==
    << NoTrigger("agent_runs", {"agent_run_status_notify_trg"}),
       NoFunction("agent_run_status_notify"),
       NoTrigger("agent_run_events", {"agent_run_event_notify_trg"}),
       NoFunction("agent_run_event_notify") >>

Up0042 ==
    << Table("tags", {"projects", "tenants"}),
       Table("ticket_tags", {"tags", "tenants", "tickets"}),
       Index("ticket_tags", {"ix_tag"}) >>
Down0042 ==
    << NoIndex("ticket_tags", {"ix_tag"}), NoTable("ticket_tags"), NoTable("tags") >>

Up0043 == << Table("mcp_idempotency_keys", {"actors"}) >>
Down0043 == << NoTable("mcp_idempotency_keys") >>

Up0044 ==
    << Table("github_webhook_events", {"tenants"}),
       Check("github_webhook_events", "quarantine_reason_check", "nullable"),
       Fk("github_webhook_events", "repository_fkey", "repositories"),
       Index("github_webhook_events", {"ix_feed"}) >>
Down0044 ==
    << NoIndex("github_webhook_events", {"ix_feed"}), NoTable("github_webhook_events") >>

Up0045 ==
    << Table("conflict_groups", {"actors", "research_tasks", "tenants"}),
       Index("conflict_groups", {"ix_research_task"}), Stamp({"conflict_groups"}),
       Table("domain_trust_registry", {"actors", "tenants"}),
       Stamp({"domain_trust_registry"}), Column("claims", {"conflict_group_id"}),
       Fk("claims", "conflict_group_fkey", "conflict_groups"),
       Index("claims", {"ix_conflict_group"}) >>
Down0045 ==
    << NoIndex("claims", {"ix_conflict_group"}), NoFk("claims", {"conflict_group_fkey"}),
       NoColumn("claims", {"conflict_group_id"}), NoStamp({"domain_trust_registry"}),
       NoTable("domain_trust_registry"), NoStamp({"conflict_groups"}),
       NoIndex("conflict_groups", {"ix_research_task"}), NoTable("conflict_groups") >>

Up0046 ==
    << Column("evidence_sources", {"trust_level", "trust_score"}),
       Checks("evidence_sources", {"ck_trust_level", "ck_trust_score_range",
           "ck_trust_score_requires_level"}) >>
Down0046 ==
    << NoCheck("evidence_sources", {"ck_trust_score_requires_level",
           "ck_trust_score_range", "ck_trust_level"}),
       NoColumn("evidence_sources", {"trust_score", "trust_level"}) >>

Up0047 ==
    << Rows("reasons"), NoCheck("github_webhook_events", {"quarantine_reason_check"}),
       Check("github_webhook_events", "quarantine_reason_check", "required") >>
Down0047 ==
    << NoCheck("github_webhook_events", {"quarantine_reason_check"}),
       Check("github_webhook_events", "quarantine_reason_check", "nullable") >>

Up0048 == << Column("agent_runs", {"run_mode"}), Checks("agent_runs", {"ck_run_mode"}) >>
Down0048 ==
    << NoCheck("agent_runs", {"ck_run_mode"}), NoColumn("agent_runs", {"run_mode"}) >>

Up0049 ==
    << NoCheck("secret_refs", {"ck_secret_uri_format"}),
       Check("secret_refs", "ck_secret_uri_format", "sops or local"),
       NoCheck("secret_refs", {"ck_secret_uri_components_match"}),
       Check("secret_refs", "ck_secret_uri_components_match", "sops or local") >>
Down0049 ==
    << Rows("no local"), NoCheck("secret_refs", {"ck_secret_uri_format"}),
       Check("secret_refs", "ck_secret_uri_format", "sops"),
       NoCheck("secret_refs", {"ck_secret_uri_components_match"}),
       Check("secret_refs", "ck_secret_uri_components_match", "sops") >>

Up0050 ==
    << Column("secret_refs", {"material_state", "material_purged_at", "purge_attempts"}),
       Rows("material"),
       Checks("secret_refs", {"ck_material_state", "ck_purge_attempts_nonneg",
           "ck_material_purged_at_state", "ck_material_purge_requires_revoked",
           "ck_transient_material_local_only"}) >>
Down0050 ==
    << Rows("no local"),
       NoCheck("secret_refs", {"ck_transient_material_local_only",
           "ck_material_purge_requires_revoked", "ck_material_purged_at_state",
           "ck_purge_attempts_nonneg", "ck_material_state"}),
       NoColumn("secret_refs", {"purge_attempts", "material_purged_at", "material_state"}) >>

Up0051 ==
    << NoCheck("agent_run_events", {"ck_event_type"}),
       Check("agent_run_events", "ck_event_type", "39") >>
Down0051 ==
    << NoCheck("agent_run_events", {"ck_event_type"}),
       Check("agent_run_events", "ck_event_type", "37") >>

Up0052 ==
    << Table("managed_agents", {"agent_runs", "projects", "tenants"}),
       Index("managed_agents", {"idx_host_state", "idx_tenant_state", "uq_active_agent_run"}),
       Column("agent_runs", {"pre_stop_status"}),
       Checks("agent_runs", {"ck_pre_stop_status"}) >>
Down0052 ==
    << NoCheck("agent_runs", {"ck_pre_stop_status"}),
       NoColumn("agent_runs", {"pre_stop_status"}),
       NoIndex("managed_agents", {"uq_active_agent_run", "idx_tenant_state",
           "idx_host_state"}), NoTable("managed_agents") >>

Up0053 ==
    << Table("superintendent_emergency_stops", {"actors", "tenants"}),
       Index("superintendent_emergency_stops", {"uq_active", "idx_tenant_generation"}) >>
Down0053 ==
    << NoIndex("superintendent_emergency_stops", {"idx_tenant_generation", "uq_active"}),
       NoTable("superintendent_emergency_stops") >>

Up0054 == << Rows("pgids"), Checks("managed_agents", {"ck_pgid_positive"}) >>
Down0054 == << NoCheck("managed_agents", {"ck_pgid_positive"}) >>

-----------------------------------------------------------------------------

upgrade ==
    << Up0001, Up0002, Up0003, Up0004, Up0005, Up0006, Up0007, Up0008,
       Up0009, Up0010, Up0011, Up0012, Up0013, Up0014, Up0015, Up0016,
       Up0017, Up0018, Up0019, Up0020, Up0021, Up0022, Up0023, Up0024,
       Up0025, Up0026, Up0027, Up0028, Up0029, Up0030, Up0031, Up0032,
       Up0033, Up0034, Up0035, Up0036, Up0037, Up0038, Up0039, Up0040,
       Up0041, Up0042, Up0043, Up0044, Up0045, Up0046, Up0047, Up0048,
       Up0049, Up0050, Up0051, Up0052, Up0053, Up0054 >>

downgrade ==
    << Down0001, Down0002, Down0003, Down0004, Down0005, Down0006, Down0007, Down0008,
       Down0009, Down0010, Down0011, Down0012, Down0013, Down0014, Down0015, Down0016,
       Down0017, Down0018, Down0019, Down0020, Down0021, Down0022, Down0023, Down0024,
       Down0025, Down0026, Down0027, Down0028, Down0029, Down0030, Down0031, Down0032,
       Down0033, Down0034, Down0035, Down0036, Down0037, Down0038, Down0039, Down0040,
       Down0041, Down0042, Down0043, Down0044, Down0045, Down0046, Down0047, Down0048,
       Down0049, Down0050, Down0051, Down0052, Down0053, Down0054 >>

HeadRevision == Len(upgrade)
=============================================================================
