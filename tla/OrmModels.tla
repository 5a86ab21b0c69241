------------------------------ MODULE OrmModels ------------------------------
(***************************************************************************)
(* db/models: what the mapped classes of the application expect of the     *)
(* database.  A class names its table, the tables it refers to, and what   *)
(* migrations add or change one by one: the columns that came after the    *)
(* table, indexes, checks (with their text, where it has had several) and  *)
(* unique constraints.  Columns and constraints that came with the table   *)
(* are part of it.                                                         *)
(***************************************************************************)

Model(t, refs, columns, indexes, checks, uniques) ==
    [table |-> t, refs |-> refs, columns |-> columns,
     objs |-> {<<"column", t, c, "">> : c \in columns}
              \cup {<<"index", t, i, "">> : i \in indexes}
              \cup {<<"check", t, c[1], c[2]>> : c \in checks}
              \cup {<<"unique", t, u, "">> : u \in uniques}]

AcceptanceCriteria ==
    Model("acceptance_criteria", {"projects", "tenants", "tickets"}, {}, {}, {}, {})
Actor == Model("actors", {"tenants"}, {}, {}, {}, {})
AdoptedArtifact ==
    Model("adopted_artifacts", {"actors", "agent_run_events", "agent_runs", "artifacts",
        "projects", "tenants"}, {}, {"idx_final_project_run", "idx_final_artifact"}, {}, {})
AgentRun ==
    Model("agent_runs", {"projects", "tenants", "tickets"}, {"role_id", "role_scope",
        "orchestrator_lease_token", "orchestrator_lease_expires_at", "lease_renewed_at",
        "orchestrator_kill_at", "last_progress_at", "progress_seq", "ticket_id", "run_mode",
        "pre_stop_status"}, {"idx_tenant_project_status", "idx_tenant_project_parent",
        "idx_tenant_created_at", "idx_lease_expires"}, {<<"ck_run_mode", "">>,
        <<"ck_pre_stop_status", "">>, <<"ck_role_scope", "">>, <<"role_consistency", "">>}, {})
AgentRunEvent ==
    Model("agent_run_events", {"actors", "agent_runs", "tenants"}, {},
        {"uq_tenant_run_idempotency_key", "idx_tenant_run_created"}, {<<"ck_event_type", "39">>,
        <<"ck_no_prohibited_payload_keys", "21">>}, {})
ApiCapabilityToken ==
    Model("api_capability_tokens", {"actors", "principals", "projects", "tenants"}, {},
        {"idx_active", "idx_project"}, {}, {})
ApprovalRequest ==
    Model("approval_requests", {"actors", "tenants"}, {}, {"idx_tenant_status",
        "idx_tenant_run", "idx_requested_at"}, {<<"ck_decided_at_after_requested_at", "">>}, {})
ApprovalRevisionRequest ==
    Model("approval_revision_requests", {"actors", "approval_requests", "tenants"}, {},
        {"uq_open_approval", "idx_approval", "idx_requested_by", "idx_superseded_by"}, {}, {})
Artifact ==
    Model("artifacts", {"agent_runs", "projects", "tenants"}, {"trust_level", "project_id"},
        {"idx_tenant_run_created", "idx_tenant_project_created", "idx_tenant_run_kind",
        "idx_tenant_content_hash", "idx_tenant_parent"}, {<<"ck_kind", "11">>, <<"ck_trust_level",
        "">>, <<"ck_no_prohibited_payload_keys", "21">>}, {"uq_tenant_project_id"})
AuditEvent == Model("audit_events", {"actors", "principals", "tenants"}, {}, {}, {}, {})
Budget ==
    Model("budgets", {"tenants"}, {}, {"uq_global_level_active", "uq_tenant_level_active",
        "uq_project_level_active", "uq_agent_run_level_active", "idx_tenant_level_active"}, {}, {})
Claim ==
    Model("claims", {"conflict_groups", "research_tasks", "tenants"}, {"conflict_group_id"}, {},
        {}, {})
ConflictGroup ==
    Model("conflict_groups", {"actors", "research_tasks", "tenants"}, {}, {}, {}, {})
ContextSnapshot ==
    Model("context_snapshots", {"agent_runs", "tenants"}, {}, {"idx_tenant_run_created",
        "idx_tenant_run_kind"}, {}, {})
DatasetVersion == Model("dataset_versions", {"tenants"}, {}, {"ix_tenant_kind_created"}, {}, {})
DomainTrustRegistry == Model("domain_trust_registry", {"actors", "tenants"}, {}, {}, {}, {})
EvalCase ==
    Model("eval_cases", {"dataset_versions", "tenants"}, {}, {"ix_tenant_dataset"}, {}, {})
EvalRun ==
    Model("eval_runs", {"agent_runs", "dataset_versions", "tenants"}, {},
        {"ix_tenant_dataset_started"}, {}, {})
EvalScore ==
    Model("eval_scores", {"eval_cases", "eval_runs", "tenants"}, {}, {"ix_tenant_run_metric"},
        {}, {})
EvidenceItem ==
    Model("evidence_items", {"claims", "evidence_sources", "tenants"}, {}, {}, {}, {})
EvidenceSource ==
    Model("evidence_sources", {"tenants"}, {"trust_level", "trust_score"}, {},
        {<<"ck_trust_level", "">>, <<"ck_trust_score_range", "">>,
        <<"ck_trust_score_requires_level", "">>}, {})
GitHubWebhookEvent ==
    Model("github_webhook_events", {"repositories", "tenants"}, {}, {"ix_feed"},
        {<<"quarantine_reason_check", "required">>}, {})
InterAgentMessage ==
    Model("inter_agent_messages", {"actors", "agent_runs", "approval_requests", "artifacts",
        "projects", "tenants"}, {}, {"idx_unconsumed", "idx_receiver", "idx_sender_run",
        "idx_expires_at"}, {}, {})
ManagedAgentRecord ==
    Model("managed_agents", {"agent_runs", "projects", "tenants"}, {}, {"idx_host_state",
        "idx_tenant_state", "uq_active_agent_run"}, {<<"ck_pgid_positive", "">>}, {})
McpIdempotencyKey == Model("mcp_idempotency_keys", {"actors"}, {}, {}, {}, {})
MemoryRecord ==
    Model("memory_records", {"artifacts", "projects", "sanitizer_policy_versions", "tenants"},
        {}, {"idx_tenant_project_kind_created", "idx_active_retention"}, {}, {})
MemoryRetrievalArtifact ==
    Model("memory_retrieval_artifacts", {"agent_runs", "context_snapshots", "memory_records",
        "projects", "sanitizer_policy_versions", "tenants"}, {},
        {"idx_tenant_project_record_created", "idx_retrieval_run"}, {}, {})
NotificationEvent ==
    Model("notification_events", {"actors", "tenants"}, {"severity", "required_action",
        "due_at", "snoozed_until", "resolved_at", "resolved_by_actor_id", "dedupe_key"},
        {"idx_triage_open", "uq_open_dedupe"}, {<<"ck_severity", "">>, <<"ck_required_action", "">>,
        <<"ck_resolved_consistency", "">>}, {})
PolicyDecision ==
    Model("policy_decisions", {"actors", "approval_requests", "policy_profiles",
        "review_artifacts", "tenants"}, {"policy_profile", "profile_resolved_effect",
        "required_review_artifact_id"}, {"idx_tenant_action_class", "idx_tenant_approval",
        "idx_created_at", "idx_tenant_policy_profile", "idx_required_review_artifact"},
        {<<"ck_profile_resolved_effect", "">>}, {})
PolicyProfile == Model("policy_profiles", {"tenants"}, {}, {}, {}, {})
PolicyProfileActionEffect ==
    Model("policy_profile_action_effects", {"policy_profiles", "tenants"}, {}, {}, {}, {})
PolicyRule ==
    Model("policy_rules", {"projects", "tenants"}, {}, {"idx_tenant_action_class",
        "idx_policy_version"}, {}, {})
Principal == Model("principals", {"actors", "tenants"}, {}, {}, {}, {})
Project ==
    Model("projects", {"policy_profiles", "tenants", "workspaces"}, {"autonomy_level",
        "description"}, {}, {<<"ck_autonomy_level", "">>}, {})
Repository == Model("repositories", {"projects", "tenants"}, {}, {}, {}, {})
ResearchTask == Model("research_tasks", {"actors", "projects", "tenants"}, {}, {}, {}, {})
ReviewArtifact ==
    Model("review_artifacts", {"agent_runs", "artifacts", "projects", "tenants"}, {},
        {"idx_tenant_project_parent", "idx_tenant_project_reviewer", "idx_target_action"}, {}, {})
SanitizerPolicyVersion == Model("sanitizer_policy_versions", {"tenants"}, {}, {}, {}, {})
SecretCapabilityToken ==
    Model("secret_capability_tokens", {"actors", "secret_refs", "tenants"}, {},
        {"idx_expires_at", "idx_issued_status", "idx_issued_actor", "idx_issued_run"}, {}, {})
SecretRef ==
    Model("secret_refs", {"actors", "tenants"}, {"material_state", "material_purged_at",
        "purge_attempts"}, {"one_active_per_name", "one_pending_per_name", "idx_status",
        "idx_scope_name"}, {<<"ck_secret_uri_format", "sops or local">>,
        <<"ck_secret_uri_components_match", "sops or local">>, <<"ck_material_state", "">>,
        <<"ck_purge_attempts_nonneg", "">>, <<"ck_material_purged_at_state", "">>,
        <<"ck_material_purge_requires_revoked", "">>, <<"ck_transient_material_local_only", "">>},
        {})
SuperintendentEmergencyStop ==
    Model("superintendent_emergency_stops", {"actors", "tenants"}, {}, {"uq_active",
        "idx_tenant_generation"}, {}, {})
Tag == Model("tags", {"projects", "tenants"}, {}, {}, {}, {})
TicketTag == Model("ticket_tags", {"tags", "tenants", "tickets"}, {}, {"ix_tag"}, {}, {})
Tenant == Model("tenants", {}, {}, {}, {}, {})
Ticket ==
    Model("tickets", {"actors", "projects", "repositories", "tenants"}, {"due_date",
        "deleted_at", "deleted_batch_id", "deleted_by_actor_id"}, {}, {}, {})
TicketRelation == Model("ticket_relations", {"projects", "tenants", "tickets"}, {}, {}, {}, {})
ToolRegistry ==
    Model("tool_registry", {"tenants"}, {"registry_version", "allowed_actions",
        "max_outgoing_data_class"}, {"idx_tenant_network_access"},
        {<<"ck_registry_version_non_empty", "">>, <<"ck_allowed_actions", "">>,
        <<"ck_max_outgoing_data_class", "">>}, {})
ToolNetworkPolicy ==
    Model("tool_network_policies", {"tenants", "tool_registry"}, {}, {}, {}, {})
ToolVersion ==
    Model("tool_versions", {"tenants", "tool_registry"}, {}, {"idx_tenant_registry_version"},
        {}, {})
Workspace == Model("workspaces", {"actors", "tenants"}, {}, {}, {}, {})

metadata ==
    { AcceptanceCriteria, Actor, AdoptedArtifact, AgentRun, AgentRunEvent,
      ApiCapabilityToken, ApprovalRequest, ApprovalRevisionRequest, Artifact, AuditEvent,
      Budget, Claim, ConflictGroup, ContextSnapshot, DatasetVersion, DomainTrustRegistry,
      EvalCase, EvalRun, EvalScore, EvidenceItem, EvidenceSource, GitHubWebhookEvent,
      InterAgentMessage, ManagedAgentRecord, McpIdempotencyKey, MemoryRecord,
      MemoryRetrievalArtifact, NotificationEvent, PolicyDecision, PolicyProfile,
      PolicyProfileActionEffect, PolicyRule, Principal, Project, Repository, ResearchTask,
      ReviewArtifact, SanitizerPolicyVersion, SecretCapabilityToken, SecretRef,
      SuperintendentEmergencyStop, Tag, TicketTag, Tenant, Ticket, TicketRelation,
      ToolRegistry, ToolNetworkPolicy, ToolVersion, Workspace }
=============================================================================
