--------------------------- MODULE AgentRunStatus ---------------------------
(***************************************************************************)
(* The AgentRun state machine: the sixteen statuses, the transition table  *)
(* with its shadow-mode amendments, and the events that may witness a      *)
(* transition into "blocked".  These are the tables that                   *)
(* services/agent_runtime/state_machine.py and                             *)
(* domain/agent_runtime/status.py declare; every writer that goes through  *)
(* transition_with_event is confined to them, the others are not.          *)
(***************************************************************************)

AgentRunStatuses ==
    {"queued", "gathering_context", "running", "generated_artifact",
     "schema_validated", "policy_linted", "diff_ready", "waiting_approval",
     "blocked", "provider_refused", "provider_incomplete",
     "validation_failed", "repair_exhausted", "completed", "failed",
     "cancelled"}

TERMINAL_STATES ==
    {"completed", "failed", "cancelled", "provider_refused",
     "repair_exhausted"}

BlockedReasons == {"policy_blocked", "budget_blocked", "runtime_blocked"}

RunModes == {"production", "shadow"}

ALLOWED_TRANSITIONS ==
    {<<"queued", "gathering_context">>, <<"gathering_context", "running">>}
    \cup ({"running"} \X {"generated_artifact", "provider_refused",
                          "provider_incomplete", "blocked", "failed",
                          "cancelled", "completed"})
    \cup ({"generated_artifact"} \X {"schema_validated", "validation_failed"})
    \cup {<<"schema_validated", "policy_linted">>}
    \cup ({"policy_linted"} \X {"diff_ready", "blocked"})
    \cup ({"diff_ready"} \X {"waiting_approval", "blocked"})
    \cup ({"waiting_approval"} \X {"running", "blocked", "cancelled"})
    \cup ({"blocked"} \X {"waiting_approval", "running", "policy_linted",
                          "diff_ready", "failed", "cancelled"})
    \cup ({"provider_incomplete"} \X {"running", "failed", "cancelled"})
    \cup ({"validation_failed"} \X {"running", "repair_exhausted"})

SHADOW_EXTRA_TRANSITIONS == {<<"schema_validated", "completed">>}

(* A mutant of the table below: without the edges into the side-effect     *)
(* pipeline.                                                               *)
SHADOW_FORBIDDEN_ShortcutOnly == {<<"running", "completed">>}

SHADOW_FORBIDDEN_TRANSITIONS ==
    {<<"running", "completed">>, <<"schema_validated", "policy_linted">>,
     <<"policy_linted", "diff_ready">>, <<"diff_ready", "waiting_approval">>,
     <<"waiting_approval", "running">>, <<"blocked", "policy_linted">>,
     <<"blocked", "diff_ready">>}

(* The table a run of each mode obeys.                                     *)
TransitionsOf ==
    [production |-> ALLOWED_TRANSITIONS,
     shadow |-> (ALLOWED_TRANSITIONS \cup SHADOW_EXTRA_TRANSITIONS)
                  \ SHADOW_FORBIDDEN_TRANSITIONS]

(* validate_transition: a terminal status has no successor, everything     *)
(* else is a lookup in the table of the run's mode.                        *)
ValidTransition(from, to, mode) ==
    /\ from \notin TERMINAL_STATES
    /\ <<from, to>> \in TransitionsOf[mode]

(* The event types that may witness a transition into "blocked", by source *)
(* status.  Only the statuses listed here can be blocked at all.           *)
BlockEvents(from) ==
    CASE from = "running" -> {"policy_blocked", "budget_blocked",
                              "runtime_blocked", "emergency_stop_engaged"}
      [] from = "diff_ready" -> {"policy_blocked", "budget_blocked",
                                 "emergency_stop_engaged"}
      [] from \in {"policy_linted", "waiting_approval"} ->
                                {"policy_blocked", "emergency_stop_engaged"}
      [] OTHER -> {}

(* BLOCKED_EVENT_TYPE_REASON_MAPPING: an emergency stop has an event of    *)
(* its own but shares the reason "runtime_blocked" with other blocks.      *)
ReasonOfEvent(event) ==
    IF event = "emergency_stop_engaged" THEN "runtime_blocked" ELSE event

(* The statuses an emergency stop blocks and later restores.               *)
BLOCK_SOURCE_STATUSES ==
    {"running", "policy_linted", "diff_ready", "waiting_approval"}

(* bridge_run_update's valid_statuses.                                     *)
RUN_UPDATE_STATUSES ==
    {"running", "completed", "failed", "blocked", "gathering_context",
     "generated_artifact"}

=============================================================================
