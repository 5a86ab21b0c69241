---------------------------- MODULE EmergencyStop ----------------------------
(***************************************************************************)
(* The tenant-wide emergency stop and everything that writes the status of *)
(* an AgentRun around it.                                                  *)
(*                                                                         *)
(* One tenant is modelled.  Each run is a row of agent_runs; one action is *)
(* one committed transaction, except where the code reads a row without a  *)
(* lock and writes it in a later statement: those sessions keep what they  *)
(* read and are split into a begin and a commit (the MCP bridge), and the  *)
(* provider step, which reads the latch four times, is split at each read. *)
(* Statements run at READ COMMITTED, the isolation level the engine is     *)
(* created with, so each read sees the latest commit.                      *)
(*                                                                         *)
(* blockedBy, blockedFrom, callGen and respGen are history: the            *)
(* code has no such columns (the event log holds the first two) and no     *)
(* guard reads them.                                                       *)
(***************************************************************************)
EXTENDS Integers, AgentRunStatus

CONSTANTS
    Runs,           \* the rows of agent_runs
    NoRun,          \* "no run": parent of a root, run of an idle session
    RunMode,        \* run_mode of each run, immutable
    Parent,         \* parent_run_id of each run, or NoRun
    Orchestrators,  \* the runs whose role_id is the orchestrator role
    Driven,         \* the runs a worker takes through execute_provider_step
    BridgeOps,      \* the bridge operations MCP clients call
    MaxGen          \* bound: how often the operator engages the stop

ASSUME NoRunAssumption == NoRun \notin Runs
ASSUME RunModeAssumption == RunMode \in [Runs -> RunModes]
ASSUME ParentAssumption == Parent \in [Runs -> Runs \cup {NoRun}]
ASSUME RolesAssumption == Orchestrators \subseteq Runs /\ Driven \subseteq Runs
ASSUME BridgeOpsAssumption ==
    BridgeOps \subseteq {"run_update", "run_cancel", "delegation_accept",
                         "delegation_submit"}
ASSUME MaxGenAssumption == MaxGen \in Nat

VARIABLES
    status,       \* agent_runs.status, "absent" before the row exists
    reason,       \* agent_runs.blocked_reason, "none" for NULL
    preStop,      \* agent_runs.pre_stop_status, "none" for NULL
    actionable,   \* ticket not soft-deleted and project not archived
    blockedBy,    \* history: the event that blocked the run
    blockedFrom,  \* history: the status the run had when it was blocked
    engaged,      \* a latch row with cleared_at NULL exists
    maxGen,       \* MAX(generation) over all latch rows, 0 if there is none
    pc,           \* where execute_provider_step of the run stands
    g0,           \* preflight_max_generation
    postActive,   \* postflight_active_generation is not None
    callGen,      \* history: maxGen when provider.execute was called
    respGen,      \* history: maxGen when the postflight latch read ran
    bridge,       \* the bridge session that holds the advisory lock
    canceller     \* a bridge_run_cancel session, which takes no lock

rowVars == <<status, reason, preStop, blockedBy, blockedFrom>>
latchVars == <<engaged, maxGen>>
stepVars == <<pc, g0, postActive, callGen, respGen>>
sessionVars == <<bridge, canceller>>
vars == <<rowVars, actionable, latchVars, stepVars, sessionVars>>

None == "none"
NoBridge == [op |-> None, run |-> NoRun, to |-> None, seen |-> None,
             seenReason |-> None]
NoCancel == [run |-> NoRun, seenReason |-> None]

RowStatuses == AgentRunStatuses \cup {"absent"}
BridgeSessions ==
    [op : BridgeOps, run : Runs, to : RUN_UPDATE_STATUSES,
     seen : RowStatuses, seenReason : BlockedReasons \cup {None}]
CancelSessions == [run : Runs, seenReason : BlockedReasons \cup {None}]
StepPoints == {"idle", "gate", "ready", "calling", "responded", "discard",
               "passed"}

TypeOK ==
    /\ status \in [Runs -> RowStatuses]
    /\ reason \in [Runs -> BlockedReasons \cup {None}]
    /\ preStop \in [Runs -> BLOCK_SOURCE_STATUSES \cup {None}]
    /\ actionable \in [Runs -> BOOLEAN]
    /\ blockedBy \in [Runs -> BlockedReasons
                                \cup {"emergency_stop_engaged", None}]
    /\ blockedFrom \in [Runs -> RowStatuses \cup {None}]
    /\ engaged \in BOOLEAN
    /\ maxGen \in 0..MaxGen
    /\ pc \in [Runs -> StepPoints]
    /\ g0 \in [Runs -> 0..MaxGen]
    /\ postActive \in [Runs -> BOOLEAN]
    /\ callGen \in [Runs -> 0..MaxGen]
    /\ respGen \in [Runs -> 0..MaxGen]
    /\ bridge \in BridgeSessions \cup {NoBridge}
    /\ canceller \in CancelSessions \cup {NoCancel}

Init ==
    /\ status = [r \in Runs |-> "absent"]
    /\ reason = [r \in Runs |-> None]
    /\ preStop = [r \in Runs |-> None]
    /\ actionable = [r \in Runs |-> TRUE]
    /\ blockedBy = [r \in Runs |-> None]
    /\ blockedFrom = [r \in Runs |-> None]
    /\ engaged = FALSE
    /\ maxGen = 0
    /\ pc = [r \in Runs |-> "idle"]
    /\ g0 = [r \in Runs |-> 0]
    /\ postActive = [r \in Runs |-> FALSE]
    /\ callGen = [r \in Runs |-> 0]
    /\ respGen = [r \in Runs |-> 0]
    /\ bridge = NoBridge
    /\ canceller = NoCancel

-----------------------------------------------------------------------------
(* Writing a row                                                           *)

(* agent_runs_ck_blocked_reason_consistency: PostgreSQL rejects, and the   *)
(* transaction rolls back on, a row that breaks it.                        *)
RowCheck(st, rs) == (st = "blocked") <=> (rs # None)

(* What the history records when r goes to st by event.                    *)
Record(r, st, event) ==
    /\ blockedBy' = [blockedBy EXCEPT ![r] =
                        IF st = "blocked" THEN event ELSE None]
    /\ blockedFrom' = [blockedFrom EXCEPT ![r] =
                        IF st # "blocked" THEN None
                        ELSE IF status[r] = "blocked" THEN @ ELSE status[r]]

(* transition_with_event: the table of the run's mode, the event the table *)
(* wants, one UPDATE conditional on the status it starts from.  It leaves  *)
(* pre_stop_status alone.                                                  *)
TransitionWithEvent(r, to, event) ==
    /\ ValidTransition(status[r], to, RunMode[r])
    /\ (to = "blocked") => event \in BlockEvents(status[r])
    /\ status' = [status EXCEPT ![r] = to]
    /\ reason' = [reason EXCEPT ![r] =
                    IF to = "blocked" THEN ReasonOfEvent(event) ELSE None]
    /\ Record(r, to, event)
    /\ UNCHANGED preStop

(* The advisory lock superintendent-emergency-stop:<tenant> is held by a   *)
(* bridge session from its gate to its commit.                             *)
LockFree == bridge.run = NoRun

-----------------------------------------------------------------------------
(* The run's own life                                                      *)

(* bridge_run_create: gate, actionable ticket, actionable parent of the    *)
(* same mode, then the row in "queued".                                    *)
RunCreate(r) ==
    /\ LockFree
    /\ ~engaged
    /\ status[r] = "absent"
    /\ actionable[r]
    /\ Parent[r] # NoRun =>
         /\ status[Parent[r]] # "absent"
         /\ actionable[Parent[r]]
         /\ RunMode[Parent[r]] = RunMode[r]
    /\ status' = [status EXCEPT ![r] = "queued"]
    /\ UNCHANGED <<reason, preStop, blockedBy, blockedFrom, actionable,
                   latchVars, stepVars, sessionVars>>

(* A call of transition_with_event outside the provider step.  None reads  *)
(* the latch, so a blocked run can be set going while the stop is engaged. *)
Advance(r, to, event) ==
    /\ TransitionWithEvent(r, to, event)
    /\ UNCHANGED <<actionable, latchVars, stepVars, sessionVars>>

(* The artifact matches the response schema or it does not.                *)
ExecuteValidationStep(r) ==
    \E to \in {"schema_validated", "validation_failed"} : Advance(r, to, None)

(* The only way a shadow run completes.                                    *)
ExecuteShadowCompletionStep(r) ==
    RunMode[r] = "shadow" /\ Advance(r, "completed", None)

(* The statuses from which repair_retry_scheduled may witness a run going. *)
RetryStatuses == {"validation_failed", "provider_incomplete", "blocked"}

(* "Choose retry / repair_exhausted from a validation_failed state", but   *)
(* the status is looked at by the table alone.  Retries and the repair     *)
(* budget are data.                                                        *)
ExecuteRepairDecisionStep(r) ==
    \E to \in {"running", "repair_exhausted"} :
        /\ to = "running" => status[r] \in RetryStatuses
        /\ Advance(r, to, None)

(* BudgetGuard finds a hard limit exceeded.                                *)
EnforceBudgetOrBlock(r) == Advance(r, "blocked", "budget_blocked")

(* The compliance gate's deny, recorded on the run.                        *)
RecordPolicyBlocked(r) == Advance(r, "blocked", "policy_blocked")

(* The worker that drives runs is not in this repository: it may take a    *)
(* run along any edge of the table that none of the steps above owns.      *)
DriverTransition(r, to) ==
    /\ status[r] \notin {"generated_artifact", "validation_failed"}
    /\ RunMode[r] = "shadow" => to # "completed"
    /\ Advance(r, to, IF to = "blocked" THEN "runtime_blocked" ELSE None)

CANCELABLE_STATES ==
    {"running", "blocked", "waiting_approval", "provider_incomplete"}

(* cancel_agent_run reads the row FOR UPDATE, so it is one step.           *)
CancelAgentRun(r) ==
    /\ status[r] \in CANCELABLE_STATES
    /\ TransitionWithEvent(r, "cancelled", None)
    /\ UNCHANGED <<actionable, latchVars, stepVars, sessionVars>>

(* set_archived, bulk_soft_delete_in_project and restore_batch_in_project  *)
(* lock the project row, which an open bridge session on the run holds.    *)
SetActionable(r, value) ==
    /\ bridge.run # r
    /\ actionable[r] # value
    /\ actionable' = [actionable EXCEPT ![r] = value]
    /\ UNCHANGED <<rowVars, latchVars, stepVars, sessionVars>>

-----------------------------------------------------------------------------
(* The orchestrator services: expire_stale_lease, the kill switch and      *)
(* block_no_progress block a running orchestrator with one conditional     *)
(* UPDATE; failover also promotes a queued standby.  When the lease and    *)
(* the idle time run out is left open.  None of them reads the latch.      *)

OrchestratorBlock(r) ==
    /\ r \in Orchestrators
    /\ status[r] = "running"
    /\ status' = [status EXCEPT ![r] = "blocked"]
    /\ reason' = [reason EXCEPT ![r] = "runtime_blocked"]
    /\ Record(r, "blocked", "runtime_blocked")
    /\ UNCHANGED <<preStop, actionable, latchVars, stepVars, sessionVars>>

Failover(r, standby) ==
    /\ {r, standby} \subseteq Orchestrators
    /\ status[r] = "running"
    /\ status[standby] = "queued"
    /\ status' = [status EXCEPT ![r] = "blocked", ![standby] = "running"]
    /\ reason' = [reason EXCEPT ![r] = "runtime_blocked"]
    /\ Record(r, "blocked", "runtime_blocked")
    /\ UNCHANGED <<preStop, actionable, latchVars, stepVars, sessionVars>>

-----------------------------------------------------------------------------
(* The latch                                                               *)

(* A mutant of the next: every runtime block is taken for the stop's.      *)
EmergencyBlocked_AnyRuntimeBlock(r) ==
    status[r] = "blocked" /\ reason[r] = "runtime_blocked"

(* The rows _resume_blocked_runs selects.                                  *)
EmergencyBlocked(r) ==
    /\ status[r] = "blocked"
    /\ reason[r] = "runtime_blocked"
    /\ preStop[r] # None

(* The engage transaction, once its lock is there: a new generation and,   *)
(* with the same commit, every run in a block-source status blocked with   *)
(* the saved status as its pre_stop_status.  Engaging twice is a no-op.    *)
EngageWith(lock, saved) ==
    /\ lock
    /\ ~engaged
    /\ maxGen < MaxGen
    /\ engaged' = TRUE
    /\ maxGen' = maxGen + 1
    /\ LET hit == {r \in Runs : status[r] \in BLOCK_SOURCE_STATUSES} IN
         /\ \A r \in hit : ValidTransition(status[r], "blocked", RunMode[r])
         /\ status' = [r \in Runs |->
                         IF r \in hit THEN "blocked" ELSE status[r]]
         /\ reason' = [r \in Runs |->
                         IF r \in hit THEN "runtime_blocked" ELSE reason[r]]
         /\ preStop' = [r \in Runs |->
                         IF r \in hit THEN saved[r] ELSE preStop[r]]
         /\ blockedBy' = [r \in Runs |->
                         IF r \in hit THEN "emergency_stop_engaged"
                         ELSE blockedBy[r]]
         /\ blockedFrom' = [r \in Runs |->
                         IF r \in hit THEN status[r] ELSE blockedFrom[r]]
    /\ UNCHANGED <<actionable, stepVars, sessionVars>>

(* Mutants of Engage.  The stop does not wait for open bridge sessions.    *)
Engage_NoLock == EngageWith(TRUE, status)
(* pre_stop_status = coalesce(pre_stop_status, status).                    *)
Engage_KeepsOldTarget ==
    EngageWith(LockFree, [r \in Runs |-> IF preStop[r] = None
                                         THEN status[r] ELSE preStop[r]])
(* The blocked status itself is saved, after the row was updated.          *)
Engage_SavesNewStatus == EngageWith(LockFree, [r \in Runs |-> "blocked"])

(* engage: the status the run has at the stop is the one saved.            *)
Engage == EngageWith(LockFree, status)

(* The runs a clear puts back: selected and still actionable.              *)
Resumed == {r \in Runs : EmergencyBlocked(r) /\ actionable[r]}

(* clear: generation CAS, then every selected and actionable run back to   *)
(* its pre_stop_status.  One invalid target would abort the transaction.   *)
Clear(expected) ==
    /\ LockFree
    /\ engaged
    /\ expected = maxGen
    /\ \A r \in Resumed : ValidTransition("blocked", preStop[r], RunMode[r])
    /\ engaged' = FALSE
    /\ status' = [r \in Runs |->
                    IF r \in Resumed THEN preStop[r] ELSE status[r]]
    /\ reason' = [r \in Runs |-> IF r \in Resumed THEN None ELSE reason[r]]
    /\ preStop' = [r \in Runs |-> IF r \in Resumed THEN None ELSE preStop[r]]
    /\ blockedBy' = [r \in Runs |->
                       IF r \in Resumed THEN None ELSE blockedBy[r]]
    /\ blockedFrom' = [r \in Runs |->
                         IF r \in Resumed THEN None ELSE blockedFrom[r]]
    /\ UNCHANGED <<maxGen, actionable, stepVars, sessionVars>>

-----------------------------------------------------------------------------
(* execute_provider_step                                                   *)

(* Preflight (a): an active latch raises, otherwise the step goes on.      *)
StepBegin(r) ==
    /\ r \in Driven
    /\ pc[r] = "idle"
    /\ status[r] = "running"
    /\ ~engaged
    /\ pc' = [pc EXCEPT ![r] = "gate"]
    /\ UNCHANGED <<rowVars, actionable, latchVars, g0, postActive, callGen,
                   respGen, sessionVars>>

(* Preflight (b): the monotonic generation, read by a second statement.    *)
StepReadPreflightMax(r) ==
    /\ pc[r] = "gate"
    /\ pc' = [pc EXCEPT ![r] = "ready"]
    /\ g0' = [g0 EXCEPT ![r] = maxGen]
    /\ UNCHANGED <<rowVars, actionable, latchVars, postActive,
                   callGen, respGen, sessionVars>>

(* The step is over for r: it committed, raised, or its worker died.       *)
StepEnd(r) ==
    /\ pc' = [pc EXCEPT ![r] = "idle"]
    /\ g0' = [g0 EXCEPT ![r] = 0]
    /\ postActive' = [postActive EXCEPT ![r] = FALSE]
    /\ callGen' = [callGen EXCEPT ![r] = 0]
    /\ respGen' = [respGen EXCEPT ![r] = 0]

(* The shadow budget, compliance and preflight denials block the run       *)
(* before any provider call.  The step holds the run object as "running",  *)
(* so its UPDATE is conditional on that status.                            *)
StepDenied(r) ==
    /\ pc[r] = "ready"
    /\ status[r] = "running"
    /\ \E event \in {"policy_blocked", "budget_blocked"} :
         /\ event = "budget_blocked" => RunMode[r] = "shadow"
         /\ TransitionWithEvent(r, "blocked", event)
    /\ StepEnd(r)
    /\ UNCHANGED <<actionable, latchVars, sessionVars>>

CallProvider(r) ==
    /\ pc[r] = "ready"
    /\ pc' = [pc EXCEPT ![r] = "calling"]
    /\ callGen' = [callGen EXCEPT ![r] = maxGen]
    /\ UNCHANGED <<rowVars, actionable, latchVars, g0, postActive,
                   respGen, sessionVars>>

(* The provider answered; postflight reads the active latch.               *)
StepReadPostflightActive(r) ==
    /\ pc[r] = "calling"
    /\ pc' = [pc EXCEPT ![r] = "responded"]
    /\ postActive' = [postActive EXCEPT ![r] = engaged]
    /\ respGen' = [respGen EXCEPT ![r] = maxGen]
    /\ UNCHANGED <<rowVars, actionable, latchVars, g0, callGen,
                   sessionVars>>

(* The step goes the way the decision says.                                *)
PostflightDecision(r, discard) ==
    /\ pc[r] = "responded"
    /\ pc' = [pc EXCEPT ![r] = IF discard THEN "discard" ELSE "passed"]
    /\ UNCHANGED <<rowVars, actionable, latchVars, g0, postActive,
                   callGen, respGen, sessionVars>>

(* Mutants of the decision: the active latch alone, the generation alone.  *)
StepReadPostflightMax_ActiveOnly(r) == PostflightDecision(r, postActive[r] \/ engaged)
StepReadPostflightMax_MaxOnly(r) == PostflightDecision(r, maxGen > g0[r])

(* Postflight reads MAX(generation) again and decides.                     *)
StepReadPostflightMax(r) ==
    PostflightDecision(r, postActive[r] \/ maxGen > g0[r])

(* The result is dropped and the run confined to "blocked".  If the status *)
(* changed meanwhile the UPDATE finds no row: blocked or terminal is       *)
(* benign, anything else raises; the row stays as it is in both cases.     *)
StepDiscard(r) ==
    /\ pc[r] = "discard"
    /\ IF status[r] = "running"
       THEN TransitionWithEvent(r, "blocked", "runtime_blocked")
       ELSE UNCHANGED rowVars
    /\ StepEnd(r)
    /\ UNCHANGED <<actionable, latchVars, sessionVars>>

(* What a provider result makes of a running run, after the schema         *)
(* mismatch override of _resolve_provider_transition_target.               *)
ProviderTargets ==
    {<<"generated_artifact", None>>, <<"provider_refused", None>>,
     <<"provider_incomplete", None>>, <<"blocked", "policy_blocked">>,
     <<"blocked", "budget_blocked">>}

(* Usage is recorded and the result applied: the mapped status, or blocked *)
(* because the usage broke a budget or, for a shadow run, is unverifiable. *)
StepApply(r) ==
    /\ pc[r] = "passed"
    /\ status[r] = "running"
    /\ \E t \in ProviderTargets \cup {<<"blocked", "runtime_blocked">>} :
         /\ t[2] = "runtime_blocked" => RunMode[r] = "shadow"
         /\ TransitionWithEvent(r, t[1], t[2])
    /\ StepEnd(r)
    /\ UNCHANGED <<actionable, latchVars, sessionVars>>

(* The UPDATE found another status, the latch read raised, the provider    *)
(* raised, or the worker died: the transaction rolls back.                 *)
StepAbort(r) ==
    /\ pc[r] # "idle"
    /\ StepEnd(r)
    /\ UNCHANGED <<rowVars, actionable, latchVars, sessionVars>>

-----------------------------------------------------------------------------
(* The MCP bridge.  Its sessions SELECT the run without a lock, check what *)
(* they read, assign attributes and commit; the UPDATE is by primary key   *)
(* and holds only the attributes whose value differs from the one loaded.  *)

(* What each operation demands of the row it reads, and may set.           *)
RunUpdateAccepts(r, to) ==
    /\ status[r] \notin TERMINAL_STATES
    /\ RunMode[r] # "shadow"
    /\ to \in RUN_UPDATE_STATUSES

DelegationAcceptAccepts(r, to) ==
    /\ status[r] = "queued"
    /\ Parent[r] # NoRun
    /\ actionable[Parent[r]]
    /\ to = "running"

DelegationSubmitAccepts(r, to) ==
    /\ \E p \in Runs : /\ status[p] # "absent"
                       /\ actionable[p]
                       /\ Parent[r] # NoRun => p = Parent[r]
    /\ to \in {"completed", "failed", "running"}

BridgeAccepts(op, r, to) ==
    \/ op = "run_update" /\ RunUpdateAccepts(r, to)
    \/ op = "delegation_accept" /\ DelegationAcceptAccepts(r, to)
    \/ op = "delegation_submit" /\ DelegationSubmitAccepts(r, to)

(* assert_bridge_not_emergency_stopped takes the lock, then reads the      *)
(* latch; then the row is read and checked.  The lock is held from here.   *)
BridgeBegin(op, r, to) ==
    /\ LockFree
    /\ ~engaged
    /\ op \in BridgeOps
    /\ status[r] # "absent"
    /\ actionable[r]
    /\ BridgeAccepts(op, r, to)
    /\ bridge' = [op |-> op, run |-> r, to |-> to, seen |-> status[r],
                  seenReason |-> reason[r]]
    /\ UNCHANGED <<rowVars, actionable, latchVars, stepVars, canceller>>

(* The attribute assignment as SQLAlchemy flushes it: no write when the    *)
(* new value is the one loaded.                                            *)
Flush(loaded, new, current) == IF new = loaded THEN current ELSE new

(* The values the session's UPDATE leaves in the row.                      *)
BridgeStatus == Flush(bridge.seen, bridge.to, status[bridge.run])
BridgeReason ==
    LET assigned ==
          IF bridge.op # "run_update" THEN bridge.seenReason
          ELSE IF bridge.to = "blocked" THEN "runtime_blocked" ELSE None
    IN Flush(bridge.seenReason, assigned, reason[bridge.run])

BridgeCommit ==
    /\ bridge.run # NoRun
    /\ RowCheck(BridgeStatus, BridgeReason)
    /\ status' = [status EXCEPT ![bridge.run] = BridgeStatus]
    /\ reason' = [reason EXCEPT ![bridge.run] = BridgeReason]
    /\ Record(bridge.run, BridgeStatus,
              IF status[bridge.run] = "blocked"
                   /\ BridgeReason = reason[bridge.run]
              THEN blockedBy[bridge.run] ELSE "runtime_blocked")
    /\ bridge' = NoBridge
    /\ UNCHANGED <<preStop, actionable, latchVars, stepVars, canceller>>

(* The row CHECK or a unique key failed, or the client went away.          *)
BridgeRollback ==
    /\ bridge.run # NoRun
    /\ bridge' = NoBridge
    /\ UNCHANGED <<rowVars, actionable, latchVars, stepVars, canceller>>

(* bridge_run_cancel is on the allow list: no gate and no lock.            *)
RunCancelBegin(r) ==
    /\ "run_cancel" \in BridgeOps
    /\ canceller.run = NoRun
    /\ status[r] \notin TERMINAL_STATES \cup {"absent"}
    /\ canceller' = [run |-> r, seenReason |-> reason[r]]
    /\ UNCHANGED <<rowVars, actionable, latchVars, stepVars, bridge>>

CancelReason == Flush(canceller.seenReason, None, reason[canceller.run])

RunCancelCommit ==
    /\ canceller.run # NoRun
    /\ RowCheck("cancelled", CancelReason)
    /\ status' = [status EXCEPT ![canceller.run] = "cancelled"]
    /\ reason' = [reason EXCEPT ![canceller.run] = CancelReason]
    /\ Record(canceller.run, "cancelled", None)
    /\ canceller' = NoCancel
    /\ UNCHANGED <<preStop, actionable, latchVars, stepVars, bridge>>

RunCancelRollback ==
    /\ canceller.run # NoRun
    /\ canceller' = NoCancel
    /\ UNCHANGED <<rowVars, actionable, latchVars, stepVars, bridge>>

(* The recursive query of bridge_delegation_cancel, depth limit included.  *)
CANCEL_DEPTH == 10
Subtree ==
    [root \in Runs |->
       LET Tree[d \in 0..CANCEL_DEPTH] ==
             IF d = 0 THEN {root}
             ELSE LET up == Tree[d - 1]
                  IN up \cup {r \in Runs : Parent[r] \in up}
       IN Tree[CANCEL_DEPTH]]

(* One UPDATE that cancels the given rows.                                 *)
CancelRows(live) ==
    /\ live # {}
    /\ status' = [r \in Runs |->
                    IF r \in live THEN "cancelled" ELSE status[r]]
    /\ reason' = [r \in Runs |-> IF r \in live THEN None ELSE reason[r]]
    /\ blockedBy' = [r \in Runs |->
                       IF r \in live THEN None ELSE blockedBy[r]]
    /\ blockedFrom' = [r \in Runs |->
                         IF r \in live THEN None ELSE blockedFrom[r]]
    /\ UNCHANGED <<preStop, actionable, latchVars, stepVars, sessionVars>>

(* A mutant: the UPDATE without its status filter.                         *)
DelegationCancel_Everything(root) ==
    CancelRows({r \in Subtree[root] : status[r] # "absent"})

(* bridge_delegation_cancel: the live part of the subtree.                 *)
DelegationCancel(root) ==
    CancelRows({r \in Subtree[root] :
                  status[r] \notin TERMINAL_STATES \cup {"absent"}})

-----------------------------------------------------------------------------
RuntimeStep(r) ==
    \/ ExecuteValidationStep(r)
    \/ ExecuteShadowCompletionStep(r)
    \/ ExecuteRepairDecisionStep(r)
    \/ EnforceBudgetOrBlock(r)
    \/ RecordPolicyBlocked(r)
    \/ \E to \in AgentRunStatuses : DriverTransition(r, to)

RunStep(r) ==
    \/ RunCreate(r)
    \/ RuntimeStep(r)
    \/ CancelAgentRun(r)
    \/ \E value \in BOOLEAN : SetActionable(r, value)
    \/ OrchestratorBlock(r)
    \/ \E standby \in Runs : Failover(r, standby)

ProviderStep(r) ==
    \/ StepBegin(r)
    \/ StepReadPreflightMax(r)
    \/ StepDenied(r)
    \/ CallProvider(r)
    \/ StepReadPostflightActive(r)
    \/ StepReadPostflightMax(r)
    \/ StepDiscard(r)
    \/ StepApply(r)
    \/ StepAbort(r)

BridgeStep ==
    \/ \E op \in BridgeOps, r \in Runs, to \in RUN_UPDATE_STATUSES :
         BridgeBegin(op, r, to)
    \/ BridgeCommit
    \/ BridgeRollback
    \/ \E r \in Runs : RunCancelBegin(r)
    \/ RunCancelCommit
    \/ RunCancelRollback
    \/ \E r \in Runs : DelegationCancel(r)

Next ==
    \/ \E r \in Runs : RunStep(r) \/ ProviderStep(r)
    \/ Engage
    \/ \E expected \in 0..MaxGen : Clear(expected)
    \/ BridgeStep

Spec == Init /\ [][Next]_vars

-----------------------------------------------------------------------------
(* Properties                                                              *)

(* What runs go through that have side effects.                            *)
Pipeline == {"policy_linted", "diff_ready", "waiting_approval"}

(* The side-effect pipeline has one door for a shadow run, whatever stops, *)
(* resumes, failovers and bridge calls happen to it: from "blocked" to     *)
(* "waiting_approval", an edge that SHADOW_FORBIDDEN_TRANSITIONS does not  *)
(* list.  No writer that bypasses the table opens another, and a clear     *)
(* puts back in the pipeline only a run that had come through this door.   *)
ShadowConfined ==
    [][\A r \in Runs : RunMode[r] = "shadow" /\ status'[r] \in Pipeline =>
         /\ status'[r] = "waiting_approval"
         /\ status[r] \in {"waiting_approval", "blocked"}]_vars

(* clear can always finish: every row _resume_blocked_runs selects has a   *)
(* pre_stop_status that validate_transition lets a blocked run of its mode *)
(* go back to.  One row that broke this would abort every clear of the     *)
(* tenant and leave the latch engaged for good.                            *)
ClearNeverWedged ==
    \A r \in Runs : EmergencyBlocked(r) =>
        ValidTransition("blocked", preStop[r], RunMode[r])

(* A run that engage blocked is recognisable as such and remembers exactly *)
(* the status it was stopped in, until something moves it: whatever other  *)
(* writers did to pre_stop_status before, and whatever sessions were open  *)
(* when the stop came.                                                     *)
StopRemembersStatus ==
    \A r \in Runs : blockedBy[r] = "emergency_stop_engaged" =>
        /\ EmergencyBlocked(r)
        /\ preStop[r] = blockedFrom[r]

(* While the latch is engaged a blocked run stays blocked or ends: no      *)
(* session that was open when the operator engaged the stop, no service,   *)
(* no provider step and no bridge call started later sets it going again.  *)
(* The runtime itself does: transition_with_event reads no latch, although *)
(* the decision record has the gate deny blocked -> running.               *)
BlockedRunsStayStopped ==
    [][engaged /\ engaged' =>
         \A r \in Runs : status[r] = "blocked" =>
             \/ status'[r] \in {"blocked"} \cup TERMINAL_STATES
             \/ RuntimeStep(r)]_vars

(* A provider result that execute_provider_step lets through was computed  *)
(* with no engage between the preflight generation read, the call and the  *)
(* response, even if a clear hid the stop again before the postflight read.*)
NoResultAcrossEngage ==
    \A r \in Runs : pc[r] = "passed" =>
        g0[r] = callGen[r] /\ callGen[r] = respGen[r]

(* The postflight check never lets a result through at a moment when the   *)
(* latch is engaged, although it reads latch and generation in two         *)
(* statements without the lock.                                            *)
PassOnlyWhenClear ==
    [][\A r \in Runs : pc[r] # "passed" /\ pc'[r] = "passed" => ~engaged]_vars

(* Outside the two kinds of bridge session that write a row they read      *)
(* without a lock, no operation moves a run out of a terminal status.      *)
TerminalUnlessBridge ==
    [][\A r \in Runs : status[r] \in TERMINAL_STATES /\ status'[r] # status[r]
         => r \in {bridge.run, canceller.run}]_vars

(* state_machine.py says a terminal run cannot transition: "terminal       *)
(* AgentRun state cannot transition".                                      *)
TerminalIsFinal ==
    [][\A r \in Runs : status[r] \in TERMINAL_STATES
         => status'[r] = status[r]]_vars

(* clear's docstring: a blocked run goes back to the status it was stopped *)
(* in, so that no gate is skipped.                                         *)
ResumeRestoresBlockedStatus ==
    [][engaged /\ ~engaged' =>
         \A r \in Runs : status[r] = "blocked" /\ status'[r] # "blocked"
             => status'[r] = blockedFrom[r]]_vars

=============================================================================
