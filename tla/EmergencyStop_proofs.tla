------------------------ MODULE EmergencyStop_proofs ------------------------
(***************************************************************************)
(* Proofs about EmergencyStop, for every set of runs, modes, lineage, set  *)
(* of bridge operations and number of generations, and about RunBudget,    *)
(* for every set of sessions, requests, levels and limits.                 *)
(***************************************************************************)
EXTENDS EmergencyStop, RunBudget, TLAPS

USE NoRunAssumption, RunModeAssumption, ParentAssumption, RolesAssumption,
    BridgeOpsAssumption, MaxGenAssumption

(* What validate_transition accepts leads from a live status to a status.  *)
LEMMA TransitionTyped ==
    ASSUME NEW from, NEW to, NEW mode \in RunModes,
           ValidTransition(from, to, mode)
    PROVE  /\ to \in AgentRunStatuses
           /\ from \in AgentRunStatuses \ TERMINAL_STATES
  BY DEF ValidTransition, TransitionsOf, RunModes, ALLOWED_TRANSITIONS,
         SHADOW_EXTRA_TRANSITIONS, SHADOW_FORBIDDEN_TRANSITIONS,
         AgentRunStatuses, TERMINAL_STATES

(* The table of a shadow run has one edge into the side-effect pipeline.   *)
LEMMA ShadowTransition ==
    ASSUME NEW from, NEW to, from \notin Pipeline,
           ValidTransition(from, to, "shadow")
    PROVE  to \notin Pipeline \ {"waiting_approval"}
           /\ (to = "waiting_approval" => from = "blocked")
  BY DEF ValidTransition, TransitionsOf, ALLOWED_TRANSITIONS,
         SHADOW_EXTRA_TRANSITIONS, SHADOW_FORBIDDEN_TRANSITIONS, Pipeline

(* The runtime's own steps are calls of transition_with_event that witness *)
(* a block by one of its three ordinary events.                            *)
LEMMA RuntimeAdvances ==
    ASSUME NEW r \in Runs, RuntimeStep(r)
    PROVE  \E to, event : /\ event \in BlockedReasons \cup {None}
                          /\ Advance(r, to, event)
  <1>1. CASE ExecuteValidationStep(r)
    BY <1>1 DEF ExecuteValidationStep
  <1>2. CASE ExecuteShadowCompletionStep(r)
    BY <1>2 DEF ExecuteShadowCompletionStep
  <1>3. CASE ExecuteRepairDecisionStep(r)
    BY <1>3 DEF ExecuteRepairDecisionStep
  <1>4. CASE EnforceBudgetOrBlock(r)
    BY <1>4 DEF EnforceBudgetOrBlock, BlockedReasons
  <1>5. CASE RecordPolicyBlocked(r)
    BY <1>5 DEF RecordPolicyBlocked, BlockedReasons
  <1>6. ASSUME NEW to, DriverTransition(r, to)
        PROVE  \E event \in BlockedReasons \cup {None} : Advance(r, to, event)
    BY <1>6 DEF DriverTransition, BlockedReasons
  <1> QED
    BY <1>1, <1>2, <1>3, <1>4, <1>5, <1>6 DEF RuntimeStep

-----------------------------------------------------------------------------
(* Type correctness                                                        *)

(* The columns of agent_runs and the history, apart from the rest.         *)
RowsOK ==
    /\ status \in [Runs -> RowStatuses]
    /\ reason \in [Runs -> BlockedReasons \cup {None}]
    /\ preStop \in [Runs -> BLOCK_SOURCE_STATUSES \cup {None}]
    /\ blockedBy \in [Runs -> BlockedReasons
                                \cup {"emergency_stop_engaged", None}]
    /\ blockedFrom \in [Runs -> RowStatuses \cup {None}]

(* transition_with_event keeps the columns well typed.                     *)
LEMMA TransitionTypes ==
    ASSUME TypeOK, NEW r \in Runs, NEW to,
           NEW event \in BlockedReasons \cup {None},
           TransitionWithEvent(r, to, event)
    PROVE  RowsOK'
  <1>1. to \in AgentRunStatuses
    BY TransitionTyped DEF TransitionWithEvent, RunModes
  <1>2. to = "blocked" => event \in BlockedReasons
    BY DEF TransitionWithEvent, BlockEvents, BlockedReasons, None
  <1>3. ReasonOfEvent(event) = event
    BY DEF ReasonOfEvent, BlockedReasons, None
  <1> QED
    BY <1>1, <1>2, <1>3
    DEF TypeOK, RowsOK, TransitionWithEvent, Record, RowStatuses

(* The provider step's own variables, and that ending a step keeps them    *)
(* well typed.                                                             *)
StepOK ==
    /\ pc \in [Runs -> StepPoints]
    /\ g0 \in [Runs -> 0..MaxGen]
    /\ postActive \in [Runs -> BOOLEAN]
    /\ callGen \in [Runs -> 0..MaxGen]
    /\ respGen \in [Runs -> 0..MaxGen]

LEMMA StepEndTypes ==
    ASSUME TypeOK, NEW r \in Runs, StepEnd(r)
    PROVE  StepOK'
  BY DEF TypeOK, StepOK, StepEnd, StepPoints

(* Initially and after every step each variable holds a value of its kind: *)
(* statuses, reasons, the four legal pre_stop_status values, generations   *)
(* within the bound.                                                       *)
LEMMA TypeStep == TypeOK /\ [Next]_vars => TypeOK'
  <1> SUFFICES ASSUME TypeOK, [Next]_vars PROVE TypeOK'
    OBVIOUS
  <1>1. ASSUME NEW r \in Runs, RunStep(r) PROVE TypeOK'
    <2>1. CASE RunCreate(r)
      BY <2>1 DEF TypeOK, RunCreate, latchVars, stepVars, sessionVars,
                  RowStatuses, AgentRunStatuses
    <2>2. CASE RuntimeStep(r)
      <3>1. PICK to, event : /\ event \in BlockedReasons \cup {None}
                             /\ Advance(r, to, event)
        BY <2>2, RuntimeAdvances
      <3>2. RowsOK'
        BY <3>1, TransitionTypes DEF Advance
      <3> QED
        BY <3>1, <3>2 DEF TypeOK, RowsOK, Advance, latchVars, stepVars,
                          sessionVars
    <2>4. CASE CancelAgentRun(r)
      <3>1. RowsOK'
        BY <2>4, TransitionTypes DEF CancelAgentRun
      <3> QED
        BY <2>4, <3>1 DEF TypeOK, RowsOK, CancelAgentRun, latchVars, stepVars,
                          sessionVars
    <2>5. ASSUME NEW value \in BOOLEAN, SetActionable(r, value) PROVE TypeOK'
      BY <2>5 DEF TypeOK, SetActionable, rowVars, latchVars, stepVars,
                  sessionVars
    <2>6. CASE OrchestratorBlock(r)
      BY <2>6 DEF TypeOK, OrchestratorBlock, Record, latchVars, stepVars,
                  sessionVars, RowStatuses, AgentRunStatuses, BlockedReasons
    <2>7. ASSUME NEW standby \in Runs, Failover(r, standby) PROVE TypeOK'
      BY <2>7 DEF TypeOK, Failover, Record, latchVars, stepVars,
                  sessionVars, RowStatuses, AgentRunStatuses, BlockedReasons
    <2> QED
      BY <1>1, <2>1, <2>2, <2>4, <2>5, <2>6, <2>7 DEF RunStep
  <1>2. ASSUME NEW r \in Runs, ProviderStep(r) PROVE TypeOK'
    <2> USE DEF TypeOK, latchVars, sessionVars, StepPoints
    <2>1. CASE StepBegin(r)
      BY <2>1 DEF StepBegin, rowVars
    <2>2. CASE StepReadPreflightMax(r)
      BY <2>2 DEF StepReadPreflightMax, rowVars
    <2>3. CASE StepDenied(r)
      <3>1. RowsOK'
        BY <2>3, TransitionTypes DEF StepDenied, BlockedReasons
      <3> QED
        <4>1. StepEnd(r) /\ UNCHANGED <<actionable, latchVars, sessionVars>>
          BY <2>3 DEF StepDenied
        <4> QED
          BY <3>1, <4>1, StepEndTypes DEF RowsOK, StepOK
    <2>4. CASE CallProvider(r)
      BY <2>4 DEF CallProvider, rowVars
    <2>5. CASE StepReadPostflightActive(r)
      BY <2>5 DEF StepReadPostflightActive, rowVars
    <2>6. CASE StepReadPostflightMax(r)
      BY <2>6 DEF StepReadPostflightMax, PostflightDecision, rowVars
    <2>7. CASE StepDiscard(r)
      <3>1. RowsOK'
        BY <2>7, TransitionTypes DEF StepDiscard, BlockedReasons, RowsOK,
                                     rowVars
      <3> QED
        <4>1. StepEnd(r) /\ UNCHANGED <<actionable, latchVars, sessionVars>>
          BY <2>7 DEF StepDiscard
        <4> QED
          BY <3>1, <4>1, StepEndTypes DEF RowsOK, StepOK
    <2>8. CASE StepApply(r)
      <3>1. RowsOK'
        <4>1. PICK t \in ProviderTargets \cup {<<"blocked", "runtime_blocked">>} :
                TransitionWithEvent(r, t[1], t[2])
          BY <2>8 DEF StepApply
        <4>2. t[2] \in BlockedReasons \cup {None}
          BY DEF ProviderTargets, BlockedReasons
        <4> QED
          BY <4>1, <4>2, TransitionTypes
      <3> QED
        <4>1. StepEnd(r) /\ UNCHANGED <<actionable, latchVars, sessionVars>>
          BY <2>8 DEF StepApply
        <4> QED
          BY <3>1, <4>1, StepEndTypes DEF RowsOK, StepOK
    <2>9. CASE StepAbort(r)
      BY <2>9 DEF StepAbort, StepEnd, rowVars
    <2> QED
      BY <1>2, <2>1, <2>2, <2>3, <2>4, <2>5, <2>6, <2>7, <2>8, <2>9
      DEF ProviderStep
  <1>3. CASE Engage
    BY <1>3 DEF TypeOK, Engage, EngageWith, stepVars, sessionVars,
                RowStatuses, AgentRunStatuses, BlockedReasons
  <1>4. ASSUME NEW expected, Clear(expected) PROVE TypeOK'
    <2>1. \A r \in Resumed : preStop[r] \in BLOCK_SOURCE_STATUSES
      BY DEF TypeOK, Resumed, EmergencyBlocked
    <2>2. \A r \in Resumed : preStop[r] \in RowStatuses
      BY <2>1 DEF BLOCK_SOURCE_STATUSES, RowStatuses, AgentRunStatuses
    <2>3. status' \in [Runs -> RowStatuses]
      BY <1>4, <2>2 DEF TypeOK, Clear
    <2> QED
      BY <1>4, <2>3 DEF TypeOK, Clear, stepVars, sessionVars
  <1>5. CASE BridgeStep
    <2>1. ASSUME NEW op \in BridgeOps, NEW r \in Runs,
                 NEW to \in RUN_UPDATE_STATUSES, BridgeBegin(op, r, to)
          PROVE  TypeOK'
      <3>1. bridge' \in BridgeSessions
        BY <2>1 DEF BridgeBegin, TypeOK, BridgeSessions
      <3> QED
        BY <2>1, <3>1 DEF TypeOK, BridgeBegin, rowVars, latchVars, stepVars
    <2>2. CASE BridgeCommit
      <3>1. bridge.run \in Runs /\ bridge \in BridgeSessions
        BY <2>2 DEF BridgeCommit, TypeOK, BridgeSessions, NoBridge
      <3>2. BridgeStatus \in RowStatuses
        BY <3>1 DEF BridgeStatus, Flush, TypeOK, BridgeSessions, RowStatuses,
                    RUN_UPDATE_STATUSES, AgentRunStatuses
      <3>3. BridgeReason \in BlockedReasons \cup {None}
        BY <3>1 DEF BridgeReason, Flush, TypeOK, BridgeSessions,
                    BlockedReasons
      <3> QED
        BY <2>2, <3>1, <3>2, <3>3
        DEF TypeOK, BridgeCommit, Record, latchVars, stepVars, BlockedReasons
    <2>3. CASE BridgeRollback
      BY <2>3 DEF TypeOK, BridgeRollback, rowVars, latchVars,
                  stepVars
    <2>4. ASSUME NEW r \in Runs, RunCancelBegin(r) PROVE TypeOK'
      BY <2>4 DEF TypeOK, RunCancelBegin, CancelSessions, rowVars, latchVars,
                  stepVars
    <2>5. CASE RunCancelCommit
      <3>1. canceller.run \in Runs /\ canceller \in CancelSessions
        BY <2>5 DEF RunCancelCommit, TypeOK, CancelSessions, NoCancel
      <3>2. CancelReason \in BlockedReasons \cup {None}
        BY <3>1 DEF CancelReason, Flush, TypeOK, CancelSessions
      <3> QED
        BY <2>5, <3>1, <3>2
        DEF TypeOK, RunCancelCommit, Record, latchVars, stepVars,
            RowStatuses, AgentRunStatuses
    <2>6. CASE RunCancelRollback
      BY <2>6 DEF TypeOK, RunCancelRollback, rowVars, latchVars,
                  stepVars
    <2>7. ASSUME NEW r \in Runs, DelegationCancel(r) PROVE TypeOK'
      BY <2>7 DEF TypeOK, DelegationCancel, CancelRows, latchVars, stepVars,
                  sessionVars, RowStatuses, AgentRunStatuses
    <2> QED
      BY <1>5, <2>1, <2>2, <2>3, <2>4, <2>5, <2>6, <2>7 DEF BridgeStep
  <1>6. CASE UNCHANGED vars
    BY <1>6 DEF TypeOK, vars, rowVars, latchVars, stepVars, sessionVars
  <1> QED
    BY <1>1, <1>2, <1>3, <1>4, <1>5, <1>6 DEF Next

(* Every behaviour keeps to the types: the statuses, reasons and the four  *)
(* pre_stop_status values the table's CHECK constraints allow.             *)
THEOREM TypeCorrect == Spec => []TypeOK
  <1>1. Init => TypeOK
    <2> SUFFICES ASSUME Init PROVE TypeOK
      OBVIOUS
    <2>1. RowsOK
      BY DEF Init, RowsOK, RowStatuses
    <2>2. StepOK
      BY DEF Init, StepOK, StepPoints
    <2>3. actionable \in [Runs -> BOOLEAN] /\ engaged \in BOOLEAN
      BY DEF Init
    <2>4. maxGen \in 0..MaxGen
      BY DEF Init
    <2>5. bridge = NoBridge /\ canceller = NoCancel
      BY DEF Init
    <2> QED
      BY <2>1, <2>2, <2>3, <2>4, <2>5 DEF TypeOK, RowsOK, StepOK
  <1> QED
    BY <1>1, TypeStep, PTL DEF Spec

-----------------------------------------------------------------------------
(* What a step may do to the rows                                          *)

(* A use of transition_with_event: only the runtime takes a run out of     *)
(* "blocked" other than to "cancelled", and nobody uses the emergency-stop *)
(* event.                                                                  *)
TableStep(r, to, event) ==
    /\ TransitionWithEvent(r, to, event)
    /\ event \in BlockedReasons \cup {None}
    /\ status[r] = "blocked" => to = "cancelled" \/ RuntimeStep(r)

(* The steps that write rows, one disjunct for each way of writing them.   *)
RowWrite ==
    \/ \E r \in Runs : \E to, event : TableStep(r, to, event)
    \/ \E r \in Runs : RunCreate(r)
    \/ \E r \in Runs : OrchestratorBlock(r)
    \/ \E r, standby \in Runs : Failover(r, standby)
    \/ Engage
    \/ \E expected : Clear(expected)
    \/ BridgeCommit
    \/ RunCancelCommit
    \/ \E r \in Runs : DelegationCancel(r)

(* Every step writes the rows in one of these ways or not at all.          *)
LEMMA RowSteps ==
    ASSUME TypeOK, [Next]_vars
    PROVE  RowWrite \/ UNCHANGED rowVars
  <1>1. ASSUME NEW r \in Runs, RunStep(r) PROVE RowWrite \/ UNCHANGED rowVars
    <2>1. CASE RuntimeStep(r)
      <3>1. PICK to, event : /\ event \in BlockedReasons \cup {None}
                             /\ Advance(r, to, event)
        BY <2>1, RuntimeAdvances
      <3>2. TableStep(r, to, event)
        BY <2>1, <3>1 DEF Advance, TableStep
      <3> QED
        BY <3>2 DEF RowWrite
    <2>2. CASE CancelAgentRun(r)
      BY <2>2 DEF CancelAgentRun, TableStep, RowWrite
    <2>3. ASSUME NEW value, SetActionable(r, value) PROVE UNCHANGED rowVars
      BY <2>3 DEF SetActionable
    <2> QED
      BY <1>1, <2>1, <2>2, <2>3 DEF RunStep, RowWrite
  <1>2. ASSUME NEW r \in Runs, ProviderStep(r)
        PROVE  RowWrite \/ UNCHANGED rowVars
    <2>1. CASE StepDenied(r)
      BY <2>1 DEF StepDenied, TableStep, RowWrite, BlockedReasons
    <2>2. CASE StepDiscard(r)
      BY <2>2 DEF StepDiscard, TableStep, RowWrite, BlockedReasons
    <2>3. CASE StepApply(r)
      <3>1. PICK t \in ProviderTargets \cup {<<"blocked", "runtime_blocked">>} :
              TransitionWithEvent(r, t[1], t[2])
        BY <2>3 DEF StepApply
      <3>2. t[2] \in BlockedReasons \cup {None}
        BY DEF ProviderTargets, BlockedReasons
      <3>3. TableStep(r, t[1], t[2])
        BY <2>3, <3>1, <3>2 DEF TableStep, StepApply
      <3> QED
        BY <3>3 DEF RowWrite
    <2> QED
      BY <1>2, <2>1, <2>2, <2>3
      DEF ProviderStep, StepBegin, StepReadPreflightMax, CallProvider,
          StepReadPostflightActive, StepReadPostflightMax,
          PostflightDecision, StepAbort
  <1>3. CASE BridgeStep
    BY <1>3 DEF BridgeStep, BridgeBegin, BridgeRollback, RunCancelBegin,
                RunCancelRollback, RowWrite
  <1> QED
    BY <1>1, <1>2, <1>3 DEF Next, RowWrite, vars

(* The bridge sessions that commit are well formed.                        *)
LEMMA SessionFacts ==
    ASSUME TypeOK
    PROVE  /\ bridge.run # NoRun => bridge.run \in Runs
                                    /\ bridge.to \in RUN_UPDATE_STATUSES
           /\ canceller.run # NoRun => canceller.run \in Runs
  BY DEF TypeOK, BridgeSessions, CancelSessions, NoBridge, NoCancel

-----------------------------------------------------------------------------
(* Shadow confinement                                                      *)

(* A shadow run is in the pipeline, or was stopped there, only at its end. *)
ShadowInv ==
    \A r \in Runs : RunMode[r] = "shadow" =>
        /\ status[r] \notin {"policy_linted", "diff_ready"}
        /\ preStop[r] \in {None, "running", "waiting_approval"}

(* The row of q after a step.                                              *)
ShadowRow(q) ==
    RunMode[q] = "shadow" =>
        /\ preStop'[q] \in {None, "running", "waiting_approval"}
        /\ status'[q] \in Pipeline =>
              /\ status'[q] = "waiting_approval"
              /\ status[q] \in {"waiting_approval", "blocked"}

LEMMA ShadowStep ==
    ASSUME TypeOK, ShadowInv, [Next]_vars, NEW q \in Runs
    PROVE  ShadowRow(q)
  <1> USE DEF TypeOK, ShadowInv, ShadowRow, Pipeline
  <1>1. ASSUME NEW r \in Runs, NEW to, NEW event, TableStep(r, to, event)
        PROVE  ShadowRow(q)
    <2>1. /\ RunMode[r] = "shadow"
          /\ status[r] \notin Pipeline
          /\ to \in Pipeline
          => to = "waiting_approval" /\ status[r] = "blocked"
      BY <1>1, ShadowTransition DEF TableStep, TransitionWithEvent
    <2>2. status[r] = "waiting_approval" => to \notin Pipeline
      BY <1>1 DEF TableStep, TransitionWithEvent, ValidTransition, TransitionsOf, RunModes,
                  ALLOWED_TRANSITIONS, SHADOW_EXTRA_TRANSITIONS, SHADOW_FORBIDDEN_TRANSITIONS
    <2> QED
      BY <1>1, <2>1, <2>2 DEF TableStep, TransitionWithEvent
  <1>2. ASSUME NEW r \in Runs, RunCreate(r) PROVE ShadowRow(q)
    BY <1>2 DEF RunCreate
  <1>3. ASSUME NEW r \in Runs, OrchestratorBlock(r) PROVE ShadowRow(q)
    BY <1>3 DEF OrchestratorBlock
  <1>4. ASSUME NEW r \in Runs, NEW standby \in Runs, Failover(r, standby)
        PROVE  ShadowRow(q)
    BY <1>4 DEF Failover
  <1>5. CASE Engage
    BY <1>5 DEF Engage, EngageWith, BLOCK_SOURCE_STATUSES
  <1>6. ASSUME NEW expected, Clear(expected) PROVE ShadowRow(q)
    BY <1>6 DEF Clear, Resumed, EmergencyBlocked, None
  <1>7. CASE BridgeCommit
    <2>1. bridge.run \in Runs /\ bridge.to \in RUN_UPDATE_STATUSES
      BY <1>7, SessionFacts DEF BridgeCommit
    <2>2. BridgeStatus \in {bridge.to, status[bridge.run]}
      BY DEF BridgeStatus, Flush
    <2> QED
      BY <1>7, <2>1, <2>2 DEF BridgeCommit, RUN_UPDATE_STATUSES
  <1>8. CASE RunCancelCommit
    BY <1>8, SessionFacts DEF RunCancelCommit
  <1>9. ASSUME NEW r \in Runs, DelegationCancel(r) PROVE ShadowRow(q)
    BY <1>9 DEF DelegationCancel, CancelRows
  <1>10. CASE UNCHANGED rowVars
    BY <1>10 DEF rowVars
  <1> HIDE DEF ShadowRow
  <1> QED
    BY RowSteps, <1>1, <1>2, <1>3, <1>4, <1>5, <1>6, <1>7, <1>8, <1>9, <1>10
    DEF RowWrite

LEMMA ShadowInvariant == Spec => []ShadowInv
  <1>1. Init => ShadowInv
    BY DEF Init, ShadowInv
  <1>2. TypeOK /\ ShadowInv /\ [Next]_vars => ShadowInv'
    BY ShadowStep DEF ShadowRow, ShadowInv, Pipeline
  <1> QED
    BY <1>1, <1>2, TypeCorrect, PTL DEF Spec

(* A shadow run enters the side-effect pipeline by the one edge the table  *)
(* leaves it, blocked to waiting_approval, whatever stops, resumes,        *)
(* failovers and bridge calls happen to it.                                *)
THEOREM ShadowConfinement == Spec => ShadowConfined
  <1> DEFINE OneDoor == \A r \in Runs : RunMode[r] = "shadow" /\ status'[r] \in Pipeline =>
               /\ status'[r] = "waiting_approval"
               /\ status[r] \in {"waiting_approval", "blocked"}
  <1>1. TypeOK /\ ShadowInv /\ [Next]_vars => OneDoor
    BY ShadowStep DEF ShadowRow
  <1>2. TypeOK /\ ShadowInv /\ [Next]_vars => [OneDoor]_vars
    BY <1>1
  <1> QED
    BY <1>2, TypeCorrect, ShadowInvariant, PTL DEF Spec, ShadowConfined

(* No row can make the operator's clear raise: each resume target is one   *)
(* that validate_transition accepts for the run's mode.                    *)
THEOREM ClearCanFinish == Spec => []ClearNeverWedged
  <1>1. TypeOK /\ ShadowInv => ClearNeverWedged
    BY DEF TypeOK, ShadowInv, ClearNeverWedged, EmergencyBlocked,
           ValidTransition, TransitionsOf, RunModes, ALLOWED_TRANSITIONS,
           SHADOW_EXTRA_TRANSITIONS, SHADOW_FORBIDDEN_TRANSITIONS,
           BLOCK_SOURCE_STATUSES, TERMINAL_STATES
  <1> QED
    BY <1>1, TypeCorrect, ShadowInvariant, PTL

-----------------------------------------------------------------------------
(* What a stop remembers                                                   *)

LEMMA StopStep ==
    ASSUME TypeOK, StopRemembersStatus, [Next]_vars
    PROVE  StopRemembersStatus'
  <1> USE DEF TypeOK, StopRemembersStatus, EmergencyBlocked
  <1>1. ASSUME NEW r \in Runs, NEW to, NEW event, TableStep(r, to, event)
        PROVE  StopRemembersStatus'
    <2>1. event # "emergency_stop_engaged"
      BY <1>1 DEF TableStep, BlockedReasons, None
    <2> QED
      BY <1>1, <2>1 DEF TableStep, TransitionWithEvent, Record, None
  <1>2. ASSUME NEW r \in Runs, RunCreate(r) PROVE StopRemembersStatus'
    BY <1>2 DEF RunCreate
  <1>3. ASSUME NEW r \in Runs, OrchestratorBlock(r) PROVE StopRemembersStatus'
    BY <1>3 DEF OrchestratorBlock, Record
  <1>4. ASSUME NEW r \in Runs, NEW standby \in Runs, Failover(r, standby)
        PROVE  StopRemembersStatus'
    BY <1>4 DEF Failover, Record
  <1>5. CASE Engage
    BY <1>5 DEF Engage, EngageWith, BLOCK_SOURCE_STATUSES, None
  <1>6. ASSUME NEW expected, Clear(expected) PROVE StopRemembersStatus'
    BY <1>6 DEF Clear, Resumed, None
  <1>7. CASE BridgeCommit
    <2>1. bridge.run \in Runs
      BY <1>7, SessionFacts DEF BridgeCommit
    <2> QED
      BY <1>7, <2>1 DEF BridgeCommit, Record, None
  <1>8. CASE RunCancelCommit
    BY <1>8, SessionFacts DEF RunCancelCommit, Record, None
  <1>9. ASSUME NEW r \in Runs, DelegationCancel(r) PROVE StopRemembersStatus'
    BY <1>9 DEF DelegationCancel, CancelRows, None
  <1>10. CASE UNCHANGED rowVars
    BY <1>10 DEF rowVars
  <1> QED
    BY RowSteps, <1>1, <1>2, <1>3, <1>4, <1>5, <1>6, <1>7, <1>8, <1>9, <1>10
    DEF RowWrite

(* A run that engage stopped stays selectable by clear and keeps the very  *)
(* status it was stopped in, until some step moves it.                     *)
THEOREM StopMemory == Spec => []StopRemembersStatus
  <1>1. Init => StopRemembersStatus
    BY DEF Init, StopRemembersStatus, None
  <1> QED
    BY <1>1, TypeCorrect, StopStep, PTL DEF Spec

-----------------------------------------------------------------------------
(* The advisory lock                                                       *)

(* No bridge session is open while the latch is engaged: engage waits for  *)
(* the lock the session holds, and no session starts under the latch.      *)
LockInv == engaged => bridge.run = NoRun

LEMMA LockStep ==
    ASSUME TypeOK, LockInv, [Next]_vars
    PROVE  LockInv'
  <1> USE DEF LockInv
  <1>1. CASE Engage
    BY <1>1 DEF Engage, EngageWith, LockFree, sessionVars
  <1>2. ASSUME NEW expected, Clear(expected) PROVE LockInv'
    BY <1>2 DEF Clear
  <1>3. CASE BridgeStep
    BY <1>3 DEF BridgeStep, BridgeBegin, BridgeCommit, BridgeRollback,
                NoBridge, RunCancelBegin, RunCancelCommit, RunCancelRollback,
                DelegationCancel, CancelRows, latchVars, sessionVars
  <1>4. ASSUME NEW r \in Runs, RunStep(r) PROVE LockInv'
    BY <1>4, RuntimeAdvances
    DEF RunStep, RunCreate, Advance, CancelAgentRun, SetActionable,
        OrchestratorBlock, Failover, latchVars, sessionVars
  <1>5. ASSUME NEW r \in Runs, ProviderStep(r) PROVE LockInv'
    BY <1>5 DEF ProviderStep, StepBegin, StepReadPreflightMax, StepDenied,
                CallProvider, StepReadPostflightActive,
                StepReadPostflightMax, PostflightDecision, StepDiscard,
                StepApply, StepAbort, latchVars, sessionVars
  <1>6. CASE UNCHANGED vars
    BY <1>6 DEF vars, latchVars, sessionVars
  <1> QED
    BY <1>1, <1>2, <1>3, <1>4, <1>5, <1>6 DEF Next

LEMMA LockHeld == Spec => []LockInv
  <1>1. Init => LockInv
    BY DEF Init, LockInv
  <1> QED
    BY <1>1, TypeCorrect, LockStep, PTL DEF Spec

(* While the latch is engaged no step takes a blocked run anywhere but to  *)
(* a terminal status, except a call of transition_with_event by the        *)
(* runtime, which reads no latch.                                          *)
THEOREM StopHolds == Spec => BlockedRunsStayStopped
  <1> DEFINE Stays == engaged /\ engaged' =>
               \A r \in Runs : status[r] = "blocked" =>
                   \/ status'[r] \in {"blocked"} \cup TERMINAL_STATES
                   \/ RuntimeStep(r)
  <1>1. ASSUME TypeOK, LockInv, [Next]_vars PROVE Stays
    <2> SUFFICES ASSUME engaged, engaged', NEW q \in Runs,
                        status[q] = "blocked"
                 PROVE  status'[q] \in {"blocked"} \cup TERMINAL_STATES \/ RuntimeStep(q)
      OBVIOUS
    <2> DEFINE Held == status'[q] \in {"blocked"} \cup TERMINAL_STATES \/ RuntimeStep(q)
    <2>0. RowWrite \/ UNCHANGED rowVars
      BY <1>1, RowSteps
    <2> USE DEF TypeOK, TERMINAL_STATES
    <2>1. ASSUME NEW r \in Runs, NEW to, NEW event, TableStep(r, to, event)
          PROVE  Held
      BY <2>1 DEF TableStep, TransitionWithEvent
    <2>2. ASSUME NEW r \in Runs, RunCreate(r) PROVE Held
      BY <2>2 DEF RunCreate
    <2>3. ASSUME NEW r \in Runs, OrchestratorBlock(r)
          PROVE  Held
      BY <2>3 DEF OrchestratorBlock
    <2>4. ASSUME NEW r \in Runs, NEW standby \in Runs, Failover(r, standby)
          PROVE  Held
      BY <1>1, <2>4 DEF Failover
    <2>5. ~Engage
      BY Zenon DEF Engage, EngageWith
    <2>11. ASSUME NEW expected, Clear(expected) PROVE Held
      BY <2>11, Zenon DEF Clear
    <2>6. ~BridgeCommit
      BY <1>1 DEF BridgeCommit, LockInv
    <2>7. ASSUME RunCancelCommit PROVE Held
      BY <2>7, <1>1, SessionFacts DEF RunCancelCommit
    <2>8. ASSUME NEW r \in Runs, DelegationCancel(r)
          PROVE  Held
      BY <2>8 DEF DelegationCancel, CancelRows
    <2>9. ASSUME UNCHANGED rowVars PROVE Held
      BY <2>9 DEF rowVars
    <2> HIDE DEF Held
    <2>10. Held
      BY <2>0, <2>1, <2>2, <2>3, <2>4, <2>5, <2>6, <2>7, <2>8, <2>9,
         <2>11
      DEF RowWrite
    <2> QED
      BY <2>10 DEF Held
  <1>2. TypeOK /\ LockInv /\ [Next]_vars => [Stays]_vars
    BY <1>1
  <1> QED
    BY <1>2, TypeCorrect, LockHeld, PTL DEF Spec, BlockedRunsStayStopped

-----------------------------------------------------------------------------
(* Terminal statuses                                                       *)

(* Only the bridge sessions that write a row they read without a lock can  *)
(* move a run out of a terminal status: the table, the conditional UPDATEs *)
(* and the locked reads of all other writers prevent it.                   *)
THEOREM TerminalSafety == Spec => TerminalUnlessBridge
  <1> DEFINE Final == \A r \in Runs :
               status[r] \in TERMINAL_STATES /\ status'[r] # status[r]
                 => r \in {bridge.run, canceller.run}
  <1>1. ASSUME TypeOK, [Next]_vars PROVE Final
    <2> SUFFICES ASSUME NEW q \in Runs, status[q] \in TERMINAL_STATES,
                        q # bridge.run, q # canceller.run
                 PROVE  status'[q] = status[q]
      OBVIOUS
    <2>0. RowWrite \/ UNCHANGED rowVars
      BY <1>1, RowSteps
    <2> DEFINE Kept == status'[q] = status[q]
    <2> USE <1>1 DEF TypeOK
    <2>1. ASSUME NEW r \in Runs, NEW to, NEW event, TableStep(r, to, event)
          PROVE  Kept
      BY <2>1 DEF TableStep, TransitionWithEvent, ValidTransition
    <2>2. ASSUME NEW r \in Runs, RunCreate(r) PROVE Kept
      BY <2>2 DEF RunCreate, TERMINAL_STATES
    <2>3. ASSUME NEW r \in Runs, OrchestratorBlock(r) PROVE Kept
      BY <2>3 DEF OrchestratorBlock, TERMINAL_STATES
    <2>4. ASSUME NEW r \in Runs, NEW standby \in Runs, Failover(r, standby)
          PROVE  Kept
      BY <2>4 DEF Failover, TERMINAL_STATES
    <2>5. ASSUME Engage PROVE Kept
      BY <2>5 DEF Engage, EngageWith, BLOCK_SOURCE_STATUSES, TERMINAL_STATES
    <2>6. ASSUME NEW expected, Clear(expected) PROVE Kept
      BY <2>6 DEF Clear, Resumed, EmergencyBlocked, TERMINAL_STATES
    <2>7. ASSUME BridgeCommit PROVE Kept
      BY <2>7 DEF BridgeCommit
    <2>8. ASSUME RunCancelCommit PROVE Kept
      BY <2>8 DEF RunCancelCommit
    <2>9. ASSUME NEW r \in Runs, DelegationCancel(r) PROVE Kept
      BY <2>9 DEF DelegationCancel, CancelRows
    <2>10. ASSUME UNCHANGED rowVars PROVE Kept
      BY <2>10 DEF rowVars
    <2> HIDE DEF Kept
    <2>11. Kept
      BY <2>0, <2>1, <2>2, <2>3, <2>4, <2>5, <2>6, <2>7, <2>8, <2>9, <2>10
      DEF RowWrite
    <2> QED
      BY <2>11 DEF Kept
  <1>2. TypeOK /\ [Next]_vars => [Final]_vars
    BY <1>1
  <1> QED
    BY <1>2, TypeCorrect, PTL DEF Spec, TerminalUnlessBridge

-----------------------------------------------------------------------------
(* The provider step                                                       *)

(* The generations a step has read so far are ordered as it read them, and *)
(* if no latch was active at the postflight read and no engage followed,   *)
(* none is active now.                                                     *)
StepInv ==
    \A r \in Runs :
        /\ pc[r] = "ready" => g0[r] <= maxGen
        /\ pc[r] = "calling" => g0[r] <= callGen[r] /\ callGen[r] <= maxGen
        /\ pc[r] = "responded" =>
             /\ g0[r] <= callGen[r]
             /\ callGen[r] <= respGen[r]
             /\ respGen[r] <= maxGen
             /\ ~postActive[r] /\ respGen[r] = maxGen => ~engaged
        /\ pc[r] = "passed" => g0[r] = callGen[r] /\ callGen[r] = respGen[r]

(* A step that ends, and one that leaves the provider step and the latch   *)
(* alone, keep StepInv.                                                    *)
LEMMA StepEndInv ==
    ASSUME TypeOK, StepInv, NEW r \in Runs, StepEnd(r), UNCHANGED latchVars
    PROVE  StepInv'
  BY DEF TypeOK, StepInv, StepEnd, latchVars

LEMMA StepInvStep ==
    ASSUME TypeOK, StepInv, [Next]_vars
    PROVE  StepInv'
  <1>1. CASE UNCHANGED <<latchVars, stepVars>>
    BY <1>1 DEF StepInv, latchVars, stepVars
  <1>2. ASSUME NEW r \in Runs, ProviderStep(r) PROVE StepInv'
    <2>1. CASE StepBegin(r)
      BY <2>1 DEF StepBegin, StepInv, TypeOK, latchVars
    <2>2. CASE StepReadPreflightMax(r)
      BY <2>2 DEF StepReadPreflightMax, StepInv, TypeOK, latchVars
    <2>3. CASE StepDenied(r) \/ StepDiscard(r) \/ StepApply(r) \/ StepAbort(r)
      <3>1. StepEnd(r) /\ UNCHANGED latchVars
        BY <2>3 DEF StepDenied, StepDiscard, StepApply, StepAbort
      <3> QED
        BY <3>1, StepEndInv
    <2>4. CASE CallProvider(r)
      BY <2>4 DEF CallProvider, StepInv, TypeOK, latchVars
    <2>5. CASE StepReadPostflightActive(r)
      BY <2>5 DEF StepReadPostflightActive, StepInv, TypeOK, latchVars
    <2>6. CASE StepReadPostflightMax(r)
      <3>1. /\ pc' = [pc EXCEPT ![r] = IF postActive[r] \/ maxGen > g0[r]
                                       THEN "discard" ELSE "passed"]
            /\ UNCHANGED <<engaged, maxGen, g0, postActive, callGen, respGen>>
            /\ pc[r] = "responded"
        BY <2>6 DEF StepReadPostflightMax, PostflightDecision, latchVars
      <3>2. /\ pc'[r] \in {"discard", "passed"}
            /\ pc'[r] = "passed" => ~(maxGen > g0[r])
        BY <3>1 DEF TypeOK
      <3>3. pc'[r] = "passed" => g0[r] = callGen[r] /\ callGen[r] = respGen[r]
        <4>1. /\ maxGen \in Nat /\ g0[r] \in Nat /\ callGen[r] \in Nat
              /\ respGen[r] \in Nat
          BY DEF TypeOK
        <4>2. /\ g0[r] <= callGen[r] /\ callGen[r] <= respGen[r]
              /\ respGen[r] <= maxGen
          BY <3>1 DEF StepInv
        <4> QED
          BY <3>2, <4>1, <4>2
      <3>4. \A s \in Runs \ {r} : pc'[s] = pc[s]
        BY <3>1 DEF TypeOK
      <3> QED
        BY <3>1, <3>2, <3>3, <3>4 DEF StepInv
    <2> QED
      BY <1>2, <2>1, <2>2, <2>3, <2>4, <2>5, <2>6 DEF ProviderStep
  <1>3. CASE Engage
    BY <1>3 DEF Engage, EngageWith, StepInv, TypeOK, stepVars
  <1>4. ASSUME NEW expected, Clear(expected) PROVE StepInv'
    BY <1>4 DEF Clear, StepInv, TypeOK, stepVars
  <1>5. ASSUME NEW r \in Runs, RunStep(r)
        PROVE  UNCHANGED <<latchVars, stepVars>>
    BY <1>5, RuntimeAdvances
    DEF RunStep, RunCreate, Advance, CancelAgentRun, SetActionable,
        OrchestratorBlock, Failover
  <1>6. ASSUME BridgeStep PROVE UNCHANGED <<latchVars, stepVars>>
    BY <1>6 DEF BridgeStep, BridgeBegin, BridgeCommit, BridgeRollback,
                RunCancelBegin, RunCancelCommit, RunCancelRollback,
                DelegationCancel, CancelRows
  <1> QED
    BY <1>1, <1>2, <1>3, <1>4, <1>5, <1>6 DEF Next, vars

LEMMA StepInvariant == Spec => []StepInv
  <1>1. Init => StepInv
    BY DEF Init, StepInv
  <1> QED
    BY <1>1, TypeCorrect, StepInvStep, PTL DEF Spec

(* A result that execute_provider_step lets through saw no engage from its *)
(* preflight generation read to its response, cleared ones included.       *)
THEOREM ResultSafety == Spec => []NoResultAcrossEngage
  <1>1. StepInv => NoResultAcrossEngage
    BY DEF StepInv, NoResultAcrossEngage
  <1> QED
    BY <1>1, StepInvariant, PTL

(* No result is let through while the latch is engaged, although the two   *)
(* postflight reads are separate statements without the lock.              *)
THEOREM PassSafety == Spec => PassOnlyWhenClear
  <1> DEFINE Clean == \A r \in Runs :
               pc[r] # "passed" /\ pc'[r] = "passed" => ~engaged
  <1>1. ASSUME TypeOK, StepInv, [Next]_vars PROVE Clean
    <2> SUFFICES ASSUME NEW q \in Runs, pc[q] # "passed", pc'[q] = "passed"
                 PROVE  ~engaged
      OBVIOUS
    <2>1. StepReadPostflightMax(q)
      <3>1. ASSUME NEW r \in Runs, ProviderStep(r)
            PROVE  StepReadPostflightMax(q)
        BY <1>1, <3>1
        DEF TypeOK, ProviderStep, StepBegin, StepReadPreflightMax, StepDenied,
            CallProvider, StepReadPostflightActive, StepReadPostflightMax,
            PostflightDecision, StepDiscard, StepApply, StepAbort, StepEnd
      <3>2. ASSUME NEW r \in Runs, RunStep(r) PROVE FALSE
        BY <3>2, RuntimeAdvances
        DEF RunStep, RunCreate, Advance, CancelAgentRun, SetActionable,
            OrchestratorBlock, Failover, stepVars
      <3>3. ~BridgeStep
        BY DEF BridgeStep, BridgeBegin, BridgeCommit, BridgeRollback,
               RunCancelBegin, RunCancelCommit, RunCancelRollback,
               DelegationCancel, CancelRows, stepVars
      <3>4. ~Engage /\ \A expected : ~Clear(expected)
        BY DEF Engage, EngageWith, Clear, stepVars
      <3>5. vars' # vars
        BY DEF vars, stepVars
      <3> QED
        BY <1>1, <3>1, <3>2, <3>3, <3>4, <3>5 DEF Next
    <2> QED
      BY <1>1, <2>1 DEF StepReadPostflightMax, PostflightDecision, StepInv,
                        TypeOK
  <1>2. TypeOK /\ StepInv /\ [Next]_vars => [Clean]_vars
    BY <1>1
  <1> QED
    BY <1>2, TypeCorrect, StepInvariant, PTL DEF Spec, PassOnlyWhenClear

-----------------------------------------------------------------------------
(* Budgets *)

\* What a step under way knows of the run and of its call.
UsageInv(s) ==
    /\ step[s].pc # "idle" => step[s].seen \in Sums /\ step[s].req \in Requests
    /\ step[s].pc \in {"executed", "flushed"} => step[s].use \in Usage
    /\ step[s].pc = "executed" =>
          step[s].use.in <= step[s].req.est /\ (step[s].req.max # Nil => step[s].use.out <= step[s].req.max)

\* A step of a shadow run stays under the caps ...
CapsInv(s) ==
    shadow =>
        /\ step[s].pc \in {"execute", "executed"} =>
              step[s].req.max # Nil /\ step[s].seen.tokens + step[s].req.est + step[s].req.max <= TokenCap
        /\ step[s].pc = "flushed" => step[s].seen.tokens <= TokenCap
        /\ step[s].pc # "idle" => step[s].seen.tokens * UsdPerToken <= step[s].seen.usd

\* ... and was not loaded and called with the kill switch on.
ClearInv(s) ==
    shadow =>
        /\ step[s].pc \in {"execute", "executed", "flushed"} => step[s].clear
        /\ step[s].pc = "preflight" /\ ~step[s].clear => _global_kill_switch_engaged

\* A running run is as every step under way has seen it.
SeenInv ==
    ~crossed /\ run.status = "running" => \A s \in Sessions :
        /\ step[s].pc \notin {"idle", "flushed"} => step[s].seen.tokens = run.tokens
        /\ step[s].pc = "flushed" => step[s].seen.tokens = run.tokens + step[s].use.in + step[s].use.out

BudgetInv ==
    /\ BudgetTypeOK
    /\ \A s \in Sessions : UsageInv(s)
    /\ \A s \in Sessions : CapsInv(s)
    /\ \A s \in Sessions : ClearInv(s)
    /\ SeenInv /\ Accounted /\ ShadowCapped /\ LimitHolds

\* Assignments to the fields of a step keep its type.
LEMMA StepTyped ==
    ASSUME NEW s \in Sessions, step \in [Sessions -> Steps]
    PROVE  /\ \A x \in BudgetPoints : [step EXCEPT ![s].pc = x] \in [Sessions -> Steps]
           /\ \A x \in BudgetPoints, u \in Usage : [step EXCEPT ![s].pc = x, ![s].use = u] \in [Sessions -> Steps]
           /\ \A x \in BudgetPoints, n \in Sums : [step EXCEPT ![s].pc = x, ![s].seen = n] \in [Sessions -> Steps]
           /\ \A c \in BOOLEAN : [step[s] EXCEPT !.clear = c] \in Steps
<1> DEFINE N == Sums \cup {Nil}
           R == Requests \cup {Nil}
           U == Usage \cup {Nil}
           C == BOOLEAN
<1>1. Steps = [pc : BudgetPoints, seen : N, req : R, use : U, clear : C]
  BY DEF Steps
<1>2. Sums \subseteq N /\ Usage \subseteq U
  OBVIOUS
<1>c. C = BOOLEAN
  OBVIOUS
<1> HIDE DEF N, R, U, C, Sums, Usage
<1>3. step \in [Sessions -> [pc : BudgetPoints, seen : N, req : R, use : U, clear : C]]
  BY <1>1
<1>4. /\ \A x \in BudgetPoints : [step EXCEPT ![s].pc = x] \in [Sessions -> Steps]
      /\ \A x \in BudgetPoints, u \in U : [step EXCEPT ![s].pc = x, ![s].use = u] \in [Sessions -> Steps]
      /\ \A x \in BudgetPoints, n \in N : [step EXCEPT ![s].pc = x, ![s].seen = n] \in [Sessions -> Steps]
      /\ \A c \in C : [step[s] EXCEPT !.clear = c] \in Steps
  <2> DEFINE Q == [pc : BudgetPoints, seen : N, req : R, use : U, clear : C]
  <2>1. /\ \A x \in BudgetPoints : [step EXCEPT ![s].pc = x] \in [Sessions -> Q]
        /\ \A x \in BudgetPoints, u \in U : [step EXCEPT ![s].pc = x, ![s].use = u] \in [Sessions -> Q]
        /\ \A x \in BudgetPoints, n \in N : [step EXCEPT ![s].pc = x, ![s].seen = n] \in [Sessions -> Q]
        /\ \A c \in C : [step[s] EXCEPT !.clear = c] \in Q
    BY <1>3
  <2>2. Steps = Q
    BY <1>1
  <2> HIDE DEF Q
  <2> QED
    BY <2>1, <2>2
<1> QED
  BY <1>2, <1>4, <1>c

LEMMA RulesTyped ==
    ASSUME NEW l \in Levels, BudgetConstantsOK, BudgetTypeOK, update_limits_with_audit(l)
    PROVE  /\ budgets' \in [Levels -> Rules]
           /\ budgets'[l].kill => budgets'[l].active
           /\ \A k \in Levels : k # l => budgets'[k] = budgets[k]
<1>1. NoBudget \in Rules /\ ~NoBudget.kill
  BY DEF NoBudget, Rules
<1>2. \A b \in [active : {TRUE}, usd : Limits, tokens : Limits, kill : BOOLEAN] : b \in Rules /\ b.active
  BY DEF BudgetConstantsOK, Rules
<1>3. PICK b \in {NoBudget} \cup [active : {TRUE}, usd : Limits, tokens : Limits, kill : BOOLEAN] :
        budgets' = [budgets EXCEPT ![l] = b]
  BY DEF update_limits_with_audit
<1>4. b \in Rules /\ (b.kill => b.active)
  BY <1>1, <1>2, <1>3
<1>5. budgets \in [Levels -> Rules]
  BY DEF BudgetTypeOK
<1> HIDE DEF NoBudget, Rules
<1> QED
  BY <1>3, <1>4, <1>5

\* What a step does to the record of its session.
Others(s) == \A t \in Sessions : t # s => step'[t] = step[t]
Keeps(s) == step'[s].seen = step[s].seen /\ step'[s].req = step[s].req /\ step'[s].clear = step[s].clear /\ Others(s)
Moves(s, at) == step'[s].pc = at /\ step'[s].use = step[s].use /\ Keeps(s)
Ends(s) == step'[s].pc = "idle" /\ Others(s)

LEMMA GotoMoves ==
    ASSUME BudgetTypeOK, NEW s \in Sessions,
           NEW at \in BudgetPoints, Goto(s, at)
    PROVE  step' \in [Sessions -> Steps] /\ Moves(s, at)
<1>1. step \in [Sessions -> Steps]
  BY DEF BudgetTypeOK
<1>2. step' \in [Sessions -> Steps]
  BY <1>1, StepTyped DEF Goto
<1>3. Moves(s, at)
  BY <1>1 DEF Goto, Moves, Keeps, Others, Steps
<1> QED
  BY <1>2, <1>3

LEMMA DoneEnds ==
    ASSUME BudgetTypeOK, NEW s \in Sessions, Done(s)
    PROVE  step' \in [Sessions -> Steps] /\ Ends(s)
<1>1. step \in [Sessions -> Steps] /\ Idle \in Steps
  BY DEF BudgetTypeOK, Idle, Steps, BudgetPoints
<1>2. step' = [step EXCEPT ![s] = Idle] /\ Idle.pc = "idle"
  BY DEF Done, Idle
<1> HIDE DEF Steps, Idle
<1> QED
  BY <1>1, <1>2 DEF Ends, Others

LEMMA LoadIs ==
    ASSUME BudgetTypeOK, NEW s \in Sessions, NEW q \in Requests, load(s, q)
    PROVE  /\ step' \in [Sessions -> Steps] /\ Others(s)
           /\ step'[s].pc = "preflight" /\ step'[s].seen = run /\ step'[s].req = q
           /\ step'[s].clear = ~_global_kill_switch_engaged
<1> DEFINE r == [pc |-> "preflight", seen |-> run, req |-> q, use |-> Nil, clear |-> ~_global_kill_switch_engaged]
<1>1. (~_global_kill_switch_engaged) \in BOOLEAN
  OBVIOUS
<1>2. r \in Steps
  BY <1>1, Zenon DEF BudgetTypeOK, Steps, BudgetPoints
<1>3. step \in [Sessions -> Steps] /\ step' = [step EXCEPT ![s] = r]
  BY DEF BudgetTypeOK, load
<1>4. r.pc = "preflight" /\ r.seen = run /\ r.req = q /\ r.clear = ~_global_kill_switch_engaged
  OBVIOUS
<1> HIDE DEF r, Steps
<1> QED
  BY <1>2, <1>3, <1>4 DEF Others

LEMMA ExecuteIs ==
    ASSUME BudgetConstantsOK, BudgetTypeOK, NEW s \in Sessions, UsageInv(s), execute(s)
    PROVE  /\ step' \in [Sessions -> Steps] /\ Keeps(s) /\ step'[s].pc = "executed"
           /\ step'[s].use \in Usage /\ step'[s].use.in <= step[s].req.est
           /\ step[s].req.max # Nil => step'[s].use.out <= step[s].req.max
<1>1. step[s].req \in [max : Nat \cup {Nil}, est : Nat]
  BY DEF execute, UsageInv, BudgetConstantsOK
<1>2. PICK u \in Usages(step[s].req) : step' = [step EXCEPT ![s].pc = "executed", ![s].use = u]
  BY DEF execute
<1>3. /\ u \in [in : {0, step[s].req.est}, out : {0, IF step[s].req.max = Nil THEN 2 ELSE step[s].req.max},
                usd : {0, 2}, told : BOOLEAN]
  BY <1>2 DEF Usages
<1>4. u \in Usage
  BY <1>1, <1>3 DEF Usage
<1>5. u.in <= step[s].req.est /\ (step[s].req.max # Nil => u.out <= step[s].req.max)
  BY <1>1, <1>3
<1>6. step \in [Sessions -> Steps]
  BY DEF BudgetTypeOK
<1>7. step' \in [Sessions -> Steps]
  BY <1>2, <1>4, <1>6, StepTyped DEF BudgetPoints
<1>8. Keeps(s) /\ step'[s].pc = "executed" /\ step'[s].use = u
  BY <1>2, <1>6 DEF Keeps, Others, Steps
<1> QED
  BY <1>4, <1>5, <1>7, <1>8

LEMMA RecordIs ==
    ASSUME BudgetConstantsOK, BudgetTypeOK, NEW s \in Sessions, UsageInv(s), record_provider_usage(s)
    PROVE  /\ step' \in [Sessions -> Steps] /\ Others(s) /\ step'[s].pc = "flushed"
           /\ step'[s].use = step[s].use /\ step'[s].req = step[s].req /\ step'[s].clear = step[s].clear
           /\ step'[s].seen \in Sums
           /\ step'[s].seen.tokens = step[s].seen.tokens + step[s].use.in + step[s].use.out
           /\ step'[s].seen.usd = step[s].seen.usd + cost_delta(step[s].use)
<1>1. step[s].seen \in Sums /\ step[s].use \in Usage
  BY DEF UsageInv, record_provider_usage
<1>2. cost_delta(step[s].use) \in Nat
  BY <1>1 DEF cost_delta, Usage, BudgetConstantsOK
<1> DEFINE n == Charged(step[s].seen, step[s].use)
<1>3. /\ n \in Sums /\ n.tokens = step[s].seen.tokens + step[s].use.in + step[s].use.out
      /\ n.usd = step[s].seen.usd + cost_delta(step[s].use)
  BY <1>1, <1>2 DEF Charged, Sums, Usage
<1>4. step' = [step EXCEPT ![s].pc = "flushed", ![s].seen = n]
  BY DEF record_provider_usage, BudgetTypeOK, Steps
<1>5. step \in [Sessions -> Steps]
  BY DEF BudgetTypeOK
<1> HIDE DEF n
<1>6. step' \in [Sessions -> Steps]
  BY <1>3, <1>4, <1>5, StepTyped DEF BudgetPoints
<1>7. /\ Others(s) /\ step'[s].pc = "flushed" /\ step'[s].seen = n
      /\ step'[s].use = step[s].use /\ step'[s].req = step[s].req /\ step'[s].clear = step[s].clear
  BY <1>4, <1>5 DEF Others, Steps
<1> QED
  BY <1>3, <1>6, <1>7

LEMMA BudgetInitInv == BudgetConstantsOK /\ BudgetInit => BudgetInv
<1> SUFFICES ASSUME BudgetConstantsOK, BudgetInit PROVE BudgetInv
  OBVIOUS
<1>1. Idle \in Steps /\ NoBudget \in Rules /\ run \in Sums
  BY DEF BudgetInit, Idle, Steps, BudgetPoints, NoBudget, Rules, Sums
<1>2. BudgetTypeOK
  <2>1. step \in [Sessions -> Steps] /\ budgets \in [Levels -> Rules]
    BY <1>1 DEF BudgetInit
  <2>2. shadow \in BOOLEAN /\ crossed \in BOOLEAN /\ loose \in BOOLEAN
    BY DEF BudgetInit
  <2>3. rowLock \in Sessions \cup {Nil} /\ recorded \in Nat
    BY DEF BudgetInit
  <2>4. calls \in 0 .. MaxCalls /\ changes \in 0 .. MaxChanges /\ resumes \in 0 .. MaxResumes
    BY DEF BudgetInit, BudgetConstantsOK
  <2> QED
    BY <1>1, <2>1, <2>2, <2>3, <2>4 DEF BudgetTypeOK
<1>3. \A s \in Sessions : step[s].pc = "idle"
  BY DEF BudgetInit, Idle
<1>4. \A s \in Sessions : UsageInv(s) /\ CapsInv(s) /\ ClearInv(s)
  BY <1>3 DEF UsageInv, CapsInv, ClearInv
<1>5. SeenInv /\ Accounted /\ ShadowCapped
  BY <1>3 DEF BudgetInit, BudgetConstantsOK, SeenInv, Accounted, ShadowCapped
<1>6. LimitHolds
  BY DEF BudgetInit, BudgetConstantsOK, NoBudget, LimitHolds, Exceeded, _evaluate_shadow_block, evaluate_budget, _hard_limit_result, Over, effective, _global_kill_switch_engaged
<1> QED
  BY <1>2, <1>4, <1>5, <1>6 DEF BudgetInv

\* What is kept while the row, the budgets and the history stay.
LEMMA QuietKeeps ==
    ASSUME BudgetInv, UNCHANGED <<shadow, run, budgets, history>>
    PROVE  Accounted' /\ ShadowCapped' /\ LimitHolds'
<1>1. Accounted' /\ ShadowCapped'
  BY DEF BudgetInv, Accounted, ShadowCapped, history
<1>2. LimitHolds'
  BY DEF BudgetInv, LimitHolds, history, Exceeded, _evaluate_shadow_block, evaluate_budget, _hard_limit_result, Over, effective, _global_kill_switch_engaged
<1> QED
  BY <1>1, <1>2

\* A check looks at the sums alone, not at the status.
LEMMA ExceededBySums ==
    ASSUME NEW r, run'.usd = r.usd, run'.tokens = r.tokens, UNCHANGED <<shadow, budgets>>
    PROVE  Exceeded(run)' <=> Exceeded(r)
BY DEF Exceeded, _evaluate_shadow_block, evaluate_budget, _hard_limit_result, Over, effective, _global_kill_switch_engaged

LEMMA OthersKeep ==
    ASSUME NEW t \in Sessions, step'[t] = step[t], UNCHANGED <<shadow, budgets>>, CapsInv(t), ClearInv(t)
    PROVE  CapsInv(t)' /\ ClearInv(t)'
BY DEF CapsInv, ClearInv, _global_kill_switch_engaged, effective

\* The settings' price of two counts of tokens is the price of their sum.
LEMMA PriceAdds == \A a, b, u \in Nat : (a + b) * u = a * u + b * u /\ a * u \in Nat
OBVIOUS

\* What a step that was let through to the provider adds keeps it under the caps.
LEMMA ChargeKeepsCaps ==
    ASSUME BudgetConstantsOK, NEW n \in Sums, NEW u \in Usage, NEW q \in Requests, shadow,
           u.in <= q.est, q.max # Nil, u.out <= q.max, n.tokens + q.est + q.max <= TokenCap,
           n.tokens * UsdPerToken <= n.usd
    PROVE  /\ n.tokens + u.in + u.out <= TokenCap
           /\ (n.tokens + u.in + u.out) * UsdPerToken <= n.usd + cost_delta(u)
<1>1. /\ n.tokens \in Nat /\ n.usd \in Nat /\ u.in \in Nat /\ u.out \in Nat /\ u.usd \in Nat
      /\ q.est \in Nat /\ q.max \in Nat /\ TokenCap \in Nat /\ UsdPerToken \in Nat
  BY DEF Sums, Usage, BudgetConstantsOK
<1>2. n.tokens + u.in + u.out <= TokenCap
  BY <1>1
<1> DEFINE w == u.in + u.out
           p == w * UsdPerToken
<1>3. w \in Nat /\ n.tokens + u.in + u.out = n.tokens + w
  BY <1>1
<1>4. cost_delta(u) >= p /\ p \in Nat /\ cost_delta(u) \in Nat
  <2>1. p \in Nat
    BY <1>1, <1>3, PriceAdds
  <2>2. cost_delta(u) = IF u.usd < p THEN p ELSE u.usd
    BY DEF cost_delta
  <2> HIDE DEF p
  <2> QED
    BY <1>1, <2>1, <2>2
<1> HIDE DEF w
<1>5. (n.tokens + w) * UsdPerToken = n.tokens * UsdPerToken + p /\ n.tokens * UsdPerToken \in Nat
  BY <1>1, <1>3, PriceAdds
<1> HIDE DEF p
<1>6. (n.tokens + w) * UsdPerToken <= n.usd + cost_delta(u)
  <2> DEFINE a == n.tokens * UsdPerToken
             d == (n.tokens + w) * UsdPerToken
  <2>1. a \in Nat /\ d = a + p /\ a <= n.usd
    BY <1>5
  <2> HIDE DEF a, d
  <2>2. d <= n.usd + cost_delta(u)
    BY <1>1, <1>4, <2>1
  <2> QED
    BY <2>2 DEF d
<1> QED
  BY <1>2, <1>3, <1>6

LEMMA BudgetStepInv ==
    ASSUME BudgetConstantsOK, BudgetInv, NEW s \in Sessions, BudgetStep(s)
    PROVE  BudgetInv'
<1>t. BudgetTypeOK
  BY DEF BudgetInv
<1>s. \A t \in Sessions : UsageInv(t)
  BY DEF BudgetInv
<1>h. \A t \in Sessions : CapsInv(t)
  BY DEF BudgetInv
<1>k. \A t \in Sessions : ClearInv(t)
  BY DEF BudgetInv
<1>n. SeenInv
  BY DEF BudgetInv
<1>c. ShadowCapped
  BY DEF BudgetInv
<1>p. "idle" \in BudgetPoints /\ "block" \in BudgetPoints /\ "execute" \in BudgetPoints
  BY DEF BudgetPoints
<1>1. ASSUME NEW q \in Requests, load(s, q) PROVE BudgetInv'
  <2>1. /\ step' \in [Sessions -> Steps] /\ Others(s)
        /\ step'[s].pc = "preflight" /\ step'[s].seen = run /\ step'[s].req = q
        /\ step'[s].clear = ~_global_kill_switch_engaged
    BY <1>t, <1>s, <1>p, <1>1, LoadIs DEF UsageInv
  <2>2. /\ run.status = "running"
        /\ UNCHANGED <<shadow, run, rowLock, budgets, history, calls, changes, resumes>>
    BY <1>1 DEF load
  <2>3. BudgetTypeOK'
    BY <1>t, <2>1, <2>2 DEF BudgetTypeOK, BudgetConstantsOK, history
  <2>4. (\A t \in Sessions : UsageInv(t))'
    BY <1>t, <1>s, <2>1, <2>2 DEF BudgetTypeOK, UsageInv, Others, _global_kill_switch_engaged, effective
  <2>5. CapsInv(s)'
    BY <1>c, <2>1, <2>2 DEF ShadowCapped, CapsInv
  <2>6. ClearInv(s)'
    BY <1>k, <2>1, <2>2 DEF ClearInv, Others, _global_kill_switch_engaged, effective
  <2>7. ASSUME NEW t \in Sessions, t # s PROVE CapsInv(t)' /\ ClearInv(t)'
    BY <1>h, <1>k, <2>1, <2>2, <2>7, OthersKeep DEF Others
  <2>8. SeenInv'
    BY <1>n, <2>1, <2>2 DEF SeenInv, Others, history, _global_kill_switch_engaged, effective
  <2> QED
    BY <2>2, <2>3, <2>4, <2>5, <2>6, <2>7, <2>8, QuietKeeps DEF BudgetInv
<1>2. CASE preflight(s)
  <2>1. /\ step' \in [Sessions -> Steps]
        /\ \/ Moves(s, "block")
           \/ /\ Moves(s, "execute") /\ ~preflight_shadow_budget(step[s].seen)
              /\ ~preflight_shadow_request_tokens(step[s].seen, step[s].req)
    BY <1>t, <1>s, <1>p, <1>2, GotoMoves DEF preflight
  <2>2. /\ step[s].pc = "preflight"
        /\ UNCHANGED <<shadow, run, rowLock, budgets, history, calls, changes, resumes>>
    BY <1>2 DEF preflight
  <2>3. BudgetTypeOK'
    BY <1>t, <2>1, <2>2 DEF BudgetTypeOK, BudgetConstantsOK, history
  <2>4. (\A t \in Sessions : UsageInv(t))'
    BY <1>t, <1>s, <2>1, <2>2 DEF BudgetTypeOK, UsageInv, Others, Moves, Keeps, preflight_shadow_budget, preflight_shadow_request_tokens, _evaluate_shadow_block, _global_kill_switch_engaged, effective
  <2>5. CapsInv(s)'
    <3>1. step[s].seen \in Sums /\ step[s].req \in [max : Nat \cup {Nil}, est : Nat]
      BY <1>s, <2>2 DEF UsageInv, BudgetConstantsOK
    <3>2. shadow => step[s].seen.tokens * UsdPerToken <= step[s].seen.usd
      BY <1>h, <2>2 DEF CapsInv
    <3>3. CASE Moves(s, "block")
      BY <2>2, <3>2, <3>3 DEF CapsInv, Moves, Keeps
    <3>4. CASE Moves(s, "execute") /\ ~preflight_shadow_request_tokens(step[s].seen, step[s].req)
      <4>1. shadow => /\ step[s].req.max # Nil
                      /\ ~(step[s].seen.tokens + step[s].req.est + step[s].req.max > TokenCap)
        BY <3>4 DEF preflight_shadow_request_tokens
      <4>2. shadow => /\ step[s].req.max # Nil
                      /\ step[s].seen.tokens + step[s].req.est + step[s].req.max <= TokenCap
        BY <3>1, <4>1 DEF Sums, BudgetConstantsOK
      <4> QED
        BY <2>2, <3>2, <3>4, <4>2 DEF CapsInv, Moves, Keeps
    <3> QED
      BY <2>1, <3>3, <3>4
  <2>6. ClearInv(s)'
    BY <1>k, <2>1, <2>2 DEF ClearInv, Others, Moves, Keeps, _global_kill_switch_engaged, effective, preflight_shadow_budget, _evaluate_shadow_block
  <2>7. ASSUME NEW t \in Sessions, t # s PROVE CapsInv(t)' /\ ClearInv(t)'
    BY <1>h, <1>k, <2>1, <2>2, <2>7, OthersKeep DEF Others, Moves, Keeps
  <2>8. SeenInv'
    BY <1>n, <2>1, <2>2 DEF SeenInv, Others, history, Moves, Keeps, preflight_shadow_budget, preflight_shadow_request_tokens, _evaluate_shadow_block, _global_kill_switch_engaged, effective
  <2> QED
    BY <2>2, <2>3, <2>4, <2>5, <2>6, <2>7, <2>8, QuietKeeps DEF BudgetInv
<1>3. CASE deny(s) \/ discard(s)
  <2>1. step' \in [Sessions -> Steps] /\ Moves(s, "block")
    BY <1>t, <1>s, <1>p, <1>3, GotoMoves DEF deny, discard
  <2>2. /\ step[s].pc \in {"execute", "executed"}
        /\ UNCHANGED <<shadow, run, rowLock, budgets, history, calls, changes, resumes>>
    BY <1>3 DEF deny, discard
  <2>3. BudgetTypeOK'
    BY <1>t, <2>1, <2>2 DEF BudgetTypeOK, BudgetConstantsOK, history
  <2>4. (\A t \in Sessions : UsageInv(t))'
    BY <1>t, <1>s, <2>1, <2>2 DEF BudgetTypeOK, UsageInv, Others, Moves, Keeps
  <2>5. CapsInv(s)'
    BY <1>t, <1>s, <1>h, <2>1, <2>2 DEF BudgetTypeOK, BudgetConstantsOK, UsageInv, CapsInv, Others, Moves, Keeps
  <2>6. ClearInv(s)'
    BY <1>k, <2>1, <2>2 DEF ClearInv, Others, Moves, Keeps, _global_kill_switch_engaged, effective
  <2>7. ASSUME NEW t \in Sessions, t # s PROVE CapsInv(t)' /\ ClearInv(t)'
    BY <1>h, <1>k, <2>1, <2>2, <2>7, OthersKeep DEF Others, Moves, Keeps
  <2>8. SeenInv'
    BY <1>n, <2>1, <2>2 DEF SeenInv, Others, history, Moves, Keeps
  <2> QED
    BY <2>2, <2>3, <2>4, <2>5, <2>6, <2>7, <2>8, QuietKeeps DEF BudgetInv
<1>4. CASE execute(s)
  <2>1. /\ step' \in [Sessions -> Steps] /\ Keeps(s) /\ step'[s].pc = "executed"
        /\ step'[s].use \in Usage /\ step'[s].use.in <= step[s].req.est
        /\ step[s].req.max # Nil => step'[s].use.out <= step[s].req.max
    BY <1>t, <1>s, <1>p, <1>4, ExecuteIs DEF UsageInv
  <2>2. /\ step[s].pc = "execute" /\ calls < MaxCalls /\ calls' = calls + 1
        /\ UNCHANGED <<shadow, run, rowLock, budgets, history, changes, resumes>>
    BY <1>4 DEF execute
  <2>3. BudgetTypeOK'
    BY <1>t, <2>1, <2>2 DEF BudgetTypeOK, BudgetConstantsOK, history
  <2>4. (\A t \in Sessions : UsageInv(t))'
    BY <1>t, <1>s, <2>1, <2>2 DEF BudgetTypeOK, UsageInv, Others, Keeps
  <2>5. CapsInv(s)'
    BY <1>t, <1>s, <1>h, <2>1, <2>2 DEF BudgetTypeOK, BudgetConstantsOK, UsageInv, CapsInv, Others, Keeps
  <2>6. ClearInv(s)'
    BY <1>k, <2>1, <2>2 DEF ClearInv, Others, Keeps, _global_kill_switch_engaged, effective
  <2>7. ASSUME NEW t \in Sessions, t # s PROVE CapsInv(t)' /\ ClearInv(t)'
    BY <1>h, <1>k, <2>1, <2>2, <2>7, OthersKeep DEF Others, Keeps
  <2>8. SeenInv'
    BY <1>n, <2>1, <2>2 DEF SeenInv, Others, history, Keeps
  <2> QED
    BY <2>2, <2>3, <2>4, <2>5, <2>6, <2>7, <2>8, QuietKeeps DEF BudgetInv
<1>5. CASE record_provider_usage(s)
  <2>1. /\ step' \in [Sessions -> Steps] /\ Others(s) /\ step'[s].pc = "flushed"
        /\ step'[s].use = step[s].use /\ step'[s].req = step[s].req /\ step'[s].clear = step[s].clear
        /\ step'[s].seen \in Sums
        /\ step'[s].seen.tokens = step[s].seen.tokens + step[s].use.in + step[s].use.out
        /\ step'[s].seen.usd = step[s].seen.usd + cost_delta(step[s].use)
    BY <1>t, <1>s, <1>p, <1>5, RecordIs DEF UsageInv
  <2>2. /\ step[s].pc = "executed" /\ rowLock' = s
        /\ UNCHANGED <<shadow, run, budgets, history, calls, changes, resumes>>
    BY <1>5 DEF record_provider_usage
  <2>3. BudgetTypeOK'
    BY <1>t, <2>1, <2>2 DEF BudgetTypeOK, BudgetConstantsOK, history
  <2>4. (\A t \in Sessions : UsageInv(t))'
    BY <1>t, <1>s, <2>1, <2>2 DEF BudgetTypeOK, UsageInv, Others
  <2>5. CapsInv(s)'
    <3> SUFFICES ASSUME shadow PROVE CapsInv(s)'
      BY <2>2 DEF CapsInv
    <3>1. step[s].seen \in Sums /\ step[s].use \in Usage /\ step[s].req \in Requests
      BY <1>s, <2>2 DEF UsageInv
    <3>2. /\ step[s].req.max # Nil /\ step[s].seen.tokens + step[s].req.est + step[s].req.max <= TokenCap
          /\ step[s].seen.tokens * UsdPerToken <= step[s].seen.usd
      BY <1>h, <2>2 DEF CapsInv
    <3>3. step[s].use.in <= step[s].req.est /\ step[s].use.out <= step[s].req.max
      BY <1>s, <2>2, <3>2 DEF UsageInv
    <3>4. /\ step'[s].seen.tokens <= TokenCap
          /\ step'[s].seen.tokens * UsdPerToken <= step'[s].seen.usd
      BY <2>1, <3>1, <3>2, <3>3, ChargeKeepsCaps
    <3> QED
      BY <2>1, <2>2, <3>4 DEF CapsInv
  <2>6. ClearInv(s)'
    BY <1>k, <2>1, <2>2 DEF ClearInv, Others, _global_kill_switch_engaged, effective
  <2>7. ASSUME NEW t \in Sessions, t # s PROVE CapsInv(t)' /\ ClearInv(t)'
    BY <1>h, <1>k, <2>1, <2>2, <2>7, OthersKeep DEF Others
  <2>8. SeenInv'
    BY <1>n, <2>1, <2>2 DEF SeenInv, Others, history
  <2> QED
    BY <2>2, <2>3, <2>4, <2>5, <2>6, <2>7, <2>8, QuietKeeps DEF BudgetInv
<1>6. CASE rollback(s)
  <2>1. step' \in [Sessions -> Steps] /\ Ends(s)
    BY <1>t, <1>s, <1>p, <1>6, DoneEnds DEF rollback
  <2>2. /\ rowLock' = IF rowLock = s THEN Nil ELSE rowLock
        /\ UNCHANGED <<shadow, run, budgets, history, calls, changes, resumes>>
    BY <1>6 DEF rollback
  <2>3. BudgetTypeOK'
    BY <1>t, <2>1, <2>2 DEF BudgetTypeOK, BudgetConstantsOK, history
  <2>4. (\A t \in Sessions : UsageInv(t))'
    BY <1>t, <1>s, <2>1, <2>2 DEF BudgetTypeOK, UsageInv, Others, Ends
  <2>5. CapsInv(s)'
    BY <1>t, <1>s, <1>h, <2>1, <2>2 DEF BudgetTypeOK, BudgetConstantsOK, UsageInv, CapsInv, Others, Ends
  <2>6. ClearInv(s)'
    BY <1>k, <2>1, <2>2 DEF ClearInv, Others, Ends, _global_kill_switch_engaged, effective
  <2>7. ASSUME NEW t \in Sessions, t # s PROVE CapsInv(t)' /\ ClearInv(t)'
    BY <1>h, <1>k, <2>1, <2>2, <2>7, OthersKeep DEF Others, Ends
  <2>8. SeenInv'
    BY <1>n, <2>1, <2>2 DEF SeenInv, Others, history, Ends
  <2> QED
    BY <2>2, <2>3, <2>4, <2>5, <2>6, <2>7, <2>8, QuietKeeps DEF BudgetInv
<1>7. CASE transition_with_event(s)
  <2>1. step' \in [Sessions -> Steps] /\ Ends(s)
    BY <1>t, <1>7, DoneEnds DEF transition_with_event
  <2>2. /\ run' = Blocked
        /\ UNCHANGED <<shadow, rowLock, budgets, history, calls, changes, resumes>>
    BY <1>7 DEF transition_with_event
  <2>b. /\ run' \in Sums /\ run'.tokens = run.tokens /\ run'.usd = run.usd
        /\ run'.status # "running" /\ (run'.status # "blocked" => run' = run)
    BY <1>t, <2>2 DEF BudgetTypeOK, Sums, Blocked
  <2>3. BudgetTypeOK'
    BY <1>t, <2>1, <2>2, <2>b DEF BudgetTypeOK, history
  <2>4. (\A t \in Sessions : UsageInv(t))'
    BY <1>t, <1>s, <2>1, <2>2 DEF BudgetTypeOK, UsageInv, Others, Ends
  <2>5. CapsInv(s)'
    BY <1>t, <1>s, <1>h, <2>1, <2>2 DEF BudgetTypeOK, BudgetConstantsOK, UsageInv, CapsInv, Others, Ends
  <2>6. ClearInv(s)'
    BY <1>k, <2>1, <2>2 DEF ClearInv, Others, Ends, _global_kill_switch_engaged, effective
  <2>7. ASSUME NEW t \in Sessions, t # s PROVE CapsInv(t)' /\ ClearInv(t)'
    BY <1>h, <1>k, <2>1, <2>2, <2>7, OthersKeep DEF Others, Ends
  <2>8. SeenInv' /\ Accounted' /\ ShadowCapped'
    BY <1>c, <2>2, <2>b DEF BudgetInv, SeenInv, Accounted, ShadowCapped, history
  <2>9. LimitHolds'
    <3>1. CASE run' = run
      BY <2>2, <3>1, QuietKeeps
    <3>2. CASE run'.status = "blocked"
      BY <3>2 DEF LimitHolds
    <3> QED
      BY <2>b, <3>1, <3>2
  <2> QED
    BY <2>3, <2>4, <2>5, <2>6, <2>7, <2>8, <2>9 DEF BudgetInv
<1>8. CASE enforce_budget_or_block(s)
  <2>1. step' \in [Sessions -> Steps] /\ Ends(s)
    BY <1>t, <1>8, DoneEnds DEF enforce_budget_or_block
  <2>2. /\ step[s].pc = "flushed" /\ run.status = "running" /\ rowLock' = Nil /\ loose' = FALSE
        /\ run' = [step[s].seen EXCEPT !.status = IF Exceeded(step[s].seen) THEN "blocked" ELSE "stopped"]
        /\ recorded' = recorded + step[s].use.in + step[s].use.out
        /\ UNCHANGED <<shadow, budgets, crossed, calls, changes, resumes>>
    BY <1>8 DEF enforce_budget_or_block
  <2>a. step[s].seen \in Sums /\ step[s].use \in Usage
    BY <1>s, <2>2 DEF UsageInv
  <2>b. /\ run' \in Sums /\ run'.tokens = step[s].seen.tokens /\ run'.usd = step[s].seen.usd
        /\ run'.status # "running" /\ (run'.status # "blocked" => ~Exceeded(step[s].seen))
    BY <2>2, <2>a DEF Sums
  <2>3. BudgetTypeOK'
    <3>1. recorded' \in Nat
      BY <1>t, <2>2, <2>a DEF BudgetTypeOK, Usage
    <3> QED
      BY <1>t, <2>1, <2>2, <2>b, <3>1 DEF BudgetTypeOK
  <2>4. (\A t \in Sessions : UsageInv(t))'
    BY <1>t, <1>s, <2>1, <2>2 DEF BudgetTypeOK, UsageInv, Others, Ends
  <2>5. CapsInv(s)'
    BY <1>t, <1>s, <1>h, <2>1, <2>2 DEF BudgetTypeOK, BudgetConstantsOK, UsageInv, CapsInv, Others, Ends
  <2>6. ClearInv(s)'
    BY <1>k, <2>1, <2>2 DEF ClearInv, Others, Ends, _global_kill_switch_engaged, effective
  <2>7. ASSUME NEW t \in Sessions, t # s PROVE CapsInv(t)' /\ ClearInv(t)'
    BY <1>h, <1>k, <2>1, <2>2, <2>7, OthersKeep DEF Others, Ends
  <2>8. SeenInv' /\ Accounted' /\ ShadowCapped'
    <3>1. SeenInv'
      BY <2>b DEF SeenInv
    <3>2. ~crossed => step[s].seen.tokens = run.tokens + step[s].use.in + step[s].use.out
      BY <1>n, <2>2 DEF SeenInv
    <3>3. Accounted'
      BY <2>2, <2>b, <3>2 DEF BudgetInv, Accounted
    <3>4. shadow => step[s].seen.tokens <= TokenCap /\ step[s].seen.tokens * UsdPerToken <= step[s].seen.usd
      BY <1>h, <2>2 DEF CapsInv
    <3>5. ShadowCapped'
      BY <2>2, <2>b, <3>4 DEF ShadowCapped
    <3> QED
      BY <3>1, <3>3, <3>5
  <2>9. LimitHolds'
    <3>1. Exceeded(run)' <=> Exceeded(step[s].seen)
      BY <2>2, <2>b, ExceededBySums
    <3> QED
      BY <2>b, <3>1 DEF LimitHolds
  <2> QED
    BY <2>3, <2>4, <2>5, <2>6, <2>7, <2>8, <2>9 DEF BudgetInv
<1>9. CASE no_usage(s)
  <2>1. step' \in [Sessions -> Steps] /\ Ends(s)
    BY <1>t, <1>9, DoneEnds DEF no_usage
  <2>2. /\ run.status = "running" /\ run' = [run EXCEPT !.status = "stopped"]
        /\ UNCHANGED <<shadow, rowLock, budgets, history, calls, changes, resumes>>
    BY <1>9 DEF no_usage
  <2>b. /\ run' \in Sums /\ run'.tokens = run.tokens /\ run'.usd = run.usd /\ run'.status = "stopped"
    BY <1>t, <2>2 DEF BudgetTypeOK, Sums
  <2>3. BudgetTypeOK'
    BY <1>t, <2>1, <2>2, <2>b DEF BudgetTypeOK, history
  <2>4. (\A t \in Sessions : UsageInv(t))'
    BY <1>t, <1>s, <2>1, <2>2 DEF BudgetTypeOK, UsageInv, Others, Ends
  <2>5. CapsInv(s)'
    BY <1>t, <1>s, <1>h, <2>1, <2>2 DEF BudgetTypeOK, BudgetConstantsOK, UsageInv, CapsInv, Others, Ends
  <2>6. ClearInv(s)'
    BY <1>k, <2>1, <2>2 DEF ClearInv, Others, Ends, _global_kill_switch_engaged, effective
  <2>7. ASSUME NEW t \in Sessions, t # s PROVE CapsInv(t)' /\ ClearInv(t)'
    BY <1>h, <1>k, <2>1, <2>2, <2>7, OthersKeep DEF Others, Ends
  <2>8. SeenInv' /\ Accounted' /\ ShadowCapped'
    BY <1>c, <2>2, <2>b DEF BudgetInv, SeenInv, Accounted, ShadowCapped, history
  <2>9. LimitHolds'
    <3>1. Exceeded(run)' <=> Exceeded(run)
      BY <2>2, <2>b, ExceededBySums
    <3> QED
      BY <2>2, <2>b, <3>1 DEF BudgetInv, LimitHolds, history
  <2> QED
    BY <2>3, <2>4, <2>5, <2>6, <2>7, <2>8, <2>9 DEF BudgetInv
<1> QED
  BY <1>1, <1>2, <1>3, <1>4, <1>5, <1>6, <1>7, <1>8, <1>9 DEF BudgetStep

LEMMA ResumeInv ==
    ASSUME BudgetConstantsOK, BudgetInv, resume
    PROVE  BudgetInv'
<1>1. /\ run.status # "running" /\ resumes < MaxResumes /\ run' = [run EXCEPT !.status = "running"]
      /\ resumes' = resumes + 1 /\ loose' = (loose \/ run.status = "blocked")
      /\ crossed' = (crossed \/ \E s \in Sessions : step[s].pc # "idle")
      /\ UNCHANGED <<shadow, rowLock, budgets, step, recorded, calls, changes>>
  BY DEF resume
<1>2. BudgetTypeOK
  BY DEF BudgetInv
<1>3. /\ run' \in Sums /\ run'.tokens = run.tokens /\ run'.usd = run.usd /\ run'.status = "running"
  BY <1>1, <1>2 DEF BudgetTypeOK, Sums
<1>4. BudgetTypeOK'
  <2>1. loose' \in BOOLEAN /\ crossed' \in BOOLEAN
    BY <1>1
  <2>2. resumes' \in 0 .. MaxResumes
    BY <1>1, <1>2 DEF BudgetTypeOK, BudgetConstantsOK
  <2> QED
    BY <1>1, <1>2, <1>3, <2>1, <2>2 DEF BudgetTypeOK
<1>5. (\A s \in Sessions : UsageInv(s))'
  BY <1>1 DEF BudgetInv, UsageInv
<1>6. ASSUME NEW s \in Sessions PROVE CapsInv(s)' /\ ClearInv(s)'
  BY <1>1, OthersKeep DEF BudgetInv
<1>7. SeenInv'
  BY <1>1 DEF SeenInv
<1>8. Accounted' /\ ShadowCapped'
  BY <1>1, <1>3 DEF BudgetInv, Accounted, ShadowCapped
<1>9. LimitHolds'
  <2>1. Exceeded(run)' <=> Exceeded(run)
    BY <1>1, <1>3, ExceededBySums
  <2> QED
    BY <1>1, <2>1 DEF BudgetInv, LimitHolds
<1> QED
  BY <1>4, <1>5, <1>6, <1>7, <1>8, <1>9 DEF BudgetInv

LEMMA LimitsInv ==
    ASSUME BudgetConstantsOK, BudgetInv, NEW l \in Levels, update_limits_with_audit(l)
    PROVE  BudgetInv'
<1>1. /\ changes < MaxChanges /\ changes' = changes + 1 /\ loose' = TRUE
      /\ UNCHANGED <<shadow, run, rowLock, recorded, crossed, calls, resumes>>
  BY DEF update_limits_with_audit
<1>2. BudgetTypeOK
  BY DEF BudgetInv
<1>3. /\ budgets' \in [Levels -> Rules]
      /\ budgets'[l].kill => budgets'[l].active
      /\ \A k \in Levels : k # l => budgets'[k] = budgets[k]
  BY <1>2, RulesTyped
<1> DEFINE off == l = "global" /\ ~budgets'[l].kill
<1>4. step' = [s \in Sessions |-> [step[s] EXCEPT !.clear = @ \/ off]]
  BY DEF update_limits_with_audit
<1>5. step \in [Sessions -> Steps]
  BY <1>2 DEF BudgetTypeOK
<1> HIDE DEF off
<1>6. ASSUME NEW s \in Sessions
      PROVE  /\ step'[s].pc = step[s].pc /\ step'[s].seen = step[s].seen /\ step'[s].req = step[s].req
             /\ step'[s].use = step[s].use /\ step'[s].clear = (step[s].clear \/ off)
  BY <1>4, <1>5 DEF Steps
<1>7. step' \in [Sessions -> Steps]
  <2>1. ASSUME NEW s \in Sessions PROVE [step[s] EXCEPT !.clear = @ \/ off] \in Steps
    <3>1. [step[s] EXCEPT !.clear = @ \/ off] = [step[s] EXCEPT !.clear = (step[s].clear \/ off)]
      BY <1>5 DEF Steps
    <3>2. (step[s].clear \/ off) \in BOOLEAN
      OBVIOUS
    <3> QED
      BY <1>5, <3>1, <3>2, StepTyped
  <2> QED
    BY <1>4, <2>1
<1>8. BudgetTypeOK'
  <2>1. changes' \in 0 .. MaxChanges /\ loose' \in BOOLEAN
    BY <1>1, <1>2 DEF BudgetTypeOK, BudgetConstantsOK
  <2> QED
    BY <1>1, <1>2, <1>3, <1>7, <2>1 DEF BudgetTypeOK
<1>9. (\A s \in Sessions : UsageInv(s))'
  BY <1>6 DEF BudgetInv, UsageInv
<1>10. ASSUME NEW s \in Sessions PROVE CapsInv(s)'
  BY <1>1, <1>6 DEF BudgetInv, CapsInv
<1>11. ASSUME NEW s \in Sessions PROVE ClearInv(s)'
  <2>1. ClearInv(s)
    BY DEF BudgetInv
  <2>2. step[s].clear => step'[s].clear
    BY <1>6
  <2>3. ASSUME ~step'[s].clear, _global_kill_switch_engaged PROVE _global_kill_switch_engaged'
    <3>1. ~off
      BY <1>6, <2>3
    <3>2. CASE l = "global"
      BY <1>3, <3>1, <3>2 DEF off, _global_kill_switch_engaged, effective
    <3>3. CASE l # "global"
      BY <1>3, <2>3, <3>3 DEF _global_kill_switch_engaged, effective
    <3> QED
      BY <3>2, <3>3
  <2> QED
    BY <1>1, <1>6, <2>1, <2>2, <2>3 DEF ClearInv
<1>12. SeenInv'
  BY <1>1, <1>6 DEF BudgetInv, SeenInv
<1>13. Accounted' /\ ShadowCapped' /\ LimitHolds'
  BY <1>1 DEF BudgetInv, Accounted, ShadowCapped, LimitHolds
<1> QED
  BY <1>8, <1>9, <1>10, <1>11, <1>12, <1>13 DEF BudgetInv

LEMMA BudgetNextInv == BudgetConstantsOK /\ BudgetInv /\ [BudgetNext]_budgetVars => BudgetInv'
<1> SUFFICES ASSUME BudgetConstantsOK, BudgetInv, [BudgetNext]_budgetVars PROVE BudgetInv'
  OBVIOUS
<1>1. CASE UNCHANGED budgetVars
  <2>1. UNCHANGED <<shadow, run, rowLock, budgets, step, history, calls, changes, resumes>>
    BY <1>1 DEF budgetVars
  <2>2. BudgetTypeOK'
    BY <2>1 DEF BudgetInv, BudgetTypeOK, history
  <2>3. (\A s \in Sessions : UsageInv(s))' /\ SeenInv'
    BY <2>1 DEF BudgetInv, UsageInv, SeenInv, history
  <2>4. ASSUME NEW s \in Sessions PROVE CapsInv(s)' /\ ClearInv(s)'
    BY <2>1, OthersKeep DEF BudgetInv
  <2>5. Accounted' /\ ShadowCapped' /\ LimitHolds'
    BY <2>1, QuietKeeps
  <2> QED
    BY <2>2, <2>3, <2>4, <2>5 DEF BudgetInv
<1>2. ASSUME NEW s \in Sessions, BudgetStep(s) PROVE BudgetInv'
  BY <1>2, BudgetStepInv
<1>3. CASE resume
  BY <1>3, ResumeInv
<1>4. ASSUME NEW l \in Levels, update_limits_with_audit(l) PROVE BudgetInv'
  BY <1>4, LimitsInv
<1> QED
  BY <1>1, <1>2, <1>3, <1>4 DEF BudgetNext

\* For any number of sessions, any requests, levels, limits, caps and price: the sums of
\* the run are what committed steps used, a shadow run keeps to its token cap and pays
\* the settings' price, a run over a limit of its last check is blocked, and no call of
\* a shadow run passes a kill switch that was on (usage_logger.py, budget_guard.py).
THEOREM BudgetSafety == BudgetConstantsOK => (BudgetSpec => []BudgetsSound)
<1> SUFFICES ASSUME BudgetConstantsOK PROVE BudgetSpec => []BudgetsSound
  OBVIOUS
<1>1. BudgetInit => BudgetInv
  BY BudgetInitInv
<1>2. BudgetInv /\ [BudgetNext]_budgetVars => BudgetInv'
  BY BudgetNextInv
<1>3. BudgetInv => BudgetsSound
  <2>1. ASSUME BudgetInv PROVE KillSwitchStops
    BY <2>1 DEF BudgetInv, ClearInv, KillSwitchStops
  <2> QED
    BY <2>1 DEF BudgetInv, BudgetsSound
<1> QED
  BY <1>1, <1>2, <1>3, PTL DEF BudgetSpec
=============================================================================
