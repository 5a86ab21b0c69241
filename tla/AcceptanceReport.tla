-------------------------- MODULE AcceptanceReport --------------------------
(***************************************************************************)
(* The P0 acceptance report: rollups of hard gates and KPIs, the report    *)
(* with its exit decision, and the artifact built from it later, for a set *)
(* of required rows that may have changed in between.                      *)
(***************************************************************************)
EXTENDS Integers, FiniteSets

CONSTANTS
    Rows,        \* ids of gated acceptance rows
    MaxFaults    \* things that are not as they should be

ConstantsOK == MaxFaults \in Nat

VARIABLES
    hard, kpis,  \* results of the gates and the KPIs: "met", "failed", or met without a metric
    smoke,       \* overall_success of the ticket-to-PR smoke run
    drills,      \* [host_migration, backup_restore] |-> status
    staging,
    rows,        \* set of [id, status, fields]
    required,    \* ids of the rows that must be there
    report,      \* the generated report, <<>> before
    artifact,    \* the built artifact, <<>> before
    faults

reportVars == <<hard, kpis, smoke, drills, staging, rows, required, report, artifact, faults>>

HardGates == {"policy_block", "secret_canary", "tenant_isolation", "backup_restore",
              "forbidden_path", "dangerous_command", "prompt_injection"}
KpiNames == {"acceptance_pass_rate", "time_to_merge", "approval_wait_ms", "citation_coverage",
             "cost_per_completed_task"}
Results == {"met", "failed", "no_metric"}
DrillStatuses == {"pending", "in_progress", "passed", "failed", "deferred_user_confirm"}
StagingStatuses == {"not_run", "in_progress", "passed", "failed", "deferred_user_confirm"}

\* What the constructors accept: a pass with its evidence, a structured defer with its
\* fields, which may still be invalid.
RowStates ==
    {[status |-> "pass", fields |-> "evidence"], [status |-> "natural_defer", fields |-> "none"],
     [status |-> "missing", fields |-> "none"]}
    \cup [status : {"structured_defer"}, fields : {"valid", "invalid"}]

Row(id, st) == [id |-> id, status |-> st.status, fields |-> st.fields]

ReportInit ==
    /\ hard = [g \in HardGates |-> "met"] /\ kpis = [k \in KpiNames |-> "met"]
    /\ smoke = TRUE
    /\ drills = [d \in {"host_migration", "backup_restore"} |-> "passed"]
    /\ staging = "passed"
    /\ rows = {Row(id, [status |-> "pass", fields |-> "evidence"]) : id \in Rows}
    /\ required = Rows /\ report = <<>> /\ artifact = <<>> /\ faults = 0

-----------------------------------------------------------------------------

\* compute_hard_gates_rollup and compute_kpi_rollup make an entry for every gate and
\* every KPI.  The report counts their entries again itself; it would count no failure
\* in a summary put together without them, which no code does.
HardFailed == Cardinality({g \in HardGates : hard[g] # "met"})
KpiFailed == Cardinality({k \in KpiNames : kpis[k] # "met"})
HardGatesAccept == HardFailed <= 0
KpiAccept == KpiFailed <= 1

\* structured_defer_fields_present
FieldsPresent(r) == r.fields = "valid"
Satisfied(r) == r.status = "pass" \/ (r.status = "structured_defer" /\ FieldsPresent(r))

\* What is given to the report is one of these, MaxFaults of them not right.
Fault ==
    /\ report = <<>> /\ faults < MaxFaults /\ faults' = faults + 1
    /\ \/ \E g \in HardGates, r \in Results \ {"met"} :
             hard' = [hard EXCEPT ![g] = r] /\ UNCHANGED <<kpis, smoke, drills, staging, rows>>
       \/ \E k \in KpiNames, r \in Results \ {"met"} :
             kpis' = [kpis EXCEPT ![k] = r] /\ UNCHANGED <<hard, smoke, drills, staging, rows>>
       \/ smoke' = FALSE /\ UNCHANGED <<hard, kpis, drills, staging, rows>>
       \/ \E d \in DOMAIN drills, s \in DrillStatuses \ {"passed"} :
             drills' = [drills EXCEPT ![d] = s] /\ UNCHANGED <<hard, kpis, smoke, staging, rows>>
       \/ \E s \in StagingStatuses \ {"passed"} :
             staging' = s /\ UNCHANGED <<hard, kpis, smoke, drills, rows>>
       \/ \E r \in rows : \E new \in {{}} \cup {{Row(r.id, st)} : st \in RowStates} \cup {{r, Row(r.id, st)} : st \in RowStates} :
             rows' = (rows \ {r}) \cup new /\ UNCHANGED <<hard, kpis, smoke, drills, staging>>
    /\ UNCHANGED <<required, report, artifact>>

\* generate_p0_acceptance_report.
GenerateReport ==
    /\ report = <<>>
    /\ report' = [exit |-> /\ HardGatesAccept /\ KpiAccept /\ smoke
                           /\ drills["host_migration"] = "passed" /\ drills["backup_restore"] = "passed"
                           /\ staging = "passed"
                           /\ required \subseteq {r.id : r \in rows}
                           /\ \A r \in rows : Satisfied(r),
                  rows |-> rows]
    /\ UNCHANGED <<hard, kpis, smoke, drills, staging, rows, required, artifact, faults>>

\* The set of required rows grows or shrinks between report and artifact.
ChangeRequired(ids) ==
    /\ artifact = <<>> /\ required' = ids
    /\ UNCHANGED <<hard, kpis, smoke, drills, staging, rows, report, artifact, faults>>

\* build_p0_acceptance_artifact: a required row that the report does not have overrides
\* its decision.
BuildArtifact ==
    /\ report # <<>> /\ artifact = <<>>
    /\ artifact' = [exit |-> report.exit /\ required \subseteq {r.id : r \in report.rows},
                    rows |-> report.rows, required |-> required]
    /\ UNCHANGED <<hard, kpis, smoke, drills, staging, rows, required, report, faults>>

ReportNext ==
    \/ Fault \/ GenerateReport \/ BuildArtifact
    \/ \E ids \in (SUBSET Rows) \ {required} : ChangeRequired(ids)

-----------------------------------------------------------------------------
(* Properties *)

ReportTypeOK ==
    /\ hard \in [HardGates -> Results] /\ kpis \in [KpiNames -> Results]
    /\ required \subseteq Rows /\ faults \in 0 .. MaxFaults

\* The phase ends with every hard gate and at least four KPIs met, the drills, staging
\* and the smoke run passed, and every row that is required when the artifact is built
\* there and passed or deferred in full.
ExitMeansAll ==
    artifact # <<>> /\ artifact.exit =>
        /\ \A g \in HardGates : hard[g] = "met"
        /\ \A k1, k2 \in KpiNames : kpis[k1] # "met" /\ kpis[k2] # "met" => k1 = k2
        /\ smoke /\ staging = "passed" /\ \A d \in DOMAIN drills : drills[d] = "passed"
        /\ \A id \in artifact.required :
              /\ \E r \in rows : r.id = id
              /\ \A r \in rows : r.id = id => r.status = "pass" \/ r.fields = "valid"
=============================================================================
