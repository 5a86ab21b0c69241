----------------------------- MODULE MC_Services -----------------------------
(***************************************************************************)
(* The services of the control plane on small instances, side by side:     *)
(* part names the instance that is at work, the variables of the others    *)
(* keep their initial values.                                              *)
(*   decide   two sessions decide or revise the approval of a merge        *)
(*   promote  two sessions promote a research task whose claims change     *)
(*   revise   two sessions ask for revisions and hand over revised ones    *)
(*   corpus   fixtures are registered and changed while loaders read them  *)
(*   kpi      a quality KPI is evaluated over a few fixtures               *)
(*   gates    a hard gate is evaluated over a few fixtures                 *)
(*   report   the acceptance report and its artifact                       *)
(*   replay   two handlers of webhooks that are delivered again            *)
(*   secrets  one handler while the secret of the webhooks is rotated      *)
(*   publish  two sessions publish into the stream of one parent           *)
(*   consume  two sessions consume a message while settings change         *)
(*   stream   two clients follow the events of one run, with one place     *)
(***************************************************************************)
EXTENDS ApprovalFlow, Channels, TLC

CONSTANTS x1, x2,
    hana, kenji, agent,    \* two humans, and an agent that acts for hana
    d1, d2,                \* deliveries of webhooks
    parent, c1, c2         \* a run and its children

VARIABLES part,
    manifest, files, run, corpusVersions, edits, runs,
    kpi, seen, counted, kpiFlags, fixtures, kpiSut, given, outcome,
    gate, mode, gateSut, manifestOK, count, passes, gateFlags, observed, blocks, reason, truth,
    hard, kpis, smoke, drills, staging, rows, required, report, artifact, faults

apprVars == vars
corpusVars == <<manifest, files, run, corpusVersions, edits, runs>>
kpiVars == <<kpi, seen, counted, kpiFlags, fixtures, kpiSut, given, outcome>>
gateVars == <<gate, mode, gateSut, manifestOK, count, passes, gateFlags, observed, blocks, reason, truth>>
reportVars == <<hard, kpis, smoke, drills, staging, rows, required, report, artifact, faults>>
evalVars == <<corpusVars, kpiVars, gateVars, reportVars>>

-----------------------------------------------------------------------------
(* Approvals: the instances share the variables and differ in the calls *)

MCEffectiveHuman == hana :> hana @@ kenji :> kenji @@ agent :> hana

Deciding == INSTANCE ApprovalFlow WITH
    ActionClasses <- {"merge"}, Calls <- {"decide", "revise", "archive", "stale"},
    MaxApprovals <- 1, MaxVersion <- 0

Promoting == INSTANCE ApprovalFlow WITH
    Actors <- {hana, kenji}, ActionClasses <- {}, Calls <- {"decide", "promote", "stale"},
    MaxApprovals <- 1

Revising == INSTANCE ApprovalFlow WITH
    Actors <- {hana, kenji}, ActionClasses <- {"task_write"}, Calls <- {"revise"}

DecideStep == part = "decide" /\ Deciding!Next /\ UNCHANGED <<part, evalVars, channelVars>>
PromoteStep == part = "promote" /\ Promoting!Next /\ UNCHANGED <<part, evalVars, channelVars>>
ReviseStep == part = "revise" /\ Revising!Next /\ UNCHANGED <<part, evalVars, channelVars>>

-----------------------------------------------------------------------------
(* Evaluation *)

Corpus == INSTANCE FixtureCorpus WITH
    versions <- corpusVersions, Ids <- {1, 2, 3}, FileNames <- {1, 2}, MaxEdits <- 2, MaxRuns <- 1

\* Limit 0: the tolerated millisecond above it, and a value beyond.
Kpi == INSTANCE KpiMetrics WITH
    flags <- kpiFlags, withSut <- kpiSut, MaxKeys <- 2, Values <- {0, 1, 3}, Limit <- 0,
    MaxFixtures <- 2, MaxSamples <- 2

\* Four fixtures, one for each kind of SQL operation.
Gate == INSTANCE HardGates WITH
    flags <- gateFlags, withSut <- gateSut, MaxFixtures <- 4, Paths <- {1, 2}, Commands <- {1, 2}

Report == INSTANCE AcceptanceReport WITH Rows <- {1, 2}, MaxFaults <- 2

ASSUME EvaluationConstantsOK ==
    Corpus!ConstantsOK /\ Kpi!ConstantsOK /\ Gate!ConstantsOK /\ Report!ConstantsOK

\* While a loader is at work the corpus changes; what is malformed was so before.
FlawsCameFirst ==
    run.loader # "none" => /\ manifest'.flaws \subseteq manifest.flaws
                           /\ UNION {f.body.flaws : f \in files'} \subseteq UNION {f.body.flaws : f \in files}

CorpusStep ==
    part = "corpus" /\ Corpus!CorpusNext /\ FlawsCameFirst
    /\ UNCHANGED <<part, apprVars, kpiVars, gateVars, reportVars, channelVars>>
KpiStep ==
    part = "kpi" /\ Kpi!KpiNext /\ UNCHANGED <<part, apprVars, corpusVars, gateVars, reportVars, channelVars>>
GateStep ==
    part = "gates" /\ Gate!GateNext /\ UNCHANGED <<part, apprVars, corpusVars, kpiVars, reportVars, channelVars>>
ReportStep ==
    part = "report" /\ Report!ReportNext /\ UNCHANGED <<part, apprVars, corpusVars, kpiVars, gateVars, channelVars>>

-----------------------------------------------------------------------------
(* Webhooks *)

Body(installation, content) == [installation |-> installation, part |-> content, repo |-> "known"]

MCKind == d1 :> "pull_request" @@ d2 :> "ping"

MCPayloads == {Body(1, "pull_request"), Body(2, "none"), Body(1, "not_object")}

\* A pull request and a body without the part its header names.
Replay == INSTANCE WebhookIntake WITH
    Deliveries <- {d1}, Payloads <- {Body(1, "pull_request"), Body(2, "none")}, MaxSecrets <- 1

\* A pull request and a body that is no object, and an event that is not recorded.
Rotate == INSTANCE WebhookIntake WITH
    Payloads <- {Body(1, "pull_request"), Body(1, "not_object")}, MaxRequests <- 1

-----------------------------------------------------------------------------
(* Messages between runs *)

MCRole == c1 :> c1 @@ c2 :> c2

MCReceivers == {[kind |-> "broadcast", ref |-> Absent], [kind |-> "role", ref |-> c2]}

\* Broadcasts, trusted ones among them, that nobody consumes.
Publish == INSTANCE RunMessages WITH
    Receivers <- {[kind |-> "broadcast", ref |-> Absent]}, MessageCalls <- {"publish", "trusted"},
    MaxChanges <- 0

\* One message of one child to the role of the other.
Consume == INSTANCE RunMessages WITH
    Senders <- {c1}, Receivers <- {[kind |-> "role", ref |-> c2]}, MessageCalls <- {"publish", "consume"},
    MaxMessages <- 1, MaxRunEvents <- 0

ASSUME ChannelConstantsOK == ConstantsOK /\ WebhookConstantsOK /\ MessageConstantsOK /\ StreamConstantsOK

ReplayStep == part = "replay" /\ Replay!WebhookNext /\ UNCHANGED <<part, apprVars, evalVars, messageVars, streamVars>>
RotateStep == part = "secrets" /\ Rotate!WebhookNext /\ UNCHANGED <<part, apprVars, evalVars, messageVars, streamVars>>
PublishStep == part = "publish" /\ Publish!MessagesNext /\ UNCHANGED <<part, apprVars, evalVars, webhookVars, streamVars>>
ConsumeStep == part = "consume" /\ Consume!MessagesNext /\ UNCHANGED <<part, apprVars, evalVars, webhookVars, streamVars>>
StreamStep == part = "stream" /\ StreamNext /\ UNCHANGED <<part, apprVars, evalVars, webhookVars, messageVars>>

-----------------------------------------------------------------------------

ServicesInit ==
    /\ part \in {"decide", "promote", "revise", "corpus", "kpi", "gates", "report",
                 "replay", "secrets", "publish", "consume", "stream"}
    /\ Init /\ ChannelsInit /\ Corpus!CorpusInit /\ Kpi!KpiInit /\ Gate!GateInit /\ Report!ReportInit
    /\ part # "kpi" => kpi = "time_to_merge" /\ ~kpiSut
    /\ part # "gates" => gate = "policy_block" /\ mode = "skeleton" /\ ~gateSut /\ manifestOK
    /\ part # "publish" => approval.decider = "human"

ServicesNext ==
    \/ DecideStep \/ PromoteStep \/ ReviseStep
    \/ CorpusStep \/ KpiStep \/ GateStep \/ ReportStep
    \/ ReplayStep \/ RotateStep \/ PublishStep \/ ConsumeStep \/ StreamStep

servicesVars == <<part, apprVars, evalVars, channelVars>>
ServicesSpec == ServicesInit /\ [][ServicesNext]_servicesVars

Symmetry == Permutations({x1, x2})

-----------------------------------------------------------------------------
(* Properties, besides those of ApprovalFlow and Channels: those of the    *)
(* other components, where the instance is at work.                        *)

\* Types of approvals, revision requests, notifications and sessions, and of the
\* evaluations' counters and results, of webhooks, messages and streams.
ServicesTypeOK ==
    /\ part \in {"decide", "promote", "revise"} => TypeOK
    /\ part \in {"replay", "secrets"} => WebhookTypeOK
    /\ part = "corpus" => Corpus!CorpusTypeOK
    /\ part = "kpi" => Kpi!KpiTypeOK
    /\ part = "gates" => Gate!GateTypeOK
    /\ part = "report" => Report!ReportTypeOK
    /\ part \in {"publish", "consume"} => MessagesTypeOK
    /\ part = "stream" => StreamTypeOK

\* What the loaders hand on is what was registered, each fixture once and in its
\* split, with nothing given away, whatever is changed before or between the reads
\* of the splits (discover_fixtures, load_fixture_corpus).
CorpusSound == part = "corpus" => Corpus!CorpusSound

\* A met KPI is met by the sampled items themselves, a met gate by a corpus that
\* covers it, and the phase ends with all of it, for the rows required at the end
\* (evaluate_..., build_p0_acceptance_artifact).
VerdictsEarned ==
    /\ part = "kpi" => Kpi!MetByTheItems
    /\ part = "gates" => Gate!MetByACorpus
    /\ part = "report" => Report!ExitMeansAll
=============================================================================
