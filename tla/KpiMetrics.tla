----------------------------- MODULE KpiMetrics -----------------------------
(***************************************************************************)
(* The five quality KPIs of backend/app/services/eval/kpis.  An evaluation *)
(* goes through the fixtures of a corpus; each brings samples and the      *)
(* aggregate its author declares for them.  The evaluator recomputes the   *)
(* aggregate, refuses samples it has met in an earlier fixture, and        *)
(* compares the metric over all samples with the limit of the criterion.   *)
(*                                                                         *)
(* A sample is [key, status, value]; status "malformed" stands for any     *)
(* field that does not parse.  Durations and costs are counted in the      *)
(* units of the tolerances: milliseconds and micro dollars.                *)
(***************************************************************************)
EXTENDS Integers, Sequences, FiniteSets, SequencesExt

CONSTANTS
    MaxKeys,      \* sampled items
    Values,       \* durations or costs of samples
    Limit,        \* the threshold of the three KPIs that have a unit
    MaxFixtures,  \* fixtures of a corpus
    MaxSamples    \* samples of a fixture

Keys == 1 .. MaxKeys

ConstantsOK ==
    /\ MaxKeys \in Nat
    /\ Values \subseteq Nat /\ Limit \in Nat
    /\ MaxFixtures \in Nat \ {0} /\ MaxSamples \in Nat \ {0}

VARIABLES
    kpi,        \* the criterion that is evaluated
    seen,       \* keys met in the fixtures that were accepted
    counted,    \* the samples that count, in the order they came
    flags,      \* "spec", "sut": what some fixture failed
    fixtures,   \* number of fixtures evaluated
    withSut,    \* whether verdicts of the system under test are given
    given,      \* history: the samples of all fixtures, and whether all was right
    outcome     \* threshold_reason, "" while the evaluation runs

kpiVars == <<kpi, seen, counted, flags, fixtures, withSut, given, outcome>>

Names == {"acceptance_pass_rate", "time_to_merge", "approval_wait_ms",
          "citation_coverage", "cost_per_completed_task"}

-----------------------------------------------------------------------------
(* Shared by the evaluators *)

KeysOf(samples) == {samples[i].key : i \in DOMAIN samples}
DistinctKeys(samples) == Cardinality(KeysOf(samples)) = Len(samples)
CountOf(samples, status) == Len(SelectSeq(samples, LAMBDA s : s.status = status))
Sum(samples) == FoldLeft(LAMBDA t, s : t + s.value, 0, samples)

\* Twice the value of statistics.median.
MedianTwice(samples) ==
    LET v == SortSeq([i \in DOMAIN samples |-> samples[i].value], <)
        n == Len(v)
    IN  v[(n + 1) \div 2] + v[n \div 2 + 1]

\* The first of the reasons every evaluator gives before it looks at the metric.
Before(manifestOK) ==
    CASE fixtures = 0 -> "no_fixtures"
      [] fixtures > 0 /\ ~manifestOK -> "manifest_violation"
      [] fixtures > 0 /\ manifestOK /\ "spec" \in flags -> "spec_violation"
      [] fixtures > 0 /\ manifestOK /\ flags = {"sut"} -> "sut_failure"
      [] OTHER -> ""

\* A threshold that a fixture repeats must be the criterion's own.
OwnThreshold(f) == f.threshold \in {"absent", "right"}

-----------------------------------------------------------------------------
(* acceptance_pass_rate.py: satisfied of satisfied or rejected, at least 0.6 *)

AcceptanceStatuses == {"satisfied", "rejected", "pending", "deferred"}

Acceptance_Collect(samples) ==
    /\ samples # <<>> /\ DistinctKeys(samples) /\ KeysOf(samples) \cap seen = {}
    /\ \A i \in DOMAIN samples : samples[i].status \in AcceptanceStatuses

Acceptance_Counts(s) == s.status \in {"satisfied", "rejected"}

\* The six counts and the rate, which follows from two of them.
Acceptance_Aggregate(samples) == [st \in AcceptanceStatuses |-> CountOf(samples, st)]

Acceptance_Manifest(f) == OwnThreshold(f)

Acceptance_Threshold(manifestOK) ==
    CASE Before(manifestOK) # "" -> Before(manifestOK)
      [] Before(manifestOK) = "" /\ counted = <<>> -> "no_evaluated_criteria"
      [] Before(manifestOK) = "" /\ counted # <<>>
            -> IF 10 * CountOf(counted, "satisfied") >= 6 * Len(counted)
               THEN "threshold_met" ELSE "below_threshold"

-----------------------------------------------------------------------------
(* time_to_merge.py: median from ticket creation to merge, at most 2 hours *)

PullStatuses == {"merged", "open", "draft", "closed_without_merge"}

Merge_Collect(samples) ==
    /\ samples # <<>> /\ DistinctKeys(samples) /\ KeysOf(samples) \cap seen = {}
    /\ \A i \in DOMAIN samples : samples[i].status \in PullStatuses

Merge_Counts(s) == s.status = "merged"

Merge_Aggregate(samples) ==
    LET merged == SelectSeq(samples, Merge_Counts)
    IN  [counts |-> [st \in PullStatuses |-> CountOf(samples, st)],
         median |-> IF merged = <<>> THEN 0 ELSE MedianTwice(merged)]

Merge_Manifest(f) == OwnThreshold(f)

Merge_Threshold(manifestOK) ==
    CASE Before(manifestOK) # "" -> Before(manifestOK)
      [] Before(manifestOK) = "" /\ counted = <<>> -> "no_merged_pulls"
      [] Before(manifestOK) = "" /\ counted # <<>>
            -> IF MedianTwice(counted) <= 2 * (Limit + 1)
               THEN "threshold_met" ELSE "above_threshold"

-----------------------------------------------------------------------------
(* approval_wait_ms.py: median from request to decision, at most 4 hours   *)

ApprovalStatuses == {"pending", "approved", "rejected", "expired", "invalidated"}

Approval_Collect(samples) ==
    /\ samples # <<>> /\ DistinctKeys(samples) /\ KeysOf(samples) \cap seen = {}
    /\ \A i \in DOMAIN samples : samples[i].status \in ApprovalStatuses

Approval_Counts(s) == s.status \in {"approved", "rejected"}

Approval_Aggregate(samples) ==
    LET decided == SelectSeq(samples, Approval_Counts)
    IN  [count |-> Len(decided),
         median |-> IF decided = <<>> THEN 0 ELSE MedianTwice(decided)]

\* No fixture may bring a threshold, and one without a decided approval is refused:
\* the declared median has to be a number and nothing was recomputed.
Approval_Manifest(f) ==
    f.threshold = "absent" /\ \E i \in DOMAIN f.samples : Approval_Counts(f.samples[i])

Approval_Threshold(manifestOK) ==
    CASE Before(manifestOK) # "" -> Before(manifestOK)
      [] Before(manifestOK) = "" /\ counted = <<>> -> "no_decided_approvals"
      [] Before(manifestOK) = "" /\ counted # <<>>
            -> IF MedianTwice(counted) <= 2 * (Limit + 1)
               THEN "threshold_met" ELSE "above_threshold"

-----------------------------------------------------------------------------
(* citation_coverage.py: claims with a citation, at least 0.9              *)

\* Claim ids are compared within a fixture only.
Citation_Collect(samples) ==
    /\ DistinctKeys(samples)
    /\ \A i \in DOMAIN samples : samples[i].status \in {"cited", "uncited"}

Citation_Counts(s) == s.status \in {"cited", "uncited"}

Citation_Aggregate(samples) ==
    [total |-> Len(samples), cited |-> CountOf(samples, "cited")]

\* Here the threshold has to be there.
Citation_Manifest(f) == f.threshold = "right" /\ f.samples # <<>>

\* The totals include the claims of refused fixtures, which decide nothing then.
Citation_Threshold(manifestOK) ==
    CASE Before(manifestOK) # "" -> Before(manifestOK)
      [] Before(manifestOK) = "" /\ 10 * CountOf(counted, "cited") >= 9 * Len(counted)
            -> "threshold_met"
      [] OTHER -> "below_threshold"

-----------------------------------------------------------------------------
(* cost_per_completed_task.py: at most half a dollar a completed run       *)

\* _normalize_money: rounded half up to micro dollars.
Money(total, n) == (2 * total + n) \div (2 * n)

RunStatuses == {"completed", "failed"}    \* of the sixteen: those that count, the others

Cost_Collect(samples) ==
    /\ samples # <<>> /\ DistinctKeys(samples) /\ KeysOf(samples) \cap seen = {}
    /\ \A i \in DOMAIN samples : samples[i].status \in RunStatuses

Cost_Counts(s) == s.status = "completed"

\* Within a micro dollar; passed is declared too.
Cost_Aggregate(samples) ==
    LET done == SelectSeq(samples, Cost_Counts)
    IN  [count |-> Len(done), total |-> Sum(done),
         passed |-> done # <<>> /\ Money(Sum(done), Len(done)) <= Limit]

Cost_Manifest(f) == OwnThreshold(f)

Cost_Threshold(manifestOK) ==
    CASE Before(manifestOK) # "" -> Before(manifestOK)
      [] Before(manifestOK) = "" /\ counted = <<>> -> "no_completed_runs"
      [] Before(manifestOK) = "" /\ counted # <<>>
            -> IF Money(Sum(counted), Len(counted)) <= Limit
               THEN "threshold_met" ELSE "above_threshold"

-----------------------------------------------------------------------------
(* One evaluation *)

StatusesOf(k) ==
    CASE k = "acceptance_pass_rate" -> AcceptanceStatuses
      [] k = "time_to_merge" -> PullStatuses
      [] k = "approval_wait_ms" -> ApprovalStatuses
      [] k = "citation_coverage" -> {"cited", "uncited"}
      [] k = "cost_per_completed_task" -> RunStatuses

Counts(s) ==
    CASE kpi = "acceptance_pass_rate" -> Acceptance_Counts(s)
      [] kpi = "time_to_merge" -> Merge_Counts(s)
      [] kpi = "approval_wait_ms" -> Approval_Counts(s)
      [] kpi = "citation_coverage" -> Citation_Counts(s)
      [] kpi = "cost_per_completed_task" -> Cost_Counts(s)

Aggregate(samples) ==
    CASE kpi = "acceptance_pass_rate" -> Acceptance_Aggregate(samples)
      [] kpi = "time_to_merge" -> Merge_Aggregate(samples)
      [] kpi = "approval_wait_ms" -> Approval_Aggregate(samples)
      [] kpi = "citation_coverage" -> Citation_Aggregate(samples)
      [] kpi = "cost_per_completed_task" -> Cost_Aggregate(samples)

\* The declared aggregate is that of the samples.
Declares(f) ==
    \/ f.declared = "own"
    \/ f.declared = "other" /\ Aggregate(f.samples) = Aggregate(<<>>)

\* Whether the evaluator finds the fixture's specification right.
Acceptance_Evaluate(f) == f.envelope /\ Acceptance_Manifest(f) /\ Acceptance_Collect(f.samples) /\ Declares(f)
Merge_Evaluate(f) == f.envelope /\ Merge_Manifest(f) /\ Merge_Collect(f.samples) /\ Declares(f)
Approval_Evaluate(f) == f.envelope /\ Approval_Manifest(f) /\ Approval_Collect(f.samples) /\ Declares(f)
Citation_Evaluate(f) == f.envelope /\ Citation_Manifest(f) /\ Citation_Collect(f.samples) /\ Declares(f)
Cost_Evaluate(f) == f.envelope /\ Cost_Manifest(f) /\ Cost_Collect(f.samples) /\ Declares(f)

SpecOK(f) ==
    CASE kpi = "acceptance_pass_rate" -> Acceptance_Evaluate(f)
      [] kpi = "time_to_merge" -> Merge_Evaluate(f)
      [] kpi = "approval_wait_ms" -> Approval_Evaluate(f)
      [] kpi = "citation_coverage" -> Citation_Evaluate(f)
      [] kpi = "cost_per_completed_task" -> Cost_Evaluate(f)

\* Values are told apart where they count.
Samples ==
    LET all == [key : Keys, status : StatusesOf(kpi) \cup {"malformed"}, value : Values]
    IN  {s \in all : s.value = 0 \/ (Counts(s) /\ kpi \notin {"acceptance_pass_rate", "citation_coverage"})}

\* Which items come first is of no interest: keys are first met in their order.
InOrder(samples) ==
    \A i \in DOMAIN samples : \A k \in 1 .. samples[i].key - 1 :
        k \in seen \/ \E j \in 1 .. i - 1 : samples[j].key = k

SampleLists(n) == {s \in BoundedSeq(Samples, n) : InOrder(s)}

\* A fixture with at most one thing wrong around its samples: the identifiers, the
\* threshold it repeats, or the aggregate its author declares ("other": that of no
\* samples at all).  One with something wrong has at most one sample.
Fixtures ==
    {[envelope |-> TRUE, threshold |-> t, declared |-> "own", samples |-> s] :
        t \in {"absent", "right"}, s \in SampleLists(MaxSamples)}
    \cup
    {[envelope |-> p[1], threshold |-> p[2], declared |-> p[3], samples |-> s] :
        p \in {<<TRUE, "wrong", "own">>, <<FALSE, "right", "own">>, <<TRUE, "right", "other">>},
        s \in SampleLists(1)}

KpiInit ==
    /\ kpi \in Names /\ withSut \in BOOLEAN
    /\ seen = {} /\ counted = <<>> /\ flags = {} /\ fixtures = 0 /\ outcome = ""
    /\ given = [items |-> <<>>, right |-> TRUE]

\* For the properties: nothing wrong with the fixture by itself or after the others.
Right(f, sut) ==
    LET all == given.items \o f.samples
    IN  /\ f.envelope /\ f.threshold # "wrong" /\ sut \in {"none", "true"}
        /\ \A i \in DOMAIN f.samples : f.samples[i].status # "malformed"
        /\ DistinctKeys(f.samples) /\ (kpi # "citation_coverage" => DistinctKeys(all))
        /\ f.declared = "other" => \A i \in DOMAIN f.samples : ~Counts(f.samples[i])

\* The body of the loop of evaluate_..., for a public fixture (others are skipped):
\* sut is the system's verdict on it, read when the specification is right
\* ("missing" stands for a value of another type too).
EvaluateFixture(f, sut) ==
    /\ fixtures' = fixtures + 1
    /\ given' = IF given.right /\ Right(f, sut)
                THEN [given EXCEPT !.items = @ \o f.samples]
                ELSE [items |-> <<>>, right |-> FALSE]
    /\ IF SpecOK(f)
       THEN /\ seen' = seen \cup KeysOf(f.samples)
            /\ counted' = counted \o SelectSeq(f.samples, Counts)
            /\ flags' = IF sut \in {"missing", "false"} THEN flags \cup {"sut"} ELSE flags
       ELSE /\ flags' = flags \cup {"spec"}
            /\ UNCHANGED <<seen, counted>>
    /\ UNCHANGED <<kpi, withSut, outcome>>

Finish(manifestOK) ==
    /\ outcome = ""
    /\ outcome' = CASE kpi = "acceptance_pass_rate" -> Acceptance_Threshold(manifestOK)
                    [] kpi = "time_to_merge" -> Merge_Threshold(manifestOK)
                    [] kpi = "approval_wait_ms" -> Approval_Threshold(manifestOK)
                    [] kpi = "citation_coverage" -> Citation_Threshold(manifestOK)
                    [] kpi = "cost_per_completed_task" -> Cost_Threshold(manifestOK)
    /\ UNCHANGED <<kpi, seen, counted, flags, fixtures, withSut, given>>

KpiNext ==
    \/ /\ outcome = "" /\ fixtures < MaxFixtures
       /\ \E f \in Fixtures, sut \in IF withSut THEN {"true", "false", "missing"} ELSE {"none"} :
            EvaluateFixture(f, sut)
    \/ \E ok \in BOOLEAN : Finish(ok)

-----------------------------------------------------------------------------
(* Properties *)

KpiTypeOK ==
    /\ kpi \in Names /\ withSut \in BOOLEAN /\ fixtures \in 0 .. MaxFixtures
    /\ seen \subseteq Keys /\ flags \subseteq {"spec", "sut"}

\* The k-th smallest value of the samples.
Ranked(samples, k) ==
    CHOOSE v \in Values :
        /\ Cardinality({i \in DOMAIN samples : samples[i].value < v}) < k
        /\ Cardinality({i \in DOMAIN samples : samples[i].value <= v}) >= k

\* The criterion over the samples of all fixtures at once.
Reached(samples) ==
    LET c == SelectSeq(samples, Counts)
        n == Len(c)
    IN  /\ n > 0
        /\ CASE kpi = "acceptance_pass_rate" -> CountOf(c, "satisfied") * 5 >= n * 3
             [] kpi = "citation_coverage" -> CountOf(c, "uncited") * 10 <= n
             [] kpi = "cost_per_completed_task" -> 2 * Sum(c) < n * (2 * Limit + 1)
             [] OTHER -> Ranked(c, (n + 1) \div 2) + Ranked(c, n \div 2 + 1) <= 2 * (Limit + 1)

\* A met criterion is met by the items themselves, whatever fixtures they were
\* spread over: nothing malformed, no item counted twice (claims are compared
\* within a fixture only), no aggregate declared for other samples, and the system
\* under test never said no.
MetByTheItems == outcome = "threshold_met" => given.right /\ Reached(given.items)
=============================================================================
