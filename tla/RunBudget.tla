------------------------------ MODULE RunBudget ------------------------------
(***************************************************************************)
(* What provider calls cost a run (providers/usage_logger.py,              *)
(* agent_runtime/budget_guard.py, repositories/budget.py and their place   *)
(* in execute_provider_step).  A step works on the run as it was loaded    *)
(* and adds the usage to that; a shadow run is checked before and after a  *)
(* call against caps of its own and the global kill switch, a production   *)
(* run only after it, against the budgets of four levels.  The row is      *)
(* locked from the flush of the new sums to the commit.                    *)
(***************************************************************************)
EXTENDS Naturals

CONSTANTS
    Sessions,   \* callers of execute_provider_step, all for one run
    Requests,   \* [max: max_tokens or Nil, est: estimated input tokens]
    Levels,     \* levels that may have a budget
    Limits,     \* values of a hard limit, Nil among them
    UsdCap, TokenCap, UsdPerToken,   \* settings for shadow runs
    MaxCalls, MaxChanges, MaxResumes, Nil

BudgetConstantsOK ==
    /\ Levels \subseteq {"global", "tenant", "project", "agent_run"}
    /\ {UsdCap, TokenCap, UsdPerToken, MaxCalls, MaxChanges, MaxResumes} \subseteq Nat
    /\ Nil \notin Nat \cup Sessions /\ Limits \subseteq Nat \cup {Nil}
    /\ Requests \subseteq [max : Nat \cup {Nil}, est : Nat]

VARIABLES
    shadow,      \* the run's run_mode is "shadow", as it always was
    run,         \* committed [status, usd, tokens]
    rowLock,     \* session that has flushed the run, or Nil
    budgets,     \* level -> [active, usd, tokens, kill]
    step,        \* session -> [pc, seen, req, use, clear]
    recorded,    \* history: tokens of the calls whose step was committed
    crossed,     \* history: the run was set going again while a step was under way
    loose,       \* history: budgets changed, or a blocked run set going, since the last check
    calls, changes, resumes

history == <<recorded, crossed, loose>>
budgetVars == <<shadow, run, rowLock, budgets, step, history, calls, changes, resumes>>

Idle == [pc |-> "idle", seen |-> Nil, req |-> Nil, use |-> Nil, clear |-> FALSE]
NoBudget == [active |-> FALSE, usd |-> Nil, tokens |-> Nil, kill |-> FALSE]

Over(value, limit) == limit # Nil /\ value > limit

\* list_effective_for_run: an index keeps the active budget of a level unique.
effective == {l \in Levels : budgets[l].active}

_global_kill_switch_engaged == "global" \in effective /\ budgets["global"].kill

-----------------------------------------------------------------------------
(* Checks *)

_hard_limit_result(l, r) ==
    \/ l = "global" /\ budgets[l].kill
    \/ Over(r.usd, budgets[l].usd)
    \/ Over(r.tokens, budgets[l].tokens)

evaluate_budget(r) == \E l \in effective : _hard_limit_result(l, r)

_evaluate_shadow_block(r, at_or_over) ==
    \/ _global_kill_switch_engaged
    \/ IF at_or_over THEN r.usd >= UsdCap \/ r.tokens >= TokenCap
       ELSE r.usd > UsdCap \/ r.tokens > TokenCap

preflight_shadow_budget(r) == shadow /\ _evaluate_shadow_block(r, TRUE)

preflight_shadow_request_tokens_OutputOnly(r, q) ==
    shadow /\ (q.max = Nil \/ r.tokens + q.max > TokenCap \/ r.usd + q.max * UsdPerToken > UsdCap)

preflight_shadow_request_tokens(r, q) ==
    /\ shadow
    /\ \/ q.max = Nil
       \/ r.tokens + q.est + q.max > TokenCap
       \/ r.usd + (q.est + q.max) * UsdPerToken > UsdCap

\* Whether the sums are too high once they are written.
Exceeded(r) == IF shadow THEN _evaluate_shadow_block(r, FALSE) ELSE evaluate_budget(r)

-----------------------------------------------------------------------------
(* A step *)

\* The caller loads the run and hands it on.
load(s, q) ==
    /\ step[s].pc = "idle" /\ run.status = "running"
    /\ step' = [step EXCEPT ![s] = [pc |-> "preflight", seen |-> run, req |-> q, use |-> Nil,
                                   clear |-> ~_global_kill_switch_engaged]]
    /\ UNCHANGED <<shadow, run, rowLock, budgets, history, calls, changes, resumes>>

Goto(s, pc) == step' = [step EXCEPT ![s].pc = pc]

\* Two reads of the sums the run was loaded with, one of the budgets.
preflight(s) ==
    /\ step[s].pc = "preflight"
    /\ Goto(s, IF preflight_shadow_budget(step[s].seen)
                  \/ preflight_shadow_request_tokens(step[s].seen, step[s].req)
               THEN "block" ELSE "execute")
    /\ UNCHANGED <<shadow, run, rowLock, budgets, history, calls, changes, resumes>>

\* The compliance gate or the preflight of the request denies.
deny(s) ==
    /\ step[s].pc = "execute" /\ Goto(s, "block")
    /\ UNCHANGED <<shadow, run, rowLock, budgets, history, calls, changes, resumes>>

\* The provider keeps to max_tokens, and the estimate counts bytes: both bound what a
\* call uses.  What it reports as cost, and whether it reports usage, is open.
Usages(q) ==
    {u \in [in : {0, q.est}, out : {0, IF q.max = Nil THEN 2 ELSE q.max}, usd : {0, 2}, told : BOOLEAN] :
        ~u.told => u.usd = 0}

execute(s) ==
    /\ step[s].pc = "execute" /\ calls < MaxCalls /\ calls' = calls + 1
    /\ \E u \in Usages(step[s].req) : step' = [step EXCEPT ![s].pc = "executed", ![s].use = u]
    /\ UNCHANGED <<shadow, run, rowLock, budgets, history, changes, resumes>>

Done(s) == step' = [step EXCEPT ![s] = Idle]

\* transition_with_event: only from the status the run was loaded with.
Blocked == IF run.status = "running" THEN [run EXCEPT !.status = "blocked"] ELSE run

transition_with_event(s) ==
    /\ step[s].pc = "block" /\ rowLock = Nil /\ run' = Blocked /\ Done(s)
    /\ UNCHANGED <<shadow, rowLock, budgets, history, calls, changes, resumes>>

\* The emergency stop was engaged during the call, or a shadow run's usage cannot
\* be verified: the result goes, and nothing is recorded.
discard(s) ==
    /\ step[s].pc = "executed" /\ Goto(s, "block")
    /\ UNCHANGED <<shadow, run, rowLock, budgets, history, calls, changes, resumes>>

Verifiable(u) == u.told /\ (shadow => u.in > 0)

\* What the provider reports, for a shadow run at least the settings' price.
cost_delta(u) ==
    IF shadow /\ u.usd < (u.in + u.out) * UsdPerToken THEN (u.in + u.out) * UsdPerToken ELSE u.usd

\* The sums are those the run was loaded with, and the call's.
Charged(r, u) ==
    [status |-> r.status, usd |-> r.usd + cost_delta(u), tokens |-> r.tokens + u.in + u.out]

record_provider_usage(s) ==
    LET u == step[s].use
    IN  /\ step[s].pc = "executed" /\ Verifiable(u) /\ rowLock = Nil
        /\ rowLock' = s
        /\ step' = [step EXCEPT ![s].pc = "flushed", ![s].seen = Charged(@, u)]
        /\ UNCHANGED <<shadow, run, budgets, history, calls, changes, resumes>>

\* enforce_budget_or_block, _enforce_shadow_run_cap, or the provider's own outcome;
\* then the caller's commit.
enforce_budget_or_block(s) ==
    LET r == step[s].seen
    IN  /\ step[s].pc = "flushed" /\ run.status = "running"
        /\ run' = [r EXCEPT !.status = IF Exceeded(r) THEN "blocked" ELSE "stopped"]
        /\ rowLock' = Nil /\ loose' = FALSE /\ Done(s)
        /\ recorded' = recorded + step[s].use.in + step[s].use.out
        /\ UNCHANGED <<shadow, budgets, crossed, calls, changes, resumes>>

\* A production run whose provider told no usage goes on without a check.
no_usage(s) ==
    /\ step[s].pc = "executed" /\ ~shadow /\ ~step[s].use.told /\ rowLock = Nil
    /\ run.status = "running" /\ run' = [run EXCEPT !.status = "stopped"] /\ Done(s)
    /\ UNCHANGED <<shadow, rowLock, budgets, history, calls, changes, resumes>>

\* An error, a lost race for the status or a death: the transaction is rolled back.
rollback(s) ==
    /\ step[s].pc # "idle" /\ Done(s)
    /\ rowLock' = IF rowLock = s THEN Nil ELSE rowLock
    /\ UNCHANGED <<shadow, run, budgets, history, calls, changes, resumes>>

-----------------------------------------------------------------------------
(* Everybody else *)

\* A retry, or an operator sets a blocked run going again.
resume ==
    /\ run.status # "running" /\ rowLock = Nil /\ resumes < MaxResumes
    /\ run' = [run EXCEPT !.status = "running"] /\ resumes' = resumes + 1
    /\ loose' = (loose \/ run.status = "blocked")
    /\ crossed' = (crossed \/ \E s \in Sessions : step[s].pc # "idle")
    /\ UNCHANGED <<shadow, rowLock, budgets, step, recorded, calls, changes>>

\* create_with_audit, update_active_flag, update_limits_with_audit.
update_limits_with_audit(l) ==
    /\ changes < MaxChanges /\ changes' = changes + 1
    /\ \E b \in {NoBudget} \cup [active : {TRUE}, usd : Limits, tokens : Limits, kill : BOOLEAN] :
          (b.kill => l = "global") /\ budgets' = [budgets EXCEPT ![l] = b]
    /\ step' = [s \in Sessions |-> [step[s] EXCEPT !.clear = @ \/ (l = "global" /\ ~budgets'[l].kill)]]
    /\ loose' = TRUE
    /\ UNCHANGED <<shadow, run, rowLock, recorded, crossed, calls, resumes>>

-----------------------------------------------------------------------------

BudgetInit ==
    /\ shadow \in BOOLEAN /\ run = [status |-> "running", usd |-> 0, tokens |-> 0] /\ rowLock = Nil
    /\ budgets = [l \in Levels |-> NoBudget] /\ step = [s \in Sessions |-> Idle]
    /\ recorded = 0 /\ crossed = FALSE /\ loose = FALSE
    /\ calls = 0 /\ changes = 0 /\ resumes = 0

BudgetStep(s) ==
    \/ \E q \in Requests : load(s, q)
    \/ preflight(s) \/ deny(s) \/ execute(s) \/ transition_with_event(s) \/ discard(s)
    \/ record_provider_usage(s) \/ enforce_budget_or_block(s) \/ no_usage(s) \/ rollback(s)

BudgetNext == (\E s \in Sessions : BudgetStep(s)) \/ resume \/ (\E l \in Levels : update_limits_with_audit(l))

BudgetSpec == BudgetInit /\ [][BudgetNext]_budgetVars

-----------------------------------------------------------------------------
(* Properties *)

Sums == [status : {"running", "stopped", "blocked"}, usd : Nat, tokens : Nat]
Usage == [in : Nat, out : Nat, usd : Nat, told : BOOLEAN]
Rules == [active : BOOLEAN, usd : Nat \cup {Nil}, tokens : Nat \cup {Nil}, kill : BOOLEAN]
BudgetPoints == {"idle", "preflight", "execute", "block", "executed", "flushed"}
Steps == [pc : BudgetPoints, seen : Sums \cup {Nil}, req : Requests \cup {Nil}, use : Usage \cup {Nil},
          clear : BOOLEAN]

BudgetTypeOK ==
    /\ shadow \in BOOLEAN /\ run \in Sums /\ rowLock \in Sessions \cup {Nil} /\ budgets \in [Levels -> Rules]
    /\ step \in [Sessions -> Steps] /\ recorded \in Nat /\ crossed \in BOOLEAN /\ loose \in BOOLEAN
    /\ calls \in 0 .. MaxCalls /\ changes \in 0 .. MaxChanges /\ resumes \in 0 .. MaxResumes

\* The row shows what every committed step used: of two steps at one time, one loses the
\* race for the status.  Only a run that is set going again while a step is under way may
\* forget what another step recorded.
Accounted == ~crossed => run.tokens = recorded

\* A shadow run records no more tokens than its cap, at no less than the settings' price.
ShadowCapped == shadow => run.tokens <= TokenCap /\ run.tokens * UsdPerToken <= run.usd

\* A run that nobody set going again keeps within the budgets it was last checked
\* against, or it is blocked.
LimitHolds == ~loose /\ run.status # "blocked" => ~Exceeded(run)

\* A shadow run calls no provider if the kill switch was on from the load to the call.
KillSwitchStops == shadow => \A s \in Sessions : step[s].pc \in {"executed", "flushed"} => step[s].clear

\* The row shows what committed steps used, a shadow run keeps to its cap, and a run
\* over a limit is blocked (usage_logger.py, budget_guard.py).
BudgetsSound == BudgetTypeOK /\ Accounted /\ ShadowCapped /\ LimitHolds /\ KillSwitchStops
=============================================================================
