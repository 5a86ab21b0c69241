-------------------------- MODULE MC_EmergencyStop --------------------------
(***************************************************************************)
(* Instances of EmergencyStop, side by side.  part says which runs come    *)
(* into being and what happens to them:                                    *)
(*   step    p1, a production run, driven through execute_provider_step    *)
(*           while bridge_run_update sets it running, blocked or failed    *)
(*   bridge  p1 under every bridge operation, not driven                   *)
(*   child   p1 and the run p2 it delegates to, until one has an artifact; *)
(*           the stop is engaged once                                      *)
(*   shadow  s1, a shadow run, driven                                      *)
(* and, of RunBudget, two sessions that drive one run:                     *)
(*   budget  a shadow run, with the caps of the settings                   *)
(*   usage   a production run, with budgets of two levels                  *)
(***************************************************************************)
EXTENDS EmergencyStop, RunBudget

CONSTANTS p1, p2, s1,
          Parts     \* the instances of a run

ASSUME BudgetConstants == BudgetConstantsOK

VARIABLE part

MCRunMode == [r \in Runs |-> IF r = s1 THEN "shadow" ELSE "production"]
MCParent == [r \in Runs |-> IF r = p2 THEN p1 ELSE NoRun]
AllBridgeOps == {"run_update", "run_cancel", "delegation_accept", "delegation_submit"}

Limited == [max |-> 1, est |-> 1]
AllRequests == {Limited, [max |-> Nil, est |-> 1]}

MCInit == part \in Parts /\ Init /\ BudgetInit /\ shadow = (part # "usage")

StopStep == part \notin {"budget", "usage"} /\ Next /\ UNCHANGED <<part, budgetVars>>
ShadowStep ==
    /\ part = "budget" /\ BudgetNext /\ UNCHANGED <<part, vars>>
    /\ \A l \in Levels : budgets'[l].active => l = "global" /\ budgets'[l].usd = Nil /\ budgets'[l].tokens = Nil
ProductionStep ==
    /\ part = "usage" /\ BudgetNext /\ UNCHANGED <<part, vars>>
    /\ \A l \in Levels : budgets'[l].active => budgets'[l].usd # Nil /\ budgets'[l].tokens # Nil
    /\ \A s \in Sessions : step'[s].req \in {Nil, Limited}

\* The bounded calls, changes and resumptions are used up.
BudgetDone == part \in {"budget", "usage"} /\ UNCHANGED <<part, vars, budgetVars>>

MCNext == StopStep \/ ShadowStep \/ ProductionStep \/ BudgetDone
MCSpec == MCInit /\ [][MCNext]_<<vars, part, budgetVars>>

Only(runs, driven, ops) ==
    /\ \A r \in Runs \ runs : status[r] = "absent" /\ actionable[r]
    /\ \A r \in Runs \ driven : pc[r] = "idle"
    /\ bridge.op \in ops \cup {None}
    /\ "run_cancel" \in ops \/ canceller = NoCancel

Focus ==
    CASE part = "step"   -> /\ Only({p1}, {p1}, {"run_update"})
                            /\ actionable[p1]
                            /\ bridge.to \in {NoBridge.to, "running", "blocked", "failed"}
      [] part = "bridge" -> Only({p1}, {}, AllBridgeOps)
      [] part = "child"  -> /\ Only({p1, p2}, {}, {"delegation_accept", "run_cancel"})
                            /\ maxGen <= 1
                            /\ {status[p1], status[p2]} \subseteq
                                   {"absent", "queued", "gathering_context", "running", "blocked",
                                    "waiting_approval", "cancelled", "failed"}
      [] part = "shadow" -> Only({s1}, {s1}, {"run_update", "delegation_submit"})
      [] OTHER -> TRUE
=============================================================================
