--------------------------- MODULE Processes_proofs ---------------------------
(***************************************************************************)
(* Proofs for CliInvocation and RunnerCommand: any number of runs and of   *)
(* invocations, any command, any caps and any amount of output.            *)
(***************************************************************************)
EXTENDS CliInvocation, RunnerCommand, FiniteSetTheorems, TLAPS

(* Invocations: the inductive invariant *)

\* A cancel that is owed is in the registry, as an event or as pending, never both.
RegistryInv ==
    /\ \A r \in owed : is_cancelled(r)
    /\ \A r \in Runs : events[r] # "none" => r \notin pending

\* Another invocation of the run has ended.
OtherEnded(i) == \E j \in Invocations \ {i} : RunOf[j] = RunOf[i] /\ orch[j] \in {"stopping", "returned"}

\* Whoever listens has an event in the registry; whoever cannot hear was left by another
\* invocation of its run.
WaitInv ==
    \A i \in Invocations :
        /\ waiter[i] # "none" => orch[i] = "waiting"
        /\ waiter[i] = "listening" => events[RunOf[i]] # "none"
        /\ waiter[i] = "deaf" => OtherEnded(i)

Busy(i) == orch[i] \in {"waiting", "stopping"}

\* How far the launch is tells which signals it sent and why: only a timeout or a cancel
\* sends one, and past the termination the leader is gone, killed or interrupted.
SignalInv(i) ==
    /\ launch[i] \in {"none", "starting"} => agent[i].leader = "none" /\ agent[i].sent = {} /\ raising[i] = "none"
    /\ launch[i] = "running" => agent[i].sent = {} /\ raising[i] = "none"
    /\ launch[i] = "kill" => "KILL" \in agent[i].sent
    /\ launch[i] \in {"drain", "giveup", "done"} /\ agent[i].leader = "running" =>
          "KILL" \in agent[i].sent \/ flags[i].interrupted
    /\ launch[i] \in {"term", "kill"} \/ flags[i].interrupted => agent[i].sent # {}
    /\ agent[i].sent # {} => flags[i].timeout \/ raising[i] = "cancelled"
    /\ flags[i].timeout => "TERM" \in agent[i].sent
    /\ agent[i].leader # "exited" => agent[i].code = "none"

\* A launch is cancelled only by the orchestrator that heard of a cancel.
CancelInv(i) == cancelReq[i] \/ orch[i] = "stopping" \/ raising[i] = "cancelled" => flags[i].cancelled

\* The outcome comes when the launch has not begun or is done, unless the caller left; a
\* failed process cannot end with code 0 any more.
OrchInv(i) ==
    /\ orch[i] = "idle" => launch[i] = "none"
    /\ Busy(i) => launch[i] # "none"
    /\ orch[i] = "returned" =>
          /\ outcome[i].kind # "abandoned" => launch[i] \in {"none", "done"}
          /\ launch[i] = "none" =>
                outcome[i].kind \in {"artifact_workdir_outside_allowlist", "raised", "cancelled_before_launch"}
          /\ outcome[i].kind = "cancelled_before_launch" => launch[i] = "none"
          /\ outcome[i].kind = "failed" => agent[i].leader # "running"
          /\ outcome[i].text # "secret"

InvocationInv(i) == SignalInv(i) /\ CancelInv(i) /\ OrchInv(i) /\ TrueOutcome(i)

CliInv ==
    /\ CliTypeOK /\ RegistryInv /\ WaitInv
    /\ \A i \in Invocations : InvocationInv(i)

-----------------------------------------------------------------------------
(* The registry *)

RegistryTypes ==
    /\ events \in [Runs -> {"none", "clear", "set"}]
    /\ pending \subseteq Runs /\ IsFiniteSet(pending) /\ Cardinality(pending) <= MaxPending
    /\ owed \subseteq Runs

\* Removing a pending signal, or adding one below the limit, keeps the limit.
LEMMA PendingBound ==
    ASSUME NEW S, IsFiniteSet(S), NEW n \in Nat, Cardinality(S) <= n, NEW x
    PROVE  /\ IsFiniteSet(S \ {x}) /\ Cardinality(S \ {x}) <= n
           /\ Cardinality(S) < n => IsFiniteSet(S \cup {x}) /\ Cardinality(S \cup {x}) <= n
<1>1. Cardinality(S) \in Nat
  BY FS_CardinalityType
<1>2. /\ IsFiniteSet(S \ {x})
      /\ Cardinality(S \ {x}) = IF x \in S THEN Cardinality(S) - 1 ELSE Cardinality(S)
  BY FS_RemoveElement
<1>3. /\ IsFiniteSet(S \cup {x})
      /\ Cardinality(S \cup {x}) = IF x \in S THEN Cardinality(S) ELSE Cardinality(S) + 1
  BY FS_AddElement
<1> QED
  BY <1>1, <1>2, <1>3

\* register turns a pending signal into a set event: nothing owed is lost.
LEMMA RegisterKeeps ==
    ASSUME CliConstantsOK, CliTypeOK, RegistryInv, NEW r \in Runs, register(r), UNCHANGED owed
    PROVE  /\ RegistryTypes' /\ RegistryInv' /\ events'[r] # "none"
           /\ \A q \in Runs : events[q] # "none" => events'[q] # "none"
<1>1. events \in [Runs -> {"none", "clear", "set"}]
  BY DEF CliTypeOK
<1>2. CASE events[r] # "none"
  BY <1>1, <1>2 DEF CliTypeOK, RegistryInv, register, RegistryTypes, is_cancelled
<1>3. CASE events[r] = "none"
  <2>1. /\ events' = [events EXCEPT ![r] = IF r \in pending THEN "set" ELSE "clear"]
        /\ pending' = pending \ {r}
    BY <1>3 DEF register
  <2>2. IsFiniteSet(pending') /\ Cardinality(pending') <= MaxPending
    BY <2>1, PendingBound DEF CliTypeOK, CliConstantsOK
  <2>3. RegistryTypes'
    BY <1>1, <2>1, <2>2 DEF CliTypeOK, RegistryTypes
  <2>4. RegistryInv'
    <3>1. \A q \in Runs : events'[q] = IF q = r THEN (IF r \in pending THEN "set" ELSE "clear") ELSE events[q]
      BY <1>1, <2>1
    <3>2. \A q \in owed : q \in Runs /\ (events'[q] = "set" \/ q \in pending')
      BY <1>3, <2>1, <3>1 DEF CliTypeOK, RegistryInv, is_cancelled
    <3>3. \A q \in Runs : events'[q] # "none" => q \notin pending'
      BY <2>1, <3>1 DEF RegistryInv
    <3> QED
      BY <3>2, <3>3 DEF RegistryInv, is_cancelled
  <2> QED
    BY <1>1, <2>1, <2>3, <2>4
<1> QED
  BY <1>2, <1>3

\* unregister consumes the cancel of its own run only.
LEMMA UnregisterKeeps ==
    ASSUME CliConstantsOK, CliTypeOK, RegistryInv, NEW i \in Invocations, unregister(i)
    PROVE  /\ RegistryTypes' /\ RegistryInv' /\ waiter' \in [Invocations -> Waits]
           /\ \A q \in Runs : q # RunOf[i] => events'[q] = events[q]
<1> DEFINE r == RunOf[i]
<1>1. events \in [Runs -> {"none", "clear", "set"}] /\ waiter \in [Invocations -> Waits] /\ r \in Runs
  BY DEF CliTypeOK, CliConstantsOK
<1>2. events' = [events EXCEPT ![r] = "none"] /\ pending' = pending \ {r} /\ owed' = owed \ {r}
  BY DEF unregister
<1>3. IsFiniteSet(pending') /\ Cardinality(pending') <= MaxPending
  BY <1>2, PendingBound DEF CliTypeOK, CliConstantsOK
<1>4. RegistryTypes'
  BY <1>1, <1>2, <1>3 DEF CliTypeOK, RegistryTypes
<1>5. RegistryInv'
  BY <1>1, <1>2 DEF CliTypeOK, RegistryInv, is_cancelled
<1>6. waiter' \in [Invocations -> Waits]
  BY <1>1 DEF unregister, Waits
<1> QED
  BY <1>1, <1>2, <1>4, <1>5, <1>6

\* signal sets the event or leaves a pending signal; a full set evicts one, which
\* is then no longer owed.
LEMMA SignalKeeps ==
    ASSUME CliConstantsOK, CliTypeOK, RegistryInv, NEW r \in Runs, signal(r)
    PROVE  /\ RegistryTypes' /\ RegistryInv'
           /\ \A q \in Runs : events[q] # "none" => events'[q] # "none"
<1>1. /\ events \in [Runs -> {"none", "clear", "set"}] /\ pending \subseteq Runs /\ owed \subseteq Runs
      /\ IsFiniteSet(pending) /\ Cardinality(pending) <= MaxPending
  BY DEF CliTypeOK
<1>2. CASE events[r] # "none"
  <2>1. events' = [events EXCEPT ![r] = "set"] /\ owed' = owed \cup {r} /\ pending' = pending
    BY <1>2 DEF signal
  <2> QED
    BY <1>1, <1>2, <2>1 DEF RegistryInv, RegistryTypes, is_cancelled
<1>3. CASE events[r] = "none" /\ r \in pending
  BY <1>1, <1>3 DEF signal, RegistryInv, RegistryTypes, is_cancelled
<1>4. CASE events[r] = "none" /\ r \notin pending /\ Cardinality(pending) < MaxPending
  <2>1. events' = events /\ pending' = pending \cup {r} /\ owed' = owed \cup {r}
    BY <1>4 DEF signal
  <2>2. IsFiniteSet(pending') /\ Cardinality(pending') <= MaxPending
    BY <1>1, <1>4, <2>1, PendingBound DEF CliConstantsOK
  <2> QED
    BY <1>1, <1>4, <2>1, <2>2 DEF RegistryInv, RegistryTypes, is_cancelled
<1>5. CASE events[r] = "none" /\ r \notin pending /\ ~(Cardinality(pending) < MaxPending)
  <2>1. PICK v \in pending : /\ events' = events /\ pending' = (pending \ {v}) \cup {r}
                             /\ owed' = (owed \ {v}) \cup {r}
    BY <1>5 DEF signal
  <2>2. IsFiniteSet(pending \ {v}) /\ Cardinality(pending \ {v}) = Cardinality(pending) - 1
    BY <1>1, <2>1, FS_RemoveElement
  <2>3. IsFiniteSet(pending') /\ Cardinality(pending') = Cardinality(pending)
    BY <1>1, <1>5, <2>1, <2>2, FS_AddElement, FS_CardinalityType
  <2> QED
    BY <1>1, <1>5, <2>1, <2>3 DEF RegistryInv, RegistryTypes, is_cancelled
<1> QED
  BY <1>2, <1>3, <1>4, <1>5

-----------------------------------------------------------------------------
(* One invocation *)

\* What is not touched keeps its invariant.
Same(j) ==
    /\ orch'[j] = orch[j] /\ launch'[j] = launch[j] /\ cancelReq'[j] = cancelReq[j]
    /\ raising'[j] = raising[j] /\ agent'[j] = agent[j] /\ flags'[j] = flags[j] /\ outcome'[j] = outcome[j]

LEMMA Untouched ==
    ASSUME NEW j \in Invocations, InvocationInv(j), Same(j)
    PROVE  InvocationInv(j)'
<1>1. SignalInv(j)'
  BY DEF InvocationInv, SignalInv, Same
<1>2. CancelInv(j)'
  BY DEF InvocationInv, CancelInv, Same
<1>3. OrchInv(j)'
  BY DEF InvocationInv, OrchInv, Busy, Same
<1>4. TrueOutcome(j)'
  BY DEF InvocationInv, TrueOutcome, Same
<1> QED
  BY <1>1, <1>2, <1>3, <1>4 DEF InvocationInv

Flags == [timeout : BOOLEAN, cancelled : BOOLEAN, interrupted : BOOLEAN]

\* What setting a flag changes.
LEMMA FlagSet ==
    ASSUME NEW i \in Invocations, flags \in [Invocations -> Flags]
    PROVE  /\ flags' = [flags EXCEPT ![i].timeout = TRUE] =>
                 /\ flags' \in [Invocations -> Flags] /\ flags'[i].timeout
                 /\ flags'[i].cancelled = flags[i].cancelled /\ flags'[i].interrupted = flags[i].interrupted
                 /\ \A j \in Invocations : j # i => flags'[j] = flags[j]
           /\ flags' = [flags EXCEPT ![i].cancelled = TRUE] =>
                 /\ flags' \in [Invocations -> Flags] /\ flags'[i].cancelled
                 /\ flags'[i].timeout = flags[i].timeout /\ flags'[i].interrupted = flags[i].interrupted
                 /\ \A j \in Invocations : j # i => flags'[j] = flags[j]
           /\ flags' = [flags EXCEPT ![i].interrupted = TRUE] =>
                 /\ flags' \in [Invocations -> Flags] /\ flags'[i].interrupted
                 /\ flags'[i].cancelled = flags[i].cancelled /\ flags'[i].timeout = flags[i].timeout
                 /\ \A j \in Invocations : j # i => flags'[j] = flags[j]
<1> DEFINE C == BOOLEAN
<1>1. Flags = [timeout : C, cancelled : C, interrupted : C] /\ TRUE \in C
  BY DEF Flags
<1> HIDE DEF C
<1>2. flags \in [Invocations -> [timeout : C, cancelled : C, interrupted : C]]
  BY <1>1
<1>3. CASE flags' = [flags EXCEPT ![i].timeout = TRUE]
  BY <1>1, <1>2, <1>3
<1>4. CASE flags' = [flags EXCEPT ![i].cancelled = TRUE]
  BY <1>1, <1>2, <1>4
<1>5. CASE flags' = [flags EXCEPT ![i].interrupted = TRUE]
  BY <1>1, <1>2, <1>5
<1> QED
  BY <1>3, <1>4, <1>5

\* What a signal, the start, a descendant and the end change of a process.
LEMMA AgentSet ==
    ASSUME NEW i \in Invocations, agent \in [Invocations -> Agent]
    PROVE  /\ \A s \in {"TERM", "KILL"} : Kill(i, s) =>
                 /\ agent' \in [Invocations -> Agent] /\ agent'[i].sent = agent[i].sent \cup {s}
                 /\ agent'[i].leader = agent[i].leader /\ agent'[i].code = agent[i].code
                 /\ \A j \in Invocations : j # i => agent'[j] = agent[j]
           /\ agent' = [agent EXCEPT ![i].leader = "running"] =>
                 /\ agent' \in [Invocations -> Agent] /\ agent'[i].sent = agent[i].sent
                 /\ agent'[i].leader = "running" /\ agent'[i].code = agent[i].code
                 /\ \A j \in Invocations : j # i => agent'[j] = agent[j]
           /\ \A c \in {"alive", "dead"} : agent' = [agent EXCEPT ![i].child = c] =>
                 /\ agent' \in [Invocations -> Agent] /\ agent'[i].sent = agent[i].sent
                 /\ agent'[i].leader = agent[i].leader /\ agent'[i].code = agent[i].code
                 /\ \A j \in Invocations : j # i => agent'[j] = agent[j]
           /\ \A c \in {"zero", "nonzero", "signal"} : agent' = [agent EXCEPT ![i].leader = "exited", ![i].code = c] =>
                 /\ agent' \in [Invocations -> Agent] /\ agent'[i].sent = agent[i].sent
                 /\ agent'[i].leader = "exited" /\ agent'[i].code = c
                 /\ \A j \in Invocations : j # i => agent'[j] = agent[j]
BY DEF Agent, Kill

\* What an outcome can be.
LEMMA OutcomeIs ==
    ASSUME NEW i \in Invocations, CliTypeOK, NEW k \in Kinds
    PROVE  /\ Outcome(i, k) \in [kind : Kinds, text : {"none", "clean", "withheld", "secret"}]
           /\ Outcome(i, k).kind \in {k, "raised"} /\ Outcome(i, k).text # "secret"
<1>1. output[i].file \in {"clean", "secret", "gone"}
  BY DEF CliTypeOK
<1> QED
  BY <1>1 DEF Outcome, _read_and_redact, scan_for_credential_exfiltration, _withheld_redaction, Kinds

\* While the registry and the orchestrators stay, so do their invariants.
LEMMA QuietRegistry ==
    ASSUME CliInv, UNCHANGED <<events, pending, owed, waiter, orch>>
    PROVE  RegistryInv' /\ WaitInv'
BY DEF CliInv, RegistryInv, WaitInv, OtherEnded, is_cancelled

\* A launch that goes on belongs to an orchestrator that waits or has left.
LEMMA LaunchFrame ==
    ASSUME NEW i \in Invocations, InvocationInv(i), launch[i] \notin {"none", "done"}, launch'[i] # "none",
           orch'[i] = orch[i], outcome'[i] = outcome[i]
    PROVE  OrchInv(i)' /\ TrueOutcome(i)'
BY DEF InvocationInv, OrchInv, TrueOutcome, Busy

\* A step of one launch or process keeps the whole when it keeps its invocation.
LEMMA LaunchKeeps ==
    ASSUME CliInv, NEW i \in Invocations, UNCHANGED <<registryVars, orch, waiter, outcome>>,
           launch' \in [Invocations -> Launches], cancelReq' \in [Invocations -> BOOLEAN],
           raising' \in [Invocations -> {"none", "denied", "cancelled", "exfiltration"}],
           agent' \in [Invocations -> Agent], flags' \in [Invocations -> Flags],
           output' \in [Invocations -> [file : {"clean", "secret", "gone"}, stdout : {"clean", "secret"}]],
           \A j \in Invocations : j # i => Same(j),
           InvocationInv(i)'
    PROVE  CliInv'
<1>1. CliTypeOK'
  BY DEF CliInv, CliTypeOK, registryVars, Flags
<1>2. RegistryInv' /\ WaitInv'
  BY QuietRegistry DEF registryVars
<1>3. \A j \in Invocations : InvocationInv(j)'
  BY Untouched DEF CliInv
<1> QED
  BY <1>1, <1>2, <1>3 DEF CliInv

\* launch_cli_agent, _terminate_with_grace, _drain and the cancellation of the launch.
LEMMA LaunchInv ==
    ASSUME CliConstantsOK, CliInv, NEW i \in Invocations, LaunchTask(i)
    PROVE  CliInv'
<1>t. /\ CliTypeOK /\ launch \in [Invocations -> Launches] /\ cancelReq \in [Invocations -> BOOLEAN]
      /\ raising \in [Invocations -> {"none", "denied", "cancelled", "exfiltration"}]
      /\ agent \in [Invocations -> Agent] /\ flags \in [Invocations -> Flags]
      /\ output \in [Invocations -> [file : {"clean", "secret", "gone"}, stdout : {"clean", "secret"}]]
  BY DEF CliInv, CliTypeOK, Flags
<1>i. InvocationInv(i)
  BY DEF CliInv
<1>s. SignalInv(i) /\ CancelInv(i)
  BY <1>i DEF InvocationInv
<1>a. agent[i].leader \in {"none", "running", "exited"} /\ agent[i].sent \subseteq {"TERM", "KILL"}
  BY <1>t DEF Agent
<1>1. CASE launch_cli_agent(i)
  <2>1. /\ launch[i] = "starting" /\ UNCHANGED <<registryVars, orch, waiter, outcome, cancelReq, flags, output>>
        /\ \/ /\ launch' = [launch EXCEPT ![i] = "done"] /\ raising' = [raising EXCEPT ![i] = "denied"]
              /\ agent' = agent
           \/ /\ launch' = [launch EXCEPT ![i] = "running"] /\ agent' = [agent EXCEPT ![i].leader = "running"]
              /\ raising' = raising
    BY <1>1 DEF launch_cli_agent, _resolve_and_check_containment
  <2>l. /\ launch' \in [Invocations -> Launches] /\ launch'[i] \in {"done", "running"}
        /\ raising' \in [Invocations -> {"none", "denied", "cancelled", "exfiltration"}]
        /\ \A j \in Invocations : j # i => launch'[j] = launch[j] /\ raising'[j] = raising[j]
    BY <1>t, <2>1 DEF Launches
  <2>a. agent' \in [Invocations -> Agent] /\ \A j \in Invocations : j # i => agent'[j] = agent[j]
    BY <1>t, <2>1, AgentSet
  <2>j. \A j \in Invocations : j # i => Same(j)
    BY <2>1, <2>l, <2>a DEF Same
  <2>b. \/ launch'[i] = "done" /\ raising'[i] = "denied" /\ agent'[i] = agent[i]
        \/ /\ launch'[i] = "running" /\ raising'[i] = raising[i] /\ agent'[i].leader = "running"
           /\ agent'[i].code = agent[i].code /\ agent'[i].sent = agent[i].sent
    BY <1>t, <2>1, AgentSet
  <2>3. OrchInv(i)' /\ TrueOutcome(i)'
    BY <1>i, <2>1, <2>l, LaunchFrame
  <2>4. SignalInv(i)'
    BY <1>s, <2>1, <2>b DEF SignalInv
  <2>5. CancelInv(i)'
    BY <1>s, <2>1, <2>b DEF CancelInv, SignalInv
  <2> QED
    BY <1>t, <2>1, <2>l, <2>a, <2>j, <2>3, <2>4, <2>5, LaunchKeeps DEF InvocationInv
<1>2. CASE Terminate(i)
  <2>1. /\ UNCHANGED <<registryVars, orch, waiter, outcome, cancelReq, raising, output>>
        /\ \/ /\ launch[i] = "running" /\ agent[i].leader = "running" /\ launch' = [launch EXCEPT ![i] = "term"]
              /\ Kill(i, "TERM") /\ flags' = [flags EXCEPT ![i].timeout = TRUE]
           \/ /\ launch[i] = "running" /\ agent[i].leader # "running" /\ launch' = [launch EXCEPT ![i] = "drain"]
              /\ UNCHANGED <<agent, flags>>
           \/ /\ launch[i] = "term" /\ agent[i].leader = "running" /\ launch' = [launch EXCEPT ![i] = "kill"]
              /\ Kill(i, "KILL") /\ flags' = flags
           \/ /\ launch[i] = "term" /\ agent[i].leader # "running" /\ launch' = [launch EXCEPT ![i] = "drain"]
              /\ UNCHANGED <<agent, flags>>
           \/ /\ launch[i] = "kill" /\ launch' = [launch EXCEPT ![i] = "drain"]
              /\ UNCHANGED <<agent, flags>>
    BY <1>2 DEF Terminate, Wait, _terminate_with_grace
  <2>2. /\ launch' \in [Invocations -> Launches] /\ launch[i] \in {"running", "term", "kill"}
        /\ launch'[i] \in {"term", "kill", "drain"} /\ \A j \in Invocations : j # i => launch'[j] = launch[j]
    BY <1>t, <2>1 DEF Launches
  <2>3. /\ agent' \in [Invocations -> Agent] /\ flags' \in [Invocations -> Flags]
        /\ \A j \in Invocations : j # i => agent'[j] = agent[j] /\ flags'[j] = flags[j]
        /\ flags'[i].cancelled = flags[i].cancelled
    <3>1. agent' \in [Invocations -> Agent] /\ \A j \in Invocations : j # i => agent'[j] = agent[j]
      BY <1>t, <2>1, AgentSet
    <3>2. /\ flags' \in [Invocations -> Flags] /\ flags'[i].cancelled = flags[i].cancelled
          /\ \A j \in Invocations : j # i => flags'[j] = flags[j]
      BY <1>t, <2>1, FlagSet
    <3> QED
      BY <3>1, <3>2
  <2>4. OrchInv(i)' /\ TrueOutcome(i)'
    BY <1>i, <2>1, <2>2, LaunchFrame
  <2>5. SignalInv(i)'
    <3>1. CASE launch[i] = "running" /\ agent[i].leader = "running"
      <4>1. /\ launch'[i] = "term" /\ agent'[i].sent = agent[i].sent \cup {"TERM"} /\ agent'[i].leader = agent[i].leader
            /\ agent'[i].code = agent[i].code /\ flags'[i].timeout /\ flags'[i].interrupted = flags[i].interrupted
        BY <1>t, <2>1, <3>1, AgentSet, FlagSet
      <4> QED
        BY <1>s, <2>1, <4>1 DEF SignalInv
    <3>2. CASE launch[i] = "term" /\ agent[i].leader = "running"
      <4>1. /\ launch'[i] = "kill" /\ agent'[i].sent = agent[i].sent \cup {"KILL"} /\ agent'[i].leader = agent[i].leader
            /\ agent'[i].code = agent[i].code /\ flags' = flags
        BY <1>t, <2>1, <3>2, AgentSet
      <4> QED
        BY <1>s, <2>1, <3>2, <4>1 DEF SignalInv
    <3>3. CASE launch[i] = "kill" \/ agent[i].leader # "running"
      <4>1. launch'[i] = "drain" /\ UNCHANGED <<agent, flags>>
        BY <1>t, <2>1, <3>3
      <4> QED
        BY <1>s, <2>1, <3>3, <4>1 DEF SignalInv
    <3> QED
      BY <2>2, <3>1, <3>2, <3>3
  <2>6. CancelInv(i)'
    BY <1>s, <2>1, <2>3 DEF CancelInv
  <2>7. \A j \in Invocations : j # i => Same(j)
    BY <2>1, <2>2, <2>3 DEF Same
  <2> QED
    BY <1>t, <2>1, <2>2, <2>3, <2>4, <2>5, <2>6, <2>7, LaunchKeeps DEF InvocationInv
<1>3. CASE _drain(i)
  <2>1. /\ UNCHANGED <<registryVars, orch, waiter, outcome, flags, agent, output>>
        /\ launch[i] \in {"drain", "giveup"} /\ cancelReq' \in {cancelReq, [cancelReq EXCEPT ![i] = FALSE]}
        /\ \/ launch' = [launch EXCEPT ![i] = "giveup"] /\ raising' = raising
           \/ \E c \in BOOLEAN : Finish(i, c)
    BY <1>3 DEF _drain
  <2>2. /\ launch' \in [Invocations -> Launches] /\ launch'[i] \in {"giveup", "done"}
        /\ \A j \in Invocations : j # i => launch'[j] = launch[j]
    BY <1>t, <2>1 DEF Launches, Finish
  <2>3. /\ raising' \in [Invocations -> {"none", "denied", "cancelled", "exfiltration"}]
        /\ (raising'[i] = "cancelled" <=> raising[i] = "cancelled")
        /\ \A j \in Invocations : j # i => raising'[j] = raising[j]
    BY <1>t, <2>1 DEF Finish
  <2>4. /\ cancelReq' \in [Invocations -> BOOLEAN] /\ (cancelReq'[i] => cancelReq[i])
        /\ \A j \in Invocations : j # i => cancelReq'[j] = cancelReq[j]
    BY <1>t, <2>1
  <2>5. OrchInv(i)' /\ TrueOutcome(i)'
    BY <1>i, <2>1, <2>2, LaunchFrame
  <2>6. SignalInv(i)'
    BY <1>s, <2>1, <2>2, <2>3 DEF SignalInv
  <2>7. CancelInv(i)'
    BY <1>s, <2>1, <2>3, <2>4 DEF CancelInv
  <2>8. \A j \in Invocations : j # i => Same(j)
    BY <2>1, <2>2, <2>3, <2>4 DEF Same
  <2> QED
    BY <1>t, <2>1, <2>2, <2>3, <2>4, <2>5, <2>6, <2>7, <2>8, LaunchKeeps DEF InvocationInv
<1>4. CASE CancelledError(i)
  <2>1. /\ UNCHANGED <<registryVars, orch, waiter, outcome, output>>
        /\ cancelReq[i] /\ launch[i] \in {"starting", "running", "term", "kill", "drain"}
        /\ cancelReq' = [cancelReq EXCEPT ![i] = FALSE] /\ raising' = [raising EXCEPT ![i] = "cancelled"]
        /\ \/ /\ launch[i] = "running" /\ agent[i].leader = "running" /\ launch' = [launch EXCEPT ![i] = "term"]
              /\ Kill(i, "TERM") /\ flags' = flags
           \/ /\ launch[i] = "running" /\ agent[i].leader # "running" /\ launch' = [launch EXCEPT ![i] = "drain"]
              /\ UNCHANGED <<agent, flags>>
           \/ /\ launch[i] \in {"term", "kill"} /\ launch' = [launch EXCEPT ![i] = "drain"]
              /\ flags' = [flags EXCEPT ![i].interrupted = TRUE] /\ agent' = agent
           \/ /\ launch[i] \in {"starting", "drain"} /\ launch' = [launch EXCEPT ![i] = "done"]
              /\ UNCHANGED <<agent, flags>>
    BY <1>4 DEF CancelledError
  <2>2. /\ launch' \in [Invocations -> Launches] /\ launch'[i] \in {"term", "drain", "done"}
        /\ \A j \in Invocations : j # i => launch'[j] = launch[j]
    BY <1>t, <2>1 DEF Launches
  <2>3. /\ agent' \in [Invocations -> Agent] /\ flags' \in [Invocations -> Flags]
        /\ \A j \in Invocations : j # i => agent'[j] = agent[j] /\ flags'[j] = flags[j]
        /\ flags'[i].cancelled = flags[i].cancelled
    <3>1. agent' \in [Invocations -> Agent] /\ \A j \in Invocations : j # i => agent'[j] = agent[j]
      BY <1>t, <2>1, AgentSet
    <3>2. /\ flags' \in [Invocations -> Flags] /\ flags'[i].cancelled = flags[i].cancelled
          /\ \A j \in Invocations : j # i => flags'[j] = flags[j]
      BY <1>t, <2>1, FlagSet
    <3> QED
      BY <3>1, <3>2
  <2>4. /\ raising' \in [Invocations -> {"none", "denied", "cancelled", "exfiltration"}] /\ raising'[i] = "cancelled"
        /\ cancelReq' \in [Invocations -> BOOLEAN]
        /\ \A j \in Invocations : j # i => raising'[j] = raising[j] /\ cancelReq'[j] = cancelReq[j]
    BY <1>t, <2>1
  <2>5. OrchInv(i)' /\ TrueOutcome(i)'
    BY <1>i, <2>1, <2>2, LaunchFrame
  <2>6. SignalInv(i)'
    <3>1. CASE launch[i] = "running" /\ agent[i].leader = "running"
      <4>1. /\ launch'[i] = "term" /\ agent'[i].sent = agent[i].sent \cup {"TERM"} /\ agent'[i].leader = agent[i].leader
            /\ agent'[i].code = agent[i].code /\ flags' = flags
        BY <1>t, <2>1, <3>1, AgentSet
      <4> QED
        BY <1>s, <2>4, <4>1 DEF SignalInv
    <3>2. CASE launch[i] \in {"term", "kill"}
      <4>1. /\ launch'[i] = "drain" /\ agent' = agent /\ flags'[i].interrupted /\ flags'[i].timeout = flags[i].timeout
        BY <1>t, <2>1, <3>2, FlagSet
      <4> QED
        BY <1>s, <2>4, <3>2, <4>1 DEF SignalInv
    <3>3. CASE launch[i] \in {"starting", "drain"} \/ (launch[i] = "running" /\ agent[i].leader # "running")
      <4>1. launch'[i] \in {"drain", "done"} /\ UNCHANGED <<agent, flags>>
        BY <1>t, <2>1, <3>3
      <4> QED
        BY <1>s, <2>4, <3>3, <4>1 DEF SignalInv
    <3> QED
      BY <2>1, <3>1, <3>2, <3>3
  <2>7. CancelInv(i)'
    BY <1>s, <2>1, <2>3 DEF CancelInv
  <2>8. \A j \in Invocations : j # i => Same(j)
    BY <2>1, <2>2, <2>3, <2>4 DEF Same
  <2> QED
    BY <1>t, <2>1, <2>2, <2>3, <2>4, <2>5, <2>6, <2>7, <2>8, LaunchKeeps DEF InvocationInv
<1> QED
  BY <1>1, <1>2, <1>3, <1>4 DEF LaunchTask

\* The process and its descendants do what they like.
LEMMA ProcessInv ==
    ASSUME CliConstantsOK, CliInv, NEW i \in Invocations, AgentProcess(i)
    PROVE  CliInv'
<1>t. /\ CliTypeOK /\ launch \in [Invocations -> Launches] /\ cancelReq \in [Invocations -> BOOLEAN]
      /\ raising \in [Invocations -> {"none", "denied", "cancelled", "exfiltration"}]
      /\ agent \in [Invocations -> Agent] /\ flags \in [Invocations -> Flags]
      /\ output \in [Invocations -> [file : {"clean", "secret", "gone"}, stdout : {"clean", "secret"}]]
  BY DEF CliInv, CliTypeOK, Flags
<1>i. InvocationInv(i)
  BY DEF CliInv
<1>1. /\ UNCHANGED <<registryVars, orch, waiter, launch, cancelReq, raising, flags, outcome>>
      /\ \/ /\ output' = output
            /\ \/ \E c \in {"alive", "dead"} : agent' = [agent EXCEPT ![i].child = c]
               \/ /\ agent[i].leader = "running"
                  /\ \E c \in {"zero", "nonzero", "signal"} :
                        agent' = [agent EXCEPT ![i].leader = "exited", ![i].code = c]
         \/ /\ agent' = agent
            /\ \/ \E f \in {"secret", "gone"} : output' = [output EXCEPT ![i].file = f]
               \/ output' = [output EXCEPT ![i].stdout = "secret"]
  BY DEF AgentProcess, taskVars
<1>2. output' \in [Invocations -> [file : {"clean", "secret", "gone"}, stdout : {"clean", "secret"}]]
  BY <1>t, <1>1
<1>3. /\ agent' \in [Invocations -> Agent] /\ agent'[i].sent = agent[i].sent
      /\ \A j \in Invocations : j # i => agent'[j] = agent[j]
      /\ \/ agent'[i].leader = agent[i].leader /\ agent'[i].code = agent[i].code
         \/ agent[i].leader = "running" /\ agent'[i].leader = "exited"
  BY <1>t, <1>1, AgentSet
<1>4. \A j \in Invocations : j # i => Same(j)
  BY <1>1, <1>3 DEF Same
<1>5. SignalInv(i)'
  BY <1>i, <1>1, <1>3 DEF InvocationInv, SignalInv
<1>6. CancelInv(i)'
  BY <1>i, <1>1 DEF InvocationInv, CancelInv
<1>7. OrchInv(i)'
  BY <1>i, <1>1, <1>3 DEF InvocationInv, OrchInv, Busy
<1>8. TrueOutcome(i)'
  BY <1>i, <1>1, <1>3 DEF InvocationInv, TrueOutcome, OrchInv, SignalInv
<1> QED
  BY <1>t, <1>1, <1>2, <1>3, <1>4, <1>5, <1>6, <1>7, <1>8, LaunchKeeps DEF InvocationInv

-----------------------------------------------------------------------------
(* The orchestrator *)

\* A step of one orchestrator keeps the whole when it keeps its invocation.
LEMMA OrchKeeps ==
    ASSUME CliInv, NEW i \in Invocations, UNCHANGED <<raising, agent, output>>,
           RegistryTypes', channel' \subseteq Runs, requests' \in 0 .. MaxSignals,
           orch' \in [Invocations -> {"idle", "waiting", "stopping", "returned"}],
           waiter' \in [Invocations -> Waits], launch' \in [Invocations -> Launches],
           cancelReq' \in [Invocations -> BOOLEAN], flags' \in [Invocations -> Flags],
           outcome' \in [Invocations -> [kind : Kinds, text : {"none", "clean", "withheld", "secret"}]],
           RegistryInv', WaitInv',
           \A j \in Invocations : j # i => Same(j),
           InvocationInv(i)'
    PROVE  CliInv'
<1>1. CliTypeOK'
  BY DEF CliInv, CliTypeOK, RegistryTypes, Flags
<1>2. \A j \in Invocations : InvocationInv(j)'
  BY Untouched DEF CliInv
<1> QED
  BY <1>1, <1>2 DEF CliInv

\* An invocation that unregisters and goes on to its end leaves the others of its run
\* with an event they have heard, or deaf.
LEMMA EndWaitKeeps ==
    ASSUME CliConstantsOK, CliInv, NEW i \in Invocations, unregister(i),
           orch \in [Invocations -> {"idle", "waiting", "stopping", "returned"}],
           orch'[i] \in {"stopping", "returned"}, orch[i] \in {"idle", "waiting"},
           \A j \in Invocations : j # i => orch'[j] = orch[j]
    PROVE  /\ RegistryTypes' /\ RegistryInv' /\ WaitInv' /\ waiter' \in [Invocations -> Waits]
<1>1. waiter \in [Invocations -> Waits] /\ CliTypeOK /\ RunOf[i] \in Runs
  BY DEF CliInv, CliTypeOK, CliConstantsOK
<1>2. /\ RegistryTypes' /\ RegistryInv' /\ waiter' \in [Invocations -> Waits]
      /\ \A q \in Runs : q # RunOf[i] => events'[q] = events[q]
  BY <1>1, UnregisterKeeps DEF CliInv
<1>3. /\ waiter'[i] = "none"
      /\ \A j \in Invocations : j # i =>
            waiter'[j] = IF RunOf[j] = RunOf[i] /\ waiter[j] = "listening"
                         THEN IF events[RunOf[i]] = "set" THEN "heard" ELSE "deaf"
                         ELSE waiter[j]
  BY DEF unregister
<1>4. ASSUME NEW j \in Invocations, OtherEnded(j) PROVE OtherEnded(j)'
  BY <1>4 DEF OtherEnded
<1>5. ASSUME NEW j \in Invocations
      PROVE  /\ waiter'[j] # "none" => orch'[j] = "waiting"
             /\ waiter'[j] = "listening" => events'[RunOf[j]] # "none"
             /\ waiter'[j] = "deaf" => OtherEnded(j)'
  <2>w. /\ waiter[j] # "none" => orch[j] = "waiting"
        /\ waiter[j] = "listening" => events[RunOf[j]] # "none"
        /\ waiter[j] = "deaf" => OtherEnded(j)
    BY DEF CliInv, WaitInv
  <2>1. CASE j = i
    BY <1>3, <2>1
  <2>2. CASE j # i /\ RunOf[j] = RunOf[i] /\ waiter[j] = "listening"
    <3>1. OtherEnded(j)'
      BY <2>2 DEF OtherEnded
    <3> QED
      BY <1>3, <2>w, <2>2, <3>1
  <2>3. CASE j # i /\ ~(RunOf[j] = RunOf[i] /\ waiter[j] = "listening")
    <3>1. waiter'[j] = waiter[j] /\ orch'[j] = orch[j] /\ RunOf[j] \in Runs
      BY <1>3, <2>3 DEF CliConstantsOK
    <3> QED
      BY <1>2, <1>4, <2>w, <2>3, <3>1
  <2> QED
    BY <2>1, <2>2, <2>3
<1>6. WaitInv'
  BY <1>5 DEF WaitInv
<1> QED
  BY <1>2, <1>6

\* A step that leaves the registry and the waits alone, and takes no invocation back from
\* its end.
LEMMA WaitKept ==
    ASSUME CliConstantsOK, CliInv, UNCHANGED <<events, pending, owed, waiter>>,
           \A j \in Invocations : waiter[j] # "none" => orch'[j] = orch[j],
           \A j \in Invocations : orch[j] \in {"stopping", "returned"} => orch'[j] \in {"stopping", "returned"}
    PROVE  RegistryTypes' /\ RegistryInv' /\ WaitInv' /\ waiter' \in [Invocations -> Waits]
<1>1. ASSUME NEW j \in Invocations, OtherEnded(j) PROVE OtherEnded(j)'
  BY <1>1 DEF OtherEnded
<1>2. WaitInv'
  BY <1>1 DEF CliInv, WaitInv
<1> QED
  BY <1>2 DEF CliInv, CliTypeOK, RegistryTypes, RegistryInv, is_cancelled

\* invoke: refused, cancelled before the launch, or launched.
LEMMA InvokeInv ==
    ASSUME CliConstantsOK, CliInv, NEW i \in Invocations, invoke(i)
    PROVE  CliInv'
<1>t. /\ CliTypeOK /\ orch \in [Invocations -> {"idle", "waiting", "stopping", "returned"}]
      /\ launch \in [Invocations -> Launches] /\ flags \in [Invocations -> Flags]
      /\ outcome \in [Invocations -> [kind : Kinds, text : {"none", "clean", "withheld", "secret"}]]
      /\ RegistryTypes /\ RunOf[i] \in Runs
  BY DEF CliInv, CliTypeOK, Flags, RegistryTypes, CliConstantsOK
<1>i. InvocationInv(i) /\ WaitInv /\ RegistryInv
  BY DEF CliInv
<1>1. /\ orch[i] = "idle"
      /\ UNCHANGED <<channel, requests, cancelReq, raising, flags, agent, output>>
  BY DEF invoke
<1>w. waiter[i] = "none"
  BY <1>i, <1>1 DEF WaitInv
<1>s. /\ launch[i] = "none" /\ SignalInv(i) /\ CancelInv(i)
  BY <1>i, <1>1 DEF InvocationInv, OrchInv
<1>c. /\ channel' \subseteq Runs /\ requests' \in 0 .. MaxSignals
      /\ cancelReq' \in [Invocations -> BOOLEAN] /\ flags' \in [Invocations -> Flags]
  BY <1>t, <1>1 DEF CliTypeOK
<1>2. ASSUME NEW o \in [kind : Kinds, text : {"none", "clean", "withheld", "secret"}], Return(i, o), launch' = launch,
             o.kind \in {"artifact_workdir_outside_allowlist", "raised", "cancelled_before_launch"},
             o.text # "secret", unregister(i) \/ UNCHANGED <<events, pending, owed, waiter>>
      PROVE  CliInv'
  <2>1. orch' = [orch EXCEPT ![i] = "returned"] /\ outcome' = [outcome EXCEPT ![i] = o]
    BY <1>2 DEF Return
  <2>2. /\ orch' \in [Invocations -> {"idle", "waiting", "stopping", "returned"}] /\ orch'[i] = "returned"
        /\ \A j \in Invocations : j # i => orch'[j] = orch[j]
    BY <1>t, <2>1
  <2>3. /\ outcome' \in [Invocations -> [kind : Kinds, text : {"none", "clean", "withheld", "secret"}]]
        /\ outcome'[i] = o /\ \A j \in Invocations : j # i => outcome'[j] = outcome[j]
    BY <1>t, <2>1
  <2>4. RegistryTypes' /\ RegistryInv' /\ WaitInv' /\ waiter' \in [Invocations -> Waits]
    <3>1. CASE unregister(i)
      BY <1>t, <1>1, <2>2, <3>1, EndWaitKeeps
    <3>2. CASE UNCHANGED <<events, pending, owed, waiter>>
      BY <1>w, <1>1, <2>2, <3>2, WaitKept
    <3> QED
      BY <1>2, <3>1, <3>2
  <2>6. \A j \in Invocations : j # i => Same(j)
    BY <1>1, <1>2, <2>2, <2>3 DEF Same
  <2>7. SignalInv(i)'
    BY <1>s, <1>1, <1>2 DEF SignalInv
  <2>8. CancelInv(i)'
    BY <1>s, <1>1, <2>2 DEF CancelInv
  <2>9. OrchInv(i)'
    BY <1>s, <1>1, <1>2, <2>2, <2>3 DEF OrchInv, Busy
  <2>10. TrueOutcome(i)'
    BY <1>s, <1>1, <1>2, <2>2, <2>3 DEF TrueOutcome, SignalInv
  <2> QED
    BY <1>t, <1>c, <1>1, <1>2, <2>2, <2>3, <2>4, <2>6, <2>7, <2>8, <2>9, <2>10, OrchKeeps DEF InvocationInv
<1>3. ASSUME NEW w \in {"artifact_workdir_outside_allowlist", "raised"}, Return(i, [kind |-> w, text |-> "none"]),
             UNCHANGED <<events, pending, owed, waiter, launch>>
      PROVE  CliInv'
  <2>2. [kind |-> w, text |-> "none"] \in [kind : Kinds, text : {"none", "clean", "withheld", "secret"}]
    BY DEF Kinds
  <2> QED
    BY <1>2, <1>3, <2>2
<1>4. ASSUME unregister(i), Return(i, Outcome(i, "cancelled_before_launch")), launch' = launch
      PROVE  CliInv'
  <2>2. /\ Outcome(i, "cancelled_before_launch") \in [kind : Kinds, text : {"none", "clean", "withheld", "secret"}]
        /\ Outcome(i, "cancelled_before_launch").kind \in {"cancelled_before_launch", "raised"}
        /\ Outcome(i, "cancelled_before_launch").text # "secret"
    <3>1. "cancelled_before_launch" \in Kinds
      BY DEF Kinds
    <3> QED
      BY <1>t, <3>1, OutcomeIs
  <2> QED
    BY <1>2, <1>4, <2>2
<1>5. ASSUME orch' = [orch EXCEPT ![i] = "waiting"], launch' = [launch EXCEPT ![i] = "starting"],
             UNCHANGED <<events, pending, owed, waiter, outcome>>
      PROVE  CliInv'
  <2>1. /\ orch' \in [Invocations -> {"idle", "waiting", "stopping", "returned"}] /\ orch'[i] = "waiting"
        /\ launch' \in [Invocations -> Launches] /\ launch'[i] = "starting"
        /\ \A j \in Invocations : j # i => orch'[j] = orch[j] /\ launch'[j] = launch[j]
    BY <1>t, <1>5 DEF Launches
  <2>2. RegistryTypes' /\ RegistryInv' /\ WaitInv' /\ waiter' \in [Invocations -> Waits]
    BY <1>w, <1>1, <1>5, <2>1, WaitKept
  <2>5. \A j \in Invocations : j # i => Same(j)
    BY <1>1, <1>5, <2>1 DEF Same
  <2>6. SignalInv(i)' /\ CancelInv(i)'
    BY <1>s, <1>1, <2>1 DEF SignalInv, CancelInv
  <2>7. OrchInv(i)' /\ TrueOutcome(i)'
    BY <2>1 DEF OrchInv, TrueOutcome, Busy
  <2> QED
    BY <1>t, <1>c, <1>1, <1>5, <2>1, <2>2, <2>5, <2>6, <2>7, OrchKeeps DEF InvocationInv
<1> QED
  BY <1>3, <1>4, <1>5 DEF invoke, allocate_workdir

\* wait_for_cancel: the event may be set at once.
LEMMA WaitForCancelInv ==
    ASSUME CliConstantsOK, CliInv, NEW i \in Invocations, wait_for_cancel(i)
    PROVE  CliInv'
<1>t. /\ CliTypeOK /\ RegistryInv /\ WaitInv /\ waiter \in [Invocations -> Waits]
      /\ flags \in [Invocations -> Flags] /\ RunOf[i] \in Runs
  BY DEF CliInv, CliTypeOK, Flags, CliConstantsOK
<1>1. /\ orch[i] = "waiting" /\ waiter' = [waiter EXCEPT ![i] = "listening"] /\ register(RunOf[i])
      /\ UNCHANGED <<channel, requests, owed, orch, launch, cancelReq, raising, flags, outcome, agent, output>>
  BY DEF wait_for_cancel
<1>2. /\ RegistryTypes' /\ RegistryInv' /\ events'[RunOf[i]] # "none"
      /\ \A q \in Runs : events[q] # "none" => events'[q] # "none"
  BY <1>t, <1>1, RegisterKeeps
<1>3. /\ waiter' \in [Invocations -> Waits] /\ waiter'[i] = "listening"
      /\ \A j \in Invocations : j # i => waiter'[j] = waiter[j]
  BY <1>t, <1>1 DEF Waits
<1>4. WaitInv'
  <2>1. \A j \in Invocations : OtherEnded(j)' <=> OtherEnded(j)
    BY <1>1 DEF OtherEnded
  <2> QED
    BY <1>t, <1>1, <1>2, <1>3, <2>1 DEF WaitInv, CliConstantsOK
<1>6. \A j \in Invocations : Same(j)
  BY <1>1 DEF Same
<1>7. InvocationInv(i)'
  BY <1>6, Untouched DEF CliInv
<1>8. /\ channel' \subseteq Runs /\ requests' \in 0 .. MaxSignals /\ launch' \in [Invocations -> Launches]
      /\ orch' \in [Invocations -> {"idle", "waiting", "stopping", "returned"}]
      /\ cancelReq' \in [Invocations -> BOOLEAN] /\ flags' \in [Invocations -> Flags]
      /\ outcome' \in [Invocations -> [kind : Kinds, text : {"none", "clean", "withheld", "secret"}]]
  BY <1>t, <1>1 DEF CliTypeOK
<1> QED
  BY <1>1, <1>2, <1>3, <1>4, <1>6, <1>7, <1>8, OrchKeeps

\* The cancel comes before the end of the launch.
LEMMA CancelFirstInv ==
    ASSUME CliConstantsOK, CliInv, NEW i \in Invocations, CancelFirst(i)
    PROVE  CliInv'
<1>t. /\ CliTypeOK /\ flags \in [Invocations -> Flags] /\ cancelReq \in [Invocations -> BOOLEAN]
      /\ orch \in [Invocations -> {"idle", "waiting", "stopping", "returned"}]
      /\ InvocationInv(i)
  BY DEF CliInv, CliTypeOK, Flags
<1>1. /\ orch[i] = "waiting" /\ unregister(i) /\ orch' = [orch EXCEPT ![i] = "stopping"]
      /\ cancelReq' = [cancelReq EXCEPT ![i] = TRUE] /\ flags' = [flags EXCEPT ![i].cancelled = TRUE]
      /\ UNCHANGED <<channel, requests, launch, raising, outcome, agent, output>>
  BY DEF CancelFirst
<1>2. /\ orch' \in [Invocations -> {"idle", "waiting", "stopping", "returned"}] /\ orch'[i] = "stopping"
      /\ cancelReq' \in [Invocations -> BOOLEAN]
      /\ \A j \in Invocations : j # i => orch'[j] = orch[j] /\ cancelReq'[j] = cancelReq[j]
  BY <1>t, <1>1
<1>3. /\ flags' \in [Invocations -> Flags] /\ flags'[i].cancelled
      /\ flags'[i].timeout = flags[i].timeout /\ flags'[i].interrupted = flags[i].interrupted
      /\ \A j \in Invocations : j # i => flags'[j] = flags[j]
  BY <1>t, <1>1, FlagSet
<1>4. RegistryTypes' /\ RegistryInv' /\ WaitInv' /\ waiter' \in [Invocations -> Waits]
  BY <1>t, <1>1, <1>2, EndWaitKeeps
<1>6. \A j \in Invocations : j # i => Same(j)
  BY <1>1, <1>2, <1>3 DEF Same
<1>7. SignalInv(i)' /\ CancelInv(i)'
  BY <1>t, <1>1, <1>3 DEF InvocationInv, SignalInv, CancelInv
<1>8. OrchInv(i)' /\ TrueOutcome(i)'
  BY <1>t, <1>1, <1>2 DEF InvocationInv, OrchInv, TrueOutcome, Busy
<1>9. /\ channel' \subseteq Runs /\ requests' \in 0 .. MaxSignals /\ launch' \in [Invocations -> Launches]
      /\ outcome' \in [Invocations -> [kind : Kinds, text : {"none", "clean", "withheld", "secret"}]]
  BY <1>t, <1>1 DEF CliTypeOK
<1> QED
  BY <1>1, <1>2, <1>3, <1>4, <1>6, <1>7, <1>8, <1>9, OrchKeeps DEF InvocationInv

\* What a launch that is done ended with is what happened.
LEMMA ConclusionTrue ==
    ASSUME CliInv, NEW i \in Invocations, launch[i] = "done"
    PROVE  LET o == Conclusion(i) IN
           /\ o \in [kind : Kinds, text : {"none", "clean", "withheld", "secret"}] /\ o.text # "secret"
           /\ o.kind \notin {"abandoned", "cancelled_before_launch"}
           /\ o.kind = "success" => agent[i].code = "zero" /\ agent[i].sent = {}
           /\ o.kind = "failed" => agent[i].code # "zero" /\ agent[i].sent = {} /\ agent[i].leader # "running"
           /\ o.kind = "timeout" => "TERM" \in agent[i].sent
           /\ o.kind \in {"cancelled", "cancelled_during_launch"} => flags[i].cancelled
           /\ flags[i].cancelled => o.kind \notin {"success", "failed", "timeout"}
<1>t. /\ CliTypeOK /\ SignalInv(i) /\ CancelInv(i)
      /\ raising[i] \in {"none", "denied", "cancelled", "exfiltration"}
      /\ flags[i].timeout \in BOOLEAN /\ flags[i].cancelled \in BOOLEAN
  <2>1. CliTypeOK /\ SignalInv(i) /\ CancelInv(i)
    BY DEF CliInv, InvocationInv
  <2>2. raising[i] \in {"none", "denied", "cancelled", "exfiltration"}
    BY <2>1 DEF CliTypeOK
  <2>3. flags[i].timeout \in BOOLEAN /\ flags[i].cancelled \in BOOLEAN
    BY <2>1 DEF CliTypeOK
  <2> QED
    BY <2>1, <2>2, <2>3
<1>o. \A k \in Kinds : /\ Outcome(i, k) \in [kind : Kinds, text : {"none", "clean", "withheld", "secret"}]
                       /\ Outcome(i, k).kind \in {k, "raised"} /\ Outcome(i, k).text # "secret"
  BY <1>t, OutcomeIs
<1>k. /\ "cancelled_during_launch" \in Kinds /\ "launcher_error" \in Kinds /\ "cancelled" \in Kinds
      /\ "timeout" \in Kinds /\ "failed" \in Kinds /\ "success" \in Kinds /\ "credential_exfiltration" \in Kinds
  BY DEF Kinds
<1>1. CASE raising[i] = "cancelled"
  <2>1. Conclusion(i) = Outcome(i, "cancelled_during_launch") /\ flags[i].cancelled
    BY <1>t, <1>1 DEF Conclusion, CancelInv
  <2> QED
    BY <1>o, <1>k, <2>1
<1>2. CASE raising[i] = "exfiltration"
  <2>1. Conclusion(i) = [kind |-> "credential_exfiltration", text |-> "withheld"]
    BY <1>2 DEF Conclusion, _withheld_redaction
  <2> QED
    BY <1>k, <2>1
<1>3. CASE raising[i] = "denied"
  <2>1. Conclusion(i) = Outcome(i, "launcher_error")
    BY <1>3 DEF Conclusion
  <2> QED
    BY <1>o, <1>k, <2>1
<1>4. CASE raising[i] = "none" /\ flags[i].cancelled
  <2>1. Conclusion(i) = Outcome(i, "cancelled")
    BY <1>4 DEF Conclusion
  <2> QED
    BY <1>o, <1>k, <1>4, <2>1
<1>5. CASE raising[i] = "none" /\ ~flags[i].cancelled /\ flags[i].timeout
  <2>1. Conclusion(i) = Outcome(i, "timeout") /\ "TERM" \in agent[i].sent
    BY <1>t, <1>5 DEF Conclusion, map_launcher_result, SignalInv
  <2> QED
    BY <1>o, <1>k, <1>5, <2>1
<1>6. CASE raising[i] = "none" /\ ~flags[i].cancelled /\ ~flags[i].timeout
  <2>1. agent[i].sent = {} /\ agent[i].leader # "running"
    BY <1>t, <1>6 DEF SignalInv
  <2>2. CASE agent[i].code = "zero"
    <3>1. Conclusion(i) = Outcome(i, "success")
      BY <1>6, <2>2 DEF Conclusion, map_launcher_result
    <3> QED
      BY <1>o, <1>k, <1>6, <2>1, <2>2, <3>1
  <2>3. CASE agent[i].code # "zero"
    <3>1. Conclusion(i) = Outcome(i, "failed")
      BY <1>6, <2>3 DEF Conclusion, map_launcher_result
    <3> QED
      BY <1>o, <1>k, <1>6, <2>1, <2>3, <3>1
  <2> QED
    BY <2>2, <2>3
<1> QED
  BY <1>t, <1>1, <1>2, <1>3, <1>4, <1>5, <1>6

\* The launch is done and the outcome is returned.
LEMMA ConcludeInv ==
    ASSUME CliConstantsOK, CliInv, NEW i \in Invocations, Conclude(i)
    PROVE  CliInv'
<1>t. /\ CliTypeOK /\ RegistryInv /\ WaitInv /\ waiter \in [Invocations -> Waits] /\ RegistryTypes
      /\ flags \in [Invocations -> Flags] /\ orch \in [Invocations -> {"idle", "waiting", "stopping", "returned"}]
      /\ outcome \in [Invocations -> [kind : Kinds, text : {"none", "clean", "withheld", "secret"}]]
      /\ InvocationInv(i)
  BY DEF CliInv, CliTypeOK, Flags, RegistryTypes
<1> DEFINE o == Conclusion(i)
<1>1. /\ launch[i] = "done" /\ orch' = [orch EXCEPT ![i] = "returned"] /\ outcome' = [outcome EXCEPT ![i] = o]
      /\ \/ orch[i] = "waiting" /\ unregister(i)
         \/ orch[i] = "stopping" /\ UNCHANGED <<events, pending, owed, waiter>>
      /\ UNCHANGED <<channel, requests, launch, cancelReq, raising, flags, agent, output>>
  BY DEF Conclude, Return
<1>o. /\ o \in [kind : Kinds, text : {"none", "clean", "withheld", "secret"}] /\ o.text # "secret"
      /\ o.kind \notin {"abandoned", "cancelled_before_launch"}
      /\ o.kind = "success" => agent[i].code = "zero" /\ agent[i].sent = {}
      /\ o.kind = "failed" => agent[i].code # "zero" /\ agent[i].sent = {} /\ agent[i].leader # "running"
      /\ o.kind = "timeout" => "TERM" \in agent[i].sent
      /\ o.kind \in {"cancelled", "cancelled_during_launch"} => flags[i].cancelled
      /\ flags[i].cancelled => o.kind \notin {"success", "failed", "timeout"}
  BY <1>1, ConclusionTrue
<1> HIDE DEF o
<1>2. /\ orch' \in [Invocations -> {"idle", "waiting", "stopping", "returned"}] /\ orch'[i] = "returned"
      /\ \A j \in Invocations : j # i => orch'[j] = orch[j]
  BY <1>t, <1>1
<1>3. /\ outcome' \in [Invocations -> [kind : Kinds, text : {"none", "clean", "withheld", "secret"}]]
      /\ outcome'[i] = o /\ \A j \in Invocations : j # i => outcome'[j] = outcome[j]
  BY <1>t, <1>1, <1>o
<1>4. RegistryTypes' /\ RegistryInv' /\ WaitInv' /\ waiter' \in [Invocations -> Waits]
  <2>1. CASE orch[i] = "waiting" /\ unregister(i)
    BY <1>t, <1>2, <2>1, EndWaitKeeps
  <2>2. CASE orch[i] = "stopping" /\ UNCHANGED <<events, pending, owed, waiter>>
    <3>1. waiter[i] = "none"
      BY <1>t, <2>2 DEF WaitInv
    <3> QED
      BY <1>2, <2>2, <3>1, WaitKept
  <2> QED
    BY <1>1, <2>1, <2>2
<1>6. \A j \in Invocations : j # i => Same(j)
  BY <1>1, <1>2, <1>3 DEF Same
<1>7. SignalInv(i)' /\ CancelInv(i)'
  BY <1>t, <1>1, <1>2 DEF InvocationInv, SignalInv, CancelInv
<1>8. OrchInv(i)'
  BY <1>1, <1>o, <1>2, <1>3 DEF OrchInv, Busy
<1>9. TrueOutcome(i)'
  BY <1>1, <1>o, <1>2, <1>3 DEF TrueOutcome
<1>10. /\ channel' \subseteq Runs /\ requests' \in 0 .. MaxSignals /\ launch' \in [Invocations -> Launches]
       /\ cancelReq' \in [Invocations -> BOOLEAN] /\ flags' \in [Invocations -> Flags]
  BY <1>t, <1>1 DEF CliTypeOK
<1> QED
  BY <1>1, <1>2, <1>3, <1>4, <1>6, <1>7, <1>8, <1>9, <1>10, OrchKeeps DEF InvocationInv

\* The caller is cancelled while it waits, or again while it stops the launch.
LEMMA AbandonInv ==
    ASSUME CliConstantsOK, CliInv, NEW i \in Invocations, Abandon(i)
    PROVE  CliInv'
<1>t. /\ CliTypeOK /\ RegistryInv /\ WaitInv /\ waiter \in [Invocations -> Waits] /\ RegistryTypes
      /\ flags \in [Invocations -> Flags] /\ orch \in [Invocations -> {"idle", "waiting", "stopping", "returned"}]
      /\ outcome \in [Invocations -> [kind : Kinds, text : {"none", "clean", "withheld", "secret"}]]
      /\ cancelReq \in [Invocations -> BOOLEAN] /\ InvocationInv(i)
  BY DEF CliInv, CliTypeOK, Flags, RegistryTypes
<1>1. UNCHANGED <<channel, requests, launch, raising, flags, agent, output>>
  BY DEF Abandon
<1>c. /\ channel' \subseteq Runs /\ requests' \in 0 .. MaxSignals /\ launch' \in [Invocations -> Launches]
      /\ flags' \in [Invocations -> Flags]
  BY <1>t, <1>1 DEF CliTypeOK
<1>2. ASSUME orch[i] = "waiting", unregister(i), Return(i, [kind |-> "abandoned", text |-> "none"]), cancelReq' = cancelReq
      PROVE  CliInv'
  <2>1. orch' = [orch EXCEPT ![i] = "returned"] /\ outcome' = [outcome EXCEPT ![i] = [kind |-> "abandoned", text |-> "none"]]
    BY <1>2 DEF Return
  <2>2. /\ orch' \in [Invocations -> {"idle", "waiting", "stopping", "returned"}] /\ orch'[i] = "returned"
        /\ \A j \in Invocations : j # i => orch'[j] = orch[j]
    BY <1>t, <2>1
  <2>3. /\ outcome' \in [Invocations -> [kind : Kinds, text : {"none", "clean", "withheld", "secret"}]]
        /\ outcome'[i] = [kind |-> "abandoned", text |-> "none"]
        /\ \A j \in Invocations : j # i => outcome'[j] = outcome[j]
    <3>1. [kind |-> "abandoned", text |-> "none"] \in [kind : Kinds, text : {"none", "clean", "withheld", "secret"}]
      BY DEF Kinds
    <3> QED
      BY <1>t, <2>1, <3>1
  <2>4. RegistryTypes' /\ RegistryInv' /\ WaitInv' /\ waiter' \in [Invocations -> Waits]
    BY <1>t, <1>2, <2>2, EndWaitKeeps
  <2>6. \A j \in Invocations : j # i => Same(j)
    BY <1>1, <1>2, <2>2, <2>3 DEF Same
  <2>7. SignalInv(i)' /\ CancelInv(i)'
    BY <1>t, <1>1, <1>2, <2>2 DEF InvocationInv, SignalInv, CancelInv
  <2>8. OrchInv(i)' /\ TrueOutcome(i)'
    BY <1>t, <1>1, <1>2, <2>2, <2>3 DEF InvocationInv, OrchInv, TrueOutcome, Busy
  <2> QED
    BY <1>t, <1>c, <1>1, <1>2, <2>2, <2>3, <2>4, <2>6, <2>7, <2>8, OrchKeeps DEF InvocationInv
<1>3. ASSUME orch[i] = "stopping", cancelReq' = [cancelReq EXCEPT ![i] = TRUE],
             UNCHANGED <<events, pending, owed, waiter, orch, outcome>>
      PROVE  CliInv'
  <2>1. cancelReq' \in [Invocations -> BOOLEAN] /\ \A j \in Invocations : j # i => cancelReq'[j] = cancelReq[j]
    BY <1>t, <1>3
  <2>2. RegistryInv' /\ WaitInv'
    BY <1>3, QuietRegistry
  <2>3. \A j \in Invocations : j # i => Same(j)
    BY <1>1, <1>3, <2>1 DEF Same
  <2>4. SignalInv(i)' /\ CancelInv(i)'
    BY <1>t, <1>1, <1>3 DEF InvocationInv, SignalInv, CancelInv
  <2>5. OrchInv(i)' /\ TrueOutcome(i)'
    BY <1>t, <1>1, <1>3 DEF InvocationInv, OrchInv, TrueOutcome, Busy
  <2>6. RegistryTypes'
    BY <1>t, <1>3 DEF RegistryTypes
  <2> QED
    BY <1>t, <1>c, <1>1, <1>3, <2>1, <2>2, <2>3, <2>4, <2>5, <2>6, OrchKeeps DEF InvocationInv
<1> QED
  BY <1>2, <1>3 DEF Abandon

\* A cancel from this server or from another.
LEMMA CancelRequestInv ==
    ASSUME CliConstantsOK, CliInv, NEW r \in Runs, signal_remote(r) \/ drive_from_messages(r)
    PROVE  CliInv'
<1>1. /\ signal(r) /\ UNCHANGED <<orch, waiter, launch, cancelReq, raising, flags, outcome, agent, output>>
      /\ channel' \subseteq Runs /\ requests' \in 0 .. MaxSignals
  BY DEF signal_remote, drive_from_messages, taskVars, CliInv, CliTypeOK, CliConstantsOK
<1>2. /\ RegistryTypes' /\ RegistryInv'
      /\ \A q \in Runs : events[q] # "none" => events'[q] # "none"
  BY <1>1, SignalKeeps DEF CliInv
<1>3. CliTypeOK'
  BY <1>1, <1>2 DEF CliInv, CliTypeOK, RegistryTypes
<1>4. WaitInv'
  <2>1. \A j \in Invocations : OtherEnded(j)' <=> OtherEnded(j)
    BY <1>1 DEF OtherEnded
  <2> QED
    BY <1>1, <1>2, <2>1 DEF CliInv, WaitInv, CliConstantsOK
<1>6. \A j \in Invocations : InvocationInv(j)'
  BY <1>1, Untouched DEF CliInv, Same
<1> QED
  BY <1>2, <1>3, <1>4, <1>6 DEF CliInv

-----------------------------------------------------------------------------

LEMMA CliInitInv ==
    ASSUME CliConstantsOK, CliInit
    PROVE  CliInv
<1>1. CliTypeOK
  <2>1. IsFiniteSet(pending) /\ Cardinality(pending) <= MaxPending
    BY FS_EmptySet DEF CliInit, CliConstantsOK
  <2>2. flags \in [Invocations -> [timeout : BOOLEAN, cancelled : BOOLEAN, interrupted : BOOLEAN]]
    BY DEF CliInit
  <2> QED
    BY <2>1, <2>2 DEF CliInit, CliTypeOK, CliConstantsOK, Launches, Agent, Kinds, Waits
<1>2. RegistryInv /\ WaitInv
  BY DEF CliInit, RegistryInv, WaitInv, Busy
<1>3. \A i \in Invocations : InvocationInv(i)
  BY DEF CliInit, InvocationInv, SignalInv, CancelInv, OrchInv, TrueOutcome, Busy
<1> QED
  BY <1>1, <1>2, <1>3 DEF CliInv

LEMMA CliStepInv ==
    ASSUME CliConstantsOK, CliInv, [CliNext]_cliVars
    PROVE  CliInv'
<1>1. CASE UNCHANGED cliVars
  <2>1. UNCHANGED <<events, pending, channel, requests, owed, orch, waiter, launch, cancelReq, raising, flags, outcome, agent, output>>
    BY <1>1 DEF cliVars, registryVars, taskVars
  <2>2. CliTypeOK'
    BY <2>1 DEF CliInv, CliTypeOK
  <2>3. RegistryInv' /\ WaitInv'
    BY <2>1, QuietRegistry
  <2>4. \A j \in Invocations : InvocationInv(j)'
    BY <2>1, Untouched DEF CliInv, Same
  <2> QED
    BY <2>2, <2>3, <2>4 DEF CliInv
<1>2. CASE CliNext
  BY <1>2, CancelRequestInv, InvokeInv, WaitForCancelInv, CancelFirstInv, ConcludeInv, AbandonInv, LaunchInv,
     ProcessInv DEF CliNext
<1> QED
  BY <1>1, <1>2

LEMMA CliInvSound ==
    ASSUME CliConstantsOK, CliInv
    PROVE  CliTypeOK /\ InvocationsSound
<1>1. NoLostCancel
  BY DEF CliInv, RegistryInv, WaitInv, OtherEnded, NoLostCancel, is_cancelled, CliTypeOK, CliConstantsOK
<1>2. NothingLeftRunning
  BY DEF CliInv, InvocationInv, OrchInv, SignalInv, NothingLeftRunning
<1>3. OutcomeIsTrue
  BY DEF CliInv, InvocationInv, OutcomeIsTrue
<1>4. NoCredentialInArtifact
  BY DEF CliInv, InvocationInv, OrchInv, NoCredentialInArtifact
<1> QED
  BY <1>1, <1>2, <1>3, <1>4 DEF CliInv, InvocationsSound

\* Every invocation is sound in every reachable state.
LEMMA CliInvariant == CliConstantsOK => (CliSpec => [](CliTypeOK /\ InvocationsSound))
<1> SUFFICES ASSUME CliConstantsOK PROVE CliSpec => [](CliTypeOK /\ InvocationsSound)
  OBVIOUS
<1>1. CliInit => CliInv
  BY CliInitInv
<1>2. CliInv /\ [CliNext]_cliVars => CliInv'
  BY CliStepInv
<1>3. CliInv => CliTypeOK /\ InvocationsSound
  BY CliInvSound
<1> QED
  BY <1>1, <1>2, <1>3, PTL DEF CliSpec

-----------------------------------------------------------------------------
(* Commands of the runner: the inductive invariant *)

\* No process yet.
Unstarted == {"idle", "refused", "exec"}
\* The leader has ended or has been killed.
Stopped == ~Running \/ "KILL" \in command.sent
\* No process is left that could write.
Quiet == ~Running /\ command.child # "alive"

\* Where run_command stands tells what there is: no process and no output before the
\* start, nothing started that was refused, streams read to their end before the answer.
StageInv ==
    /\ stage \in Unstarted =>
          /\ command.leader = "none" /\ command.child = "none" /\ ~capEvent
          /\ \A s \in Streams : drain[s] = "off" /\ written[s] = 0 /\ buffer[s] = 0
    /\ stage \notin Unstarted => command.leader # "none"
    /\ stage \notin {"idle", "refused"} => ~Refused
    /\ phase # "none" => stage \in Terminations
    /\ phase = "kill" => "KILL" \in command.sent
    /\ stage \in {"capAgain", "tokenAgain", "return", "returned"} => \A s \in Streams : drain[s] = "ended"

\* A registered token knows of every cancel published; an answer that says nothing was
\* cancelled looked at the token before the cancel.
CancelTokenInv ==
    /\ cancelToken.registered /\ published => cancelToken.cancelled
    /\ stage # "idle" /\ cancelToken.given => cancelToken.registered
    /\ cancelToken.given /\ result.heard => result.cancelled

\* Each of the three terminations that follow one another has its own reason, and what
\* the earlier ones leave running is left to a later one.
TerminationInv ==
    /\ stage = "cap" => Stopped \/ capEvent \/ cancelEvent \/ result.timeout
    /\ stage = "cancel" => Stopped \/ cancelEvent \/ result.timeout
    /\ stage = "timeout" => Stopped \/ result.timeout
    /\ stage \in {"tasks", "capAgain", "tokenAgain", "return", "returned"} => Stopped

\* Without a cancel, a timeout or a cap, the streams end because the processes did, and
\* all they wrote has been read.
WholeInv ==
    /\ stage = "wait" /\ ~capEvent => \A s \in Streams : drain[s] = "ended" => Quiet /\ buffer[s] = written[s]
    /\ stage \notin Unstarted \cup {"wait"} /\ ~cancelToken.given /\ ~result.timeout /\ ~capEvent =>
          Quiet /\ \A s \in Streams : buffer[s] = written[s]
    /\ stage = "returned" =>
          /\ result.capped = capEvent
          /\ ~cancelToken.given /\ ~result.timeout /\ ~result.capped => result.exit = "exited"

\* A stream is read one chunk past its cap at most, and the event of the cap is set
\* exactly when one was.
BoundInv ==
    /\ \A s \in Streams : buffer[s] <= caps[s] + 1 /\ (buffer[s] > caps[s] => drain[s] = "ended")
    /\ capEvent <=> \E s \in Streams : buffer[s] > caps[s]

RunnerInv == RunnerTypeOK /\ StageInv /\ CancelTokenInv /\ TerminationInv /\ WholeInv /\ BoundInv

-----------------------------------------------------------------------------
(* Commands of the runner: the steps *)

\* Fields of the records that hold Booleans.
Tokens3 == [given : BOOLEAN, registered : BOOLEAN, cancelled : BOOLEAN]

LEMMA TokenFields ==
    ASSUME NEW t \in Tokens3, NEW r \in BOOLEAN, NEW c \in BOOLEAN
    PROVE  /\ [t EXCEPT !.cancelled = c] \in Tokens3 /\ [t EXCEPT !.registered = r, !.cancelled = c] \in Tokens3
           /\ [t EXCEPT !.cancelled = c].given = t.given /\ [t EXCEPT !.cancelled = c].registered = t.registered
           /\ [t EXCEPT !.cancelled = c].cancelled = c
           /\ [t EXCEPT !.registered = r, !.cancelled = c].given = t.given
           /\ [t EXCEPT !.registered = r, !.cancelled = c].registered = r
           /\ [t EXCEPT !.registered = r, !.cancelled = c].cancelled = c
<1> DEFINE C == BOOLEAN
<1>1. t \in [given : C, registered : C, cancelled : C] /\ r \in C /\ c \in C
  BY DEF Tokens3
<1>2. Tokens3 = [given : C, registered : C, cancelled : C]
  BY DEF Tokens3
<1> HIDE DEF C
<1> QED
  BY <1>1, <1>2

\* What recording the timeout, the cancel, and the exit changes of the result.
LEMMA ResultTimeout ==
    ASSUME result \in Results, NEW b \in BOOLEAN, result' = [result EXCEPT !.timeout = b]
    PROVE  /\ result' \in Results /\ result'.timeout = b
           /\ result'.cancelled = result.cancelled /\ result'.heard = result.heard
<1> DEFINE C == BOOLEAN
           E == {"none", "running", "exited"}
<1>1. /\ result \in [exit : E, timeout : C, cancelled : C, capped : C, heard : C]
      /\ b \in C
  BY DEF Results
<1>2. Results = [exit : E, timeout : C, cancelled : C, capped : C, heard : C]
  BY DEF Results
<1> HIDE DEF C, E
<1> QED
  BY <1>1, <1>2

LEMMA ResultCancelled ==
    ASSUME result \in Results, NEW b \in BOOLEAN, NEW c \in BOOLEAN,
           result' = [result EXCEPT !.cancelled = b, !.heard = c]
    PROVE  /\ result' \in Results /\ result'.timeout = result.timeout
           /\ result'.cancelled = b /\ result'.heard = c
<1> DEFINE C == BOOLEAN
           E == {"none", "running", "exited"}
<1>1. /\ result \in [exit : E, timeout : C, cancelled : C, capped : C, heard : C]
      /\ b \in C /\ c \in C
  BY DEF Results
<1>2. Results = [exit : E, timeout : C, cancelled : C, capped : C, heard : C]
  BY DEF Results
<1> HIDE DEF C, E
<1> QED
  BY <1>1, <1>2

LEMMA ResultExit ==
    ASSUME result \in Results, NEW b \in BOOLEAN, NEW e \in {"none", "running", "exited"},
           result' = [result EXCEPT !.exit = e, !.capped = b]
    PROVE  /\ result' \in Results /\ result'.timeout = result.timeout /\ result'.cancelled = result.cancelled
           /\ result'.heard = result.heard /\ result'.exit = e /\ result'.capped = b
<1> DEFINE C == BOOLEAN
           E == {"none", "running", "exited"}
<1>1. /\ result \in [exit : E, timeout : C, cancelled : C, capped : C, heard : C]
      /\ b \in C /\ e \in E
  BY DEF Results
<1>2. Results = [exit : E, timeout : C, cancelled : C, capped : C, heard : C]
  BY DEF Results
<1> HIDE DEF C, E
<1> QED
  BY <1>1, <1>2

\* Whether a command is refused depends on the request alone.
LEMMA RefusedStays ==
    ASSUME UNCHANGED gateVars
    PROVE  Refused' <=> Refused
BY DEF gateVars, Refused

LEMMA RunnerInitInv == RunnerConstantsOK /\ RunnerInit => RunnerInv
<1> SUFFICES ASSUME RunnerConstantsOK, RunnerInit PROVE RunnerInv
  OBVIOUS
<1>1. caps["stdout"] \in Nat /\ caps["stderr"] \in Nat /\ MaxOut \in Nat
  BY DEF RunnerInit, RunnerConstantsOK
<1>2. RunnerTypeOK
  <2>1. cancelToken \in [given : BOOLEAN, registered : BOOLEAN, cancelled : BOOLEAN]
    BY Zenon DEF RunnerInit
  <2>2. result \in Results
    BY DEF RunnerInit, Results
  <2>3. command \in Commands /\ stage \in Stages
    BY DEF RunnerInit, Commands, Stages
  <2>4. written \in [Streams -> 0 .. MaxOut] /\ buffer \in [Streams -> 0 .. MaxOut] /\ \A s \in Streams : buffer[s] <= written[s]
    BY <1>1 DEF RunnerInit
  <2>5. drain \in [Streams -> {"off", "reading", "ended"}]
    BY DEF RunnerInit
  <2> QED
    BY <2>1, <2>2, <2>3, <2>4, <2>5 DEF RunnerInit, RunnerTypeOK
<1>3. StageInv
  BY DEF RunnerInit, StageInv, Unstarted
<1>4. CancelTokenInv
  BY DEF RunnerInit, CancelTokenInv
<1>5. TerminationInv /\ WholeInv
  BY DEF RunnerInit, TerminationInv, WholeInv, Unstarted
<1>6. BoundInv
  BY <1>1 DEF RunnerInit, BoundInv, Streams
<1> QED
  BY <1>2, <1>3, <1>4, <1>5, <1>6 DEF RunnerInv

LEMMA RunnerStepInv == RunnerConstantsOK /\ RunnerInv /\ [RunnerNext]_runnerVars => RunnerInv'
<1> SUFFICES ASSUME RunnerConstantsOK, RunnerInv, [RunnerNext]_runnerVars PROVE RunnerInv'
  OBVIOUS
<1>t. RunnerTypeOK
  BY DEF RunnerInv
<1>a. StageInv
  BY DEF RunnerInv
<1>b. CancelTokenInv
  BY DEF RunnerInv
<1>c. TerminationInv
  BY DEF RunnerInv
<1>d. WholeInv
  BY DEF RunnerInv
<1>e. BoundInv
  BY DEF RunnerInv
<1>k. caps["stdout"] \in Nat /\ caps["stderr"] \in Nat /\ caps["output"] \in Nat /\ MaxOut \in Nat
  BY <1>t DEF RunnerTypeOK, RunnerConstantsOK
<1>u. cancelToken \in Tokens3 /\ result \in Results /\ Tokens3 = [given : BOOLEAN, registered : BOOLEAN, cancelled : BOOLEAN]
  BY <1>t DEF RunnerTypeOK, Tokens3
<1>1. CASE UNCHANGED runnerVars
  <2>1. /\ UNCHANGED <<argv, caps, network, workspace, published, cancelToken, stage, phase, command, written, buffer, drain, capEvent, cancelEvent, result>>
    BY <1>1 DEF runnerVars, gateVars, cancelVars, outVars
  <2>g. Refused' <=> Refused
    BY <2>1, RefusedStays DEF gateVars
  <2>p. RunnerTypeOK'
    BY <1>t, <1>u, <1>k, <2>1, <2>g DEF RunnerTypeOK, Stages, Commands, Streams, Terminations, Tokens3
  <2>q. StageInv'
    BY <1>t, <1>a, <2>1, <2>g DEF RunnerTypeOK, StageInv, Unstarted, Terminations, Running
  <2>r. CancelTokenInv'
    BY <1>b, <2>1, <2>g DEF CancelTokenInv
  <2>s. TerminationInv'
    BY <1>c, <2>1, <2>g DEF TerminationInv, Stopped, Running
  <2>t. WholeInv'
    BY <1>d, <2>1, <2>g DEF WholeInv, Quiet, Unstarted, Running
  <2>u. BoundInv'
    BY <1>e, <2>1, <2>g DEF BoundInv
  <2> QED
    BY <2>p, <2>q, <2>r, <2>s, <2>t, <2>u DEF RunnerInv
<1>2. CASE publish_cancel
  <2>1. /\ ~published /\ published' = TRUE
        /\ cancelToken' = [cancelToken EXCEPT !.cancelled = (cancelToken.cancelled \/ cancelToken.registered)]
        /\ UNCHANGED <<argv, caps, network, workspace, stage, phase, command, written, buffer, drain, capEvent, cancelEvent, result>>
    BY <1>2 DEF publish_cancel, gateVars, cancelVars, outVars
  <2>g. Refused' <=> Refused
    BY <2>1, RefusedStays DEF gateVars
  <2>2. /\ cancelToken' \in Tokens3 /\ cancelToken'.given = cancelToken.given
        /\ cancelToken'.registered = cancelToken.registered
        /\ cancelToken'.cancelled = (cancelToken.cancelled \/ cancelToken.registered)
    BY <1>u, <2>1, TokenFields
  <2>p. RunnerTypeOK'
    BY <1>t, <1>u, <1>k, <2>1, <2>g, <2>2 DEF RunnerTypeOK, Stages, Commands, Streams, Terminations, Tokens3
  <2>q. StageInv'
    BY <1>t, <1>a, <2>1, <2>g, <2>2 DEF RunnerTypeOK, StageInv, Unstarted, Terminations, Running
  <2>r. CancelTokenInv'
    BY <1>b, <2>1, <2>g, <2>2 DEF CancelTokenInv
  <2>s. TerminationInv'
    BY <1>c, <2>1, <2>g, <2>2 DEF TerminationInv, Stopped, Running
  <2>t. WholeInv'
    BY <1>d, <2>1, <2>g, <2>2 DEF WholeInv, Quiet, Unstarted, Running
  <2>u. BoundInv'
    BY <1>e, <2>1, <2>g, <2>2 DEF BoundInv
  <2> QED
    BY <2>p, <2>q, <2>r, <2>s, <2>t, <2>u DEF RunnerInv
<1>3. CASE RegisterToken
  <2>1. /\ stage = "idle"
        /\ cancelToken' = [cancelToken EXCEPT !.registered = TRUE, !.cancelled = (cancelToken.cancelled \/ published)]
        /\ UNCHANGED <<argv, caps, network, workspace, published, stage, phase, command, written, buffer, drain, capEvent, cancelEvent, result>>
    BY <1>3 DEF RegisterToken, register_token, gateVars, cancelVars, outVars
  <2>g. Refused' <=> Refused
    BY <2>1, RefusedStays DEF gateVars
  <2>2. /\ cancelToken' \in Tokens3 /\ cancelToken'.given = cancelToken.given
        /\ cancelToken'.registered = TRUE
        /\ cancelToken'.cancelled = (cancelToken.cancelled \/ published)
    BY <1>u, <2>1, TokenFields
  <2>p. RunnerTypeOK'
    BY <1>t, <1>u, <1>k, <2>1, <2>g, <2>2 DEF RunnerTypeOK, Stages, Commands, Streams, Terminations, Tokens3
  <2>q. StageInv'
    BY <1>t, <1>a, <2>1, <2>g, <2>2 DEF RunnerTypeOK, StageInv, Unstarted, Terminations, Running
  <2>r. CancelTokenInv'
    BY <1>b, <2>1, <2>g, <2>2 DEF CancelTokenInv
  <2>s. TerminationInv'
    BY <1>c, <2>1, <2>g, <2>2 DEF TerminationInv, Stopped, Running
  <2>t. WholeInv'
    BY <1>d, <2>1, <2>g, <2>2 DEF WholeInv, Quiet, Unstarted, Running
  <2>u. BoundInv'
    BY <1>e, <2>1, <2>g, <2>2 DEF BoundInv
  <2> QED
    BY <2>p, <2>q, <2>r, <2>s, <2>t, <2>u DEF RunnerInv
<1>4. CASE prepare_workspace \/ cleanup
  <2>1. /\ workspace' \in {"present", "removed"}
        /\ UNCHANGED <<argv, caps, network, published, cancelToken, stage, phase, command, written, buffer, drain, capEvent, cancelEvent, result>>
    BY <1>4 DEF prepare_workspace, cleanup, gateVars, cancelVars, outVars
  <2>g. Refused' <=> Refused
    BY <2>1, RefusedStays DEF gateVars
  <2>p. RunnerTypeOK'
    BY <1>t, <1>u, <1>k, <2>1, <2>g DEF RunnerTypeOK, Stages, Commands, Streams, Terminations, Tokens3
  <2>q. StageInv'
    BY <1>t, <1>a, <2>1, <2>g DEF RunnerTypeOK, StageInv, Unstarted, Terminations, Running
  <2>r. CancelTokenInv'
    BY <1>b, <2>1, <2>g DEF CancelTokenInv
  <2>s. TerminationInv'
    BY <1>c, <2>1, <2>g DEF TerminationInv, Stopped, Running
  <2>t. WholeInv'
    BY <1>d, <2>1, <2>g DEF WholeInv, Quiet, Unstarted, Running
  <2>u. BoundInv'
    BY <1>e, <2>1, <2>g DEF BoundInv
  <2> QED
    BY <2>p, <2>q, <2>r, <2>s, <2>t, <2>u DEF RunnerInv
<1>5. CASE Check
  <2>1. /\ stage = "idle" /\ (cancelToken.given => cancelToken.registered)
        /\ stage' = "refused" \/ (~Refused /\ stage' = "exec")
        /\ UNCHANGED <<argv, caps, network, workspace, published, cancelToken, phase, command, written, buffer, drain, capEvent, cancelEvent, result>>
    BY <1>5 DEF Check, Raise, gateVars, cancelVars, outVars
  <2>g. Refused' <=> Refused
    BY <2>1, RefusedStays DEF gateVars
  <2>p. RunnerTypeOK'
    BY <1>t, <1>u, <1>k, <2>1, <2>g DEF RunnerTypeOK, Stages, Commands, Streams, Terminations, Tokens3
  <2>q. StageInv'
    BY <1>t, <1>a, <2>1, <2>g DEF RunnerTypeOK, StageInv, Unstarted, Terminations, Running
  <2>r. CancelTokenInv'
    BY <1>b, <2>1, <2>g DEF CancelTokenInv
  <2>s. TerminationInv'
    BY <1>c, <2>1, <2>g DEF TerminationInv, Stopped, Running
  <2>t. WholeInv'
    BY <1>d, <2>1, <2>g DEF WholeInv, Quiet, Unstarted, Running
  <2>u. BoundInv'
    BY <1>e, <2>1, <2>g DEF BoundInv
  <2> QED
    BY <2>p, <2>q, <2>r, <2>s, <2>t, <2>u DEF RunnerInv
<1>6. CASE create_subprocess_exec /\ stage' = "refused"
  <2>1. /\ stage = "exec" /\ stage' = "refused" /\ UNCHANGED <<command, drain>>
        /\ UNCHANGED <<argv, caps, network, workspace, published, cancelToken, phase, written, buffer, capEvent, cancelEvent, result>>
    BY <1>6 DEF create_subprocess_exec, Raise, gateVars, cancelVars, outVars
  <2>g. Refused' <=> Refused
    BY <2>1, RefusedStays DEF gateVars
  <2>p. RunnerTypeOK'
    BY <1>t, <1>u, <1>k, <2>1, <2>g DEF RunnerTypeOK, Stages, Commands, Streams, Terminations, Tokens3
  <2>q. StageInv'
    BY <1>t, <1>a, <2>1, <2>g DEF RunnerTypeOK, StageInv, Unstarted, Terminations, Running
  <2>r. CancelTokenInv'
    BY <1>b, <2>1, <2>g DEF CancelTokenInv
  <2>s. TerminationInv'
    BY <1>c, <2>1, <2>g DEF TerminationInv, Stopped, Running
  <2>t. WholeInv'
    BY <1>d, <2>1, <2>g DEF WholeInv, Quiet, Unstarted, Running
  <2>u. BoundInv'
    BY <1>e, <2>1, <2>g DEF BoundInv
  <2> QED
    BY <2>p, <2>q, <2>r, <2>s, <2>t, <2>u DEF RunnerInv
<1>7. CASE create_subprocess_exec /\ stage' = "wait"
  <2>1. /\ stage = "exec" /\ stage' = "wait" /\ command' = [command EXCEPT !.leader = "running"]
        /\ drain' = [s \in Streams |-> "reading"]
        /\ UNCHANGED <<argv, caps, network, workspace, published, cancelToken, phase, written, buffer, capEvent, cancelEvent, result>>
    BY <1>7 DEF create_subprocess_exec, Raise, gateVars, cancelVars, outVars
  <2>g. Refused' <=> Refused
    BY <2>1, RefusedStays DEF gateVars
  <2>2. command' \in Commands /\ command'.leader = "running" /\ command'.child = command.child /\ command'.sent = command.sent
    BY <1>t, <2>1 DEF RunnerTypeOK, Commands
  <2>3. \A s \in Streams : drain'[s] = "reading"
    BY <2>1
  <2>4. \A s \in Streams : ~(buffer[s] > caps[s])
    BY <1>a, <1>k, <2>1 DEF StageInv, Unstarted, Streams
  <2>p. RunnerTypeOK'
    BY <1>t, <1>u, <1>k, <2>1, <2>g, <2>2, <2>3, <2>4 DEF RunnerTypeOK, Stages, Commands, Streams, Terminations, Tokens3
  <2>q. StageInv'
    BY <1>t, <1>a, <2>1, <2>g, <2>2, <2>3, <2>4 DEF RunnerTypeOK, StageInv, Unstarted, Terminations, Running
  <2>r. CancelTokenInv'
    BY <1>b, <2>1, <2>g, <2>2, <2>3, <2>4 DEF CancelTokenInv
  <2>s. TerminationInv'
    BY <1>c, <2>1, <2>g, <2>2, <2>3, <2>4 DEF TerminationInv, Stopped, Running
  <2>t. WholeInv'
    BY <1>d, <2>1, <2>g, <2>2, <2>3, <2>4 DEF WholeInv, Quiet, Unstarted, Running
  <2>u. BoundInv'
    BY <1>e, <2>1, <2>g, <2>2, <2>3, <2>4 DEF BoundInv
  <2> QED
    BY <2>p, <2>q, <2>r, <2>s, <2>t, <2>u DEF RunnerInv
<1>8. ASSUME NEW s \in Streams, _drain_stream(s), buffer[s] < written[s] PROVE RunnerInv'
  <2>1. /\ drain[s] = "reading" /\ buffer[s] < written[s] /\ buffer' = [buffer EXCEPT ![s] = buffer[s] + 1]
        /\ capEvent' = (capEvent \/ (buffer'[s] > caps[s] \/ buffer'["stdout"] + buffer'["stderr"] > caps.output))
        /\ drain' = IF buffer'[s] > caps[s] \/ buffer'["stdout"] + buffer'["stderr"] > caps.output THEN [drain EXCEPT ![s] = "ended"] ELSE drain
        /\ UNCHANGED <<argv, caps, network, workspace, published, cancelToken, stage, phase, command, written, cancelEvent, result>>
    <3>1. buffer[s] # written[s]
      BY <1>8, <1>t, <1>k DEF RunnerTypeOK
    <3> QED
      BY <1>8, <3>1 DEF _drain_stream, gateVars, cancelVars, outVars
  <2>g. Refused' <=> Refused
    BY <2>1, RefusedStays DEF gateVars
  <2>2. /\ buffer \in [Streams -> Nat] /\ written \in [Streams -> Nat] /\ drain \in [Streams -> {"off", "reading", "ended"}]
        /\ buffer'[s] = buffer[s] + 1 /\ \A t \in Streams : t # s => buffer'[t] = buffer[t] /\ drain'[t] = drain[t]
        /\ buffer[s] # written[s]
    BY <1>t, <1>k, <2>1 DEF RunnerTypeOK
  <2>3. stage \notin Unstarted /\ ~Refused
    BY <1>a, <2>1 DEF StageInv, Unstarted
  <2>4. caps["stdout"] + caps["stderr"] <= caps["output"]
    BY <2>3 DEF Refused, validate
  <2>5. /\ buffer'[s] > caps[s] => drain'[s] = "ended" /\ capEvent'
        /\ drain'[s] = "ended" \/ drain'[s] = "reading"
        /\ drain'[s] = "ended" => capEvent'
        /\ capEvent' => capEvent \/ drain'[s] = "ended"
    BY <2>1, <2>2
  <2>p. RunnerTypeOK'
    BY <1>t, <1>u, <1>k, <2>1, <2>g, <2>2, <2>3, <2>4, <2>5 DEF RunnerTypeOK, Stages, Commands, Streams, Terminations, Tokens3
  <2>q. StageInv'
    BY <1>t, <1>a, <2>1, <2>g, <2>2, <2>3, <2>4, <2>5 DEF RunnerTypeOK, StageInv, Unstarted, Terminations, Running
  <2>r. CancelTokenInv'
    BY <1>b, <2>1, <2>g, <2>2, <2>3, <2>4, <2>5 DEF CancelTokenInv
  <2>s. TerminationInv'
    BY <1>c, <2>1, <2>g, <2>2, <2>3, <2>4, <2>5 DEF TerminationInv, Stopped, Running
  <2>t. WholeInv'
    <3>1. stage \notin Unstarted \cup {"wait"} /\ ~cancelToken.given /\ ~result.timeout => capEvent
      BY <1>d, <2>2 DEF WholeInv
    <3>2. capEvent => capEvent'
      BY <2>1
    <3>3. stage # "returned"
      BY <1>a, <2>1 DEF StageInv
    <3>4. ~capEvent' => \A t \in Streams : drain'[t] = "ended" => t # s /\ drain[t] = "ended"
      BY <2>2, <2>5
    <3> QED
      BY <1>d, <2>1, <2>2, <3>1, <3>2, <3>3, <3>4 DEF WholeInv, Quiet, Running
  <2>u. BoundInv'
    <3>1. \A t \in Streams : buffer[t] \in Nat /\ buffer'[t] \in Nat /\ caps[t] \in Nat
      BY <1>k, <2>2 DEF Streams
    <3>2. buffer[s] <= caps[s] /\ buffer'[s] <= caps[s] + 1
      BY <1>e, <2>1, <2>2, <3>1 DEF BoundInv
    <3>3. \A t \in Streams : buffer'[t] <= caps[t] + 1 /\ (buffer'[t] > caps[t] => drain'[t] = "ended")
      BY <1>e, <2>2, <2>5, <3>2 DEF BoundInv
    <3>4. \A t \in Streams : buffer[t] > caps[t] => buffer'[t] > caps[t]
      BY <2>2, <3>1, <3>2
    <3>5. capEvent' => \E t \in Streams : buffer'[t] > caps[t]
      <4>1. CASE capEvent
        BY <1>e, <3>4, <4>1 DEF BoundInv
      <4>2. CASE buffer'[s] > caps[s]
        BY <4>2
      <4>3. CASE buffer'["stdout"] + buffer'["stderr"] > caps["output"]
        BY <1>k, <2>4, <3>1, <4>3 DEF Streams
      <4> QED
        BY <2>1, <4>1, <4>2, <4>3
    <3>6. (\E t \in Streams : buffer'[t] > caps[t]) => capEvent'
      BY <1>e, <2>1, <2>2, <2>5 DEF BoundInv
    <3> QED
      BY <2>1, <3>3, <3>5, <3>6 DEF BoundInv
  <2> QED
    BY <2>p, <2>q, <2>r, <2>s, <2>t, <2>u DEF RunnerInv
<1>9. ASSUME NEW s \in Streams, _drain_stream(s), ~(buffer[s] < written[s]) PROVE RunnerInv'
  <2>1. /\ drain[s] = "reading" /\ buffer[s] = written[s] /\ ~Running /\ command.child # "alive"
        /\ drain' = [drain EXCEPT ![s] = "ended"]
        /\ UNCHANGED <<argv, caps, network, workspace, published, cancelToken, stage, phase, command, written, buffer, capEvent, cancelEvent, result>>
    BY <1>9 DEF _drain_stream, gateVars, cancelVars, outVars
  <2>g. Refused' <=> Refused
    BY <2>1, RefusedStays DEF gateVars
  <2>2. drain'[s] = "ended" /\ \A t \in Streams : t # s => drain'[t] = drain[t]
    BY <1>t, <2>1 DEF RunnerTypeOK
  <2>p. RunnerTypeOK'
    BY <1>t, <1>u, <1>k, <2>1, <2>g, <2>2 DEF RunnerTypeOK, Stages, Commands, Streams, Terminations, Tokens3
  <2>q. StageInv'
    BY <1>t, <1>a, <2>1, <2>g, <2>2 DEF RunnerTypeOK, StageInv, Unstarted, Terminations, Running
  <2>r. CancelTokenInv'
    BY <1>b, <2>1, <2>g, <2>2 DEF CancelTokenInv
  <2>s. TerminationInv'
    BY <1>c, <2>1, <2>g, <2>2 DEF TerminationInv, Stopped, Running
  <2>t. WholeInv'
    BY <1>d, <2>1, <2>g, <2>2 DEF WholeInv, Quiet, Unstarted, Running
  <2>u. BoundInv'
    BY <1>e, <2>1, <2>g, <2>2 DEF BoundInv
  <2> QED
    BY <2>p, <2>q, <2>r, <2>s, <2>t, <2>u DEF RunnerInv
<1>10. CASE _cancel_watcher
  <2>1. /\ cancelEvent' = TRUE
        /\ UNCHANGED <<argv, caps, network, workspace, published, cancelToken, stage, phase, command, written, buffer, drain, capEvent, result>>
    BY <1>10 DEF _cancel_watcher, gateVars, cancelVars, outVars
  <2>g. Refused' <=> Refused
    BY <2>1, RefusedStays DEF gateVars
  <2>p. RunnerTypeOK'
    BY <1>t, <1>u, <1>k, <2>1, <2>g DEF RunnerTypeOK, Stages, Commands, Streams, Terminations, Tokens3
  <2>q. StageInv'
    BY <1>t, <1>a, <2>1, <2>g DEF RunnerTypeOK, StageInv, Unstarted, Terminations, Running
  <2>r. CancelTokenInv'
    BY <1>b, <2>1, <2>g DEF CancelTokenInv
  <2>s. TerminationInv'
    BY <1>c, <2>1, <2>g DEF TerminationInv, Stopped, Running
  <2>t. WholeInv'
    BY <1>d, <2>1, <2>g DEF WholeInv, Quiet, Unstarted, Running
  <2>u. BoundInv'
    BY <1>e, <2>1, <2>g DEF BoundInv
  <2> QED
    BY <2>p, <2>q, <2>r, <2>s, <2>t, <2>u DEF RunnerInv
<1>11. ASSUME NEW t \in BOOLEAN, EndOfWait(t) PROVE RunnerInv'
  <2>1. /\ stage = "wait" /\ stage' = "cap" /\ result' = [result EXCEPT !.timeout = t]
        /\ \/ ~Running /\ \A s \in Streams : drain[s] = "ended"
           \/ cancelToken.given /\ (cancelEvent \/ ~Running)
           \/ capEvent
           \/ t
        /\ UNCHANGED <<argv, caps, network, workspace, published, cancelToken, phase, command, written, buffer, drain, capEvent, cancelEvent>>
    BY <1>11 DEF EndOfWait, gateVars, cancelVars, outVars
  <2>g. Refused' <=> Refused
    BY <2>1, RefusedStays DEF gateVars
  <2>2. /\ result' \in Results /\ result'.timeout = t /\ result'.heard = result.heard
        /\ result'.cancelled = result.cancelled
    BY <1>11, <1>u, <2>1, ResultTimeout
  <2>p. RunnerTypeOK'
    BY <1>t, <1>u, <1>k, <2>1, <2>g, <2>2 DEF RunnerTypeOK, Stages, Commands, Streams, Terminations, Tokens3
  <2>q. StageInv'
    BY <1>t, <1>a, <2>1, <2>g, <2>2 DEF RunnerTypeOK, StageInv, Unstarted, Terminations, Running
  <2>r. CancelTokenInv'
    BY <1>b, <2>1, <2>g, <2>2 DEF CancelTokenInv
  <2>s. TerminationInv'
    BY <1>c, <2>1, <2>g, <2>2 DEF TerminationInv, Stopped, Running
  <2>t. WholeInv'
    <3>1. ~cancelToken.given /\ ~t /\ ~capEvent => Quiet /\ \A s \in Streams : buffer[s] = written[s]
      <4>1. ~cancelToken.given /\ ~t /\ ~capEvent => \A s \in Streams : drain[s] = "ended"
        BY <2>1
      <4>2. "stdout" \in Streams
        BY DEF Streams
      <4> QED
        BY <1>d, <2>1, <4>1, <4>2 DEF WholeInv
    <3> QED
      BY <2>1, <2>2, <3>1 DEF WholeInv, Quiet, Running
  <2>u. BoundInv'
    BY <1>e, <2>1, <2>g, <2>2 DEF BoundInv
  <2> QED
    BY <2>p, <2>q, <2>r, <2>s, <2>t, <2>u DEF RunnerInv
<1>12. CASE CancelTasks
  <2>1. /\ stage = "tasks" /\ stage' = "capAgain" /\ drain' = [s \in Streams |-> "ended"]
        /\ UNCHANGED <<argv, caps, network, workspace, published, cancelToken, phase, command, written, buffer, capEvent, cancelEvent, result>>
    BY <1>12 DEF CancelTasks, gateVars, cancelVars, outVars
  <2>g. Refused' <=> Refused
    BY <2>1, RefusedStays DEF gateVars
  <2>p. RunnerTypeOK'
    BY <1>t, <1>u, <1>k, <2>1, <2>g DEF RunnerTypeOK, Stages, Commands, Streams, Terminations, Tokens3
  <2>q. StageInv'
    BY <1>t, <1>a, <2>1, <2>g DEF RunnerTypeOK, StageInv, Unstarted, Terminations, Running
  <2>r. CancelTokenInv'
    BY <1>b, <2>1, <2>g DEF CancelTokenInv
  <2>s. TerminationInv'
    BY <1>c, <2>1, <2>g DEF TerminationInv, Stopped, Running
  <2>t. WholeInv'
    BY <1>d, <2>1, <2>g DEF WholeInv, Quiet, Unstarted, Running
  <2>u. BoundInv'
    BY <1>e, <2>1, <2>g DEF BoundInv
  <2> QED
    BY <2>p, <2>q, <2>r, <2>s, <2>t, <2>u DEF RunnerInv
<1>13. CASE ReturnResult
  <2>1. /\ stage = "return" /\ stage' = "returned" /\ result' = [result EXCEPT !.exit = command.leader, !.capped = capEvent]
        /\ UNCHANGED <<argv, caps, network, workspace, published, cancelToken, phase, command, written, buffer, drain, capEvent, cancelEvent>>
    BY <1>13 DEF ReturnResult, gateVars, cancelVars, outVars
  <2>g. Refused' <=> Refused
    BY <2>1, RefusedStays DEF gateVars
  <2>2. /\ result' \in Results /\ result'.timeout = result.timeout /\ result'.heard = result.heard
        /\ result'.cancelled = result.cancelled /\ result'.exit = command.leader /\ result'.capped = capEvent
    <3>1. capEvent \in BOOLEAN /\ command.leader \in {"none", "running", "exited"}
      BY <1>t DEF RunnerTypeOK, Commands
    <3> QED
      BY <1>u, <2>1, <3>1, ResultExit
  <2>p. RunnerTypeOK'
    BY <1>t, <1>u, <1>k, <2>1, <2>g, <2>2 DEF RunnerTypeOK, Stages, Commands, Streams, Terminations, Tokens3
  <2>q. StageInv'
    BY <1>t, <1>a, <2>1, <2>g, <2>2 DEF RunnerTypeOK, StageInv, Unstarted, Terminations, Running
  <2>r. CancelTokenInv'
    BY <1>b, <2>1, <2>g, <2>2 DEF CancelTokenInv
  <2>s. TerminationInv'
    BY <1>c, <2>1, <2>g, <2>2 DEF TerminationInv, Stopped, Running
  <2>t. WholeInv'
    <3>1. command.leader # "none" /\ command.leader \in {"none", "running", "exited"}
      BY <1>t, <1>a, <2>1 DEF RunnerTypeOK, Commands, StageInv, Unstarted
    <3>2. ~cancelToken.given /\ ~result.timeout /\ ~capEvent => Quiet /\ \A s \in Streams : buffer[s] = written[s]
      BY <1>d, <2>1 DEF WholeInv, Unstarted
    <3> QED
      BY <2>1, <2>2, <3>1, <3>2 DEF WholeInv, Quiet, Running
  <2>u. BoundInv'
    BY <1>e, <2>1, <2>g, <2>2 DEF BoundInv
  <2> QED
    BY <2>p, <2>q, <2>r, <2>s, <2>t, <2>u DEF RunnerInv
<1>14. CASE CommandProcess /\ UNCHANGED written
  <2>1. /\ Running \/ command.child = "alive"
        /\ \/ Running /\ command.child = "none" /\ command' = [command EXCEPT !.child = "alive"]
           \/ command.child = "alive" /\ command' = [command EXCEPT !.child = "dead"]
           \/ Running /\ command' = [command EXCEPT !.leader = "exited"]
           \/ command' = command
        /\ UNCHANGED <<argv, caps, network, workspace, published, cancelToken, stage, phase, written, buffer, drain, capEvent, cancelEvent, result>>
    BY <1>14 DEF CommandProcess, gateVars, cancelVars, outVars
  <2>g. Refused' <=> Refused
    BY <2>1, RefusedStays DEF gateVars
  <2>2. /\ command' \in Commands /\ command'.sent = command.sent
        /\ (command'.leader = "running" => Running) /\ (command'.leader = "none" <=> command.leader = "none")
        /\ Running \/ command.child = "alive"
    BY <1>t, <2>1 DEF RunnerTypeOK, Commands, Running
  <2>p. RunnerTypeOK'
    BY <1>t, <1>u, <1>k, <2>1, <2>g, <2>2 DEF RunnerTypeOK, Stages, Commands, Streams, Terminations, Tokens3
  <2>q. StageInv'
    BY <1>t, <1>a, <2>1, <2>g, <2>2 DEF RunnerTypeOK, StageInv, Unstarted, Terminations, Running
  <2>r. CancelTokenInv'
    BY <1>b, <2>1, <2>g, <2>2 DEF CancelTokenInv
  <2>s. TerminationInv'
    BY <1>c, <2>1, <2>g, <2>2 DEF TerminationInv, Stopped, Running
  <2>t. WholeInv'
    BY <1>d, <2>1, <2>g, <2>2 DEF WholeInv, Quiet, Unstarted, Running
  <2>u. BoundInv'
    BY <1>e, <2>1, <2>g, <2>2 DEF BoundInv
  <2> QED
    BY <2>p, <2>q, <2>r, <2>s, <2>t, <2>u DEF RunnerInv
<1>15. CASE CommandProcess /\ UNCHANGED command
  <2>1. /\ Running \/ command.child = "alive"
        /\ written' = written \/ \E s \in Streams : written[s] < MaxOut /\ written' = [written EXCEPT ![s] = written[s] + 1]
        /\ UNCHANGED <<argv, caps, network, workspace, published, cancelToken, stage, phase, command, buffer, drain, capEvent, cancelEvent, result>>
    BY <1>15 DEF CommandProcess, gateVars, cancelVars, outVars
  <2>g. Refused' <=> Refused
    BY <2>1, RefusedStays DEF gateVars
  <2>2. written' \in [Streams -> 0 .. MaxOut] /\ \A s \in Streams : written[s] <= written'[s]
    BY <1>t, <1>k, <2>1 DEF RunnerTypeOK
  <2>p. RunnerTypeOK'
    BY <1>t, <1>u, <1>k, <2>1, <2>g, <2>2 DEF RunnerTypeOK, Stages, Commands, Streams, Terminations, Tokens3
  <2>q. StageInv'
    BY <1>t, <1>a, <2>1, <2>g, <2>2 DEF RunnerTypeOK, StageInv, Unstarted, Terminations, Running
  <2>r. CancelTokenInv'
    BY <1>b, <2>1, <2>g, <2>2 DEF CancelTokenInv
  <2>s. TerminationInv'
    BY <1>c, <2>1, <2>g, <2>2 DEF TerminationInv, Stopped, Running
  <2>t. WholeInv'
    BY <1>d, <2>1, <2>g, <2>2 DEF WholeInv, Quiet, Unstarted, Running
  <2>u. BoundInv'
    BY <1>e, <2>1, <2>g, <2>2 DEF BoundInv
  <2> QED
    BY <2>p, <2>q, <2>r, <2>s, <2>t, <2>u DEF RunnerInv
<1>16. CASE AfterWait
  <2>1. /\ stage \in Terminations
        /\ \/ /\ stage' = stage /\ phase = "none" /\ phase' = "term" /\ command' = [command EXCEPT !.sent = @ \cup {"TERM"}]
           \/ /\ stage' = stage /\ phase = "term" /\ phase' = "kill" /\ command' = [command EXCEPT !.sent = @ \cup {"KILL"}]
           \/ /\ stage' = Following /\ phase' = "none" /\ command' = command
              /\ phase = "kill" \/ ~Running \/ ~Calls
        /\ UNCHANGED <<argv, caps, network, workspace, published, cancelToken, written, buffer, drain, capEvent, cancelEvent>>
    BY <1>16 DEF AfterWait, _terminate_process_group, Send, gateVars, cancelVars, outVars
  <2>g. Refused' <=> Refused
    BY <2>1, RefusedStays DEF gateVars
  <2>2. /\ result' \in Results /\ result'.timeout = result.timeout
        /\ cancelToken.given /\ result'.heard => result'.cancelled
    <3> DEFINE c == \/ result.cancelled
                    \/ stage = "tokenAgain" /\ cancelToken.cancelled
                    \/ stage = "cancel" /\ Calls /\ Running
               h == result.heard \/ (stage = "tokenAgain" /\ phase = "none" /\ published)
    <3>1. result' = [result EXCEPT !.cancelled = c, !.heard = h]
      BY <1>16, <1>u DEF AfterWait, Results
    <3>2. c \in BOOLEAN /\ h \in BOOLEAN
      OBVIOUS
    <3>3. cancelToken.given /\ h => c
      BY <1>b, <2>1 DEF CancelTokenInv, Terminations
    <3> HIDE DEF c, h
    <3> QED
      BY <1>u, <3>1, <3>2, <3>3, ResultCancelled
  <2>3. /\ command' \in Commands /\ command'.leader = command.leader /\ command'.child = command.child
        /\ command.sent \subseteq command'.sent /\ (phase' = "kill" => "KILL" \in command'.sent)
        /\ phase # "kill" \/ "KILL" \in command.sent
    BY <1>t, <1>a, <2>1 DEF RunnerTypeOK, Commands, StageInv
  <2>4. stage' \in {"cap", "cancel", "timeout", "tasks", "capAgain", "tokenAgain", "return"}
    BY <2>1 DEF Following, Terminations
  <2>5. stage' # stage => /\ phase' = "none" /\ command' = command /\ stage' = Following
                          /\ Stopped \/ ~Calls
    BY <2>1, <2>3 DEF Stopped, Running, Following, Terminations
  <2>6. phase' \in {"none", "term", "kill"} /\ (phase' # "none" => stage' = stage)
    BY <2>1
  <2>p. RunnerTypeOK'
    BY <1>t, <1>u, <1>k, <2>1, <2>2, <2>3, <2>4, <2>6 DEF RunnerTypeOK, Stages, Terminations, Tokens3
  <2>q. StageInv'
    <3>1. stage' \in {"capAgain", "tokenAgain", "return"} => stage \in {"capAgain", "tokenAgain"}
      BY <2>1, <2>5 DEF Following, Terminations
    <3>2. stage \notin Unstarted /\ stage' \notin Unstarted
      BY <2>1, <2>4 DEF Unstarted, Terminations
    <3> QED
      BY <1>a, <2>1, <2>g, <2>3, <2>4, <2>6, <3>1, <3>2 DEF StageInv, Unstarted
  <2>r. CancelTokenInv'
    BY <1>b, <2>1, <2>2 DEF CancelTokenInv, Terminations
  <2>s. TerminationInv'
    <3>1. Stopped => Stopped'
      BY <2>3 DEF Stopped, Running
    <3>2. CASE stage' = stage
      BY <1>c, <2>1, <2>2, <2>4, <3>1, <3>2 DEF TerminationInv
    <3>3. CASE stage' # stage
      BY <1>c, <2>1, <2>2, <2>4, <2>5, <3>1, <3>3 DEF TerminationInv, Following, Calls, Terminations
    <3> QED
      BY <3>2, <3>3
  <2>t. WholeInv'
    <3>1. Quiet' <=> Quiet
      BY <2>3 DEF Quiet, Running
    <3>2. stage \notin Unstarted \cup {"wait"}
      BY <2>1 DEF Unstarted, Terminations
    <3> QED
      BY <1>d, <2>1, <2>2, <2>4, <3>1, <3>2 DEF WholeInv
  <2>u. BoundInv'
    BY <1>e, <2>1 DEF BoundInv
  <2> QED
    BY <2>p, <2>q, <2>r, <2>s, <2>t, <2>u DEF RunnerInv
<1>17. CASE create_subprocess_exec
  BY <1>6, <1>7, <1>17 DEF create_subprocess_exec, Raise
<1>18. ASSUME NEW s \in Streams, _drain_stream(s) PROVE RunnerInv'
  BY <1>8, <1>9, <1>18
<1>19. CASE CommandProcess
  BY <1>14, <1>15, <1>19 DEF CommandProcess
<1> QED
  BY <1>1, <1>2, <1>3, <1>4, <1>5, <1>10, <1>11, <1>12, <1>13, <1>16, <1>17, <1>18, <1>19 DEF RunnerNext, Draining

\* The invariant gives the properties; a command of at most five wrappers is checked
\* without them.
LEMMA RunnerInvSound == RunnerConstantsOK /\ RunnerInv => RunnerSound
<1> SUFFICES ASSUME RunnerConstantsOK, RunnerInv PROVE RunnerSound
  OBVIOUS
<1>1. OnlyCleared
  <2> SUFFICES ASSUME command.leader # "none"
               PROVE  /\ argv.wrappers <= 5 /\ argv.option = 0 => ~Checkers([argv EXCEPT !.wrappers = 0])
                      /\ ~({"base64 decode", "pipe to shell"} \subseteq argv.flags)
                      /\ ~({"download", "pipe to shell"} \subseteq argv.flags) /\ "fork bomb" \notin argv.flags
                      /\ network = "deny_all" => ~_is_network_capable_command(argv)
    BY Zenon DEF OnlyCleared
  <2>1. ~Refused
    BY DEF RunnerInv, StageInv, Unstarted
  <2>2. argv.wrappers <= 5 /\ argv.option = 0 => canonicalize_command(argv) = [argv EXCEPT !.wrappers = 0]
    BY DEF canonicalize_command
  <2>3. ~Checkers(canonicalize_command(argv))
    BY <2>1 DEF Refused, detect_dangerous_command
  <2>4. canonicalize_command(argv).flags = argv.flags
    BY DEF canonicalize_command
  <2>5. /\ ~({"base64 decode", "pipe to shell"} \subseteq argv.flags)
        /\ ~({"download", "pipe to shell"} \subseteq argv.flags) /\ "fork bomb" \notin argv.flags
    BY <2>3, <2>4, Zenon DEF Checkers, _matches_fork_bomb, _matches_base64_decode_exec, _matches_curl_pipe_sh
  <2> QED
    BY <2>1, <2>2, <2>3, <2>5, Zenon DEF Refused
<1>2. ProcessGone
  BY DEF RunnerInv, TerminationInv, Stopped, ProcessGone
<1>3. CancelReported
  BY DEF RunnerInv, CancelTokenInv, CancelReported
<1>4. OutputComplete
  <2> SUFFICES ASSUME stage = "returned", ~cancelToken.given, ~result.timeout, ~result.capped
               PROVE  result.exit = "exited" /\ buffer = written
    BY DEF OutputComplete
  <2>1. result.exit = "exited" /\ \A s \in Streams : buffer[s] = written[s]
    BY DEF RunnerInv, WholeInv, Unstarted
  <2> QED
    BY <2>1 DEF RunnerInv, RunnerTypeOK
<1>5. OutputBounded
  BY DEF RunnerInv, BoundInv, WholeInv, OutputBounded
<1> QED
  BY <1>1, <1>2, <1>3, <1>4, <1>5 DEF RunnerSound

\* Every command of the runner is sound in every reachable state.
LEMMA RunnerInvariant == RunnerConstantsOK => (RunnerSpec => [](RunnerTypeOK /\ RunnerSound))
<1> SUFFICES ASSUME RunnerConstantsOK PROVE RunnerSpec => [](RunnerTypeOK /\ RunnerSound)
  OBVIOUS
<1>1. RunnerInit => RunnerInv
  BY RunnerInitInv
<1>2. RunnerInv /\ [RunnerNext]_runnerVars => RunnerInv'
  BY RunnerStepInv
<1>3. RunnerInv => RunnerTypeOK /\ RunnerSound
  BY RunnerInvSound DEF RunnerInv
<1> QED
  BY <1>1, <1>2, <1>3, PTL DEF RunnerSpec
=============================================================================
