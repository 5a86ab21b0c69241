---------------------------- MODULE CliInvocation ----------------------------
(***************************************************************************)
(* An invocation of a command line agent (services/cli_artifact): a work   *)
(* directory of its own, the process with its descendants, its time limit, *)
(* the cancel that reaches the process through the CancelRegistry (from    *)
(* this server or through Redis), the termination with a grace period, the *)
(* scan of the output for credentials, and the outcome.  The orchestrator, *)
(* the launch and the wait for a cancel are tasks of one event loop: they  *)
(* interleave where they await.                                            *)
(***************************************************************************)
EXTENDS Naturals, FiniteSets

CONSTANTS
    Runs,          \* runs that may be cancelled (a CancelKey each)
    Invocations,   \* invocations, several of one run at a time among them
    RunOf,         \* function: invocation -> its run
    MaxPending,    \* _pending_signals_max
    MaxSignals     \* bound on requests to cancel

CliConstantsOK ==
    RunOf \in [Invocations -> Runs] /\ MaxPending \in Nat \ {0} /\ MaxSignals \in Nat

VARIABLES
    events,     \* CancelRegistry._events: "none", "clear", "set"
    pending,    \* CancelRegistry._pending_signals
    channel,    \* runs with a message under way on their Redis channel
    requests,   \* cancels requested
    owed,       \* history: runs with an accepted cancel that is neither consumed nor evicted
    orch,       \* invocation -> where its orchestrator is
    waiter,     \* invocation -> its cancel_task and the event that task waits for
    launch,     \* invocation -> where launch_cli_agent is
    cancelReq,  \* invocation -> launch_task.cancel() not yet delivered
    raising,    \* invocation -> CancelledError to be raised after the finally block
    agent,      \* invocation -> [leader, child, code, sent]
    output,     \* invocation -> [file, stdout]: "clean", "secret", and "gone" for the file
    flags,      \* invocation -> [timeout, cancelled, interrupted]
    outcome     \* invocation -> its CliInvocationOutcome

registryVars == <<events, pending, channel, requests, owed>>
taskVars == <<orch, waiter, launch, cancelReq, raising, flags, outcome>>
cliVars == <<registryVars, taskVars, agent, output>>

-----------------------------------------------------------------------------
(* CancelRegistry *)

is_cancelled(r) == events[r] = "set" \/ r \in pending

register_Forgets(r) ==
    IF events[r] # "none" THEN UNCHANGED <<events, pending>>
    ELSE events' = [events EXCEPT ![r] = "clear"] /\ UNCHANGED pending

register(r) ==
    IF events[r] # "none" THEN UNCHANGED <<events, pending>>
    ELSE /\ events' = [events EXCEPT ![r] = IF r \in pending THEN "set" ELSE "clear"]
         /\ pending' = pending \ {r}

\* The invocation's cancel_task: not registered, listening to the event the registry has
\* for the run, or left with an event the registry has given up, set or for ever clear.
Waits == {"none", "listening", "heard", "deaf"}

\* The event and a pending signal go, for every invocation of the run: another one that
\* listens has its event still, but the registry sets it no more.
unregister(i) ==
    LET r == RunOf[i]
    IN  /\ events' = [events EXCEPT ![r] = "none"] /\ pending' = pending \ {r}
        /\ owed' = owed \ {r}
        /\ waiter' = [j \in Invocations |->
              IF j = i THEN "none"
              ELSE IF RunOf[j] = r /\ waiter[j] = "listening"
              THEN IF events[r] = "set" THEN "heard" ELSE "deaf"
              ELSE waiter[j]]

\* A full set of pending signals loses an arbitrary one.
signal(r) ==
    IF events[r] # "none"
    THEN events' = [events EXCEPT ![r] = "set"] /\ owed' = owed \cup {r} /\ UNCHANGED pending
    ELSE /\ UNCHANGED events
         /\ IF r \in pending THEN UNCHANGED <<pending, owed>>
            ELSE IF Cardinality(pending) < MaxPending
            THEN pending' = pending \cup {r} /\ owed' = owed \cup {r}
            ELSE \E v \in pending : /\ pending' = (pending \ {v}) \cup {r}
                                    /\ owed' = (owed \ {v}) \cup {r}

\* RedisCancelDispatcher: the own registry first, then the others; the publication
\* may fail.
signal_remote(r) ==
    /\ requests < MaxSignals /\ requests' = requests + 1
    /\ signal(r)
    /\ channel' \in {channel, channel \cup {r}}
    /\ UNCHANGED <<taskVars, agent, output>>

\* CancelSubscriberDriver: a message of another server, or the echo of the own.
drive_from_messages(r) ==
    /\ r \in channel /\ channel' = channel \ {r}
    /\ signal(r)
    /\ UNCHANGED <<requests, taskVars, agent, output>>

-----------------------------------------------------------------------------
(* Reading the artifact *)

_withheld_redaction == "withheld"

scan_for_credential_exfiltration(text) == text = "secret"

_read_and_redact(i) ==
    IF scan_for_credential_exfiltration(output[i].file) THEN _withheld_redaction ELSE output[i].file

\* The stream files are opened without following links; a file that is gone raises.
Outcome(i, kind) ==
    IF _read_and_redact(i) = "gone" THEN [kind |-> "raised", text |-> "none"]
    ELSE [kind |-> kind, text |-> _read_and_redact(i)]

Return(i, o) == orch' = [orch EXCEPT ![i] = "returned"] /\ outcome' = [outcome EXCEPT ![i] = o]

-----------------------------------------------------------------------------
(* CliInvocationOrchestrator.invoke *)

\* The base directory must be on the allowlist; then the directory and its files are
\* created and the prompt is written with O_EXCL, or an exception says why not.
allocate_workdir == {"artifact_workdir_outside_allowlist", "raised", "allocated"}

\* A cancel that came before is consumed here.
invoke(i) ==
    /\ orch[i] = "idle"
    /\ \E w \in allocate_workdir :
          IF w # "allocated"
          THEN Return(i, [kind |-> w, text |-> "none"]) /\ UNCHANGED <<events, pending, owed, waiter, launch>>
          ELSE IF is_cancelled(RunOf[i])
          THEN /\ unregister(i) /\ Return(i, Outcome(i, "cancelled_before_launch"))
               /\ UNCHANGED launch
          ELSE /\ orch' = [orch EXCEPT ![i] = "waiting"]
               /\ launch' = [launch EXCEPT ![i] = "starting"]
               /\ UNCHANGED <<events, pending, owed, waiter, outcome>>
    /\ UNCHANGED <<channel, requests, cancelReq, raising, flags, agent, output>>

wait_for_cancel(i) ==
    /\ orch[i] = "waiting" /\ waiter[i] = "none"
    /\ waiter' = [waiter EXCEPT ![i] = "listening"] /\ register(RunOf[i])
    /\ UNCHANGED <<channel, requests, owed, orch, launch, cancelReq, raising, flags, outcome,
                   agent, output>>

\* The cancel comes first: the launch is cancelled and awaited.
CancelFirst(i) ==
    /\ orch[i] = "waiting" /\ launch[i] # "done"
    /\ waiter[i] = "heard" \/ (waiter[i] = "listening" /\ events[RunOf[i]] = "set")
    /\ unregister(i)
    /\ orch' = [orch EXCEPT ![i] = "stopping"]
    /\ cancelReq' = [cancelReq EXCEPT ![i] = TRUE]
    /\ flags' = [flags EXCEPT ![i].cancelled = TRUE]
    /\ UNCHANGED <<channel, requests, launch, raising, outcome, agent, output>>

map_launcher_result(i) ==
    CASE flags[i].timeout -> "timeout"
      [] ~flags[i].timeout /\ agent[i].code # "zero" -> "failed"
      [] OTHER -> "success"

\* What the launch ended with, as an outcome.
Conclusion(i) ==
    CASE raising[i] = "cancelled" -> Outcome(i, "cancelled_during_launch")
      [] raising[i] = "exfiltration" -> [kind |-> "credential_exfiltration", text |-> _withheld_redaction]
      [] raising[i] = "denied" -> Outcome(i, "launcher_error")
      [] OTHER -> Outcome(i, IF flags[i].cancelled THEN "cancelled" ELSE map_launcher_result(i))

Conclude(i) ==
    /\ launch[i] = "done"
    /\ \/ orch[i] = "waiting" /\ unregister(i)
       \/ orch[i] = "stopping" /\ UNCHANGED <<events, pending, owed, waiter>>
    /\ Return(i, Conclusion(i))
    /\ UNCHANGED <<channel, requests, launch, cancelReq, raising, flags, agent, output>>

\* The caller's own task is cancelled: the launch goes on by itself, or, when it is
\* being awaited, is cancelled a second time.
Abandon(i) ==
    /\ \/ /\ orch[i] = "waiting" /\ unregister(i)
          /\ Return(i, [kind |-> "abandoned", text |-> "none"])
          /\ UNCHANGED cancelReq
       \/ /\ orch[i] = "stopping" /\ launch[i] # "done" /\ ~cancelReq[i]
          /\ cancelReq' = [cancelReq EXCEPT ![i] = TRUE]
          /\ UNCHANGED <<events, pending, owed, waiter, orch, outcome>>
    /\ UNCHANGED <<channel, requests, launch, raising, flags, agent, output>>

-----------------------------------------------------------------------------
(* launch_cli_agent and _spawn_with_caps *)

Kill(i, s) == agent' = [agent EXCEPT ![i].sent = @ \cup {s}]

\* The paths must lie in the working directory and that on the allowlist, none of them
\* a link or forbidden.
_resolve_and_check_containment == {"denied", "contained"}

\* Denied by the registry, the binary, a path or the stdin file; or the process starts
\* in a session of its own.
launch_cli_agent(i) ==
    /\ launch[i] = "starting" /\ ~cancelReq[i]
    /\ \E c \in _resolve_and_check_containment :
          IF c = "denied"
          THEN /\ launch' = [launch EXCEPT ![i] = "done"]
               /\ raising' = [raising EXCEPT ![i] = "denied"] /\ UNCHANGED agent
          ELSE /\ launch' = [launch EXCEPT ![i] = "running"]
               /\ agent' = [agent EXCEPT ![i].leader = "running"] /\ UNCHANGED raising
    /\ UNCHANGED <<registryVars, orch, waiter, cancelReq, flags, outcome, output>>

\* The grace of five seconds, SIGKILL to the group, one more second.
_terminate_with_grace(i) ==
    \/ /\ launch[i] = "term" /\ agent[i].leader = "running"
       /\ launch' = [launch EXCEPT ![i] = "kill"] /\ Kill(i, "KILL")
    \/ /\ launch[i] = "term" /\ agent[i].leader # "running"
       /\ launch' = [launch EXCEPT ![i] = "drain"] /\ UNCHANGED agent
    \/ /\ launch[i] = "kill"
       /\ launch' = [launch EXCEPT ![i] = "drain"] /\ UNCHANGED agent

\* proc.wait() returns, or the time limit passes and the group gets SIGTERM.
Wait(i) ==
    /\ launch[i] = "running"
    /\ IF agent[i].leader = "running"
       THEN /\ launch' = [launch EXCEPT ![i] = "term"] /\ Kill(i, "TERM")
            /\ flags' = [flags EXCEPT ![i].timeout = TRUE]
       ELSE launch' = [launch EXCEPT ![i] = "drain"] /\ UNCHANGED <<agent, flags>>

Terminate(i) ==
    /\ \/ Wait(i)
       \/ _terminate_with_grace(i) /\ UNCHANGED flags
    /\ ~cancelReq[i]
    /\ UNCHANGED <<registryVars, orch, waiter, cancelReq, raising, outcome, output>>

\* The scan covers what was captured and what the files hold now.
_scan_outputs_for_exfiltration(i, captured) ==
    \/ captured /\ output[i].stdout = "secret"
    \/ scan_for_credential_exfiltration(output[i].file)

Finish(i, captured) ==
    /\ launch' = [launch EXCEPT ![i] = "done"]
    /\ raising' = [raising EXCEPT ![i] =
            IF @ = "cancelled" THEN @
            ELSE IF _scan_outputs_for_exfiltration(i, captured) THEN "exfiltration" ELSE "none"]

\* The streams end when no process holds them; after five seconds they are given up.
_drain(i) ==
    /\ \/ /\ launch[i] = "drain" /\ ~cancelReq[i]
          /\ IF agent[i].leader # "running" /\ agent[i].child # "alive"
             THEN Finish(i, TRUE)
             ELSE launch' = [launch EXCEPT ![i] = "giveup"] /\ UNCHANGED raising
          /\ UNCHANGED cancelReq
       \/ /\ launch[i] = "giveup" /\ Finish(i, FALSE)
          /\ cancelReq' = [cancelReq EXCEPT ![i] = FALSE]
    /\ UNCHANGED <<registryVars, orch, waiter, flags, outcome, agent, output>>

\* CancelledError at the await where the launch stands.  While it waits for the
\* process the group gets SIGTERM; in the grace period of a termination the rest of
\* it is skipped; a drain being given up swallows it.
CancelledError(i) ==
    /\ cancelReq[i] /\ launch[i] \in {"starting", "running", "term", "kill", "drain"}
    /\ cancelReq' = [cancelReq EXCEPT ![i] = FALSE]
    /\ raising' = [raising EXCEPT ![i] = "cancelled"]
    /\ CASE launch[i] = "running" /\ agent[i].leader = "running" ->
              launch' = [launch EXCEPT ![i] = "term"] /\ Kill(i, "TERM") /\ UNCHANGED flags
         [] launch[i] = "running" /\ agent[i].leader # "running" ->
              launch' = [launch EXCEPT ![i] = "drain"] /\ UNCHANGED <<agent, flags>>
         [] launch[i] \in {"term", "kill"} ->
              /\ launch' = [launch EXCEPT ![i] = "drain"]
              /\ flags' = [flags EXCEPT ![i].interrupted = TRUE] /\ UNCHANGED agent
         [] OTHER -> launch' = [launch EXCEPT ![i] = "done"] /\ UNCHANGED <<agent, flags>>
    /\ UNCHANGED <<registryVars, orch, waiter, outcome, output>>

LaunchTask(i) == launch_cli_agent(i) \/ Terminate(i) \/ _drain(i) \/ CancelledError(i)

-----------------------------------------------------------------------------
(* The process: external *)

Alive(i) == agent[i].leader = "running" \/ agent[i].child = "alive"

\* It starts a descendant, ends, or follows a signal (SIGTERM it may ignore); it
\* writes to its files and prints, and may remove a file.
AgentProcess(i) ==
    /\ Alive(i)
    /\ \/ /\ UNCHANGED output
          /\ \/ agent[i].leader = "running" /\ agent[i].child = "none" /\ agent' = [agent EXCEPT ![i].child = "alive"]
             \/ agent[i].child = "alive" /\ agent' = [agent EXCEPT ![i].child = "dead"]
             \/ /\ agent[i].leader = "running"
                /\ \E c \in {"zero", "nonzero"} \cup (IF agent[i].sent = {} THEN {} ELSE {"signal"}) :
                      agent' = [agent EXCEPT ![i].leader = "exited", ![i].code = c]
       \/ /\ UNCHANGED agent
          /\ \/ output[i].file # "gone" /\ \E f \in {"secret", "gone"} : output' = [output EXCEPT ![i].file = f]
             \/ output' = [output EXCEPT ![i].stdout = "secret"]
          /\ output' # output
    /\ UNCHANGED <<registryVars, taskVars>>

-----------------------------------------------------------------------------

CliInit ==
    /\ events = [r \in Runs |-> "none"] /\ pending = {} /\ channel = {} /\ requests = 0 /\ owed = {}
    /\ orch = [i \in Invocations |-> "idle"] /\ waiter = [i \in Invocations |-> "none"]
    /\ launch = [i \in Invocations |-> "none"]
    /\ cancelReq = [i \in Invocations |-> FALSE] /\ raising = [i \in Invocations |-> "none"]
    /\ agent = [i \in Invocations |-> [leader |-> "none", child |-> "none", code |-> "none", sent |-> {}]]
    /\ output = [i \in Invocations |-> [file |-> "clean", stdout |-> "clean"]]
    /\ flags = [i \in Invocations |-> [timeout |-> FALSE, cancelled |-> FALSE, interrupted |-> FALSE]]
    /\ outcome = [i \in Invocations |-> [kind |-> "none", text |-> "none"]]

CliNext ==
    \/ \E r \in Runs : signal_remote(r) \/ drive_from_messages(r)
    \/ \E i \in Invocations :
          \/ invoke(i) \/ wait_for_cancel(i) \/ CancelFirst(i) \/ Conclude(i) \/ Abandon(i)
          \/ LaunchTask(i) \/ AgentProcess(i)

CliSpec == CliInit /\ [][CliNext]_cliVars

-----------------------------------------------------------------------------
(* Properties *)

Launches == {"none", "starting", "running", "term", "kill", "drain", "giveup", "done"}
Agent == [leader : {"none", "running", "exited"}, child : {"none", "alive", "dead"},
          code : {"none", "zero", "nonzero", "signal"}, sent : SUBSET {"TERM", "KILL"}]
Kinds == {"none", "raised", "abandoned", "artifact_workdir_outside_allowlist", "cancelled_before_launch",
          "cancelled_during_launch", "cancelled", "credential_exfiltration", "launcher_error",
          "timeout", "failed", "success"}

\* Types; no more signals are pending than the registry keeps.
CliTypeOK ==
    /\ events \in [Runs -> {"none", "clear", "set"}]
    /\ pending \subseteq Runs /\ IsFiniteSet(pending) /\ Cardinality(pending) <= MaxPending
    /\ channel \subseteq Runs /\ requests \in 0 .. MaxSignals /\ owed \subseteq Runs
    /\ orch \in [Invocations -> {"idle", "waiting", "stopping", "returned"}]
    /\ waiter \in [Invocations -> Waits] /\ launch \in [Invocations -> Launches]
    /\ cancelReq \in [Invocations -> BOOLEAN]
    /\ raising \in [Invocations -> {"none", "denied", "cancelled", "exfiltration"}]
    /\ agent \in [Invocations -> Agent]
    /\ output \in [Invocations -> [file : {"clean", "secret", "gone"}, stdout : {"clean", "secret"}]]
    /\ flags \in [Invocations -> [timeout : BOOLEAN, cancelled : BOOLEAN, interrupted : BOOLEAN]]
    /\ outcome \in [Invocations -> [kind : Kinds, text : {"none", "clean", "withheld", "secret"}]]

\* A cancel the registry accepted reaches the invocation that waits for it, whether
\* it came before, while or after the wait was set up, and however often it is
\* repeated by Redis; only a full registry drops one.  No cancel reaches an invocation
\* any more once another one of its run has ended, which unregisters for both.
NoLostCancel ==
    \A i \in Invocations : orch[i] = "waiting" =>
        /\ waiter[i] = "none" /\ RunOf[i] \in owed => is_cancelled(RunOf[i])
        /\ waiter[i] = "listening" /\ RunOf[i] \in owed => events[RunOf[i]] = "set"
        /\ waiter[i] = "deaf" =>
              \E j \in Invocations \ {i} : RunOf[j] = RunOf[i] /\ orch[j] \in {"stopping", "returned"}

\* When the outcome is there the process is gone or has been sent SIGKILL, unless a
\* cancel cut the grace period of a termination short.
NothingLeftRunning ==
    \A i \in Invocations :
        orch[i] = "returned" /\ outcome[i].kind # "abandoned" /\ agent[i].leader = "running"
            => "KILL" \in agent[i].sent \/ flags[i].interrupted

\* What the kind of an outcome says of the process.
TrueOutcome(i) ==
    LET k == outcome[i].kind
    IN  orch[i] = "returned" =>
            /\ k = "success" => agent[i].code = "zero" /\ agent[i].sent = {}
            /\ k = "failed" => agent[i].code # "zero" /\ agent[i].sent = {}
            /\ k = "timeout" => "TERM" \in agent[i].sent
            /\ k \in {"cancelled", "cancelled_during_launch"} => flags[i].cancelled
            /\ k = "cancelled_before_launch" => agent[i].leader = "none"
            /\ flags[i].cancelled => k \notin {"success", "failed", "timeout"}

\* The outcome is what happened to the process: success only for one that ended by
\* itself with code 0, and cancelled exactly when a cancel stopped it.
OutcomeIsTrue == \A i \in Invocations : TrueOutcome(i)

\* What is handed on as the artifact holds no credential, although descendants may
\* still write after the launcher's own scan.
NoCredentialInArtifact ==
    \A i \in Invocations : orch[i] = "returned" => outcome[i].text # "secret"

InvocationsSound == NoLostCancel /\ NothingLeftRunning /\ OutcomeIsTrue /\ NoCredentialInArtifact
=============================================================================
