---------------------------- MODULE RunnerCommand ----------------------------
(***************************************************************************)
(* A command of the runner (services/runner): what is refused before it    *)
(* starts (dangerous commands, network, resource policy, working           *)
(* directory, environment), and then the process, the two tasks that drain *)
(* its output up to a cap, the task that polls the cancel token, the time  *)
(* limit, and the terminations that follow from each, one after the other. *)
(***************************************************************************)
EXTENDS Naturals, FiniteSets

CONSTANTS
    Argvs,        \* argument vectors: [wrappers, option, name, flags]
    Caps,         \* byte caps, in chunks: [stdout, stderr, output]
    MaxOut        \* bound on the chunks a stream gets

RunnerConstantsOK ==
    /\ \A a \in Argvs : a.wrappers \in Nat /\ a.option \in Nat
    /\ \A c \in Caps : {c.stdout, c.stderr, c.output} \subseteq Nat
    /\ MaxOut \in Nat

Streams == {"stdout", "stderr"}

VARIABLES
    argv,         \* the request
    caps,         \* the resource policy
    network,      \* the network policy's mode: "deny_all", "allowlist"
    workspace,    \* "absent", "present", "removed"
    published,    \* MockCancelPropagator._signals has the run
    cancelToken,  \* [given, registered, cancelled]
    stage,        \* where run_command is
    phase,        \* inside _terminate_process_group: "none", "term", "kill"
    command,      \* [leader, child, sent]
    written,      \* stream -> chunks the processes wrote
    buffer,       \* stream -> chunks read
    drain,        \* stream -> "off", "reading", "ended"
    capEvent, cancelEvent,
    result        \* RunnerCommandResult, and history: heard, a cancel was published when
                  \* the token was looked at for the last time

gateVars == <<argv, caps, network>>
cancelVars == <<published, cancelToken>>
outVars == <<written, buffer, drain, capEvent>>
runnerVars == <<gateVars, workspace, cancelVars, stage, phase, command, outVars, cancelEvent, result>>

-----------------------------------------------------------------------------
(* dangerous_command.  An argument vector is a number of wrappers (env, nohup, *)
(* exec, time ...), which of them, if one (0 if none), carries an option that  *)
(* canonicalize_command does not skip, a command's base name and what its      *)
(* options say.                                                                *)

\* At most five wrappers are removed, env's with the options and assignments it knows.
\* Another option of a wrapper (time -p, exec -a, env -v) takes the name's place, and
\* the command is one of its arguments.
canonicalize_command(a) ==
    IF a.option \in 1 .. 5 /\ a.option <= a.wrappers
    THEN [a EXCEPT !.wrappers = 0, !.option = 0, !.name = "an option"]
    ELSE [a EXCEPT !.wrappers = IF @ <= 5 THEN 0 ELSE @ - 5]

Named(a, names) == a.wrappers = 0 /\ a.name \in names

_matches_rm_rf(a) == Named(a, {"rm"}) /\ {"recursive", "force"} \subseteq a.flags
_matches_find_delete(a) == Named(a, {"find"}) /\ "delete" \in a.flags
_matches_chmod_777(a) == Named(a, {"chmod"}) /\ "777" \in a.flags
_matches_chown_recursive(a) == Named(a, {"chown"}) /\ "recursive" \in a.flags
_matches_dd_overwrite(a) == Named(a, {"dd"}) /\ "of" \in a.flags
_matches_mkfs(a) == Named(a, {"mkfs"})
_is_docker_invocation(a) == Named(a, {"docker"})
_matches_docker_privileged(a) == _is_docker_invocation(a) /\ "privileged" \in a.flags
_matches_docker_exec(a) == _is_docker_invocation(a) /\ "exec" \in a.flags
_matches_docker_socket_mount(a) == _is_docker_invocation(a) /\ "socket" \in a.flags
_matches_docker_host_network(a) == _is_docker_invocation(a) /\ "host network" \in a.flags
_matches_mount_umount(a) == Named(a, {"mount", "umount"})
_matches_sudo_su(a) == Named(a, {"sudo", "su"})
_matches_iptables_ufw(a) == Named(a, {"iptables", "ufw"})
_matches_kill_init(a) == Named(a, {"kill", "killall"}) /\ "init" \in a.flags
_matches_docker_socket_curl(a) == Named(a, {"curl", "wget"}) /\ "socket" \in a.flags

\* Interpreters given their program on the command line; commands that run others;
\* any other word with such an option behind it ("inline": -c before the first operand
\* of a shell, -e or -r or --eval of the others; "inline group": -c among other letters,
\* which only a shell's own check sees).
Interpreters == {"sh", "fish", "python", "node", "ruby", "perl", "lua", "php", "expect", "rscript"}
Runners == {"awk", "eval", "source", "env-split-string", "xargs", "timeout", "ssh", "vim", "gdb"}
Plain == {"echo", "ls", "cat", "git", "npm", "make", "grep", "tar", "find"}

_matches_inline_exec(a) ==
    \/ Named(a, Interpreters) /\ "inline" \in a.flags
    \/ Named(a, {"sh", "fish"}) /\ "inline group" \in a.flags
    \/ Named(a, Runners)
    \/ Named(a, {"find"}) /\ "exec" \in a.flags
    \/ ~Named(a, Plain \cup Interpreters) /\ "inline" \in a.flags

\* Patterns over the joined text, whoever the command is.
_matches_fork_bomb(a) == "fork bomb" \in a.flags
_matches_base64_decode_exec(a) == {"base64 decode", "pipe to shell"} \subseteq a.flags
_matches_curl_pipe_sh(a) == {"download", "pipe to shell"} \subseteq a.flags

Checkers(a) ==
    \/ _matches_rm_rf(a) \/ _matches_find_delete(a) \/ _matches_chmod_777(a)
    \/ _matches_chown_recursive(a) \/ _matches_dd_overwrite(a) \/ _matches_mkfs(a)
    \/ _matches_docker_privileged(a) \/ _matches_docker_host_network(a)
    \/ _matches_docker_socket_mount(a) \/ _matches_docker_exec(a) \/ _matches_mount_umount(a)
    \/ _matches_sudo_su(a) \/ _matches_iptables_ufw(a) \/ _matches_kill_init(a)
    \/ _matches_docker_socket_curl(a) \/ _matches_inline_exec(a)
    \/ _matches_fork_bomb(a) \/ _matches_base64_decode_exec(a) \/ _matches_curl_pipe_sh(a)

detect_dangerous_command(a) == Checkers(canonicalize_command(a))

-----------------------------------------------------------------------------
(* The other refusals *)

NetworkCommands == {"curl", "wget", "git", "npm", "docker", "ssh"}

\* Only the first word is looked at.
_is_network_capable_command(a) == Named(a, NetworkCommands)

\* ResourcePolicy.validate, for the caps on output.
validate(c) ==
    /\ c.stdout > 0 /\ c.stderr > 0 /\ c.output > 0
    /\ c.stdout + c.stderr <= c.output

Refused ==
    \/ detect_dangerous_command(argv)
    \/ network = "deny_all" /\ _is_network_capable_command(argv)
    \/ ~validate(caps)

-----------------------------------------------------------------------------
(* Cancelling *)

publish_cancel ==
    /\ ~published /\ published' = TRUE
    /\ cancelToken' = [cancelToken EXCEPT !.cancelled = @ \/ cancelToken.registered]
    /\ UNCHANGED <<gateVars, workspace, stage, phase, command, outVars, cancelEvent, result>>

\* A cancel published before counts.
register_token ==
    /\ cancelToken.given /\ ~cancelToken.registered /\ stage = "idle"
    /\ cancelToken' = [cancelToken EXCEPT !.registered = TRUE, !.cancelled = @ \/ published]

RegisterToken ==
    /\ register_token
    /\ UNCHANGED <<gateVars, workspace, published, stage, phase, command, outVars, cancelEvent, result>>

-----------------------------------------------------------------------------
(* run_command *)

prepare_workspace ==
    /\ workspace = "absent" /\ workspace' = "present"
    /\ UNCHANGED <<gateVars, cancelVars, stage, phase, command, outVars, cancelEvent, result>>

\* rmtree, whoever is still running in it.
cleanup ==
    /\ workspace = "present" /\ workspace' = "removed"
    /\ UNCHANGED <<gateVars, cancelVars, stage, phase, command, outVars, cancelEvent, result>>

Raise == stage' = "refused"

\* The gates, then the directory, which must resolve to one inside the workspace.
Check ==
    /\ stage = "idle" /\ (cancelToken.given => cancelToken.registered) /\ workspace # "absent"
    /\ \/ (Refused \/ workspace = "removed") /\ Raise
       \/ Raise
       \/ ~Refused /\ workspace = "present" /\ stage' = "exec"
    /\ UNCHANGED <<gateVars, workspace, cancelVars, phase, command, outVars, cancelEvent, result>>

\* The environment has only allowlisted names that are not forbidden (scrub_env); the
\* process gets a session of its own.
create_subprocess_exec ==
    /\ stage = "exec"
    /\ \/ Raise /\ UNCHANGED <<command, drain>>
       \/ /\ workspace = "present"
          /\ stage' = "wait" /\ command' = [command EXCEPT !.leader = "running"]
          /\ drain' = [s \in Streams |-> "reading"]
    /\ UNCHANGED <<gateVars, workspace, cancelVars, phase, written, buffer, capEvent, cancelEvent, result>>

Running == command.leader = "running"

\* One read of a stream: a chunk, which may exceed the stream's or the common cap,
\* or the end, when no process is left to write.
_drain_stream(s) ==
    /\ drain[s] = "reading"
    /\ \/ /\ buffer[s] < written[s]
          /\ buffer' = [buffer EXCEPT ![s] = @ + 1]
          /\ LET over == \/ buffer'[s] > caps[s]
                         \/ buffer'["stdout"] + buffer'["stderr"] > caps.output
             IN  /\ capEvent' = (capEvent \/ over)
                 /\ drain' = IF over THEN [drain EXCEPT ![s] = "ended"] ELSE drain
       \/ /\ buffer[s] = written[s] /\ ~Running /\ command.child # "alive"
          /\ drain' = [drain EXCEPT ![s] = "ended"]
          /\ UNCHANGED <<buffer, capEvent>>
    /\ UNCHANGED <<gateVars, workspace, cancelVars, stage, phase, command, written, cancelEvent, result>>

Draining == \E s \in Streams : _drain_stream(s)

\* The watcher has seen the token.
_cancel_watcher ==
    /\ stage \in {"wait", "cap", "cancel", "timeout"} /\ cancelToken.cancelled /\ ~cancelEvent
    /\ cancelEvent' = TRUE
    /\ UNCHANGED <<gateVars, workspace, cancelVars, stage, phase, command, outVars, result>>

\* asyncio.wait: the process has ended and both streams are drained; the watcher is
\* done, because of the token or, when there is one, because the process has ended;
\* the cap is exceeded; or the time is up.
EndOfWait(timeout) ==
    /\ stage = "wait" /\ stage' = "cap"
    /\ \/ ~timeout /\ ~Running /\ \A s \in Streams : drain[s] = "ended"
       \/ ~timeout /\ cancelToken.given /\ (cancelEvent \/ ~Running)
       \/ ~timeout /\ capEvent
       \/ timeout
    /\ result' = [result EXCEPT !.timeout = timeout]
    /\ UNCHANGED <<gateVars, workspace, cancelVars, phase, command, outVars, cancelEvent>>

\* What asks for a termination at each stage, and the stage that follows.
Calls ==
    CASE stage = "cap" -> capEvent
      [] stage = "cancel" -> cancelEvent
      [] stage = "timeout" -> result.timeout
      [] stage = "capAgain" -> capEvent
      [] stage = "tokenAgain" -> cancelToken.cancelled
      [] OTHER -> FALSE

Following ==
    CASE stage = "cap" -> "cancel"
      [] stage = "cancel" -> "timeout"
      [] stage = "timeout" -> "tasks"
      [] stage = "capAgain" -> "tokenAgain"
      [] OTHER -> "return"

Terminations == {"cap", "cancel", "timeout", "capAgain", "tokenAgain"}

Send(s) == command' = [command EXCEPT !.sent = @ \cup {s}]

\* SIGTERM to the group and two seconds, SIGKILL and one second.
_terminate_process_group ==
    \/ phase = "none" /\ Calls /\ Running /\ phase' = "term" /\ Send("TERM") /\ UNCHANGED stage
    \/ phase = "term" /\ Running /\ phase' = "kill" /\ Send("KILL") /\ UNCHANGED stage
    \/ phase = "term" /\ ~Running /\ phase' = "none" /\ stage' = Following /\ UNCHANGED command
    \/ phase = "kill" /\ phase' = "none" /\ stage' = Following /\ UNCHANGED command

AfterWait ==
    /\ stage \in Terminations
    /\ \/ _terminate_process_group
       \/ /\ phase = "none" /\ ~(Calls /\ Running)
          /\ stage' = Following /\ UNCHANGED <<phase, command>>
    /\ result' = [result EXCEPT !.cancelled =
            \/ @
            \/ stage = "tokenAgain" /\ cancelToken.cancelled
            \/ stage = "cancel" /\ Calls /\ Running,
            !.heard = @ \/ (stage = "tokenAgain" /\ phase = "none" /\ published)]
    /\ UNCHANGED <<gateVars, workspace, cancelVars, outVars, cancelEvent>>

\* The tasks that are still running are cancelled: what they have not read is lost.
CancelTasks ==
    /\ stage = "tasks" /\ stage' = "capAgain"
    /\ drain' = [s \in Streams |-> "ended"]
    /\ UNCHANGED <<gateVars, workspace, cancelVars, phase, command, written, buffer, capEvent,
                   cancelEvent, result>>

ReturnResult ==
    /\ stage = "return" /\ stage' = "returned"
    /\ result' = [result EXCEPT !.exit = command.leader, !.capped = capEvent]
    /\ UNCHANGED <<gateVars, workspace, cancelVars, phase, command, outVars, cancelEvent>>

-----------------------------------------------------------------------------
(* The process: external *)

CommandProcess ==
    /\ Running \/ command.child = "alive"
    /\ \/ /\ \/ Running /\ command.child = "none" /\ command' = [command EXCEPT !.child = "alive"]
             \/ command.child = "alive" /\ command' = [command EXCEPT !.child = "dead"]
             \/ Running /\ command' = [command EXCEPT !.leader = "exited"]
          /\ UNCHANGED written
       \/ /\ \E s \in Streams : written[s] < MaxOut /\ written' = [written EXCEPT ![s] = @ + 1]
          /\ UNCHANGED command
    /\ UNCHANGED <<gateVars, workspace, cancelVars, stage, phase, buffer, drain, capEvent,
                   cancelEvent, result>>

-----------------------------------------------------------------------------

RunnerInit ==
    /\ argv \in Argvs /\ caps \in Caps /\ network \in {"deny_all", "allowlist"}
    /\ workspace = "absent" /\ published = FALSE
    /\ cancelToken \in [given : BOOLEAN, registered : {FALSE}, cancelled : {FALSE}]
    /\ stage = "idle" /\ phase = "none"
    /\ command = [leader |-> "none", child |-> "none", sent |-> {}]
    /\ written = [s \in Streams |-> 0] /\ buffer = [s \in Streams |-> 0]
    /\ drain = [s \in Streams |-> "off"] /\ capEvent = FALSE /\ cancelEvent = FALSE
    /\ result = [exit |-> "none", timeout |-> FALSE, cancelled |-> FALSE, capped |-> FALSE,
                 heard |-> FALSE]

RunnerNext ==
    \/ publish_cancel \/ RegisterToken \/ prepare_workspace \/ cleanup
    \/ Check \/ create_subprocess_exec \/ Draining \/ _cancel_watcher
    \/ \E t \in BOOLEAN : EndOfWait(t)
    \/ AfterWait \/ CancelTasks \/ ReturnResult \/ CommandProcess

RunnerSpec == RunnerInit /\ [][RunnerNext]_runnerVars

-----------------------------------------------------------------------------
(* Properties *)

Stages == {"idle", "refused", "exec", "wait", "tasks", "return", "returned"} \cup Terminations
Commands == [leader : {"none", "running", "exited"}, child : {"none", "alive", "dead"}, sent : SUBSET {"TERM", "KILL"}]
Results == [exit : {"none", "running", "exited"}, timeout : BOOLEAN, cancelled : BOOLEAN, capped : BOOLEAN, heard : BOOLEAN]

\* Types; a drain reads only what was written.
RunnerTypeOK ==
    /\ argv \in Argvs /\ caps \in Caps /\ network \in {"deny_all", "allowlist"}
    /\ workspace \in {"absent", "present", "removed"} /\ published \in BOOLEAN
    /\ cancelToken \in [given : BOOLEAN, registered : BOOLEAN, cancelled : BOOLEAN]
    /\ stage \in Stages /\ phase \in {"none", "term", "kill"} /\ command \in Commands
    /\ written \in [Streams -> 0 .. MaxOut] /\ buffer \in [Streams -> 0 .. MaxOut]
    /\ drain \in [Streams -> {"off", "reading", "ended"}]
    /\ capEvent \in BOOLEAN /\ cancelEvent \in BOOLEAN /\ result \in Results
    /\ \A s \in Streams : buffer[s] <= written[s]

\* What the gates refuse never runs, also behind up to five wrappers that would run it,
\* unless one of them carries an option that hides the command's name; the patterns over
\* the whole text are refused behind any wrappers.
OnlyCleared ==
    command.leader # "none" =>
        /\ argv.wrappers <= 5 /\ argv.option = 0 => ~Checkers([argv EXCEPT !.wrappers = 0])
        /\ ~({"base64 decode", "pipe to shell"} \subseteq argv.flags)
        /\ ~({"download", "pipe to shell"} \subseteq argv.flags) /\ "fork bomb" \notin argv.flags
        /\ network = "deny_all" => ~_is_network_capable_command(argv)

\* When the result is there the process is gone or was sent SIGKILL, whichever of the
\* cap, the cancel and the time limit ended the wait, and in whichever order they came.
ProcessGone == stage = "returned" /\ Running => "KILL" \in command.sent

\* A cancel published before the result is in it, published before or after the token
\* was registered.
CancelReported == stage = "returned" /\ cancelToken.given /\ result.heard => result.cancelled

\* Without token, a result that reports no cap and no time limit counts all output.
OutputComplete ==
    stage = "returned" /\ ~cancelToken.given /\ ~result.timeout /\ ~result.capped
        => result.exit = "exited" /\ buffer = written

\* Never more than one chunk above a cap is kept, and this is reported.
OutputBounded ==
    /\ \A s \in Streams : buffer[s] <= caps[s] + 1
    /\ stage = "returned" => (result.capped <=> \E s \in Streams : buffer[s] > caps[s])

RunnerSound == OnlyCleared /\ ProcessGone /\ CancelReported /\ OutputComplete /\ OutputBounded
=============================================================================
