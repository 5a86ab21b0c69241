---------------------------- MODULE ControlPlane ----------------------------
(***************************************************************************)
(* The parts of the server that start and stop processes or hand out       *)
(* secrets, together: managed agents with the host supervisor, capability  *)
(* tokens, the command line agents of invocations and the commands of the  *)
(* runner.  Each has its own tables, files and processes, so a step of the *)
(* whole is a step of one of them.                                         *)
(***************************************************************************)
EXTENDS ManagedAgents, SecretCapability, CliInvocation, RunnerCommand

controlVars == <<vars, tokenVars, cliVars, runnerVars>>

ControlInit == Init /\ TokenInit /\ CliInit /\ RunnerInit

ControlNext ==
    \/ Next /\ UNCHANGED <<tokenVars, cliVars, runnerVars>>
    \/ TokenNext /\ UNCHANGED <<vars, cliVars, runnerVars>>
    \/ CliNext /\ UNCHANGED <<vars, tokenVars, runnerVars>>
    \/ RunnerNext /\ UNCHANGED <<vars, tokenVars, cliVars>>

ControlSpec == ControlInit /\ [][ControlNext]_controlVars

-----------------------------------------------------------------------------
(* Properties *)

\* Types of the agents' rows, processes, servers and supervisors, and of the
\* tokens, secrets, approvals, redemptions, invocations and commands.
ControlTypeOK == TypeOK /\ TokenTypeOK /\ CliTypeOK /\ RunnerTypeOK

\* Commands end as reported: no accepted cancel is lost, no process outlives the
\* answer unkilled, no credential is in an artifact, nothing dangerous runs, and
\* the output is whole or called cut (launcher.py, orchestrator.py,
\* cancel_propagation.py, runner_adapter.py, dangerous_command.py).
ProcessesSound == InvocationsSound /\ RunnerSound
=============================================================================
