------------------------------ MODULE MC_Control ------------------------------
(***************************************************************************)
(* Agents' processes, capability tokens and commands on small instances,   *)
(* side by side: part names the instance that is at work, the variables of *)
(* the other components keep their initial values.                         *)
(*   spawn  two calls start one agent on one server, one cannot be killed  *)
(*   reuse  one call, two servers of one host, reboots, pgids used again   *)
(*   race   two sessions redeem one token while secrets change             *)
(*   grant  one session with requests that differ in one binding           *)
(*   cli    a command line agent of one run, cancels for two runs          *)
(*   pair   two plain command line agents of one run, cancels for it       *)
(*   runner one command of the runner, harmless or dangerous, with output  *)
(*   near   one command of the runner that is close to a dangerous one     *)
(***************************************************************************)
EXTENDS ControlPlane, TLC

CONSTANTS
    a1, h1, p1, p2, v1, v2,                       \* agent, host, spawns, servers
    x1, x2, s1, s2, alice, bob,                   \* sessions, secrets, actors
    prod, prod2, shadow, ap1, ap2, tgt, d1, d2,   \* runs, approvals, target, diffs
    c1, c2                                        \* invocations

VARIABLE part

commandVars == <<cliVars, runnerVars>>

-----------------------------------------------------------------------------
(* Managed agents: two spawns of one agent, two servers of one host *)

MCAgentOf == [s \in {p1, p2} |-> a1]
MCHostOf == [v \in {v1, v2} |-> h1]

\* One server has nothing to do, the host stays up, and no pgid is used again.
OneServer ==
    /\ hostBoot' = hostBoot /\ foreign' = foreign
    /\ \E v \in Servers : /\ point'[v] = "subscribe" /\ stopping'[v] = Nothing /\ registered'[v] = {}
                          /\ \A s \in Spawns : by'[s] # v

\* The second spawn is not asked for, there is one pgid, servers stop with their host
\* only, and the stop is not cleared.
OneSpawn ==
    /\ call'[p2] = "idle" /\ crashes' = 0 /\ (engaged => engaged')
    /\ pgid'[p1] \in {1, Nothing} /\ \A f \in foreign' : f[2] = 1

SpawnStep == part = "spawn" /\ Next /\ OneServer /\ UNCHANGED <<part, tokenVars, commandVars>>
ReuseStep == part = "reuse" /\ Next /\ OneSpawn /\ UNCHANGED <<part, tokenVars, commandVars>>

-----------------------------------------------------------------------------
(* Capability tokens *)

MCAllowedOps == s1 :> {"repo.pr_open", "provider.call"} @@ s2 :> {"rotation.read_new", "provider.call"}
MCRunMode == prod :> "production" @@ prod2 :> "production" @@ shadow :> "shadow"
MCSecrets == s1 :> [status |-> "active", material |-> "present"]
          @@ s2 :> [status |-> "pending", material |-> "present"]
MCApprovals ==
    ap1 :> [action_class |-> "pr_open", ref |-> <<"repo.pr_open", tgt>>, run |-> prod, diff |-> d1]
 @@ ap2 :> [action_class |-> "secret_access", ref |-> <<"secret_ref", s2>>, run |-> None, diff |-> None]

Req(actor, run, op, target, payload, appr) ==
    [actor |-> actor, run |-> run, op |-> op, target |-> target, payload |-> payload, approval |-> appr]

OpenPR == Req(alice, prod, "repo.pr_open", tgt, d1, ap1)
ReadNew == Req(alice, None, "rotation.read_new", s2, d2, ap2)
Call == Req(alice, shadow, "provider.call", tgt, d2, None)

\* The rightful requests and ones that differ in one binding.
MCRequests ==
    {OpenPR, [OpenPR EXCEPT !.actor = bob], [OpenPR EXCEPT !.run = shadow],
     [OpenPR EXCEPT !.run = prod2], [OpenPR EXCEPT !.payload = d2],
     [OpenPR EXCEPT !.approval = None], ReadNew, [ReadNew EXCEPT !.target = s1], Call,
     [Call EXCEPT !.approval = ap1]}

MCConsumers == [s \in {s1, s2} |-> {alice}]

\* Two sessions and two requests.
RightfulRequests ==
    /\ issuing' # None => issuing'.ctx \in {OpenPR, ReadNew}
    /\ \A x \in Sessions : sess'[x].req \in {OpenPR, ReadNew, None}

\* One session and all requests; the secret that waits for its rotation stays.
OneSession == (\E x \in Sessions : sess'[x] = IdleSession) /\ secret'[s2] = secret[s2]

RaceStep == part = "race" /\ TokenNext /\ RightfulRequests /\ UNCHANGED <<part, vars, commandVars>>
GrantStep == part = "grant" /\ TokenNext /\ OneSession /\ UNCHANGED <<part, vars, commandVars>>

-----------------------------------------------------------------------------
(* Commands *)

MCRunOf == [c \in {c1, c2} |-> prod]

\* The second invocation is not asked for.
OneInvocation == orch'[c2] = "idle"

\* The second invocation comes after the first; processes without descendants, failures
\* and output of interest, and one cancel that no other server repeats.
Plainly ==
    /\ orch'[c2] # "idle" => orch'[c1] # "idle"
    /\ \A c \in Invocations : /\ agent'[c].child = "none" /\ agent'[c].code # "nonzero"
                              /\ output'[c] = [file |-> "clean", stdout |-> "clean"]
    /\ channel' = {} /\ requests' <= 1 /\ pending' \subseteq {prod} /\ events'[prod2] = "none"

Opted(wrappers, option, name, options) ==
    [wrappers |-> wrappers, option |-> option, name |-> name, flags |-> options]

Argv(wrappers, name, options) == Opted(wrappers, 0, name, options)

\* One vector for every matcher, some behind wrappers.
Dangerous == {
    Argv(0, "rm", {"recursive", "force"}), Argv(5, "rm", {"recursive", "force"}),
    Argv(0, "find", {"delete"}), Argv(1, "find", {"exec"}), Argv(0, "chmod", {"777"}),
    Argv(0, "chown", {"recursive"}), Argv(0, "dd", {"of"}), Argv(2, "mkfs", {}),
    Argv(0, "docker", {"privileged"}), Argv(0, "docker", {"exec"}), Argv(0, "docker", {"socket"}),
    Argv(0, "docker", {"host network"}), Argv(0, "umount", {}), Argv(1, "sudo", {}),
    Argv(0, "ufw", {}), Argv(0, "kill", {"init"}), Argv(0, "curl", {"socket"}),
    Argv(1, "python", {"inline"}), Argv(0, "xargs", {}), Argv(0, "unknown", {"inline"}),
    Argv(0, "echo", {"fork bomb"}), Argv(0, "echo", {"base64 decode", "pipe to shell"}),
    Argv(1, "sh", {"inline group"}), Argv(0, "wget", {"download", "pipe to shell"}),
    Opted(1, 1, "python", {"inline"}), Opted(2, 2, "echo", {"fork bomb"}), Argv(6, "sh", {"inline"})}

\* Harmless ones, and dangerous ones that a wrapper's option or a sixth wrapper hides.
Harmless == {Argv(0, "make", {}), Argv(0, "npm", {}), Argv(0, "rm", {"force"}), Argv(1, "python", {})}
Hidden == {Opted(1, 1, "rm", {"recursive", "force"}), Opted(3, 2, "sh", {"inline group"}),
           Argv(6, "rm", {"recursive", "force"})}

Bytes(out, err, sum) == [stdout |-> out, stderr |-> err, output |-> sum]

MCArgvs == Dangerous \cup Harmless \cup Hidden
MCCaps == {Bytes(1, 1, 2), Bytes(1, 1, 1)}

\* Commands that print at most a line.
OneLine == \A s \in Streams : written'[s] <= 1

ASSUME ControlConstantsOK == ConstantsOK /\ TokenConstantsOK /\ CliConstantsOK /\ RunnerConstantsOK

CliStep == part = "cli" /\ CliNext /\ OneInvocation /\ UNCHANGED <<part, vars, tokenVars, runnerVars>>
PairStep == part = "pair" /\ CliNext /\ Plainly /\ UNCHANGED <<part, vars, tokenVars, runnerVars>>
RunnerStep == part = "runner" /\ RunnerNext /\ UNCHANGED <<part, vars, tokenVars, cliVars>>
NearStep == part = "near" /\ RunnerNext /\ OneLine /\ UNCHANGED <<part, vars, tokenVars, cliVars>>

-----------------------------------------------------------------------------

\* The command of the runner: dangerous or not and without network, close to a dangerous
\* one and without a token, or, when the runner is not at work, harmless.
Command ==
    CASE part = "runner" -> argv \in Dangerous \cup {Argv(0, "make", {})} /\ network = "deny_all"
      [] part = "near" -> argv \in Harmless \cup Hidden /\ caps = Bytes(1, 1, 2) /\ cancelToken.given = FALSE
      [] OTHER -> /\ argv = Argv(0, "make", {}) /\ caps = Bytes(1, 1, 2) /\ network = "deny_all"
                  /\ cancelToken.given = FALSE

MCInit ==
    /\ part \in {"spawn", "reuse", "race", "grant", "cli", "pair", "runner", "near"}
    /\ ControlInit /\ Command

MCNext == SpawnStep \/ ReuseStep \/ RaceStep \/ GrantStep \/ CliStep \/ PairStep
          \/ RunnerStep \/ NearStep

MCSpec == MCInit /\ [][MCNext]_<<part, controlVars>>

Symmetry == Permutations({x1, x2}) \cup Permutations({v1, v2})
=============================================================================
