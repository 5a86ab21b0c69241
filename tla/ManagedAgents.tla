---------------------------- MODULE ManagedAgents ----------------------------
(***************************************************************************)
(* Agent processes of one tenant: how an MCP server starts and stops them, *)
(* the managed_agents rows that record them, and the supervisor loop of    *)
(* each server that kills them while the emergency stop is engaged.        *)
(*                                                                         *)
(* A spawn is one transaction under the tenant's advisory lock, so its row *)
(* is visible to others only as "running"; the states "spawning" and       *)
(* "failed" exist only inside the transaction, as call[s].  A process      *)
(* group outlives the server that started it (start_new_session).  The     *)
(* kernel may give a pgid to a new group once the old one is empty.        *)
(***************************************************************************)
EXTENDS Naturals

CONSTANTS
    Spawns,          \* calls of superintendent_agent_start, with their rows
    Agents,          \* agent ids
    AgentOf,         \* the agent id a spawn is called with
    Servers,         \* MCP server processes, each with a supervisor
    Hosts,           \* hosts
    HostOf,          \* host_id of a server
    Pgids,           \* process group ids of a host
    Nothing,         \* no spawn, no server
    BootIdKnown,     \* get_host_boot_id() is not None
    PsutilInstalled, \* _proc_started_at can answer
    Unkillable,      \* spawns whose group refuses the signal (EPERM)
    MaxEngage, MaxCrash, MaxReboot  \* how often each may happen

ConstantsOK ==
    /\ AgentOf \in [Spawns -> Agents]
    /\ HostOf \in [Servers -> Hosts]
    /\ Nothing \notin Spawns \cup Servers
    /\ {BootIdKnown, PsutilInstalled} \subseteq BOOLEAN
    /\ Unkillable \subseteq Spawns
    /\ {MaxEngage, MaxCrash, MaxReboot} \subseteq Nat

VARIABLES
    engaged,    \* the latch: an uncleared superintendent_emergency_stops row
    engages,    \* how often it was engaged
    lock,       \* the spawn whose transaction holds the advisory lock
    latchLock,  \* the server whose kill transaction locked the latch row
    call,       \* where the spawn call stands
    by,         \* the server that runs it
    row,        \* committed managed_agents.state
    group,      \* living members of the spawn's process group
    pgid,       \* managed_agents.process_group_id
    boot,       \* managed_agents.boot_id
    hostBoot,   \* how often the host was booted: its boot_id
    foreign,    \* process groups that are no agent of ours: <<host, pgid, kind>>
    point,      \* where the server's supervisor loop stands
    pubsub,     \* servers subscribed to the Redis wake channel
    todo,       \* rows the kill transaction has listed and not yet handled
    marks,      \* rows it has marked stopped, uncommitted
    registered, \* agents in _active_agents without a process
    handle,     \* _active_agents: the spawn whose process an agent id has
    stopping,   \* the spawn a server's stop tool works on
    stopPoint,  \* where that tool stands
    crashes,    \* how often a server died
    endedBy,    \* history: who committed the row's terminal state
    misfired    \* history: foreign groups the last killpg signalled: <<kind, in the row's boot>>

osVars == <<group, pgid, boot, hostBoot, foreign>>
spawnVars == <<lock, call, by>>
supVars == <<point, pubsub, latchLock, todo, marks>>
stopVars == <<stopping, stopPoint>>
latchVars == <<engaged, engages>>
vars == <<latchVars, spawnVars, row, osVars, supVars, registered, handle,
          stopVars, crashes, endedBy, misfired>>

(* What psutil tells of a foreign group's leader, the process that has the *)
(* group's id: it started within _STARTED_AT_TOLERANCE_SECONDS of a row    *)
(* that names the pgid, or not, or it has exited and members live on.      *)
GroupKinds == {"close", "apart", "headless"}

(* Columns of managed_agents: state (a committed row is never "spawning"   *)
(* or "failed"), host_id through by, process_group_id, boot_id.  Every row *)
(* has agent_run_id NULL, so the unique index on active runs is idle.      *)
ManagedAgentRecord ==
    /\ row \in [Spawns -> {"absent", "running", "stopped"}]
    /\ by \in [Spawns -> Servers \cup {Nothing}]
    /\ pgid \in [Spawns -> Pgids \cup {Nothing}]
    /\ boot \in [Spawns -> 0..MaxReboot]
    /\ \A s \in Spawns : row[s] # "absent" => pgid[s] \in Pgids

TypeOK ==
    /\ ManagedAgentRecord
    /\ engaged \in BOOLEAN /\ engages \in 0..MaxEngage
    /\ lock \in Spawns \cup {Nothing}
    /\ latchLock \in Servers \cup {Nothing}
    /\ call \in [Spawns -> {"idle", "registered", "started", "done", "failed",
                        "lost"}]
    /\ group \in [Spawns -> SUBSET {"leader", "child"}]
    /\ hostBoot \in [Hosts -> 0..MaxReboot]
    /\ foreign \subseteq Hosts \X Pgids \X GroupKinds
    /\ point \in [Servers -> {"down", "subscribe", "poll", "seen", "kill",
                              "wait", "paced"}]
    /\ pubsub \subseteq Servers
    /\ todo \in [Servers -> SUBSET Spawns]
    /\ marks \in [Servers -> SUBSET Spawns]
    /\ registered \in [Servers -> SUBSET Agents]
    /\ handle \in [Servers -> [Agents -> Spawns \cup {Nothing}]]
    /\ stopping \in [Servers -> Spawns \cup {Nothing}]
    /\ stopPoint \in [Servers -> {"idle", "wait", "mark"}]
    /\ crashes \in 0..MaxCrash
    /\ endedBy \in [Spawns -> {"nobody", "stop", "supervisor"}]
    /\ misfired \subseteq GroupKinds \X BOOLEAN

Init ==
    /\ engaged = FALSE /\ engages = 0
    /\ lock = Nothing /\ latchLock = Nothing
    /\ call = [s \in Spawns |-> "idle"]
    /\ by = [s \in Spawns |-> Nothing]
    /\ row = [s \in Spawns |-> "absent"]
    /\ group = [s \in Spawns |-> {}]
    /\ pgid = [s \in Spawns |-> Nothing]
    /\ boot = [s \in Spawns |-> 0]
    /\ hostBoot = [h \in Hosts |-> 0]
    /\ foreign = {}
    /\ point = [v \in Servers |-> "subscribe"]
    /\ pubsub = {}
    /\ todo = [v \in Servers |-> {}]
    /\ marks = [v \in Servers |-> {}]
    /\ registered = [v \in Servers |-> {}]
    /\ handle = [v \in Servers |-> [a \in Agents |-> Nothing]]
    /\ stopping = [v \in Servers |-> Nothing]
    /\ stopPoint = [v \in Servers |-> "idle"]
    /\ crashes = 0
    /\ endedBy = [s \in Spawns |-> "nobody"]
    /\ misfired = {}

Up(v) == point[v] # "down"
Host(s) == HostOf[by[s]]
GetHostBootId(s) == hostBoot[Host(s)]

-----------------------------------------------------------------------------
(* The latch.  Both endpoints hold the advisory lock; clear also writes    *)
(* the latch row, which a kill transaction may have locked.                *)

Engage ==
    /\ ~engaged /\ engages < MaxEngage
    /\ lock = Nothing
    /\ engaged' = TRUE /\ engages' = engages + 1
    /\ UNCHANGED <<spawnVars, row, osVars, supVars, registered, handle,
                   stopVars, crashes, endedBy, misfired>>

Clear ==
    /\ engaged
    /\ lock = Nothing
    /\ latchLock = Nothing
    /\ engaged' = FALSE
    /\ UNCHANGED <<engages, spawnVars, row, osVars, supVars, registered,
                   handle, stopVars, crashes, endedBy, misfired>>

-----------------------------------------------------------------------------
(* Starting an agent.                                                      *)

(* superintendent_agent_register: an entry without a process, made under   *)
(* the lock after the latch was found clear.                               *)
Register(v, a) ==
    /\ Up(v)
    /\ lock = Nothing /\ ~engaged
    /\ handle[v][a] = Nothing
    /\ registered' = [registered EXCEPT ![v] = @ \cup {a}]
    /\ UNCHANGED <<latchVars, spawnVars, row, osVars, supVars, handle,
                   stopVars, crashes, endedBy, misfired>>

(* Mutant: the latch is read without the advisory lock being held.         *)
SpawnBegin_NoLock(s, v) ==
    /\ Up(v) /\ call[s] = "idle"
    /\ ~engaged
    /\ call' = [call EXCEPT ![s] = "registered"]
    /\ by' = [by EXCEPT ![s] = v]
    /\ UNCHANGED <<lock, latchVars, row, osVars, supVars, registered, handle,
                   stopVars, crashes, endedBy, misfired>>

(* Lock, latch check and the spawning row.  An engaged latch denies the    *)
(* call and rolls back, which leaves everything as it was.                 *)
SpawnBegin(s, v) ==
    /\ Up(v) /\ call[s] = "idle"
    /\ lock = Nothing
    /\ ~engaged
    /\ lock' = s
    /\ call' = [call EXCEPT ![s] = "registered"]
    /\ by' = [by EXCEPT ![s] = v]
    /\ UNCHANGED <<latchVars, row, osVars, supVars, registered, handle,
                   stopVars, crashes, endedBy, misfired>>

(* The kernel gives a new group a pgid no living group of the host has.    *)
FreePgid(h, p) ==
    /\ \A k \in GroupKinds : <<h, p, k>> \notin foreign
    /\ \A t \in Spawns : group[t] # {} /\ Host(t) = h => pgid[t] # p

(* Mutant: the process group id is not recorded.                           *)
StartSubprocess_NoPgid(s) ==
    /\ call[s] = "registered"
    /\ group' = [group EXCEPT ![s] = {"leader"}]
    /\ boot' = [boot EXCEPT ![s] = GetHostBootId(s)]
    /\ call' = [call EXCEPT ![s] = "started"]
    /\ handle' = [handle EXCEPT ![by[s]] = [handle[by[s]] EXCEPT ![AgentOf[s]] = s]]
    /\ UNCHANGED <<latchVars, lock, by, row, pgid, hostBoot, foreign, supVars,
                   registered, stopVars, crashes, endedBy, misfired>>

(* create_subprocess_exec, and mark_running inside the transaction; the    *)
(* handle is kept as soon as spawn_agent_managed returns.                  *)
StartSubprocess(s) ==
    /\ call[s] = "registered"
    /\ \E p \in Pgids :
          /\ FreePgid(Host(s), p)
          /\ pgid' = [pgid EXCEPT ![s] = p]
    /\ group' = [group EXCEPT ![s] = {"leader"}]
    /\ boot' = [boot EXCEPT ![s] = GetHostBootId(s)]
    /\ call' = [call EXCEPT ![s] = "started"]
    /\ handle' = [handle EXCEPT ![by[s]] = [handle[by[s]] EXCEPT ![AgentOf[s]] = s]]
    /\ UNCHANGED <<latchVars, lock, by, row, hostBoot, foreign, supVars,
                   registered, stopVars, crashes, endedBy, misfired>>

EndCall(s, outcome) ==
    /\ call' = [call EXCEPT ![s] = outcome]
    /\ lock' = IF lock = s THEN Nothing ELSE lock

(* killpg through the starter's own handle: skipped when the leader is     *)
(* gone, and a refused signal is ignored.                                  *)
KillOwn(s) ==
    group' = IF "leader" \in group[s] /\ s \notin Unkillable
             THEN [group EXCEPT ![s] = {}]
             ELSE group

(* No executable, or the start fails: nothing ran, the row is rolled back. *)
StartFails(s) ==
    /\ call[s] = "registered"
    /\ EndCall(s, "failed")
    /\ UNCHANGED <<latchVars, by, row, osVars, supVars, registered, handle,
                   stopVars, crashes, endedBy, misfired>>

SpawnCommit(s) ==
    /\ call[s] = "started"
    /\ row' = [row EXCEPT ![s] = "running"]
    /\ EndCall(s, "done")
    /\ UNCHANGED <<latchVars, by, osVars, supVars, registered, handle,
                   stopVars, crashes, endedBy, misfired>>

(* The commit is refused: the row is gone, the process is killed.          *)
KillSpawnedOrphan(s) ==
    /\ call[s] = "started"
    /\ KillOwn(s)
    /\ EndCall(s, "failed")
    /\ UNCHANGED <<latchVars, by, row, pgid, boot, hostBoot, foreign, supVars,
                   registered, handle, stopVars, crashes, endedBy, misfired>>

-----------------------------------------------------------------------------
(* Stopping an agent: stop_agent, then the row.                            *)

(* SIGTERM to the group while the leader runs; members may ignore it.  A   *)
(* refused signal raises out of the tool, and nothing is changed.          *)
StopSignal(v, a) ==
    LET s == handle[v][a] IN
    /\ Up(v) /\ s # Nothing /\ stopPoint[v] = "idle"
    /\ call[s] # "started" /\ s \notin Unkillable
    /\ IF "leader" \in group[s]
       THEN \E left \in SUBSET group[s] : group' = [group EXCEPT ![s] = left]
       ELSE group' = group
    /\ stopping' = [stopping EXCEPT ![v] = s]
    /\ stopPoint' = [stopPoint EXCEPT ![v] = "wait"]
    /\ UNCHANGED <<latchVars, spawnVars, row, pgid, boot, hostBoot, foreign,
                   supVars, registered, handle, crashes, endedBy, misfired>>

(* proc.wait returns when the leader has exited; after the grace period    *)
(* the group is sent SIGKILL.                                              *)
StopWait(v) ==
    /\ stopPoint[v] = "wait"
    /\ KillOwn(stopping[v])
    /\ stopPoint' = [stopPoint EXCEPT ![v] = "mark"]
    /\ UNCHANGED <<latchVars, spawnVars, row, pgid, boot, hostBoot, foreign,
                   supVars, registered, handle, stopping, crashes, endedBy,
                   misfired>>

RowLocked(s) == latchLock # Nothing /\ s \in todo[latchLock] \cup marks[latchLock]

(* mark_terminal: only an active row changes.                              *)
MarkTerminal(S, who) ==
    LET hit == {s \in S : row[s] = "running"} IN
    /\ row' = [s \in Spawns |-> IF s \in hit THEN "stopped" ELSE row[s]]
    /\ endedBy' = [s \in Spawns |-> IF s \in hit THEN who ELSE endedBy[s]]

(* The row is terminalized, or that fails and is only logged.              *)
StopMark(v) ==
    /\ stopPoint[v] = "mark"
    /\ \/ ~RowLocked(stopping[v]) /\ MarkTerminal({stopping[v]}, "stop")
       \/ UNCHANGED <<row, endedBy>>
    /\ stopping' = [stopping EXCEPT ![v] = Nothing]
    /\ stopPoint' = [stopPoint EXCEPT ![v] = "idle"]
    /\ UNCHANGED <<latchVars, spawnVars, osVars, supVars, registered, handle,
                   crashes, misfired>>

-----------------------------------------------------------------------------
(* The supervisor loop.                                                    *)

Loop(v, from, to) == point[v] = from /\ point' = [point EXCEPT ![v] = to]

(* Redis answers, or the loop goes on with the database poll alone.        *)
TrySubscribe(v) ==
    /\ Loop(v, "subscribe", "poll")
    /\ pubsub' \in {pubsub, pubsub \cup {v}}
    /\ UNCHANGED <<latchVars, spawnVars, row, osVars, latchLock, todo, marks,
                   registered, handle, stopVars, crashes, endedBy, misfired>>

(* Mutant: a Redis error ends the loop.                                    *)
WaitForWakeOrTimeout_RedisOnly(v) ==
    /\ \/ Loop(v, "wait", "poll") /\ UNCHANGED pubsub
       \/ v \in pubsub /\ Loop(v, "wait", "paced") /\ pubsub' = pubsub \ {v}
    /\ UNCHANGED <<latchVars, spawnVars, row, osVars, latchLock, todo, marks,
                   registered, handle, stopVars, crashes, endedBy, misfired>>

(* A wake message and a timeout both lead to a poll; a Redis error drops   *)
(* the subscription and paces the next poll.                               *)
WaitForWakeOrTimeout(v) ==
    /\ \/ Loop(v, "wait", "poll") /\ UNCHANGED pubsub
       \/ v \in pubsub /\ Loop(v, "wait", "paced") /\ pubsub' = pubsub \ {v}
       \/ Loop(v, "paced", "poll") /\ UNCHANGED pubsub
    /\ UNCHANGED <<latchVars, spawnVars, row, osVars, latchLock, todo, marks,
                   registered, handle, stopVars, crashes, endedBy, misfired>>

(* _engaged_tenant_ids, in a session of its own.                           *)
EngagedTenantIds(v) ==
    /\ Loop(v, "poll", IF engaged THEN "seen" ELSE "wait")
    /\ UNCHANGED <<latchVars, spawnVars, row, osVars, pubsub, latchLock, todo,
                   marks, registered, handle, stopVars, crashes, endedBy,
                   misfired>>

(* The kill transaction re-reads the latch FOR UPDATE, and lists the       *)
(* active rows of its own host.                                            *)
KillBegin(v) ==
    /\ latchLock = Nothing
    /\ IF engaged
       THEN /\ Loop(v, "seen", "kill")
            /\ latchLock' = v
            /\ todo' = [todo EXCEPT
                           ![v] = {s \in Spawns : row[s] = "running"
                                                  /\ Host(s) = HostOf[v]}]
       ELSE Loop(v, "seen", "wait") /\ UNCHANGED <<latchLock, todo>>
    /\ UNCHANGED <<latchVars, spawnVars, row, osVars, pubsub, marks, registered,
                   handle, stopVars, crashes, endedBy, misfired>>

(* _killable: the boot ids are compared when both are known.               *)
Killable(s) == BootIdKnown => boot[s] = GetHostBootId(s)

(* Groups that have the row's pgid on its host now.                        *)
HoldersOf(s) == {t \in Spawns : group[t] # {} /\ Host(t) = Host(s)
                                /\ pgid[t] = pgid[s]}

(* Foreign groups that have it.                                            *)
ForeignOf(s) == {f \in foreign : f[1] = Host(s) /\ f[2] = pgid[s]}

(* _started_at_consistent: a leader that started at another time leads     *)
(* another group; near are the spawns that started within the tolerance.   *)
(* No answer (no psutil, no such process) counts as consistent.            *)
StartedAtConsistent(s, near) ==
    PsutilInstalled =>
        /\ \A f \in ForeignOf(s) : f[3] # "apart"
        /\ \A t \in HoldersOf(s) : "leader" \in group[t] => t \in near \cup {s}

Skip(v, s) ==
    /\ todo' = [todo EXCEPT ![v] = @ \ {s}]
    /\ UNCHANGED <<marks, group, foreign, misfired>>

Misfires(s) == {<<f[3], boot[s] = GetHostBootId(s)>> : f \in ForeignOf(s)}

(* Mutant: EPERM is taken for a dead process.                              *)
Killpg_EpermIsGone(v, s) ==
    /\ todo' = [todo EXCEPT ![v] = @ \ {s}]
    /\ marks' = [marks EXCEPT ![v] = @ \cup {s}]
    /\ group' = [t \in Spawns |-> IF t \in HoldersOf(s) \ Unkillable
                                  THEN {} ELSE group[t]]
    /\ foreign' = foreign \ ForeignOf(s)
    /\ misfired' = Misfires(s)

(* killpg reaches whatever group has the pgid now (KILLED), or none        *)
(* (ALREADY_GONE): the row is marked.  EPERM (STILL_ALIVE): it is not.     *)
Killpg(v, s) ==
    IF HoldersOf(s) \cap Unkillable # {}
    THEN Skip(v, s)
    ELSE /\ todo' = [todo EXCEPT ![v] = @ \ {s}]
         /\ marks' = [marks EXCEPT ![v] = @ \cup {s}]
         /\ group' = [t \in Spawns |-> IF t \in HoldersOf(s) THEN {} ELSE group[t]]
         /\ foreign' = foreign \ ForeignOf(s)
         /\ misfired' = Misfires(s)

KillOne(v, s) ==
    /\ point[v] = "kill" /\ s \in todo[v]
    /\ \E near \in SUBSET HoldersOf(s) :
          IF Killable(s) /\ StartedAtConsistent(s, near) THEN Killpg(v, s) ELSE Skip(v, s)
    /\ UNCHANGED <<latchVars, spawnVars, row, pgid, boot, hostBoot, point,
                   pubsub, latchLock, registered, handle, stopVars, crashes,
                   endedBy>>

KillEnd(v) ==
    /\ Loop(v, "kill", "wait")
    /\ latchLock' = IF latchLock = v THEN Nothing ELSE latchLock
    /\ todo' = [todo EXCEPT ![v] = {}]
    /\ marks' = [marks EXCEPT ![v] = {}]

KillCommit(v) ==
    /\ todo[v] = {}
    /\ KillEnd(v)
    /\ MarkTerminal(marks[v], "supervisor")
    /\ UNCHANGED <<latchVars, spawnVars, osVars, pubsub, registered, handle,
                   stopVars, crashes, misfired>>

(* An exception of the database ends this poll; _poll swallows it.         *)
PollError(v) ==
    /\ KillEnd(v)
    /\ UNCHANGED <<latchVars, spawnVars, row, osVars, pubsub, registered,
                   handle, stopVars, crashes, endedBy, misfired>>

-----------------------------------------------------------------------------
(* Servers, hosts and processes on their own.                              *)

(* Everything the processes of S hold is lost; open transactions end.      *)
Die(S) ==
    /\ point' = [v \in Servers |-> IF v \in S THEN "down" ELSE point[v]]
    /\ pubsub' = pubsub \ S
    /\ todo' = [v \in Servers |-> IF v \in S THEN {} ELSE todo[v]]
    /\ marks' = [v \in Servers |-> IF v \in S THEN {} ELSE marks[v]]
    /\ latchLock' = IF latchLock \in S THEN Nothing ELSE latchLock
    /\ registered' = [v \in Servers |-> IF v \in S THEN {} ELSE registered[v]]
    /\ handle' = [v \in Servers |-> IF v \in S THEN [a \in Agents |-> Nothing]
                                    ELSE handle[v]]
    /\ stopping' = [v \in Servers |-> IF v \in S THEN Nothing ELSE stopping[v]]
    /\ stopPoint' = [v \in Servers |-> IF v \in S THEN "idle" ELSE stopPoint[v]]
    /\ call' = [s \in Spawns |->
                  IF by[s] \in S /\ call[s] \in {"registered", "started"}
                  THEN "lost" ELSE call[s]]
    /\ lock' = IF lock # Nothing /\ by[lock] \in S THEN Nothing ELSE lock

Crash(v) ==
    /\ Up(v) /\ crashes < MaxCrash
    /\ crashes' = crashes + 1
    /\ Die({v})
    /\ UNCHANGED <<latchVars, by, row, osVars, endedBy, misfired>>

Restart(v) ==
    /\ Loop(v, "down", "subscribe")
    /\ UNCHANGED <<latchVars, spawnVars, row, osVars, pubsub, latchLock, todo,
                   marks, registered, handle, stopVars, crashes, endedBy,
                   misfired>>

Reboot(h) ==
    /\ hostBoot[h] < MaxReboot
    /\ hostBoot' = [hostBoot EXCEPT ![h] = @ + 1]
    /\ group' = [s \in Spawns |-> IF call[s] # "idle" /\ Host(s) = h
                                  THEN {} ELSE group[s]]
    /\ foreign' = {f \in foreign : f[1] # h}
    /\ Die({v \in Servers : HostOf[v] = h})
    /\ UNCHANGED <<latchVars, by, row, pgid, boot, crashes, endedBy, misfired>>

(* A leader starts a child; a process exits.                               *)
Process(s) ==
    /\ \/ "leader" \in group[s] /\ group' = [group EXCEPT ![s] = @ \cup {"child"}]
       \/ \E m \in group[s] : group' = [group EXCEPT ![s] = @ \ {m}]
    /\ UNCHANGED <<latchVars, spawnVars, row, pgid, boot, hostBoot, foreign,
                   supVars, registered, handle, stopVars, crashes, endedBy,
                   misfired>>

(* A foreign group starts, is left by its leader, or ends.                 *)
ForeignProcess(h, p) ==
    /\ \/ FreePgid(h, p) /\ \E k \in {"close", "apart"} : foreign' = foreign \cup {<<h, p, k>>}
       \/ \E k \in GroupKinds : /\ <<h, p, k>> \in foreign
                            /\ \E left \in {{}, {<<h, p, "headless">>}} :
                                  foreign' = (foreign \ {<<h, p, k>>}) \cup left
    /\ UNCHANGED <<latchVars, spawnVars, row, group, pgid, boot, hostBoot,
                   supVars, registered, handle, stopVars, crashes, endedBy,
                   misfired>>

Spawn(s) ==
    \/ \E v \in Servers : SpawnBegin(s, v)
    \/ StartSubprocess(s) \/ StartFails(s)
    \/ SpawnCommit(s) \/ KillSpawnedOrphan(s)

Stop(v) == (\E a \in Agents : StopSignal(v, a)) \/ StopWait(v) \/ StopMark(v)

Supervise(v) ==
    \/ TrySubscribe(v) \/ WaitForWakeOrTimeout(v) \/ EngagedTenantIds(v)
    \/ KillBegin(v) \/ (\E s \in Spawns : KillOne(v, s)) \/ KillCommit(v)

Next ==
    \/ Engage \/ Clear
    \/ \E s \in Spawns : Spawn(s) \/ Process(s)
    \/ \E v \in Servers : \/ Stop(v) \/ Supervise(v) \/ PollError(v)
                          \/ Crash(v) \/ Restart(v)
                          \/ \E a \in Agents : Register(v, a)
    \/ \E h \in Hosts : Reboot(h) \/ \E p \in Pgids : ForeignProcess(h, p)

Spec == Init /\ [][Next]_vars

(* One pass of the supervisor's loop up to its kill transaction.           *)
Poll(v) ==
    \/ TrySubscribe(v) \/ WaitForWakeOrTimeout(v) \/ EngagedTenantIds(v) \/ KillBegin(v)

-----------------------------------------------------------------------------
(* Properties.                                                             *)

(* While the stop is engaged no agent process starts and no agent is       *)
(* registered: a spawn that passed the latch check commits, with its       *)
(* process recorded, before an engage can (A-1 ordering).                  *)
NothingStarts ==
    engaged /\ engaged' =>
        /\ \A s \in Spawns : group[s] = {} => group'[s] = {}
        /\ \A v \in Servers : registered'[v] \subseteq registered[v]

(* A row the supervisor ended has no living process: a process that cannot *)
(* be signalled, or a kill that is not committed, never ends up as stopped.*)
SupervisorStopIsFinal ==
    \A s \in Spawns : endedBy[s] = "supervisor" => group[s] = {}

(* The supervisor signals only while the stop is engaged: agents started   *)
(* after a clear are not killed by a poll that began before it.            *)
KillsOnlyEngaged ==
    \A v \in Servers : marks'[v] \ marks[v] # {} => engaged

(* A process group that is no agent of ours is signalled only where        *)
(* nothing tells it from the agent: its leader has exited, so psutil has   *)
(* no start to compare, or started within the tolerance; and where boot    *)
(* ids are known, only in the boot of the row.                             *)
SignalsForeignOnlyUnseen ==
    \A f \in misfired : (PsutilInstalled => f[1] # "apart") /\ (BootIdKnown => f[2])

(* What the supervisor does to processes is right (supervisor.py): a row   *)
(* it ended has no living process, and, although pgids are used again, a   *)
(* group that is no agent of ours is signalled only where its leader has   *)
(* exited or started within the tolerance, and in the boot of the row.     *)
KillsSound == SupervisorStopIsFinal /\ SignalsForeignOnlyUnseen

(* The latch rules the agents, whatever servers and supervisors do: none   *)
(* starts while the stop is engaged (server.py, the A-1 ordering), and the *)
(* supervisor signals only while it is.                                    *)
LatchRulesAgents == [][NothingStarts /\ KillsOnlyEngaged]_vars

(* A recorded process is killed after an engage, whatever happens to the   *)
(* server, to Redis or to single polls, unless the stop is cleared or the  *)
(* stop tool ends the row first.                                           *)
EngageKillsRecorded ==
    \A s \in Spawns \ Unkillable :
       (engaged /\ row[s] = "running")
          ~> (group[s] = {} \/ ~engaged \/ endedBy[s] = "stop")

=============================================================================
