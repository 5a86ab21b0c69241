------------------------- MODULE ControlPlane_proofs -------------------------
(***************************************************************************)
(* Proofs for ManagedAgents (any number of spawns, servers, hosts and      *)
(* process group ids, crashes and reboots at any moment), for              *)
(* SecretCapability (any tokens, sessions, secrets, requests and           *)
(* approvals), and for the control plane they are part of.                 *)
(***************************************************************************)
EXTENDS ControlPlane, Processes_proofs

(* Managed agents *)

\* A spawn call between its latch check and its end holds the advisory lock; whoever
\* holds it found the latch clear, and engage waits for it.
LockInv ==
    /\ \A s \in Spawns : call[s] \in {"registered", "started"} => lock = s
    /\ lock # Nothing => ~engaged

\* The server that kills holds the latch row, and clear waits for it.
LatchRowInv ==
    /\ \A v \in Servers : point[v] = "kill" => latchLock = v
    /\ latchLock # Nothing => engaged

\* A row is there only once its spawn call is over, so its process group cannot come to
\* life again; the groups of rows marked, and of rows ended by a supervisor, are empty.
RowInv ==
    /\ \A s \in Spawns : row[s] # "absent" => call[s] = "done"
    /\ \A v \in Servers : /\ \A s \in todo[v] : row[s] # "absent"
                          /\ \A s \in marks[v] : row[s] # "absent" /\ group[s] = {}
    /\ \A s \in Spawns : endedBy[s] = "supervisor" => row[s] # "absent" /\ group[s] = {}

\* A call that has begun knows its server; one that has started its process its group id.
CallInv ==
    \A s \in Spawns : /\ call[s] # "idle" => by[s] \in Servers
                      /\ call[s] \in {"started", "done"} => pgid[s] \in Pgids

\* A stop tool at work has its spawn.
StopInv == \A v \in Servers : stopPoint[v] # "idle" => stopping[v] \in Spawns

AgentInv == TypeOK /\ LockInv /\ LatchRowInv /\ RowInv /\ CallInv /\ StopInv

-----------------------------------------------------------------------------

LEMMA AgentInitInv == ConstantsOK /\ Init => AgentInv
<1> SUFFICES ASSUME ConstantsOK, Init PROVE AgentInv
  OBVIOUS
<1>1. TypeOK
  <2>1. {MaxEngage, MaxCrash, MaxReboot} \subseteq Nat
    BY DEF ConstantsOK
  <2>2. ManagedAgentRecord /\ hostBoot \in [Hosts -> 0..MaxReboot]
    BY <2>1 DEF Init, ManagedAgentRecord
  <2>3. engaged \in BOOLEAN /\ misfired = {}
    BY DEF Init
  <2>4. engages \in 0..MaxEngage /\ crashes \in 0..MaxCrash
    BY <2>1 DEF Init
  <2>5. handle \in [Servers -> [Agents -> Spawns \cup {Nothing}]]
    BY DEF Init
  <2> QED
    BY <2>2, <2>3, <2>4, <2>5 DEF Init, TypeOK
<1>2. LockInv /\ LatchRowInv /\ RowInv /\ CallInv /\ StopInv
  BY DEF Init, LockInv, LatchRowInv, RowInv, CallInv, StopInv
<1> QED
  BY <1>1, <1>2 DEF AgentInv

\* Processes end, none begins.
Shrinks ==
    /\ group' \in [Spawns -> SUBSET {"leader", "child"}]
    /\ \A t \in Spawns : group'[t] \subseteq group[t]

LEMMA ShrinkOne ==
    ASSUME group \in [Spawns -> SUBSET {"leader", "child"}], NEW s \in Spawns,
           NEW left \in SUBSET group[s], group' = [group EXCEPT ![s] = left]
    PROVE  Shrinks
BY DEF Shrinks

LEMMA ShrinkSome ==
    ASSUME group \in [Spawns -> SUBSET {"leader", "child"}], NEW S,
           group' = [t \in Spawns |-> IF t \in S THEN {} ELSE group[t]]
    PROVE  Shrinks
BY DEF Shrinks

LEMMA ShrinkNone ==
    ASSUME group \in [Spawns -> SUBSET {"leader", "child"}], group' = group
    PROVE  Shrinks
BY DEF Shrinks

LEMMA StepInv == ASSUME ConstantsOK, AgentInv, [Next]_vars PROVE AgentInv'
<1> USE DEF ConstantsOK, AgentInv, TypeOK, ManagedAgentRecord, LockInv, LatchRowInv, RowInv, CallInv, StopInv,
        osVars, spawnVars, supVars, stopVars, latchVars
<1>1. CASE Engage
  BY <1>1 DEF Engage
<1>2. CASE Clear
  BY <1>2 DEF Clear
<1>3. ASSUME NEW v \in Servers, NEW a \in Agents, Register(v, a) PROVE AgentInv'
  BY <1>3 DEF Register
<1>4. ASSUME NEW s \in Spawns, NEW v \in Servers, SpawnBegin(s, v) PROVE AgentInv'
  BY <1>4 DEF SpawnBegin
<1>5. ASSUME NEW s \in Spawns, StartSubprocess(s) PROVE AgentInv'
  BY <1>5 DEF StartSubprocess, GetHostBootId, Host
<1>6. ASSUME NEW s \in Spawns, StartFails(s) PROVE AgentInv'
  BY <1>6 DEF StartFails, EndCall
<1>7. ASSUME NEW s \in Spawns, SpawnCommit(s) PROVE AgentInv'
  BY <1>7 DEF SpawnCommit, EndCall
<1>8. ASSUME NEW s \in Spawns, KillSpawnedOrphan(s) PROVE AgentInv'
  BY <1>8 DEF KillSpawnedOrphan, KillOwn, EndCall
<1>9. ASSUME NEW v \in Servers, NEW a \in Agents, StopSignal(v, a) PROVE AgentInv'
  <2>1. Shrinks
    <3>1. group' = group \/ \E left \in SUBSET group[handle[v][a]] : group' = [group EXCEPT ![handle[v][a]] = left]
      BY <1>9 DEF StopSignal
    <3>2. handle[v][a] \in Spawns
      BY <1>9 DEF StopSignal
    <3>3. group \in [Spawns -> SUBSET {"leader", "child"}]
      OBVIOUS
    <3> HIDE DEF AgentInv, TypeOK
    <3> QED
      BY <3>1, <3>2, <3>3, ShrinkOne, ShrinkNone
  <2> QED
    BY <1>9, <2>1 DEF StopSignal, Shrinks
<1>10. ASSUME NEW v \in Servers, StopWait(v) PROVE AgentInv'
  <2>1. Shrinks
    <3>1. group' = group \/ group' = [group EXCEPT ![stopping[v]] = {}]
      BY <1>10 DEF StopWait, KillOwn
    <3>2. stopping[v] \in Spawns /\ {} \in SUBSET group[stopping[v]]
      BY <1>10 DEF StopWait
    <3>3. group \in [Spawns -> SUBSET {"leader", "child"}]
      OBVIOUS
    <3> HIDE DEF AgentInv, TypeOK
    <3> QED
      BY <3>1, <3>2, <3>3, ShrinkOne, ShrinkNone
  <2> QED
    BY <1>10, <2>1 DEF StopWait, Shrinks
<1>11. ASSUME NEW v \in Servers, StopMark(v) PROVE AgentInv'
  <2>1. /\ row' \in [Spawns -> {"absent", "running", "stopped"}]
        /\ endedBy' \in [Spawns -> {"nobody", "stop", "supervisor"}]
        /\ \A s \in Spawns : row'[s] = "absent" <=> row[s] = "absent"
        /\ \A s \in Spawns : endedBy'[s] = "supervisor" => endedBy[s] = "supervisor"
    BY <1>11 DEF StopMark, MarkTerminal
  <2>2. /\ stopping' = [stopping EXCEPT ![v] = Nothing] /\ stopPoint' = [stopPoint EXCEPT ![v] = "idle"]
        /\ UNCHANGED <<latchVars, spawnVars, osVars, supVars, registered, handle, crashes, misfired>>
    BY <1>11 DEF StopMark
  <2> QED
    BY <2>1, <2>2
<1>12. ASSUME NEW v \in Servers,
              TrySubscribe(v) \/ WaitForWakeOrTimeout(v) \/ EngagedTenantIds(v) \/ Restart(v)
       PROVE  AgentInv'
  <2>1. /\ UNCHANGED <<latchVars, spawnVars, row, osVars, latchLock, todo, marks, registered, handle,
                        stopVars, crashes, endedBy, misfired>>
        /\ pubsub' \subseteq Servers
    BY <1>12 DEF TrySubscribe, WaitForWakeOrTimeout, EngagedTenantIds, Restart
  <2>2. \E p \in {"subscribe", "poll", "seen", "wait", "paced"} : point' = [point EXCEPT ![v] = p]
    BY <1>12 DEF TrySubscribe, WaitForWakeOrTimeout, EngagedTenantIds, Restart, Loop
  <2> QED
    BY <2>1, <2>2
<1>13. ASSUME NEW v \in Servers, KillBegin(v) PROVE AgentInv'
  <2>1. CASE engaged
    <3> DEFINE S == {s \in Spawns : row[s] = "running" /\ Host(s) = HostOf[v]}
    <3>1. /\ todo' = [todo EXCEPT ![v] = S]
          /\ point' = [point EXCEPT ![v] = "kill"] /\ latchLock' = v /\ latchLock = Nothing
      BY <1>13, <2>1 DEF KillBegin, Loop
    <3>2. S \subseteq Spawns /\ \A s \in S : row[s] # "absent"
      OBVIOUS
    <3> HIDE DEF S
    <3> QED
      BY <1>13, <3>1, <3>2 DEF KillBegin
  <2>2. CASE ~engaged
    <3>1. /\ UNCHANGED <<latchLock, todo>> /\ point' = [point EXCEPT ![v] = "wait"]
          /\ UNCHANGED <<latchVars, spawnVars, row, osVars, pubsub, marks, registered, handle, stopVars,
                         crashes, endedBy, misfired>>
      BY <1>13, <2>2 DEF KillBegin, Loop
    <3> QED
      BY <3>1
  <2> QED
    BY <2>1, <2>2
<1>14. ASSUME NEW v \in Servers, NEW s \in Spawns, KillOne(v, s) PROVE AgentInv'
  <2>1. UNCHANGED <<latchVars, spawnVars, row, pgid, boot, hostBoot, point, pubsub, latchLock,
                    registered, handle, stopVars, crashes, endedBy>>
    BY <1>14 DEF KillOne
  <2>2. s \in todo[v] /\ todo' = [todo EXCEPT ![v] = @ \ {s}]
    BY <1>14 DEF KillOne, Skip, Killpg
  <2>3. Shrinks /\ foreign' \subseteq foreign
    <3>1. /\ group' = group \/ group' = [t \in Spawns |-> IF t \in HoldersOf(s) THEN {} ELSE group[t]]
          /\ foreign' \subseteq foreign
      BY <1>14 DEF KillOne, Skip, Killpg
    <3>2. group \in [Spawns -> SUBSET {"leader", "child"}]
      OBVIOUS
    <3> HIDE DEF AgentInv, TypeOK
    <3> QED
      BY <3>1, <3>2, ShrinkSome, ShrinkNone
  <2>4. \/ marks' = marks
        \/ marks' = [marks EXCEPT ![v] = @ \cup {s}] /\ group'[s] = {}
    <3>1. \/ marks' = marks
          \/ /\ marks' = [marks EXCEPT ![v] = @ \cup {s}]
             /\ group' = [t \in Spawns |-> IF t \in HoldersOf(s) THEN {} ELSE group[t]]
      BY <1>14 DEF KillOne, Skip, Killpg
    <3>2. group' = [t \in Spawns |-> IF t \in HoldersOf(s) THEN {} ELSE group[t]] => group'[s] = {}
      <4> HIDE DEF AgentInv, TypeOK
      <4> QED
        BY DEF HoldersOf
    <3> QED
      BY <3>1, <3>2
  <2>5. misfired' \subseteq GroupKinds \X BOOLEAN
    <3>1. misfired \subseteq GroupKinds \X BOOLEAN /\ foreign \subseteq Hosts \X Pgids \X GroupKinds
      OBVIOUS
    <3> HIDE DEF AgentInv, TypeOK
    <3>2. \A f \in foreign : f[3] \in GroupKinds
      BY <3>1
    <3>3. Misfires(s) \subseteq GroupKinds \X BOOLEAN
      <4> DEFINE same == boot[s] = GetHostBootId(s)
                 B == BOOLEAN
      <4>1. same \in B /\ Misfires(s) = {<<f[3], same>> : f \in ForeignOf(s)}
        BY DEF Misfires
      <4> HIDE DEF same, B
      <4>2. Misfires(s) \subseteq GroupKinds \X B
        BY <3>2, <4>1 DEF ForeignOf
      <4> QED
        BY <4>2 DEF B
    <3> QED
      BY <1>14, <3>1, <3>3 DEF KillOne, Skip, Killpg
  <2> QED
    <3>1. \A w \in Servers : \A t \in todo'[w] : t \in todo[w]
      BY <2>2
    <3>2. \A w \in Servers : \A t \in marks'[w] : t \in marks[w] \/ (t = s /\ group'[s] = {})
      <4>1. marks \in [Servers -> SUBSET Spawns]
        OBVIOUS
      <4> HIDE DEF AgentInv, TypeOK
      <4> QED
        BY <2>4, <4>1
    <3>3. RowInv'
      BY <2>1, <2>2, <2>3, <3>1, <3>2 DEF Shrinks
    <3>4. LockInv' /\ LatchRowInv' /\ CallInv' /\ StopInv'
      BY <2>1
    <3>5. TypeOK'
      <4>1. todo' \in [Servers -> SUBSET Spawns] /\ marks' \in [Servers -> SUBSET Spawns]
        <5>1. marks \in [Servers -> SUBSET Spawns] /\ todo \in [Servers -> SUBSET Spawns]
          OBVIOUS
        <5> HIDE DEF AgentInv, TypeOK
        <5>2. todo' \in [Servers -> SUBSET Spawns]
          BY <2>2, <5>1
        <5>3. marks' \in [Servers -> SUBSET Spawns]
          BY <2>4, <5>1
        <5> QED
          BY <5>2, <5>3
      <4> QED
        BY <2>1, <2>3, <2>5, <4>1 DEF Shrinks
    <3> QED
      BY <3>3, <3>4, <3>5
<1>15. ASSUME NEW v \in Servers, KillCommit(v) PROVE AgentInv'
  BY <1>15 DEF KillCommit, KillEnd, Loop, MarkTerminal
<1>16. ASSUME NEW v \in Servers, PollError(v) PROVE AgentInv'
  BY <1>16 DEF PollError, KillEnd, Loop
<1>17. ASSUME NEW v \in Servers, Crash(v) PROVE AgentInv'
  BY <1>17 DEF Crash, Die
<1>18. ASSUME NEW h \in Hosts, Reboot(h) PROVE AgentInv'
  BY <1>18 DEF Reboot, Die
<1>19. ASSUME NEW s \in Spawns, Process(s) PROVE AgentInv'
  <2>1. /\ group' \in [Spawns -> SUBSET {"leader", "child"}]
        /\ \A t \in Spawns : group[t] = {} => group'[t] = {}
    <3>1. CASE "leader" \in group[s] /\ group' = [group EXCEPT ![s] = @ \cup {"child"}]
      BY <3>1
    <3>2. ASSUME NEW m \in group[s], group' = [group EXCEPT ![s] = @ \ {m}]
          PROVE  <2>1!1
      BY <3>2
    <3> QED
      <4>1. \/ "leader" \in group[s] /\ group' = [group EXCEPT ![s] = @ \cup {"child"}]
            \/ \E m \in group[s] : group' = [group EXCEPT ![s] = @ \ {m}]
        BY <1>19 DEF Process
      <4> HIDE DEF AgentInv, TypeOK
      <4> QED
        BY <3>1, <3>2, <4>1
  <2> QED
    BY <1>19, <2>1 DEF Process
<1>20. ASSUME NEW h \in Hosts, NEW p \in Pgids, ForeignProcess(h, p) PROVE AgentInv'
  <2>1. foreign' \subseteq Hosts \X Pgids \X GroupKinds
    <3>1. foreign \subseteq Hosts \X Pgids \X GroupKinds
      OBVIOUS
    <3> HIDE DEF AgentInv, TypeOK
    <3> QED
      BY <1>20, <3>1 DEF ForeignProcess, GroupKinds
  <2> QED
    BY <1>20, <2>1 DEF ForeignProcess
<1>21. CASE UNCHANGED vars
  BY <1>21 DEF vars
<1> QED
  BY <1>1, <1>2, <1>3, <1>4, <1>5, <1>6, <1>7, <1>8, <1>9, <1>10, <1>11, <1>12, <1>13, <1>14,
     <1>15, <1>16, <1>17, <1>18, <1>19, <1>20, <1>21 DEF Next, Spawn, Stop, Supervise

LEMMA AgentInductive == ConstantsOK => (Spec => []AgentInv)
<1> SUFFICES ASSUME ConstantsOK PROVE Spec => []AgentInv
  OBVIOUS
<1>1. Init => AgentInv
  BY AgentInitInv
<1>2. AgentInv /\ [Next]_vars => AgentInv'
  BY StepInv
<1> QED
  BY <1>1, <1>2, PTL DEF Spec

\* The rows of managed_agents, the processes, the latch and the states of servers,
\* supervisors and stop tools are always of their kinds, and a row has a process group id.
THEOREM AgentTypes == ConstantsOK => (Spec => []TypeOK)
<1> SUFFICES ASSUME ConstantsOK PROVE Spec => []TypeOK
  OBVIOUS
<1>1. AgentInv => TypeOK
  BY DEF AgentInv
<1> QED
  BY <1>1, AgentInductive, PTL

\* A row that a supervisor has ended (supervisor.py, mark_terminal after killpg) has no
\* living process, whatever crashes, reboots or failed polls there were; and a process
\* group that is not an agent's is signalled only where psutil is missing, its leader has
\* exited or started within the tolerance of the row, and never, where boot ids are known,
\* in another boot than the row's.
THEOREM KillSafety == ConstantsOK => (Spec => []KillsSound)
<1> SUFFICES ASSUME ConstantsOK PROVE Spec => []KillsSound
  OBVIOUS
<1>1. Init => SignalsForeignOnlyUnseen
  BY DEF Init, SignalsForeignOnlyUnseen
<1>2. ASSUME AgentInv, SignalsForeignOnlyUnseen, [Next]_vars
      PROVE  SignalsForeignOnlyUnseen'
  <2>1. ASSUME NEW v \in Servers, NEW s \in Spawns, KillOne(v, s) PROVE SignalsForeignOnlyUnseen'
    <3>1. PICK near : IF Killable(s) /\ StartedAtConsistent(s, near) THEN Killpg(v, s) ELSE Skip(v, s)
      BY <2>1 DEF KillOne
    <3>2. CASE Killable(s) /\ StartedAtConsistent(s, near)
      <4>1. misfired' \subseteq misfired \cup Misfires(s)
        BY <3>1, <3>2 DEF Killpg, Skip
      <4>2. ASSUME NEW f \in Misfires(s) PROVE (PsutilInstalled => f[1] # "apart") /\ (BootIdKnown => f[2])
        <5> DEFINE same == boot[s] = GetHostBootId(s)
        <5>1. (BootIdKnown => same) /\ Misfires(s) = {<<g[3], same>> : g \in ForeignOf(s)}
          BY <3>2 DEF Misfires, Killable
        <5>2. PsutilInstalled => \A g \in ForeignOf(s) : g[3] # "apart"
          BY <3>2 DEF StartedAtConsistent
        <5> HIDE DEF same
        <5>3. PICK g \in ForeignOf(s) : f = <<g[3], same>>
          BY <5>1
        <5>4. f[1] = g[3] /\ f[2] = same
          BY <5>3
        <5> QED
          BY <5>1, <5>2, <5>4
      <4> QED
        BY <1>2, <4>1, <4>2 DEF SignalsForeignOnlyUnseen
    <3>3. CASE ~(Killable(s) /\ StartedAtConsistent(s, near))
      BY <1>2, <3>1, <3>3 DEF Skip, SignalsForeignOnlyUnseen
    <3> QED
      BY <3>2, <3>3
  <2>2. misfired' = misfired \/ \E v \in Servers, s \in Spawns : KillOne(v, s)
    BY <1>2 DEF Next, Engage, Clear, Spawn, SpawnBegin, StartSubprocess, StartFails, SpawnCommit,
       KillSpawnedOrphan, Process, Stop, StopSignal, StopWait, StopMark, Supervise, TrySubscribe,
       WaitForWakeOrTimeout, EngagedTenantIds, KillBegin, KillCommit, PollError, Crash, Restart,
       Register, Reboot, ForeignProcess, vars
  <2> QED
    BY <1>2, <2>1, <2>2 DEF SignalsForeignOnlyUnseen
<1>3. AgentInv /\ SignalsForeignOnlyUnseen => KillsSound
  BY DEF AgentInv, RowInv, KillsSound, SupervisorStopIsFinal
<1> QED
  BY <1>1, <1>2, <1>3, AgentInductive, PTL DEF Spec

\* While the emergency stop is engaged no agent process starts and no agent is registered:
\* superintendent_agent_start holds the advisory lock from its latch check to its commit,
\* and engage waits for that lock.  A supervisor signals only while it is engaged: the kill
\* transaction holds the latch row, and clear waits for that.
THEOREM LatchSafety == ConstantsOK => (Spec => LatchRulesAgents)
<1> SUFFICES ASSUME ConstantsOK PROVE Spec => LatchRulesAgents
  OBVIOUS
<1>1. ASSUME AgentInv, [Next]_vars PROVE NothingStarts /\ KillsOnlyEngaged
  <2>a. /\ group \in [Spawns -> SUBSET {"leader", "child"}]
        /\ marks \in [Servers -> SUBSET Spawns] /\ registered \in [Servers -> SUBSET Agents]
        /\ Nothing \notin Spawns \cup Servers
    BY <1>1 DEF AgentInv, TypeOK, ConstantsOK
  <2>1. ASSUME NEW s \in Spawns, StartSubprocess(s) PROVE ~engaged
    BY <1>1, <2>1, <2>a DEF AgentInv, LockInv, StartSubprocess
  <2>2. ASSUME NEW v \in Servers, NEW s \in Spawns, KillOne(v, s) PROVE engaged
    BY <1>1, <2>2, <2>a DEF AgentInv, LatchRowInv, KillOne
  <2>3. ASSUME NEW v \in Servers, NEW a \in Agents, Register(v, a) PROVE ~engaged
    BY <2>3 DEF Register
  <2>4. \/ \E s \in Spawns : StartSubprocess(s)
        \/ \A s \in Spawns : group[s] = {} => group'[s] = {}
    <3>1. ASSUME NEW s \in Spawns, KillSpawnedOrphan(s) PROVE \A t \in Spawns : group[t] = {} => group'[t] = {}
      BY <2>a, <3>1 DEF KillSpawnedOrphan, KillOwn
    <3>2. ASSUME NEW s \in Spawns, Process(s) PROVE \A t \in Spawns : group[t] = {} => group'[t] = {}
      BY <2>a, <3>2 DEF Process
    <3>3. ASSUME NEW v \in Servers, NEW a \in Agents, StopSignal(v, a)
          PROVE  \A t \in Spawns : group[t] = {} => group'[t] = {}
      BY <2>a, <3>3 DEF StopSignal
    <3>4. ASSUME NEW v \in Servers, StopWait(v) PROVE \A t \in Spawns : group[t] = {} => group'[t] = {}
      BY <2>a, <3>4 DEF StopWait, KillOwn
    <3>5. ASSUME NEW v \in Servers, NEW s \in Spawns, KillOne(v, s)
          PROVE  \A t \in Spawns : group[t] = {} => group'[t] = {}
      BY <2>a, <3>5 DEF KillOne, Killpg, Skip
    <3>6. ASSUME NEW h \in Hosts, Reboot(h) PROVE \A t \in Spawns : group[t] = {} => group'[t] = {}
      BY <2>a, <3>6 DEF Reboot
    <3> QED
      BY <1>1, <3>1, <3>2, <3>3, <3>4, <3>5, <3>6 DEF Next, Engage, Clear, Spawn, SpawnBegin, StartFails,
         SpawnCommit, Stop, StopMark, Supervise, TrySubscribe, WaitForWakeOrTimeout,
         EngagedTenantIds, KillBegin, KillCommit, PollError, Crash, Restart, Register,
         ForeignProcess, vars, osVars
  <2>5. \/ \E v \in Servers, a \in Agents : Register(v, a)
        \/ \A v \in Servers : registered'[v] \subseteq registered[v]
    <3>1. ASSUME NEW S, Die(S) PROVE \A v \in Servers : registered'[v] \subseteq registered[v]
      BY <3>1 DEF Die
    <3> QED
      BY <1>1, <3>1 DEF Next, Engage, Clear, Spawn, SpawnBegin, StartSubprocess, StartFails, SpawnCommit,
         KillSpawnedOrphan, Process, Stop, StopSignal, StopWait, StopMark, Supervise, TrySubscribe,
         WaitForWakeOrTimeout, EngagedTenantIds, KillBegin, KillOne, KillCommit, PollError, Crash,
         Restart, Reboot, ForeignProcess, vars
  <2>6. \/ \E v \in Servers, s \in Spawns : KillOne(v, s)
        \/ \A v \in Servers : marks'[v] \subseteq marks[v]
    <3>1. ASSUME NEW S, Die(S) PROVE \A v \in Servers : marks'[v] \subseteq marks[v]
      BY <3>1 DEF Die
    <3>2. ASSUME NEW w \in Servers, KillEnd(w) PROVE \A v \in Servers : marks'[v] \subseteq marks[v]
      BY <2>a, <3>2 DEF KillEnd
    <3> QED
      BY <1>1, <3>1, <3>2 DEF Next, Engage, Clear, Spawn, SpawnBegin, StartSubprocess, StartFails, SpawnCommit,
         KillSpawnedOrphan, Process, Stop, StopSignal, StopWait, StopMark, Supervise, TrySubscribe,
         WaitForWakeOrTimeout, EngagedTenantIds, KillBegin, KillCommit, PollError, Crash,
         Restart, Register, Reboot, ForeignProcess, vars, supVars
  <2>7. NothingStarts
    BY <2>1, <2>3, <2>4, <2>5 DEF NothingStarts
  <2>8. KillsOnlyEngaged
    BY <2>2, <2>6 DEF KillsOnlyEngaged
  <2> QED
    BY <2>7, <2>8
<1> QED
  BY <1>1, AgentInductive, PTL DEF Spec, LatchRulesAgents

-----------------------------------------------------------------------------
(* Capability tokens *)

Past == {"claimed", "validated", "resolved", "operated"}

\* Answers that end the token.
Last == {"redeemed", "material_not_present", "operation_failed", "secret_ref_revoked",
         "secret_ref_deprecated"}

\* What a session has done so far agrees with where it stands.
Shape(x) ==
    /\ sess[x].pc \in {"idle", "begun", "answered"} => sess[x].write = None
    /\ sess[x].pc \in Past => sess[x].write = "redeeming"
    /\ sess[x].pc = "ending" /\ sess[x].out \in Last => sess[x].write # None
    /\ sess[x].pc = "idle" => sess[x].out = None

\* A claim is the lock of a token whose committed row is still issued, for what the
\* session asks for.
Claim(x) ==
    sess[x].write # None =>
        /\ tokenLock[sess[x].tok] = x
        /\ token[sess[x].tok].status = "issued"
        /\ token[sess[x].tok].grant.ctx = sess[x].req

\* From the second look at the secret on, its row is locked, and it stays as it was found.
Hold(x) ==
    sess[x].pc \in {"validated", "resolved", "operated"} =>
        LET s == token[sess[x].tok].grant.secret_ref_id IN
        /\ tokenLock[s] = x
        /\ secret[s].material = "present"
        /\ _secret_ref_status_allowed(secret[s].status, sess[x].req.op)

\* An answer that ends the token, once committed, is in its row; so is what "token_used"
\* was said of.
Recorded(x) ==
    \/ sess[x].pc = "answered" /\ sess[x].out \in Last
    \/ sess[x].out = "token_used"
    => token[sess[x].tok].status \in {"redeeming", "used", "revoked"}

SessionGood(x) == Shape(x) /\ Claim(x) /\ Hold(x) /\ Recorded(x)
SessionsInv == \A x \in Sessions : SessionGood(x)

ProductionOnly(g) ==
    g.ctx.op \in {"repo.push", "repo.pr_open"} => RunMode[g.ctx.run] = "production"

Approved(g) ==
    LET ask == g.ctx
        a == Approvals[ask.approval]
    IN  /\ ask.op \in {"repo.push", "repo.pr_open", "rotation.read_old", "rotation.read_new"} =>
              ask.approval # None
        /\ ask.approval # None =>
              /\ ask.approval \in approved
              /\ a.action_class = _operation_to_action_class(ask.op)
              /\ a.ref = _operation_target_to_ref(ask.target, ask.op)
              /\ ask.op \in {"repo.push", "repo.pr_open", "provider.call"} => a.diff = ask.payload
              /\ ask.op \in {"repo.push", "repo.pr_open"} => a.run = ask.run

GrantsGood ==
    /\ \A a \in DOMAIN Approvals : approval[a] = "approved" => a \in approved
    /\ issuing # None => ProductionOnly(issuing)
    /\ \A t \in Tokens : token[t].status # "unissued" =>
          ProductionOnly(token[t].grant) /\ Approved(token[t].grant)

EffectsKnown ==
    \A e \in effects :
        e.tok \in Tokens /\ token[e.tok].status # "unissued" /\ token[e.tok].grant.ctx = e.ctx

CapabilityInv == TokenTypeOK /\ SessionsInv /\ GrantsGood /\ EffectsKnown

-----------------------------------------------------------------------------

LEMMA CapabilityInitInv == TokenConstantsOK /\ TokenInit => CapabilityInv
<1> SUFFICES ASSUME TokenConstantsOK, TokenInit PROVE CapabilityInv
  OBVIOUS
<1>1. TokenTypeOK
  BY DEF TokenConstantsOK, TokenInit, TokenTypeOK, SessionsTyped, IdleSession, Points, Writes, TokenStatus
<1>2. SessionsInv
  BY DEF TokenInit, SessionsInv, SessionGood, Shape, Claim, Hold, Recorded, IdleSession, Past, Last,
     TokenConstantsOK, Answers
<1>3. GrantsGood /\ EffectsKnown
  BY DEF TokenInit, GrantsGood, EffectsKnown
<1> QED
  BY <1>1, <1>2, <1>3 DEF CapabilityInv

LEMMA ClaimAnswer ==
    ASSUME TokenTypeOK, NEW x \in Sessions, sess[x].tok \in Tokens
    PROVE  /\ _classify_denied_claim(x) \in Answers
           /\ _classify_denied_claim(x) \notin Last
           /\ _classify_denied_claim(x) = "token_used" =>
                 /\ token[sess[x].tok].status # "unissued"
                 /\ token[sess[x].tok].status # "issued" \/ token[sess[x].tok].used_at
BY DEF _classify_denied_claim, Answers, Last, TokenTypeOK

LEMMA SecondLook ==
    ASSUME TokenConstantsOK, NEW s \in Secrets, NEW r \in Requests
    PROVE  LET deny == _validate_secret_ref_after_claim(s, r) IN
           /\ deny \in Answers \cup {None} /\ deny # "token_used"
           /\ deny = None => /\ secret[s].material = "present"
                             /\ _secret_ref_status_allowed(secret[s].status, r.op)
BY DEF _validate_secret_ref_after_claim, Answers, TokenConstantsOK

\* A step of a session changes only what it names.
LEMMA MoveFields ==
    ASSUME SessionsTyped, NEW x \in Sessions, NEW p \in Points, NEW w \in Writes,
           NEW o \in Answers \cup {None}, Move(x, p, w, o), sess[x].pc # "idle"
    PROVE  /\ SessionsTyped'
           /\ sess'[x].pc = p /\ sess'[x].write = w /\ sess'[x].out = o
           /\ sess'[x].tok = sess[x].tok /\ sess'[x].req = sess[x].req
           /\ \A y \in Sessions \ {x} : sess'[y] = sess[y]
BY DEF SessionsTyped, Move

LEMMA Constants ==
    /\ Points = {"idle", "begun", "claimed", "validated", "resolved", "operated", "ending", "answered"}
    /\ {None, "redeeming", "used", "revoked"} \subseteq Writes
    /\ {None, "material_not_present", "operation_failed", "redeemed"} \subseteq Answers \cup {None}
BY DEF Points, Holding, Writes, Answers

LEMMA TypeStep ==
    ASSUME TokenConstantsOK, CapabilityInv, [TokenNext]_tokenVars
    PROVE  TokenTypeOK'
<1> USE DEF TokenConstantsOK, CapabilityInv, TokenTypeOK, SessionsInv, SessionGood, Shape, Claim, TokenStatus,
        SecretStatus, MaterialStates, Grants, Past
<1>1. ASSUME NEW r \in Requests, NEW s \in Secrets, IssueLookAtSecret(r, s) PROVE TokenTypeOK'
  BY <1>1 DEF IssueLookAtSecret, Fingerprint, SessionsTyped
<1>2. ASSUME NEW t \in Tokens, Issue(t) PROVE TokenTypeOK'
  BY <1>2 DEF Issue, SessionsTyped
<1>3. ASSUME NEW t \in Tokens, Expire(t) PROVE TokenTypeOK'
  BY <1>3 DEF Expire, SessionsTyped
<1>4. CASE IssueDenied
  BY <1>4 DEF IssueDenied, SessionsTyped
<1>5. ASSUME NEW x \in Sessions, NEW r \in Requests, NEW t \in Tokens, Begin(x, r, t) PROVE TokenTypeOK'
  BY <1>5, Constants DEF Begin, SessionsTyped
<1>6. ASSUME NEW x \in Sessions, atomic_claim(x) PROVE TokenTypeOK'
  <2>1. sess[x].tok \in Tokens
    BY <1>6 DEF atomic_claim, SessionsTyped
  <2> QED
    BY <1>6, <2>1, Constants, MoveFields DEF atomic_claim
<1>7. ASSUME NEW x \in Sessions, ClaimDenied(x) PROVE TokenTypeOK'
  BY <1>7, ClaimAnswer, Constants, MoveFields DEF ClaimDenied, SessionsTyped
<1>8. ASSUME NEW x \in Sessions, LockSecret(x) PROVE TokenTypeOK'
  <2> DEFINE s == token[sess[x].tok].grant.secret_ref_id
             deny == _validate_secret_ref_after_claim(s, sess[x].req)
  <2>1. s \in Secrets /\ sess[x].req \in Requests /\ sess[x].tok \in Tokens
    BY <1>8 DEF LockSecret, SessionsTyped
  <2>2. deny \in Answers \cup {None}
    BY <2>1, SecondLook
  <2>3. /\ tokenLock' = [tokenLock EXCEPT ![s] = x]
        /\ IF deny = None THEN Move(x, "validated", "redeeming", None) ELSE Move(x, "ending", "revoked", deny)
        /\ UNCHANGED <<secret, approval, approved, token, expired, issuing, effects>>
    BY <1>8 DEF LockSecret
  <2> HIDE DEF deny, s
  <2> QED
    BY <2>1, <2>2, <2>3, Constants, MoveFields, <1>8 DEF LockSecret
<1>9. ASSUME NEW x \in Sessions, _resolve_secret(x) PROVE TokenTypeOK'
  <2>1. UNCHANGED <<secret, approval, approved, token, expired, tokenLock, issuing, effects>>
    BY <1>9 DEF _resolve_secret
  <2>2. /\ sess[x].pc = "validated"
        /\ Move(x, "resolved", "redeeming", None) \/ Move(x, "ending", "revoked", "material_not_present")
    BY <1>9 DEF _resolve_secret, _deny_after_claim_custody_failure
  <2> QED
    BY <2>1, <2>2, Constants, MoveFields
<1>10. ASSUME NEW x \in Sessions, Operate(x) PROVE TokenTypeOK'
  <2>1. UNCHANGED <<secret, approval, approved, token, expired, tokenLock, issuing>>
    BY <1>10 DEF Operate
  <2>2. /\ sess[x].pc = "resolved"
        /\ \/ Move(x, "operated", "redeeming", None)
           \/ Move(x, "ending", "revoked", "material_not_present")
           \/ Move(x, "ending", "redeeming", "operation_failed")
    BY <1>10 DEF Operate, _deny_after_claim_custody_failure
  <2> QED
    BY <2>1, <2>2, Constants, MoveFields
<1>11. ASSUME NEW x \in Sessions, _mark_claimed_token_used(x) PROVE TokenTypeOK'
  BY <1>11, Constants, MoveFields DEF _mark_claimed_token_used
<1>12. ASSUME NEW x \in Sessions, Commit(x) PROVE TokenTypeOK'
  <2>1. sess[x].tok \in Tokens /\ sess[x].out \in Answers \cup {None} /\ sess[x].write \in Writes
    BY <1>12 DEF Commit, SessionsTyped
  <2>2. SessionsTyped'
    BY <1>12, <2>1, Constants, MoveFields DEF Commit
  <2>3. tokenLock' \in [Tokens \cup Secrets -> Sessions \cup {None}]
    BY <1>12 DEF Commit, Released
  <2>4. CASE sess[x].write = None
    BY <1>12, <2>2, <2>3, <2>4 DEF Commit
  <2>5. CASE sess[x].write # None
    <3>1. /\ token[sess[x].tok].status = "issued"
          /\ sess[x].write \in {"redeeming", "used", "revoked"}
      BY <2>1, <2>5 DEF Writes
    <3>2. token' = [token EXCEPT ![sess[x].tok] = [status |-> sess[x].write, used_at |-> TRUE,
                                                   grant |-> token[sess[x].tok].grant]]
      BY <1>12, <2>5 DEF Commit
    <3>3. token' \in [Tokens -> [status : TokenStatus, used_at : BOOLEAN, grant : Grants \cup {None}]]
      BY <2>1, <3>1, <3>2
    <3>4. ASSUME NEW t \in Tokens
          PROVE  /\ token'[t].status = "unissued" <=> token'[t].grant = None
                 /\ token'[t].used_at <=> token'[t].status \in {"redeeming", "used", "revoked"}
      BY <2>1, <3>1, <3>2
    <3> QED
      BY <1>12, <2>2, <2>3, <3>3, <3>4 DEF Commit
  <2> QED
    BY <2>4, <2>5
<1>13. ASSUME NEW x \in Sessions, Rollback(x) PROVE TokenTypeOK'
  BY <1>13, Constants DEF Rollback, Released, IdleSession, SessionsTyped
<1>14. ASSUME NEW a \in DOMAIN Approvals, Decide(a) \/ Invalidate(a) PROVE TokenTypeOK'
  BY <1>14 DEF Decide, Invalidate, SessionsTyped
<1>15. ASSUME NEW s \in Secrets, Promote(s) \/ Revoke(s) \/ Purge(s) PROVE TokenTypeOK'
  <2>1. secret' \in [Secrets -> [status : SecretStatus, material : MaterialStates]]
    <3>1. CASE Promote(s)
      BY <3>1 DEF Promote
    <3>2. CASE Revoke(s)
      BY <3>2 DEF Revoke
    <3>3. CASE Purge(s)
      BY <3>3 DEF Purge
    <3> QED
      BY <1>15, <3>1, <3>2, <3>3
  <2>2. UNCHANGED <<approval, approved, expired, token, tokenLock, issuing, sess>>
    BY <1>15 DEF Promote, Revoke, Purge
  <2> QED
    BY <2>1, <2>2 DEF SessionsTyped
<1>16. CASE UNCHANGED tokenVars
  BY <1>16 DEF tokenVars, SessionsTyped
<1> QED
  BY <1>1, <1>2, <1>3, <1>4, <1>5, <1>6, <1>7, <1>8, <1>9, <1>10, <1>11, <1>12, <1>13, <1>14,
     <1>15, <1>16 DEF TokenNext, Redeem

-----------------------------------------------------------------------------
LEMMA GrantsStep ==
    ASSUME TokenConstantsOK, CapabilityInv, [TokenNext]_tokenVars
    PROVE  GrantsGood' /\ EffectsKnown'
<1> USE DEF CapabilityInv, TokenTypeOK, GrantsGood, EffectsKnown, TokenConstantsOK, Grants, TokenStatus, Approved,
        ProductionOnly
<1>1. ASSUME NEW r \in Requests, NEW s \in Secrets, IssueLookAtSecret(r, s)
      PROVE  GrantsGood' /\ EffectsKnown'
  <2>1. ProductionOnly(Fingerprint(r, s))
    BY <1>1 DEF IssueLookAtSecret, _assert_repo_mutation_run_is_production, Fingerprint,
       _SHADOW_FORBIDDEN_OPERATIONS
  <2> QED
    BY <1>1, <2>1 DEF IssueLookAtSecret
<1>2. ASSUME NEW t \in Tokens, Issue(t) PROVE GrantsGood' /\ EffectsKnown'
  <2>1. Approved(issuing)
    BY <1>2 DEF Issue, _validate_approval, _operation_requires_approval,
       _SHADOW_FORBIDDEN_OPERATIONS
  <2> QED
    BY <1>2, <2>1 DEF Issue
<1>3. ASSUME NEW a \in DOMAIN Approvals, Decide(a) \/ Invalidate(a)
      PROVE  GrantsGood' /\ EffectsKnown'
  <2>1. GrantsGood'
    <3>1. \A b \in DOMAIN Approvals : approval'[b] = "approved" => b \in approved'
      BY <1>3 DEF Decide, Invalidate
    <3>2. approved \subseteq approved' /\ UNCHANGED <<token, issuing>>
      BY <1>3 DEF Decide, Invalidate
    <3> QED
      BY <3>1, <3>2
  <2>2. EffectsKnown'
    BY <1>3 DEF Decide, Invalidate
  <2> QED
    BY <2>1, <2>2
<1>4. ASSUME NEW x \in Sessions, Operate(x) PROVE GrantsGood' /\ EffectsKnown'
  <2> DEFINE did == [tok |-> sess[x].tok, ctx |-> sess[x].req, nr |-> Cardinality(effects)]
  <2>1. effects' \subseteq effects \cup {did}
    BY <1>4 DEF Operate
  <2>2. /\ sess[x].tok \in Tokens
        /\ token[sess[x].tok].status = "issued" /\ token[sess[x].tok].grant.ctx = sess[x].req
    BY <1>4 DEF Operate, SessionsTyped, SessionsInv, SessionGood, Shape, Claim, Past
  <2>3. UNCHANGED <<token, issuing, approval, approved>>
    BY <1>4 DEF Operate
  <2>4. GrantsGood'
    BY <2>3
  <2>5. EffectsKnown'
    <3> HIDE DEF TokenTypeOK, GrantsGood, Approved, ProductionOnly
    <3> QED
      BY <2>1, <2>2, <2>3
  <2> QED
    BY <2>4, <2>5
<1>5. ASSUME NEW x \in Sessions, Commit(x) PROVE GrantsGood' /\ EffectsKnown'
  <2>1. /\ sess[x].tok \in Tokens /\ sess[x].write \in Writes
        /\ sess[x].write # None => token[sess[x].tok].status = "issued"
    BY <1>5 DEF Commit, SessionsTyped, SessionsInv, SessionGood, Claim
  <2>2. \A t \in Tokens : /\ token'[t].grant = token[t].grant
                          /\ token'[t].status = "unissued" <=> token[t].status = "unissued"
    BY <1>5, <2>1 DEF Commit, Writes
  <2>3. UNCHANGED <<effects, issuing, approval, approved>>
    BY <1>5 DEF Commit
  <2> HIDE DEF TokenTypeOK
  <2> QED
    BY <2>2, <2>3
<1>6. ASSUME UNCHANGED <<token, effects, approval, approved>>, issuing' \in {issuing, None}
      PROVE  GrantsGood' /\ EffectsKnown'
  BY <1>6
<1>7. ASSUME NEW x \in Sessions,
             \/ \E r \in Requests, t \in Tokens : Begin(x, r, t)
             \/ atomic_claim(x) \/ ClaimDenied(x) \/ LockSecret(x) \/ _resolve_secret(x)
             \/ _mark_claimed_token_used(x) \/ Rollback(x)
      PROVE  UNCHANGED <<token, effects, approval, approved, issuing>>
  BY <1>7 DEF Begin, atomic_claim, ClaimDenied, LockSecret, _resolve_secret,
     _mark_claimed_token_used, Rollback
<1>8. ASSUME \/ IssueDenied \/ (\E t \in Tokens : Expire(t))
             \/ (\E s \in Secrets : Promote(s) \/ Revoke(s) \/ Purge(s)) \/ UNCHANGED tokenVars
      PROVE  UNCHANGED <<token, effects, approval, approved>> /\ issuing' \in {issuing, None}
  BY <1>8 DEF IssueDenied, Expire, Promote, Revoke, Purge, tokenVars
<1> QED
  BY <1>1, <1>2, <1>3, <1>4, <1>5, <1>6, <1>7, <1>8 DEF TokenNext, Redeem

\* What another transaction must leave alone for a session to stand as it did: the rows
\* it has locked, the grants, and the ends of tokens.
Leaves(y) ==
    /\ sess'[y] = sess[y]
    /\ \A r \in Tokens \cup Secrets : tokenLock[r] = y => tokenLock'[r] = y
    /\ \A s \in Secrets : tokenLock[s] = y => secret'[s] = secret[s]
    /\ \A t \in Tokens : tokenLock[t] = y /\ token[t].status = "issued" => token'[t] = token[t]
    /\ \A t \in Tokens : token[t].status \in {"redeeming", "used", "revoked"} =>
          token'[t].status \in {"redeeming", "used", "revoked"}

LEMMA Frame ==
    ASSUME TokenConstantsOK, TokenTypeOK, NEW y \in Sessions, SessionGood(y), Leaves(y)
    PROVE  SessionGood(y)'
<1>1. sess[y].pc # "idle" => sess[y].tok \in Tokens /\ sess[y].req \in Requests
  BY DEF TokenTypeOK, SessionsTyped
<1>2. Shape(y)'
  BY DEF Shape, SessionGood, Leaves
<1>3. Claim(y)'
  BY <1>1 DEF Claim, Shape, SessionGood, Leaves
<1>4. Hold(y)'
  <2> SUFFICES ASSUME sess[y].pc \in {"validated", "resolved", "operated"} PROVE Hold(y)'
    BY DEF Hold, Leaves
  <2> DEFINE s == token[sess[y].tok].grant.secret_ref_id
  <2>1. /\ tokenLock[sess[y].tok] = y /\ sess[y].tok \in Tokens
        /\ token[sess[y].tok].status = "issued"
    BY <1>1 DEF Shape, Claim, SessionGood, Past, TokenConstantsOK, TokenStatus
  <2>2. s \in Secrets
    BY <2>1 DEF TokenTypeOK, Grants
  <2>3. token'[sess[y].tok] = token[sess[y].tok] /\ sess'[y] = sess[y]
    BY <2>1 DEF Leaves
  <2>4. tokenLock'[s] = y /\ secret'[s] = secret[s]
    BY <2>2 DEF Leaves, Hold, SessionGood
  <2> QED
    BY <2>3, <2>4 DEF Hold, SessionGood
<1>5. Recorded(y)'
  <2>1. sess[y].out = "token_used" => sess[y].pc # "idle"
    BY DEF Shape, SessionGood, TokenConstantsOK, Answers
  <2> QED
    BY <1>1, <2>1 DEF Recorded, SessionGood, Leaves
<1> QED
  BY <1>2, <1>3, <1>4, <1>5 DEF SessionGood

LEMMA SessionsStep ==
    ASSUME TokenConstantsOK, CapabilityInv, TokenTypeOK', [TokenNext]_tokenVars
    PROVE  SessionsInv'
<1> USE DEF CapabilityInv, SessionsInv
<1>a. /\ \A x \in Sessions : sess[x].pc # "idle" => sess[x].tok \in Tokens /\ sess[x].req \in Requests
      /\ \A t \in Tokens : token[t].status # "unissued" => token[t].grant.secret_ref_id \in Secrets
      /\ \A t \in Tokens : token[t].status \in TokenStatus
      /\ \A r \in Tokens \cup Secrets : tokenLock[r] \in Sessions \cup {None}
      /\ SessionsTyped /\ Tokens \cap Secrets = {} /\ None \notin Sessions
  BY DEF TokenTypeOK, SessionsTyped, Grants, TokenConstantsOK
<1>b. ASSUME \A x \in Sessions : Leaves(x) PROVE SessionsInv'
  BY <1>b, Frame
<1>c. ASSUME NEW x \in Sessions, \A y \in Sessions \ {x} : Leaves(y), SessionGood(x)' PROVE SessionsInv'
  BY <1>c, Frame
<1>1. ASSUME UNCHANGED <<token, tokenLock, sess, secret>> PROVE SessionsInv'
  BY <1>1, <1>b DEF Leaves
<1>2. ASSUME NEW t \in Tokens, Issue(t) PROVE SessionsInv'
  <2>1. /\ UNCHANGED <<tokenLock, sess, secret>> /\ token[t].status = "unissued"
        /\ \A u \in Tokens \ {t} : token'[u] = token[u]
    BY <1>2 DEF Issue, TokenTypeOK
  <2> QED
    BY <2>1, <1>b DEF Leaves
<1>3. ASSUME NEW x \in Sessions, NEW r \in Requests, NEW t \in Tokens, Begin(x, r, t)
      PROVE  SessionsInv'
  <2>1. /\ UNCHANGED <<token, tokenLock, secret>>
        /\ \A y \in Sessions \ {x} : sess'[y] = sess[y]
        /\ sess'[x].pc = "begun" /\ sess'[x].write = None /\ sess'[x].out = None
    BY <1>3, <1>a DEF Begin, SessionsTyped
  <2>2. SessionGood(x)'
    BY <2>1 DEF SessionGood, Shape, Claim, Hold, Recorded, Past, TokenConstantsOK, Answers
  <2> QED
    BY <2>1, <2>2, <1>c DEF Leaves
<1>4. ASSUME NEW x \in Sessions, atomic_claim(x) PROVE SessionsInv'
  <2>1. /\ UNCHANGED <<token, secret>> /\ sess[x].tok \in Tokens
        /\ tokenLock[sess[x].tok] = None /\ tokenLock' = [tokenLock EXCEPT ![sess[x].tok] = x]
        /\ token[sess[x].tok].status = "issued"
    BY <1>4, <1>a DEF atomic_claim, Claimable
  <2>2. token[sess[x].tok].grant.ctx = sess[x].req
    BY <1>4 DEF atomic_claim, Claimable, Fingerprint
  <2>3. /\ sess'[x].pc = "claimed" /\ sess'[x].write = "redeeming" /\ sess'[x].out = None
        /\ sess'[x].tok = sess[x].tok /\ sess'[x].req = sess[x].req
        /\ \A y \in Sessions \ {x} : sess'[y] = sess[y]
    BY <1>4, <1>a, Constants, MoveFields DEF atomic_claim
  <2>4. /\ tokenLock'[sess[x].tok] = x
        /\ \A q \in Tokens \cup Secrets : q # sess[x].tok => tokenLock'[q] = tokenLock[q]
    BY <2>1 DEF TokenTypeOK
  <2>5. SessionGood(x)'
    BY <2>1, <2>2, <2>3, <2>4 DEF SessionGood, Shape, Claim, Hold, Recorded, Past, TokenConstantsOK, Answers
  <2>6. \A y \in Sessions \ {x} : Leaves(y)
    BY <2>1, <2>3, <2>4, <1>a DEF Leaves
  <2> QED
    BY <2>5, <2>6, <1>c
<1>5. ASSUME NEW x \in Sessions, ClaimDenied(x) PROVE SessionsInv'
  <2> DEFINE o == _classify_denied_claim(x)
  <2>1. UNCHANGED <<token, tokenLock, secret>> /\ sess[x].tok \in Tokens /\ sess[x].pc = "begun"
    BY <1>5, <1>a DEF ClaimDenied
  <2>2. /\ o \in Answers /\ o \notin Last
        /\ o = "token_used" => token[sess[x].tok].status \in {"redeeming", "used", "revoked"}
    BY <2>1, <1>a, ClaimAnswer DEF TokenTypeOK, TokenStatus
  <2> HIDE DEF o
  <2>3. /\ sess'[x].pc = "ending" /\ sess'[x].write = None /\ sess'[x].out = o
        /\ sess'[x].tok = sess[x].tok
        /\ \A y \in Sessions \ {x} : sess'[y] = sess[y]
    BY <1>5, <1>a, <2>1, <2>2, Constants, MoveFields DEF ClaimDenied, o
  <2>4. SessionGood(x)'
    BY <2>1, <2>2, <2>3 DEF SessionGood, Shape, Claim, Hold, Recorded, Past
  <2> QED
    BY <2>1, <2>3, <2>4, <1>c DEF Leaves
<1>6. ASSUME NEW x \in Sessions, LockSecret(x) PROVE SessionsInv'
  <2> DEFINE s == token[sess[x].tok].grant.secret_ref_id
             deny == _validate_secret_ref_after_claim(s, sess[x].req)
  <2>1. /\ UNCHANGED <<token, secret>> /\ sess[x].tok \in Tokens /\ sess[x].req \in Requests
        /\ sess[x].pc = "claimed"
        /\ tokenLock[s] = None /\ tokenLock' = [tokenLock EXCEPT ![s] = x]
        /\ IF deny = None THEN Move(x, "validated", "redeeming", None)
           ELSE Move(x, "ending", "revoked", deny)
    BY <1>6, <1>a DEF LockSecret
  <2>2. Shape(x) /\ Claim(x) /\ sess[x].write = "redeeming"
    BY <2>1 DEF SessionGood, Shape, Past
  <2>3. sess[x].write # None
    BY <2>2 DEF TokenConstantsOK, TokenStatus
  <2>4. s \in Secrets
    BY <2>1, <2>2, <2>3, <1>a DEF Claim
  <2>5. /\ deny \in Answers \cup {None} /\ deny # "token_used"
        /\ deny = None => /\ secret[s].material = "present"
                          /\ _secret_ref_status_allowed(secret[s].status, sess[x].req.op)
    BY <2>1, <2>4, SecondLook
  <2> HIDE DEF s, deny
  <2>6. /\ sess'[x].tok = sess[x].tok /\ sess'[x].req = sess[x].req
        /\ \/ deny = None /\ sess'[x].pc = "validated" /\ sess'[x].write = "redeeming" /\ sess'[x].out = None
           \/ sess'[x].pc = "ending" /\ sess'[x].write = "revoked" /\ sess'[x].out = deny
        /\ \A y \in Sessions \ {x} : sess'[y] = sess[y]
    BY <1>a, <2>1, <2>5, Constants, MoveFields
  <2>7. /\ tokenLock'[s] = x /\ sess[x].tok # s
        /\ \A q \in Tokens \cup Secrets : q # s => tokenLock'[q] = tokenLock[q]
    BY <2>1, <2>4, <1>a DEF TokenTypeOK
  <2>8. None \notin {"redeeming", "used", "revoked", "token_used"}
    BY DEF TokenConstantsOK, TokenStatus, Answers
  <2>9. Shape(x)' /\ Recorded(x)'
    BY <2>5, <2>6, <2>8 DEF Shape, Recorded, Past
  <2>10. Claim(x)'
    BY <2>1, <2>2, <2>3, <2>6, <2>7 DEF Claim
  <2>11. Hold(x)'
    BY <2>1, <2>5, <2>6, <2>7 DEF Hold, s
  <2>12. \A y \in Sessions \ {x} : Leaves(y)
    BY <2>1, <2>6, <2>7, <1>a DEF Leaves
  <2> QED
    BY <2>9, <2>10, <2>11, <2>12, <1>c DEF SessionGood
<1>7. ASSUME NEW x \in Sessions, NEW p \in {"resolved", "operated", "ending"},
             NEW w \in {"redeeming", "used", "revoked"},
             NEW o \in {None, "material_not_present", "operation_failed", "redeemed"},
             Move(x, p, w, o), sess[x].pc \in {"validated", "resolved", "operated"},
             p # "ending" => w = "redeeming",
             UNCHANGED <<token, tokenLock, secret>>
      PROVE  SessionsInv'
  <2>1. p \in Points /\ w \in Writes /\ o \in Answers \cup {None} /\ sess[x].pc # "idle"
    BY <1>7, Constants
  <2>2. /\ sess'[x].pc = p /\ sess'[x].write = w /\ sess'[x].out = o
        /\ sess'[x].tok = sess[x].tok /\ sess'[x].req = sess[x].req
        /\ \A y \in Sessions \ {x} : sess'[y] = sess[y]
    BY <1>7, <1>a, <2>1, MoveFields
  <2>3. None \notin {"redeeming", "used", "revoked", "token_used"}
    BY DEF TokenConstantsOK, TokenStatus, Answers
  <2>4. Shape(x) /\ Claim(x) /\ Hold(x) /\ sess[x].write # None
    BY <1>7, <2>3 DEF SessionGood, Shape, Past
  <2>5. Shape(x)' /\ Recorded(x)'
    BY <1>7, <2>2, <2>3 DEF Shape, Recorded, Past
  <2>6. Claim(x)' /\ Hold(x)'
    BY <1>7, <2>2, <2>4 DEF Claim, Hold
  <2> QED
    BY <1>7, <2>2, <2>5, <2>6, <1>c DEF SessionGood, Leaves
<1>8. ASSUME NEW x \in Sessions, _resolve_secret(x) PROVE SessionsInv'
  <2>1. /\ sess[x].pc = "validated" /\ UNCHANGED <<token, tokenLock, secret>>
        /\ Move(x, "resolved", "redeeming", None) \/ Move(x, "ending", "revoked", "material_not_present")
    BY <1>8 DEF _resolve_secret, _deny_after_claim_custody_failure
  <2> QED
    BY <2>1, <1>7
<1>9. ASSUME NEW x \in Sessions, Operate(x) PROVE SessionsInv'
  <2>1. /\ sess[x].pc = "resolved" /\ UNCHANGED <<token, tokenLock, secret>>
        /\ \/ Move(x, "operated", "redeeming", None)
           \/ Move(x, "ending", "revoked", "material_not_present")
           \/ Move(x, "ending", "redeeming", "operation_failed")
    BY <1>9 DEF Operate, _deny_after_claim_custody_failure
  <2> QED
    BY <2>1, <1>7
<1>10. ASSUME NEW x \in Sessions, _mark_claimed_token_used(x) PROVE SessionsInv'
  BY <1>10, <1>7 DEF _mark_claimed_token_used
<1>11. ASSUME NEW x \in Sessions, Commit(x) PROVE SessionsInv'
  <2>1. /\ sess[x].pc = "ending" /\ sess[x].tok \in Tokens /\ UNCHANGED secret
        /\ sess[x].write \in Writes /\ sess[x].out \in Answers \cup {None}
        /\ Move(x, "answered", None, sess[x].out)
    BY <1>11, <1>a DEF Commit, SessionsTyped
  <2>2. /\ sess'[x].pc = "answered" /\ sess'[x].write = None /\ sess'[x].out = sess[x].out
        /\ sess'[x].tok = sess[x].tok
        /\ \A y \in Sessions \ {x} : sess'[y] = sess[y]
    BY <1>a, <2>1, Constants, MoveFields
  <2>3. \A q \in Tokens \cup Secrets : tokenLock[q] # x => tokenLock'[q] = tokenLock[q]
    BY <1>11 DEF Commit, Released, TokenTypeOK
  <2>4. /\ \A t \in Tokens \ {sess[x].tok} : token'[t] = token[t]
        /\ IF sess[x].write = None THEN token'[sess[x].tok] = token[sess[x].tok]
           ELSE token'[sess[x].tok].status = sess[x].write
    BY <1>11, <2>1 DEF Commit, TokenTypeOK
  <2>5. /\ sess[x].write # None => sess[x].write \in {"redeeming", "used", "revoked"}
        /\ sess[x].write # None => tokenLock[sess[x].tok] = x
        /\ sess[x].out \in Last => sess[x].write # None
    BY <2>1 DEF Writes, SessionGood, Shape, Claim
  <2>6. Shape(x)' /\ Claim(x)' /\ Hold(x)'
    BY <2>2 DEF Shape, Claim, Hold, Past
  <2>7. Recorded(x)'
    BY <2>2, <2>4, <2>5 DEF Recorded, SessionGood
  <2>8. \A y \in Sessions \ {x} : Leaves(y)
    BY <2>1, <2>2, <2>3, <2>4, <2>5 DEF Leaves
  <2> QED
    BY <2>6, <2>7, <2>8, <1>c DEF SessionGood
<1>12. ASSUME NEW x \in Sessions, Rollback(x) PROVE SessionsInv'
  <2>1. /\ UNCHANGED <<token, secret>>
        /\ \A q \in Tokens \cup Secrets : tokenLock[q] # x => tokenLock'[q] = tokenLock[q]
    BY <1>12 DEF Rollback, Released, TokenTypeOK
  <2>2. /\ sess'[x].pc = "idle" /\ sess'[x].write = None /\ sess'[x].out = None
        /\ \A y \in Sessions \ {x} : sess'[y] = sess[y]
    BY <1>12, <1>a DEF Rollback, SessionsTyped, IdleSession
  <2>3. SessionGood(x)'
    BY <2>2 DEF SessionGood, Shape, Claim, Hold, Recorded, Past, TokenConstantsOK, Answers
  <2> QED
    BY <2>1, <2>2, <2>3, <1>c DEF Leaves
<1>13. ASSUME NEW s \in Secrets, Promote(s) \/ Revoke(s) \/ Purge(s) PROVE SessionsInv'
  <2>1. UNCHANGED <<token, tokenLock, sess>>
    BY <1>13 DEF Promote, Revoke, Purge
  <2>2. \A u \in Secrets : tokenLock[u] # None => secret'[u] = secret[u]
    BY <1>13 DEF Promote, Revoke, Purge, TokenTypeOK
  <2> QED
    BY <2>1, <2>2, <1>a, <1>b DEF Leaves
<1>14. ASSUME \/ \E r \in Requests, s \in Secrets : IssueLookAtSecret(r, s)
              \/ IssueDenied \/ (\E t \in Tokens : Expire(t))
              \/ (\E a \in DOMAIN Approvals : Decide(a) \/ Invalidate(a)) \/ UNCHANGED tokenVars
       PROVE  UNCHANGED <<token, tokenLock, sess, secret>>
  BY <1>14 DEF IssueLookAtSecret, IssueDenied, Expire, Decide, Invalidate, tokenVars
<1> QED
  BY <1>1, <1>2, <1>3, <1>4, <1>5, <1>6, <1>8, <1>9, <1>10, <1>11, <1>12, <1>13, <1>14
     DEF TokenNext, Redeem

-----------------------------------------------------------------------------

LEMMA CapabilityInductive == TokenConstantsOK => (TokenSpec => []CapabilityInv)
<1> SUFFICES ASSUME TokenConstantsOK PROVE TokenSpec => []CapabilityInv
  OBVIOUS
<1>1. TokenInit => CapabilityInv
  BY CapabilityInitInv
<1>2. CapabilityInv /\ [TokenNext]_tokenVars => CapabilityInv'
  BY TypeStep, SessionsStep, GrantsStep DEF CapabilityInv
<1> QED
  BY <1>1, <1>2, PTL DEF TokenSpec

\* The committed rows of secrets, approvals and capability tokens, the row locks and the
\* transactions of redeem_capability_token are always of their kinds; a token has a grant
\* exactly once issued and used_at exactly once a claim was committed.
THEOREM CapabilityTypes == TokenConstantsOK => (TokenSpec => []TokenTypeOK)
<1> SUFFICES ASSUME TokenConstantsOK PROVE TokenSpec => []TokenTypeOK
  OBVIOUS
<1>1. CapabilityInv => TokenTypeOK
  BY DEF CapabilityInv
<1> QED
  BY <1>1, CapabilityInductive, PTL

\* What redeem_capability_token promises, whatever the number of concurrent callers and
\* wherever one of them fails: at most one open transaction holds the claim of a token;
\* an operation is executed only as it was granted at issue, under the approval it needs;
\* the secret stays usable from the second look until the operation is over; "token_used"
\* is only said of a token that is used up; and a committed answer is the last.
THEOREM RedemptionSafety == TokenConstantsOK => (TokenSpec => []RedemptionsSound)
<1> SUFFICES ASSUME TokenConstantsOK PROVE TokenSpec => []RedemptionsSound
  OBVIOUS
<1>1. ASSUME CapabilityInv PROVE RedemptionsSound
  <2> USE <1>1 DEF CapabilityInv, SessionsInv, SessionGood
  <2>1. OneRedeemer
    BY DEF OneRedeemer, Claim
  <2>2. EffectsWereGranted
    <3> SUFFICES ASSUME NEW e \in effects
                 PROVE  /\ token[e.tok].grant.ctx = e.ctx
                        /\ ProductionOnly(token[e.tok].grant) /\ Approved(token[e.tok].grant)
      BY DEF EffectsWereGranted, ProductionOnly, Approved
    <3> QED
      BY DEF EffectsKnown, GrantsGood
  <2>3. SecretStandsWhileUsed
    BY DEF SecretStandsWhileUsed, Hold, _secret_ref_status_allowed, _ROTATION_PENDING_VERIFY_OPERATIONS
  <2>4. UsedMeansUsed
    BY DEF UsedMeansUsed, Recorded
  <2>5. CommittedAnswerIsLast
    BY DEF CommittedAnswerIsLast, Recorded, Claim, Last
  <2> QED
    BY <2>1, <2>2, <2>3, <2>4, <2>5 DEF RedemptionsSound
<1> QED
  BY <1>1, CapabilityInductive, PTL

-----------------------------------------------------------------------------
(* The control plane *)

\* A step of the whole is a step, or none, of each part.
LEMMA ControlStep ==
    ASSUME [ControlNext]_controlVars
    PROVE  [Next]_vars /\ [TokenNext]_tokenVars /\ [CliNext]_cliVars /\ [RunnerNext]_runnerVars
BY DEF ControlNext, controlVars

LEMMA ControlParts == ControlSpec => Spec /\ TokenSpec /\ CliSpec /\ RunnerSpec
<1>1. ControlInit => Init /\ TokenInit /\ CliInit /\ RunnerInit
  BY DEF ControlInit
<1>2. [ControlNext]_controlVars =>
          [Next]_vars /\ [TokenNext]_tokenVars /\ [CliNext]_cliVars /\ [RunnerNext]_runnerVars
  BY ControlStep
<1> QED
  BY <1>1, <1>2, PTL DEF ControlSpec, Spec, TokenSpec, CliSpec, RunnerSpec

\* Agents, tokens, invocations and commands are well typed whatever the interleaving of
\* servers, supervisors, redemptions, launches and cancels.
THEOREM ControlTypes ==
    ConstantsOK /\ TokenConstantsOK /\ CliConstantsOK /\ RunnerConstantsOK =>
        (ControlSpec => []ControlTypeOK)
<1>1. TypeOK /\ TokenTypeOK /\ (CliTypeOK /\ InvocationsSound) /\ (RunnerTypeOK /\ RunnerSound) => ControlTypeOK
  BY DEF ControlTypeOK
<1> QED
  BY <1>1, ControlParts, AgentTypes, CapabilityTypes, CliInvariant, RunnerInvariant, PTL

\* Invocations and commands of the runner end as reported, for any number of
\* invocations, of runs, of cancels and of chunks of output (launcher.py,
\* orchestrator.py, cancel_propagation.py, runner_adapter.py, dangerous_command.py).
THEOREM ProcessSafety ==
    CliConstantsOK /\ RunnerConstantsOK => (ControlSpec => []ProcessesSound)
<1>1. (CliTypeOK /\ InvocationsSound) /\ (RunnerTypeOK /\ RunnerSound) => ProcessesSound
  BY DEF ProcessesSound
<1> QED
  BY <1>1, ControlParts, CliInvariant, RunnerInvariant, PTL
=============================================================================
