----------------------------- MODULE MC_Liveness -----------------------------
(***************************************************************************)
(* What must eventually happen, on small instances side by side: part      *)
(* names the instance that is at work, and only its fairness counts.       *)
(*   agents   one agent on one server that crashes and on a host that      *)
(*            reboots, while the stop is engaged and cleared               *)
(*   custody  two versions of a secret with writers that may die           *)
(*   stream   one client follows the events of a run                       *)
(***************************************************************************)
EXTENDS Naturals, Sequences, TLC

CONSTANTS None, Nothing, a1, h1, p1, v1, r1, r2, NoRow, x1

VARIABLES part,
    engaged, engages, agentLock, latchLock, call, by, row, group, pgid, boot, hostBoot,
    foreign, point, pubsub, todo, marks, registered, handle, stopping, stopPoint, crashes,
    endedBy, misfired,
    st, mat, from, aged, material, writer, purger, gc, gcRows, gcPurged, gcRow,
    log, terminal, visible, active, stream, notice, queue, received, ended, finalSeq, breaks

agentVars == <<engaged, engages, agentLock, latchLock, call, by, row, group, pgid, boot,
    hostBoot, foreign, point, pubsub, todo, marks, registered, handle, stopping, stopPoint,
    crashes, endedBy, misfired>>
custodyVars == <<st, mat, from, aged, material, writer, purger, gc, gcRows, gcPurged, gcRow>>
streamVars == <<log, terminal, visible, active, stream, notice, queue, received, ended, finalSeq, breaks>>

vars == <<part, agentVars, custodyVars, streamVars>>

-----------------------------------------------------------------------------
(* Managed agents *)

Agents == INSTANCE ManagedAgents WITH
    lock <- agentLock, Spawns <- {p1}, Agents <- {a1}, AgentOf <- [s \in {p1} |-> a1],
    Servers <- {v1}, Hosts <- {h1}, HostOf <- [v \in {v1} |-> h1], Pgids <- {1},
    BootIdKnown <- TRUE, PsutilInstalled <- TRUE, Unkillable <- {},
    MaxEngage <- 1, MaxCrash <- 1, MaxReboot <- 1

ASSUME AgentConstantsOK == Agents!ConstantsOK

AgentStep(A) == part = "agents" /\ A /\ UNCHANGED <<part, custodyVars, streamVars>>

-----------------------------------------------------------------------------
(* Secret custody *)

Custody == INSTANCE SecretCustody WITH Rows <- {r1, r2}

CustodyStep(A) == part = "custody" /\ A /\ UNCHANGED <<part, agentVars, streamVars>>

-----------------------------------------------------------------------------
(* Server-sent events *)

Stream == INSTANCE EventStream WITH
    st <- stream, Streams <- {x1}, MaxStreams <- 1, PageSize <- 2, MaxLog <- 3, MaxBreaks <- 1

ASSUME StreamConstantsOK == Stream!StreamConstantsOK

StreamStep(A) == part = "stream" /\ A /\ UNCHANGED <<part, agentVars, custodyVars>>

-----------------------------------------------------------------------------

Init ==
    /\ part \in {"agents", "custody", "stream"}
    /\ Agents!Init /\ Custody!Init /\ Stream!StreamInit

Next == AgentStep(Agents!Next) \/ CustodyStep(Custody!Next) \/ StreamStep(Stream!StreamNext)

\* Agents: a dead server is started again, its loop keeps running, and a poll
\* does not fail every time before it reaches a given row.  Custody: gc_orphans
\* is run again and again ("periodically or by hand"), some runs get past each of
\* their stages, and store.delete does not fail forever.  Stream: the event loop goes
\* on with a task that can go on, and the heartbeat ends a wait.  One instance is at
\* work in a behavior, so a condition on several actions is one on its own action.
Fairness ==
    /\ WF_vars(AgentStep(Agents!Restart(v1)) \/ CustodyStep(Custody!Age(r1)) \/ StreamStep(Stream!Step(x1)))
    /\ WF_vars(AgentStep(Agents!Poll(v1)) \/ CustodyStep(Custody!Age(r2)))
    /\ WF_vars(AgentStep(Agents!KillCommit(v1)) \/ CustodyStep(Custody!GcStart))
    /\ SF_vars(AgentStep(Agents!KillOne(v1, p1)) \/ CustodyStep(Custody!TombstoneWriting))
    /\ SF_vars(CustodyStep(Custody!TombstoneStale))
    /\ SF_vars(CustodyStep(Custody!GcSelect))
    /\ SF_vars(CustodyStep(Custody!GcDelete(r1)))
    /\ SF_vars(CustodyStep(Custody!GcDelete(r2)))
    /\ WF_vars(CustodyStep(Custody!GcMark))
    /\ WF_vars(CustodyStep(Custody!GcEnd))

Spec == Init /\ [][Next]_vars /\ Fairness

-----------------------------------------------------------------------------
(* Properties *)

\* A recorded agent process is killed after an engage, whatever happens to the
\* server, to Redis or to single polls of supervisor.py, unless the stop is
\* cleared or the stop tool ends the row first.
EngageKillsRecorded == Agents!EngageKillsRecorded

\* Revoked material is gone in the end and stays gone, although late writers may
\* put it back after a purge (material_reconciliation.py), and a writer that died
\* does not block the name for ever (secret_registration.py).  Rows are alike: what
\* holds of one holds of the other.
CustodySettles == Custody!RevokedMaterialGoes(r1) /\ Custody!DeadWriterFreesName(r1)

\* A stream that stays open catches up with the run's events again and again, though
\* notifications were merged or lost (agent_run_stream.py).
EventsArrive == Stream!EventsArrive
=============================================================================
