------------------------------ MODULE WriteGate ------------------------------
(***************************************************************************)
(* The gates that keep a frozen or decommissioned host from writing        *)
(* (active_registry_gate_enabled).  evaluate_gate of                       *)
(* scripts/taskhub_active_registry_gate.py reads the fleet, the active     *)
(* marker, the other markers and the signer's key from the configuration   *)
(* directory, one file after the other, while operators may change them.   *)
(* It is asked at the API's ingress (L1), at a worker's start and before   *)
(* each of its jobs (L2), and before every commit that mutates (L3).       *)
(* Emergency stop and supervisor commit past L3.                           *)
(***************************************************************************)
EXTENDS Naturals, FiniteSets

CONSTANTS
    Sessions,     \* database sessions
    MaxChanges,   \* bound on changes of the configuration directory
    MaxCommits,   \* bound on the transactions of a session
    MaxTries,     \* arq's max_tries
    MaxStarts,    \* bound on starts of the worker
    MaxRedisFaults     \* bound on failing Redis calls

GateConstantsOK ==
    {MaxChanges, MaxCommits, MaxStarts, MaxRedisFaults} \subseteq Nat /\ MaxTries \in Nat \ {0}

VARIABLES
    disk,      \* [fleet, active, freeze, decommission, key], what each file says
    changes,
    doing,     \* session -> what it is doing
    handler,   \* session -> whether the handler is one of the stop's or an ordinary one
    seen,      \* session -> the files its evaluation has read so far
    pending,   \* session -> models of session.new, dirty and deleted
    written,   \* session -> models flushed or written by ORM DML in the transaction
    dml,       \* session.info: _active_registry_dml_executed
    bypass,    \* session.info: _emergency_stop_gate_bypass
    held,      \* history: session -> what has forbidden writing ever since its evaluation began
    last,      \* history: session -> its last commit
    commits,
    worker,    \* "down", "starting", "up", "dequeue"
    queue,     \* tries of each queued job, as a bag: tries -> number of jobs
    job,       \* tries of the job at hand, 0 for none
    jobSeen, jobHeld,
    ran,       \* history: a job ran, and what forbade writing all through its check
    lost,      \* history: jobs that arq gave up
    starts, redisFaults

diskVars == <<disk, changes>>
sessionVars == <<doing, handler, seen, pending, written, dml, bypass, held, last, commits>>
workerVars == <<worker, queue, job, jobSeen, jobHeld, ran, lost, starts, redisFaults>>
gateVars == <<diskVars, sessionVars, workerVars>>

Models == {"ordinary", "stop"}

-----------------------------------------------------------------------------
(* The configuration directory *)

\* The host's entry in the fleet: none in it or no readable file, an entry that is
\* retired or out of its time, one that does not list the signer or the marker kind.
Fleets == {"unreadable", "no entry", "not active", "signer not listed", "active"}
Actives == {"none", "other host", "bad signature", "ours"}
Disks == [fleet : Fleets, active : Actives, freeze : BOOLEAN, decommission : BOOLEAN, key : BOOLEAN]

\* What forbids writing.
Files == {"fleet", "active", "freeze", "decommission", "key"}

Reasons(d) ==
    {r \in Files :
        \/ r = "fleet" /\ d.fleet # "active"
        \/ r = "active" /\ d.active # "ours"
        \/ r = "freeze" /\ d.freeze
        \/ r = "decommission" /\ d.decommission
        \/ r = "key" /\ ~d.key}

\* An operator changes one file: write_marker_atomic renames a whole file into place.
ChangeDisk ==
    /\ changes < MaxChanges /\ changes' = changes + 1
    /\ \/ \E f \in Fleets : disk' = [disk EXCEPT !.fleet = f]
       \/ \E a \in Actives : disk' = [disk EXCEPT !.active = a]
       \/ disk' = [disk EXCEPT !.freeze = ~@]
       \/ disk' = [disk EXCEPT !.decommission = ~@]
       \/ disk' = [disk EXCEPT !.key = ~@]
    /\ disk' # disk
    /\ held' = [s \in Sessions |-> held[s] \cap Reasons(disk')]
    /\ jobHeld' = jobHeld \cap Reasons(disk')
    /\ UNCHANGED <<doing, handler, seen, pending, written, dml, bypass, last, commits,
                   worker, queue, job, jobSeen, ran, lost, starts, redisFaults>>

-----------------------------------------------------------------------------
(* evaluate_gate: five reads, then the verdict *)

NothingSeen == [n |-> 0, fleet |-> "unreadable", active |-> "none", freeze |-> TRUE,
                decommission |-> TRUE, key |-> FALSE]

load_fleet_membership_from_disk(v) == [v EXCEPT !.n = 1, !.fleet = disk.fleet]
_load_active_marker(v) == [v EXCEPT !.n = 2, !.active = disk.active]
_marker_file_exists(v) == IF v.n = 2 THEN [v EXCEPT !.n = 3, !.freeze = disk.freeze]
                          ELSE [v EXCEPT !.n = 4, !.decommission = disk.decommission]
public_key_resolver(v) == [v EXCEPT !.n = 5, !.key = disk.key]

ReadNext(v) ==
    CASE v.n = 0 -> load_fleet_membership_from_disk(v)
      [] v.n = 1 -> _load_active_marker(v)
      [] v.n \in {2, 3} -> _marker_file_exists(v)
      [] OTHER -> public_key_resolver(v)

\* The fleet must be readable, and list this host as active, now, with the marker's
\* signer and kind.
verify_signer_host_ownership(v) == v.fleet = "active"

\* What has been read forbids writing: the code returns at the first such file.
Refuses(v) ==
    \/ v.n >= 1 /\ v.fleet = "unreadable"
    \/ v.n >= 2 /\ v.active = "none"
    \/ v.n >= 4 /\ (v.active = "other host" \/ v.freeze \/ v.decommission)
    \/ v.n >= 4 /\ ~verify_signer_host_ownership(v)
    \/ v.n = 5 /\ (~v.key \/ v.active = "bad signature")

evaluate_gate(v) == IF Refuses(v) THEN "refused" ELSE IF v.n = 5 THEN "passed" ELSE "reading"

-----------------------------------------------------------------------------
(* Sessions *)

BeginCheck(s, step) ==
    /\ doing' = [doing EXCEPT ![s] = step]
    /\ seen' = [seen EXCEPT ![s] = NothingSeen]
    /\ held' = [held EXCEPT ![s] = Reasons(disk)]

EndTransaction(s) ==
    /\ doing' = [doing EXCEPT ![s] = "idle"]
    /\ seen' = [seen EXCEPT ![s] = NothingSeen] /\ held' = [held EXCEPT ![s] = {}]
    /\ pending' = [pending EXCEPT ![s] = {}] /\ written' = [written EXCEPT ![s] = {}]

\* after_commit and after_rollback.
_on_after_commit_or_rollback_KeepsBypass(s) ==
    /\ dml' = [dml EXCEPT ![s] = FALSE] /\ UNCHANGED bypass

_on_after_commit_or_rollback(s) ==
    /\ dml' = [dml EXCEPT ![s] = FALSE] /\ bypass' = [bypass EXCEPT ![s] = FALSE]

\* L1: a write request that is not exempt asks the gate, others go on at once.
dispatch(s) ==
    /\ doing[s] = "idle" /\ commits[s] < MaxCommits
    /\ \/ BeginCheck(s, "ingress")
       \/ doing' = [doing EXCEPT ![s] = "handler"] /\ UNCHANGED <<seen, held>>
    /\ \E m \in Models : handler' = [handler EXCEPT ![s] = m]
    /\ UNCHANGED <<pending, written, dml, bypass, last, commits>>

\* One more read of the gate, for L1 or for L3.
EvaluateStep(s) ==
    /\ doing[s] \in {"ingress", "gate"} /\ evaluate_gate(seen[s]) = "reading"
    /\ seen' = [seen EXCEPT ![s] = ReadNext(@)]
    /\ UNCHANGED <<doing, handler, pending, written, dml, bypass, held, last, commits>>

Ingress(s) ==
    /\ doing[s] = "ingress" /\ evaluate_gate(seen[s]) # "reading"
    /\ doing' = [doing EXCEPT ![s] = IF evaluate_gate(seen[s]) = "passed" THEN "handler" ELSE "idle"]
    /\ seen' = [seen EXCEPT ![s] = NothingSeen] /\ held' = [held EXCEPT ![s] = {}]
    /\ UNCHANGED <<handler, pending, written, dml, bypass, last, commits>>

\* A handler adds or changes objects, flushes, and runs ORM DML.  One of the emergency
\* stop or of the supervisor marks the session first, and touches the stop's models.
Ready(s) == doing[s] = "handler" /\ (handler[s] = "stop" => bypass[s])

Touch(s) ==
    /\ Ready(s)
    /\ pending' = [pending EXCEPT ![s] = @ \cup {handler[s]}]
    /\ UNCHANGED <<doing, handler, seen, written, dml, bypass, held, last, commits>>

_on_before_flush(s) ==
    /\ doing[s] = "handler" /\ pending[s] # {}
    /\ written' = [written EXCEPT ![s] = @ \cup pending[s]]
    /\ pending' = [pending EXCEPT ![s] = {}]
    /\ dml' = [dml EXCEPT ![s] = TRUE]
    /\ UNCHANGED <<doing, handler, seen, bypass, held, last, commits>>

_on_orm_execute(s) ==
    /\ Ready(s)
    /\ written' = [written EXCEPT ![s] = @ \cup {handler[s]}]
    /\ dml' = [dml EXCEPT ![s] = TRUE]
    /\ UNCHANGED <<doing, handler, seen, pending, bypass, held, last, commits>>

mark_emergency_stop_bypass(s) ==
    /\ doing[s] = "handler" /\ handler[s] = "stop" /\ ~bypass[s]
    /\ bypass' = [bypass EXCEPT ![s] = TRUE]
    /\ UNCHANGED <<doing, handler, seen, pending, written, dml, held, last, commits>>

\* before_commit: past the gate for a marked session whose pending objects are the
\* stop's own, and for a session without mutations.
_session_has_mutations(s) == dml[s] \/ pending[s] # {}

Committed(s, gated) ==
    /\ last' = [last EXCEPT ![s] = [models |-> pending[s] \cup written[s], gated |-> gated,
                                    held |-> IF gated THEN held[s] ELSE {}]]
    /\ commits' = [commits EXCEPT ![s] = @ + 1]
    /\ _on_after_commit_or_rollback(s) /\ EndTransaction(s)

TransactionRolledBack(s) ==
    /\ commits' = [commits EXCEPT ![s] = @ + 1]
    /\ _on_after_commit_or_rollback(s) /\ EndTransaction(s)
    /\ UNCHANGED last

_on_before_commit(s) ==
    /\ doing[s] = "handler"
    /\ IF bypass[s]
       THEN IF pending[s] \subseteq {"stop"} THEN Committed(s, FALSE) ELSE TransactionRolledBack(s)
       ELSE IF _session_has_mutations(s)
       THEN BeginCheck(s, "gate") /\ UNCHANGED <<pending, written, dml, bypass, last, commits>>
       ELSE Committed(s, FALSE)
    /\ UNCHANGED handler

GateVerdict(s) ==
    /\ doing[s] = "gate" /\ evaluate_gate(seen[s]) # "reading"
    /\ IF evaluate_gate(seen[s]) = "passed" THEN Committed(s, TRUE) ELSE TransactionRolledBack(s)
    /\ UNCHANGED handler

\* The handler fails, or the client goes away.
Abandon(s) ==
    /\ doing[s] = "handler" /\ TransactionRolledBack(s) /\ UNCHANGED handler

SessionNext ==
    /\ \E s \in Sessions :
          \/ dispatch(s) \/ EvaluateStep(s) \/ Ingress(s) \/ Touch(s) \/ _on_before_flush(s)
          \/ _on_orm_execute(s) \/ mark_emergency_stop_bypass(s) \/ _on_before_commit(s)
          \/ GateVerdict(s) \/ Abandon(s)
    /\ UNCHANGED <<diskVars, workerVars>>

-----------------------------------------------------------------------------
(* The worker *)

StartCheck(step) == worker' = step /\ jobSeen' = NothingSeen /\ jobHeld' = Reasons(disk)

EndCheck == jobSeen' = NothingSeen /\ jobHeld' = {}

Put(n) == queue' = [queue EXCEPT ![n] = @ + 1]

configure_worker_gate_from_settings ==
    /\ worker = "down" /\ starts < MaxStarts /\ starts' = starts + 1
    /\ StartCheck("starting")
    /\ UNCHANGED <<queue, job, ran, lost, redisFaults>>

WorkerRead ==
    /\ worker \in {"starting", "dequeue"} /\ evaluate_gate(jobSeen) = "reading"
    /\ jobSeen' = ReadNext(jobSeen)
    /\ UNCHANGED <<worker, queue, job, jobHeld, ran, lost, starts, redisFaults>>

\* WorkerStartupAbort ends the process.
verify_worker_startup ==
    /\ worker = "starting" /\ evaluate_gate(jobSeen) # "reading"
    /\ worker' = IF evaluate_gate(jobSeen) = "passed" THEN "up" ELSE "down"
    /\ EndCheck
    /\ UNCHANGED <<queue, job, ran, lost, starts, redisFaults>>

\* arq takes a job and counts the try; a job tried too often is given up.
Dequeue ==
    /\ worker = "up"
    /\ \E n \in DOMAIN queue :
          /\ queue[n] > 0 /\ queue' = [queue EXCEPT ![n] = @ - 1]
          /\ IF n > MaxTries
             THEN lost' = lost + 1 /\ UNCHANGED <<worker, job, jobSeen, jobHeld>>
             ELSE job' = n /\ StartCheck("dequeue") /\ UNCHANGED lost
    /\ UNCHANGED <<ran, starts, redisFaults>>

\* The check passes and the task runs; or the job is queued anew, with its tries
\* reset; or the call of Redis fails, and arq tries the job again; when only the
\* answer is lost, both.
with_active_registry_gate ==
    /\ worker = "dequeue" /\ evaluate_gate(jobSeen) # "reading"
    /\ worker' = "up" /\ job' = 0
    /\ \/ /\ evaluate_gate(jobSeen) = "passed" /\ ran' = [done |-> TRUE, held |-> jobHeld]
          /\ UNCHANGED <<queue, redisFaults>>
       \/ /\ evaluate_gate(jobSeen) = "refused"
          /\ \/ Put(1) /\ UNCHANGED redisFaults
             \/ /\ redisFaults < MaxRedisFaults /\ redisFaults' = redisFaults + 1
                /\ \/ Put(job + 1)
                   \/ queue' = [n \in DOMAIN queue |->
                        queue[n] + (IF n = 1 THEN 1 ELSE 0) + (IF n = job + 1 THEN 1 ELSE 0)]
          /\ UNCHANGED ran
    /\ EndCheck /\ UNCHANGED <<lost, starts>>

WorkerNext ==
    /\ configure_worker_gate_from_settings \/ WorkerRead \/ verify_worker_startup \/ Dequeue
       \/ with_active_registry_gate
    /\ UNCHANGED <<diskVars, sessionVars>>

-----------------------------------------------------------------------------

GateInit ==
    /\ disk = [fleet |-> "active", active |-> "ours", freeze |-> FALSE, decommission |-> FALSE,
               key |-> TRUE]
    /\ changes = 0
    /\ doing = [s \in Sessions |-> "idle"] /\ handler = [s \in Sessions |-> "ordinary"]
    /\ seen = [s \in Sessions |-> NothingSeen]
    /\ pending = [s \in Sessions |-> {}] /\ written = [s \in Sessions |-> {}]
    /\ dml = [s \in Sessions |-> FALSE] /\ bypass = [s \in Sessions |-> FALSE]
    /\ held = [s \in Sessions |-> {}] /\ commits = [s \in Sessions |-> 0]
    /\ last = [s \in Sessions |-> [models |-> {}, gated |-> FALSE, held |-> {}]]
    /\ worker = "down" /\ queue = [n \in 1..MaxTries + 1 |-> IF n = 1 THEN 1 ELSE 0]
    /\ job = 0 /\ jobSeen = NothingSeen /\ jobHeld = {}
    /\ ran = [done |-> FALSE, held |-> {}] /\ lost = 0 /\ starts = 0 /\ redisFaults = 0

GateNext == ChangeDisk \/ SessionNext \/ WorkerNext

GateSpec == GateInit /\ [][GateNext]_gateVars

\* What an evaluation has read: of the first n files.
Views == [n : 0..5, fleet : Fleets, active : Actives, freeze : BOOLEAN, decommission : BOOLEAN,
          key : BOOLEAN]

\* Types.
GateTypeOK ==
    /\ disk \in Disks
    /\ doing \in [Sessions -> {"idle", "ingress", "handler", "gate"}]
    /\ handler \in [Sessions -> Models]
    /\ seen \in [Sessions -> Views] /\ held \in [Sessions -> SUBSET Files]
    /\ pending \in [Sessions -> SUBSET Models] /\ written \in [Sessions -> SUBSET Models]
    /\ dml \in [Sessions -> BOOLEAN] /\ bypass \in [Sessions -> BOOLEAN]
    /\ last \in [Sessions -> [models : SUBSET Models, gated : BOOLEAN, held : SUBSET Files]]
    /\ worker \in {"down", "starting", "up", "dequeue"} /\ job \in 0..MaxTries
    /\ queue \in [1..MaxTries + 1 -> Nat]
    /\ jobSeen \in Views /\ jobHeld \in SUBSET Files
    /\ ran \in [done : BOOLEAN, held : SUBSET Files]
    /\ lost \in Nat /\ redisFaults \in Nat

-----------------------------------------------------------------------------
(* Properties *)

\* Nothing but the stop's own writes is ever committed past the gate, in whatever
\* order a session adds, flushes, executes, marks, commits and rolls back, and
\* although it serves one transaction after another.
OrdinaryIsGated == \A s \in Sessions : "ordinary" \in last[s].models => last[s].gated

\* A commit, or a job, that the gate let through was not forbidden by one and the
\* same file from before its check to its end: no freeze, decommission, fleet
\* entry, active marker or key that stood all the time is overlooked.
NothingOverlooked ==
    (\A s \in Sessions : last[s].held = {}) /\ ran.held = {}

\* A freeze loses no job: one is given up only after Redis refused it at each try.
FreezeLosesNoJob == lost > 0 => redisFaults >= MaxTries

\* ... and until it has run or been given up, it is somewhere.
JobSomewhere == ran.done \/ lost > 0 \/ job # 0 \/ \E n \in DOMAIN queue : queue[n] > 0

\* A host that may not write commits nothing but the stop's own rows and starts no
\* job, and a freeze loses none (active_registry_mutation_gate.py,
\* active_registry_worker_gate.py).
WritesGated == OrdinaryIsGated /\ NothingOverlooked /\ FreezeLosesNoJob /\ JobSomewhere
=============================================================================
