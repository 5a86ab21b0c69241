# TaskManagedAI: a TLA+ model of its control plane

TaskManagedAI manages work that AI agents do on tickets: a FastAPI and MCP
server over PostgreSQL creates AgentRuns, drives them through providers,
validation, policy and approval, lets agents delegate to each other, keeps the
secrets they use, and gives an operator an emergency stop. Scripts on the host
back the system up, restore it, migrate it and decide whether it may write. This
directory holds TLA+ models of the parts where several transactions, processes
or crashes meet, TLC configurations for them, and TLAPS proofs.

## 1. Inventory

Paths are relative to `src/backend/app/` unless they begin with `scripts/` or
`migrations/`. `PROJECT.json` lists every part of the repository, the unmodelled
ones with the reason, and the hazards with their lines.

| part | state | operations | talks to |
|---|---|---|---|
| AgentRun state machine (`domain/agent_runtime`, `services/agent_runtime/state_machine.py`) | `agent_runs.status`, `blocked_reason`, `run_mode` | `validate_transition`, `transition_with_event` | everyone who moves a run |
| Runtime steps (`orchestrator.py`, `cancel.py`) | none of their own | provider step, validation, repair, shadow completion, cancel | state machine, latch, providers |
| Budgets (`budget_guard.py`, `usage_logger.py`) | accumulators on the run, budget rows | preflight, record, enforce, kill switch | provider step |
| Emergency stop (`services/superintendent/emergency_stop.py`) | latch rows with a generation, `pre_stop_status` | `engage`, `clear` | runs, bridge (advisory lock), provider step, supervisor |
| MCP bridge (`mcp/api_bridge.py`) | none | run create / update / cancel, delegation create / accept / submit / cancel, approvals | runs, messages, latch gate |
| Managed agents, supervisor (`services/superintendent/*`, `mcp/server.py`) | `managed_agents` rows, OS processes | spawn, stop, kill on engaged hosts | latch, operating system |
| Secret custody (`secret_registration.py`, `rotation.py`, `material_reconciliation.py`) | `secret_refs` rows | register, rotate, promote, rollback, revoke, `gc_orphans` | local store, broker |
| Local secret store (`services/secrets/local_secret_store.py`) | backend marker, master key, material files, keyring | store, resolve, delete | custody |
| Secret broker (`services/secrets/broker.py`) | capability tokens | issue, claim, redeem, mark | custody, approvals |
| Approvals (`services/policy`, `api/approval_inbox.py`) and research promotion | approval and revision requests, tickets | request, decide, revise, hand over, invalidate, promote | runs, projects |
| Inter-agent messages (`services/inter_agent`) | messages in one hash chain per parent | publish, consume, expire | bridge, event log |
| Event stream (`services/realtime/agent_run_stream.py`) | places, per-client queue | admit, drain, notify, end | event log |
| GitHub webhooks (`api/github_webhooks.py`, `services/repoproxy`) | secret versions, replay keys in Redis, event rows | verify, claim, record | rotation, Redis |
| Evaluation (`services/eval`, `eval/`) | fixtures on disk, counters | load corpora, hard gates, KPIs, acceptance report | files |
| Command line agents (`services/cli_artifact`), runner (`services/runner`) | processes, cancel registry, output | invoke, terminate, run a command | Redis, operating system |
| Destructive lock (`scripts/taskhub_destructive_lock.py`) | a lock file and its flock | acquire, remove a stale file, release | every destructive command |
| Backup and restore (`scripts/taskhub_backup_orchestrator.py`, `taskhub_restore_orchestrator.py`) | database, artifacts, Redis, archives, snapshots | backup, restore, rollback | services of the host |
| Migration epochs, signed approvals, write gate (`scripts/taskhub_*`, `active_registry_*`) | journal, counter; approval files, keys; marker files | allocate; issue, require; evaluate | host files, sessions, workers |
| Migrations and mapped classes (`migrations/versions`, `db/models`) | schema, revision | upgrade, downgrade | rows |

**What is hard here.** Transactions run at READ COMMITTED, and some writers read
a row without a lock and write it later. The stop has to win against sessions
that are already open, against provider calls that are in flight, and against
writers that never look at it. Secret material lives outside the database, so
every secret operation is a sequence of commits and store calls with a crash
possible between any two. Processes outlive the server that started them, and
their group ids are used again. Webhooks are delivered twice while their secret
changes. The commands of the host are sequences of calls to three stores, each
of which can fail half done, and their lock is a file that is removed when it is
old.

**What makes each part correct.** Runs: an ended run stays ended; a shadow run
never enters the pipeline with side effects. Stop: a stopped run does not go on,
a clear can always finish and puts runs back where they were, no provider result
computed across an engage is used, no agent starts and every recorded one is
killed. Custody: what may be used has its material, what is reported purged has
none. Tokens: one redemption at a time, of what was granted. Approvals: decided
once, by somebody else, and used for one outcome. Webhooks and messages: each
once, in order. Host: one destructive command at a time, and no failure loses
the data an operator may come back to.

## 2. Modules

| module | models | proofs | instantiated by |
|---|---|---|---|
| `AgentRunStatus` | the status tables (constants only) | | `EmergencyStop` |
| `EmergencyStop` | the stop and every writer of a run's status | `EmergencyStop_proofs` | `MC_EmergencyStop` |
| `RunBudget` | usage and budgets of one run | `EmergencyStop_proofs` | `MC_EmergencyStop` |
| `SecretCustody` | registration, rotation, revocation, reconciliation | `SecretCustody_proofs` | `MC_SecretCustody`, `MC_Liveness` |
| `LocalSecretStore` | the store of the material | `SecretCustody_proofs` | `MC_SecretCustody` |
| `ManagedAgents` | spawn, stop tool, supervisor, crashes, reboots | `ControlPlane_proofs` | `MC_Control`, `MC_Liveness` |
| `SecretCapability` | capability tokens | `ControlPlane_proofs` | `MC_Control` |
| `CliInvocation`, `RunnerCommand` | commands of agents and of the runner | `Processes_proofs` | `MC_Control` |
| `ControlPlane` | the four above together | `ControlPlane_proofs` | `MC_Control` |
| `ApprovalFlow` | approvals, revisions, research promotion | `ApprovalFlow_proofs` | `MC_Services` |
| `WebhookIntake` | webhooks and the rotation of their secret | `Channels_proofs` | `MC_Services` |
| `RunMessages` | messages between runs | `Channels_proofs` | `MC_Services` |
| `EventStream` | server-sent events of a run | `Channels_proofs` | `MC_Services`, `MC_Liveness` |
| `Channels` | the three above together | `Channels_proofs` | `MC_Services` |
| `FixtureLoaders`, `FixtureCorpus`, `KpiMetrics`, `HardGates`, `AcceptanceReport` | the evaluation | | `MC_Services` |
| `HostMutex` | what the destructive lock promises (abstract) | | `DestructiveLock` |
| `DestructiveLock` | the lock file, call by call | `HostFiles_proofs` | `MC_Host` |
| `BackupRestore` | backup, restore, rollback | `BackupRestore_proofs` | `MC_Host` |
| `EpochJournal` | epochs of host migrations | `HostFiles_proofs` | `MC_Host` |
| `MigrationScripts`, `OrmModels`, `Migrations` | the 54 revisions, the mapped classes, moving between revisions | | `MC_Host` |
| `SignedApproval`, `WriteGate` | approvals of destructive commands; the gates on writing | `HostFiles_proofs` | `MC_Host` |

A proof module EXTENDS its components: `HostFiles_proofs` the four that the host's
commands share files through, `EmergencyStop_proofs` also `RunBudget`,
`SecretCustody_proofs` also `LocalSecretStore`, `ControlPlane_proofs` also
`Processes_proofs`. `MC_Host` EXTENDS `BackupRestore`, `DestructiveLock`,
`EpochJournal`, `SignedApproval` and `WriteGate`, `MC_Control` EXTENDS
`ControlPlane`, `MC_Services` EXTENDS `ApprovalFlow` and `Channels`,
`MC_EmergencyStop` EXTENDS `EmergencyStop` and `RunBudget`, `MC_SecretCustody`
EXTENDS `SecretCustody` and `LocalSecretStore`: the properties TLC checks are the
very definitions the theorems state. The rest is used through `INSTANCE`.

The parts of `ControlPlane` share no table, file or process in these models, and
neither do those of `Channels`: a step of the whole is a step of one part, and the
others keep their state. An invariant of a part is therefore one of the whole.

An MC module holds several instances side by side. Its variable `part` names the
one at work; the variables of the others keep their initial values, so the state
spaces add up and do not multiply. A part is a smaller instance of the component
(`Deciding`, `Rotate`) or its next-state relation restricted to some of its
actors (`OneServer`, `OneSession`, `Focus`, `GateStep`): in both cases its
behaviours are behaviours of the component with the constants of the cfg.

Operators whose names have a suffix (`Engage_NoLock`) are mutants: plausible
bugs that the named property must detect. They are not part of any
specification.

### EmergencyStop

State: one tenant; `status`, `reason`, `preStop` are columns of `agent_runs`;
`actionable` says that the run's ticket and project are not deleted or archived;
`engaged` and `maxGen` are the latch table; `pc`, `g0`, `postActive` are the
local variables of `execute_provider_step`; `bridge` is the one bridge session
that holds the advisory lock; `canceller` is a `bridge_run_cancel` session,
which takes no lock. `blockedBy`, `blockedFrom`, `startGen`, `callGen` and
`respGen` are history variables for the properties; no guard reads them.

- An operation whose write is conditional on the status it starts from, or that
  locks the row first, is one step: `transition_with_event` and its callers,
  `cancel_agent_run`, the orchestrator services, `engage`, `clear`,
  `bridge_delegation_cancel`.
- The bridge's `run_update`, `delegation_accept`, `delegation_submit` and
  `run_cancel` SELECT the row, check it, and write it by primary key. They are a
  begin, which remembers what was read, and a commit. The ORM writes only the
  attributes whose new value differs from the one loaded (`Flush`, external);
  a row CHECK that the result breaks, or a colliding message or event number,
  rolls the session back.
- The provider step is split at each of its four latch reads and at the call.
- `engage` is one step under the advisory lock. A run that enters a block-source
  status between engage's SELECT and its commit is ordered after the engage.
- The worker that drives runs is not in the repository. `DriverTransition`
  (external) takes a run along any edge of the table that no step in the
  repository owns, from `blocked` too: `transition_with_event` reads no latch.
  `execute_repair_decision_step` checks no start status of its own; it may start
  wherever the table has an edge to the retry's status (`RetryStatuses`).
- Provider answers, schema validation and lease expiry are nondeterministic.

`RunBudget` is the arithmetic that `EmergencyStop` leaves out: two sessions load
a run's sums, call the provider and write sums back, while budgets change.
`recorded` (the tokens of the calls whose step was committed) and `crossed` (the
run was set going again while a step was under way) are history variables.

### SecretCustody and LocalSecretStore

State: the versions of one secret name. `st`, `mat`, `from` are columns of
`secret_refs`; `aged` holds the rows older than gc's grace (any UPDATE takes a
row out: `updated_at` has an `onupdate`); `material` is the local store;
`writer`, `purger`, `gc*` are where each call stands. `material_purged_at` is
not a variable because a CHECK ties it to `mat`.

`register` and `rotate` are: insert and commit, store, conditional UPDATE, and
on failure a best-effort cleanup; `revoke` is: commit, delete, mark; `gc_orphans`
is: tombstone the aged writing row, tombstone the stale candidate, select the
revoked rows, then delete and mark one by one. Every process can die between any
two of these, and `store.delete` can fail. At most one row of a name is pending
(partial unique index), so each tombstone loop is one step. `rotate`'s EXISTS on
the old row is evaluated with its UPDATE. `sops` rows have no material here.

`LocalSecretStore` is the store itself at the grain of its file operations, with
what a power failure leaves of those that were not synced. The code makes its
directories (`base`, `secrets.d` with the tenant's, `keyring.d`) and syncs what is
in them, never the directory they are made in. So `dirs` are the directories that
are there, `durable` those whose own entry is on disk, and a power failure may take
any other with all it holds (`lost`). `prepared` are the directories that were
there, on disk, before the store was first used.

### Agents, tokens and commands

`ManagedAgents`: a spawn call holds the advisory lock from its look at the latch
to the commit of its row; the process exists before the row does. The supervisor
of a server polls, opens a kill transaction that locks the latch row, signals
each recorded process group of its host and marks the rows; `KillOne` compares
boot id and start time first. Servers crash, hosts reboot, and the system gives a
free process group id to somebody else. Such a foreign group has a leader that
started within the 5 s of tolerance (`close`) or not (`apart`), or its leader has
exited (`headless`): then psutil has no answer, which the code takes for consistent.

`SecretCapability`: a redemption is one transaction of the caller; the claim is a
conditional UPDATE that waits for the row lock, the second look at the secret
takes its row lock, and both are held until the caller commits or rolls back.
What a token is bound to is its `grant`, what the caller presents its `req`.

`CliInvocation` has the tasks of one orchestrator (launch, waiter, cancel
listener) as separate processes. Invocations of one run share its cancel event, and
the first to end unregisters it for all: another one that listens goes `deaf`.
`RunnerCommand` has the reader, the watcher and the timer of one command. Patterns
of dangerous commands are classes of argument vectors; up to five wrappers are taken
off, but one with an option that is not known leaves the option in the place of the
command's name.

### Services

`ApprovalFlow`: a session loads an approval and works on the loaded object;
guards read what was loaded, the final UPDATE is conditional on the status or
runs under the project's row lock. `WebhookIntake`: a handler selects the current
and the previous secret, verifies, claims the delivery id in Redis, commits the
audit, and records the event with an insert that waits for another one of the
same delivery. `RunMessages`: sequence number and previous hash are read and the
row inserted later; the lock of the parent's stream orders publishers. The bridge
inserts delegations and results without that lock, without a previous hash and
without an event. `EventStream`: a notification wakes a task that drains the
log in pages; the end of a run is read before the last drain. The evaluation
modules read manifest, directory and fixtures one after the other, file by file,
while files and manifest change, and compute verdicts over counters.

### Host

`DestructiveLock`: every system call on the lock file is a step, the lock belongs
to the inode, commands find it by its path. `aged` and `overlap` are history.
`BackupRestore`: what each store holds is the number of the generation it belongs
to; every call of a command may fail, half done where the code does it in
several, and the command may die before it. The application writes a fresh
generation (`newest`) whenever it is up, under a command that has not stopped it yet
too, and between a start that failed and the rollback's stop: what is written there
the rollback undoes, so it is not counted among what must survive (`live`).
`EpochJournal`: deaths leave torn
lines, and the counter file may be lost. `Migrations` applies the operations of
`MigrationScripts` to a schema of tables, columns and checks, one transaction per
command, and to the rows that revisions refuse or change. `SignedApproval` reads the
mode of the key file, the key and the allowlist one after the other, and `WriteGate`
its files.

## 3. Runs

Six runs pass; each is one MC module with all its parts.

**`emergency`** (`MC_EmergencyStop`). Parts: `step`, a driven production run
under `run_update`; `bridge`, a run under every bridge operation; `child`, a run
and its delegate; `shadow`, a driven shadow run; `budget` and `usage`, the
budgets of a shadow and of a production run that two sessions drive. It shows
that neither open sessions nor later calls undo a stop, the runtime's own
`transition_with_event` excepted (`BlockedRunsStayStopped`), that the
stopped status is remembered (`StopRemembersStatus`) and a clear can finish
(`ClearNeverWedged`), that no result is used across an engage or while engaged
(`NoResultAcrossEngage`, `PassOnlyWhenClear`), that nothing but the unlocked
bridge sessions revives an ended run (`TerminalUnlessBridge`), that a shadow run
comes into the pipeline by one door alone, from `blocked` to `waiting_approval`, and
goes no further (`ShadowConfined`), and that usage is recorded or was
thrown away, caps are kept and a run over a limit is blocked (`BudgetsSound`).

**`custody`** (`MC_SecretCustody`). Parts: `rows`, three versions of a name;
`store`, two processes and two secrets in a store whose directories are prepared,
with one failing call, death or power failure; `power`, one secret and two such
faults, two processes where the base directory is prepared or one where none is.
Usable versions have material (`UsableHasMaterial`),
a purged row has material only through its own late writer
(`FalsePurgedOnlyByLateWriter`), stored material is not lost and is readable
with the key there is, but for what goes with a directory the store had made
(`MaterialKept`), the active version is lost only by a
revoke (`ActiveLostOnlyByRevoke`), a stale candidate stays stale
(`StaleForever`).

**`control`** (`MC_Control`). Parts: `spawn`, two calls start one agent on one
server; `reuse`, one agent on two servers of a host that reboots; `race`, two
sessions redeem one token; `grant`, one session with requests that differ in one
binding; `cli`, one invocation with descendants and output; `pair`, two of one run;
`runner`; `near`, commands close to a dangerous one and dangerous ones that a
wrapper hides. A foreign group is signalled only where nothing tells it from the
agent's (`KillsSound`); the latch rules the agents (`LatchRulesAgents`); a redemption
is of what was granted, and approved for its action, resource, payload and run
(`RedemptionsSound`); a cancel reaches the invocation that waits unless another one
of its run ended first, and nothing dangerous starts unless a wrapper hid it
(`ProcessesSound`).

**`services`** (`MC_Services`). Parts: `decide`, `promote`, `revise` of
approvals; `corpus`, `kpi`, `gates`, `report` of the evaluation; `replay` and
`secrets` of webhooks; `publish` and `consume` of messages; `stream`. Properties:
`IndependentDecision`, `DecisionsStand`, `OneApprovalOneOutcome`, `CorpusSound`,
`VerdictsEarned`, `WebhooksSound`, `ChannelsSound`.

**`host`** (`MC_Host`). Parts: `stale`, three commands and a legacy backup on a
lock file that may grow old; `restore`, backups and restores; `epoch`; `schema`,
`tickets`, `secrets` of the migrations; `approval`; `session` and `worker` of the
write gate. Properties: `ExclusiveUnlessOverlap`, `LockImplementsMutex` (the
refinement of `HostMutex`), `RestoresSound`, `ArchiveIsOneMoment`, `EpochsSound`,
`MigrationsSound`, `ApprovalsSound`, `WritesGated`.

**`liveness`** (`MC_Liveness`). Parts `agents`, `custody`, `stream`:
`EngageKillsRecorded`, `CustodySettles`, `EventsArrive`.

Six runs end in a violation; each is a finding of `PROJECT.json`, where the line
of the documentation is quoted.

1. **terminal**: the bridge writes a status by primary key after an unlocked
   read, so a run that ended meanwhile is revived (`api_bridge.py:1215`, 1597,
   758).
2. **resume**: `transition_with_event` (`event_log.py:88`) and `run_update`
   (`api_bridge.py:1214`) move an emergency-blocked run without clearing
   `pre_stop_status`. Engage stops a run in `policy_linted`, a transition takes it
   from `blocked` to `running`, an ordinary block follows, and the clear puts it
   back to `policy_linted`.
3. **falsepurge**: `gc_orphans` uses the `material_purged_at` of its SELECT when
   its delete fails (`material_reconciliation.py:132`).
4. **lock_overlap**: a command removes the stale lock file that another has just
   opened; both get a lock (`taskhub_destructive_lock.py:125`).
5. **redis_rollback**: with `--appendonly yes` a rolled back restore leaves Redis
   empty (`taskhub_restore_orchestrator.py:1793`).
6. **schema_path**: below 0014 and 0015 the checks on payload keys depend on
   whether the database was downgraded (`0014_prohibited_event_keys_21.py:84`).

**Bounds.** `MaxGen` bounds how often the operator engages; two are needed for an
engage, a clear and another engage, and no guard of the code counts further. One
run suffices where the property is about one row, because runs interact only
through the latch, the lock and the lineage; part `child` has the lineage. Three
versions of a secret give a rotation from a rotated version, with a rollback
target. Two sessions, handlers or writers race on one row; a third adds nothing
the row lock or the conditional UPDATE would treat differently. Three commands
and three lock files let one hold the removed file, one the new one, and one
start. Three approvals give a revised one that is revised. Two faults let a
rollback fail after the restore did, and a power failure follow a failed call of the
store. Three generations of the host's data are those of before, of an archive and
of the writes under a rollback. Part `child` has one engage and is not followed past
the artifact of either run; in `pair` processes are plain and `cli` has the others
(`Plainly`, `OneInvocation`); in `corpus` what is malformed was so before the loader
ran (`FlawsCameFirst`). Rows go with the schema in 0038 to 0041 and 0046 to 0054, and
`RefusedForACause` speaks of these revisions; elsewhere there is the schema alone. Three webhook secrets give a current, a
previous and an older one. In `host`, Redis loads `dump.rdb` (`AofOn = FALSE`,
the case in which `RestoresSound` says most); `redis_rollback` has the append-only
file on. The theorems remove the bounds for the properties they state, and hold
for both values of `AofOn`.

**Fairness** is assumed in `liveness` only. Agents: a dead server is started
again, its loop keeps running, and a poll does not fail every time before it
reaches a given row (strong fairness of `KillOne`). Custody: `gc_orphans` is run
again and again ("定期 or 手動", `material_reconciliation.py:3`), each of its
stages is reached by some run (strong fairness, since a run may crash),
`store.delete` does not fail for ever, and time passes. Stream: the event loop
goes on with a task that can go on, and the heartbeat ends a wait. Nothing is
assumed of writers, revokers, operators, clients or notifications.

## 4. Proofs

Every theorem holds for all values of the constants. The assumptions are the
`ConstantsOK` of the module (named after the module where two are extended
together): values that stand for nothing are outside the sets they are added to,
tables are functions of the right domain, bounds are natural numbers. TLC
evaluates them on every run. No theorem assumes that a set is finite.

**`EmergencyStop_proofs`.** `TypeCorrect`; the lemma `TransitionTypes` covers
every caller of `transition_with_event`, `RuntimeAdvances` reduces the runtime's
steps to it. `RowSteps` reduces the next-state relation to nine ways of writing a
row; the theorems about rows have one case for each. `ShadowConfinement` and
`ClearCanFinish` rest on `ShadowInv`: a shadow run is never `policy_linted` or
`diff_ready`, and was stopped in `running` or `waiting_approval` if at all. Its table
has one edge into the pipeline, from `blocked` to `waiting_approval`; `preStop`
belongs to the invariant because a resume copies it to `status`. `StopMemory`:
`preStop` of a run that an engage blocked equals `blockedFrom`. `StopHolds` rests on
`LockInv`: no bridge session is open while the latch is engaged, which is what the
advisory lock buys; the steps it leaves are the runtime's (`RuntimeStep`).
`TerminalSafety`: the table has no edge out of a terminal status, and
`SessionFacts` ties the remaining writers to their sessions. `ResultSafety` and
`PassSafety` rest on `StepInv`: the generations a step has read are ordered, and
if the response read found no latch and no generation was added since, the latch
is clear.

**`EmergencyStop_proofs`, budgets.** `BudgetSafety` states `BudgetsSound`. A step
of `RunBudget` locks the run only when it writes, long after its load, so that usage
is not lost is a matter of status: the invariant `BudgetInv` has `SeenInv`, a running run
has the sums that every step under way has loaded, or, once that step was flushed,
the sums it will commit. The first commit takes the run out of `running`, so a
second step cannot write over it; a run set going again in between is the exception
`crossed`. The rest of `BudgetInv` says what a step knows of its call (`UsageInv`),
and that a step of a shadow run keeps room under the caps for all it may use
(`CapsInv`) and was admitted with the kill switch off (`ClearInv`).

**`SecretCustody_proofs`.** One inductive invariant, `CustodyInv`: purgers work on
revoked rows only, an unfinished writer has not made its row usable, what it
stored is there while its row is writing, and what was deleted is back only
through its own late writer. From it follow `CustodyTypes`, `MaterialSafety`,
`PurgeHonesty` and the action property `ActiveSafety`. `StaleStaysStale` needs
more: a rollback makes an old version active again, so one has to know that the
version it brings back is never the predecessor of a stale candidate.
`LineageInv` says that `rotated_from` has no cycle and that the active row is the
candidate's predecessor or an ancestor of it; "ancestor" is said with the sets of
rows that `rotated_from` does not leave, so that no recursion is needed.

**`SecretCustody_proofs`, store.** `StoreSafety` states `MaterialKept`, by
`StoreInv`. Its heart is `DiskInv`: a marker, a key or an unlink that is not on disk
is somebody's change still to be synced, or an orphan whose process ended first.
A power failure can then take back only what no call has returned from. `Pinned`
(all work, on disk and under way, is in the pinned backend) and `OneKey` (all files,
here, on disk and to be written, are encrypted with the one key) hold unless a
failure excused the marker or the key; `StoredOnce`, `StoredDurable` and
`DeletedIsGone` follow a ref from its store to its deletion, or to `lost`, when it
went with a directory; `TreeInv` has the prepared directories on disk for good, so
that with `base` and `secrets.d` among them no file is lost; `CallInv`, `KeyInv` and
`SyncInv` say what a process in the middle of a call may rely on.

**`ControlPlane_proofs`, agents.** `LockInv`: a spawn call past its look at the latch
holds the advisory lock, and whoever holds it found the latch clear. `LatchRowInv`:
a server in its kill transaction holds the latch row, and then the stop is
engaged. `RowInv`: a row exists only once its spawn call is over, and the process
groups of rows that are marked or were ended by a supervisor are empty. What a
supervisor signals of others (`misfired`) passed the comparison of boot id and start:
its leader had exited or was close. With `CallInv` and `StopInv` these give `AgentTypes`, `KillSafety` and the action
property `LatchSafety`.

**`ControlPlane_proofs`, tokens.** For each session: `Shape` (what it has done agrees
with where it stands), `Claim` (it holds the lock of a token whose committed row
is still issued, for what it asks), `Hold` (the secret's row is locked from the
second look on, and stays as found), `Recorded` (a final answer that was
committed is in the row). `Leaves(y)` is what another transaction must leave
alone for session `y` to stand; the frame lemma proves it for each action once.
With `GrantsGood` (a grant that came with an approval has it for its action,
resource, payload and run) and `EffectsKnown` this gives `CapabilityTypes` and
`RedemptionSafety`.

**`Processes_proofs`.** `CliInv` for any number of runs and invocations: a cancel
that is owed is in the registry, as an event or as pending, never both
(`RegistryInv`); who listens for a cancel has an event there, and who is deaf had
another invocation of its run end first (`WaitInv`); where a launch stands tells which signals
it sent and why (`SignalInv`), who cancelled it (`CancelInv`) and when its outcome
came (`OrchInv`). `RunnerInv` for any command, caps and amount of output: what there
is at each stage (`StageInv`), what the token knows (`CancelTokenInv`), what each of
three terminations leaves to the next (`TerminationInv`), that without a cancel, a
timeout or a cap all that was written has been read (`WholeInv`), and that a stream
is read one chunk past its cap at most (`BoundInv`). In `ControlPlane_proofs` these
give `ProcessSafety` and, with the types of agents and tokens, `ControlTypes`.

**`ApprovalFlow_proofs`.** Sessions work on loaded rows, so the invariant relates
what was loaded to what is there: `Same(a, b)` says that `b` is a later state of
`a`, and `ApprovalsLater` that every step only moves rows on; a session's
`HasRow`, `HasRevision`, `HasBinding` and `HasLock` then survive the steps of the
others. `RevisionsGood` and `TicketsGood` speak of the outcomes. Results:
`ApprovalTypes`, `IndependenceHolds`, `OutcomeSafety` and the action property
`DecisionSafety`.

**`Channels_proofs`, webhooks.** `WebhookInv`: each handler's message, verdict and row
agree with where it stands (`HandlerGood`), two handlers never both hold an
uncommitted claim of one key or an open insert of one delivery (`Apart`), a
window's count is at most one and only of a key that is there (`Counted`), and
rows and anomalies agree with the first payload. That the selection of the
current and the previous secret is defined needs a least and a greatest element
of a set of versions (`LeastExists`, `GreatestExists`), from the well-foundedness
of the natural numbers. Results: `WebhookTypes`, `WebhookSafety`.

**`Channels_proofs`, messages.** `MessagesInv`: the rows are numbered from one
without a gap (`Numbered`), although number and hash are read before the insert,
because the number a publisher has read is overtaken by the bridge alone, and then
its insert fails (`PublisherInv`); a consumer in its transaction holds a row that
nobody has consumed, and one that was denied had a reason (`ConsumerInv`); two open
transactions never hold the same row or the end of the same log (`ApartInv`); logs
and rows tell the same story (`LogInv`, `RowInv`). `Evolves` is what a step of one
session may do to rows and logs: append, or mark a row that was not consumed;
`OtherSession` shows that every other session stands after such a step.

**`Channels_proofs`, streams.** `StreamInv`: the places taken are counted by the open
streams (`PlacesInv`), and what a stream knows of its run is true of it (`FollowInv`):
a drain before the end began after the run was over, so that at its end the cursor
is past the final event, unless the ticket was deleted. With the messages this gives
`ChannelSafety`, which states `ChannelsSound`, and `ChannelTypes`.

**`HostFiles_proofs`, lock.** `StaleSafety`: while no two commands have been
between start and flock together, `NoOverlapInv` holds: the one that is starting
has the file the path names, and a command at work keeps that file locked.
`LockRefinesMutex`: until a file has been an hour old, `OneFile` holds, everybody
has the first file open or none; every step maps to `Enter`, `Leave` or a
stutter of `HostMutex`. The mapping shows nobody inside once a file has aged: from
there on nothing is promised but `StaleSafety`, and `lock_overlap` shows why.

**`HostFiles_proofs`, epochs.** `EpochSafety` from `EpochInv`: a process that
allocates holds the flock (`OneAllocates`), the epochs of the lines that verify
increase (`LinesIncrease`), what was handed out is known to the counter file or to
such a line unless the loss was blind (`IssuedKnown`), and what a process has chosen
is beyond all that was there when it chose (`ChosenBeyond`). `IssuedKnown` survives
the loss of the counter only because every epoch handed out is on some line. The
line the scan finds is defined by a greatest position (`GreatestExists`), and
`AppendKeepsChain` shows that a line appended prolongs the chain or, joined to a
torn one, leaves it.

**`HostFiles_proofs`, approvals.** `SignedApprovalSafety` from `ApprovalInv`: what
was signed had passed the issuer's checks (`SignedGood`), no file, issuer or waiting
command carries a signature that was not made (`NoForgery`), and a command that
waits for its verdict has passed the checks of its record at the time it noted, with
an allowlist whose keys were all listed while it was being checked (`Checked`). Edits change payloads, never which signature a file carries.

**`HostFiles_proofs`, write gates.** `GateSafety` from `GateInv`, one part for
sessions and one for the worker. `Watched`: what has forbidden writing ever since an
evaluation began is still there, and was found so if its file was read; so an
evaluation that passes has nothing left that did. `Clean`: mark and flag of a session
are those of its transaction. `TriesPaid`: every try of a job but the first followed a
failing call of Redis.

**`BackupRestore_proofs`.** `HostInv` has eight parts: `CommandInv` (which
snapshot a command has, and how much of it is there), `RedisInv` (a server with
the append-only file on has its data there), `BackupInv` (what a backup has staged
is still in place), `PlacedInv` (what a restore has put in place so far),
`BeforeInv` (what it can come back to), `RolledInv` (how far a rollback has come),
`CoherentInv` (unless broken, artifacts and database agree everywhere), `LiveInv`
(what must not be lost is in a snapshot before anything overwrites it). `UpInv` says
when the application can write under a command: before the command's own stop, and
where that is a rollback's, its snapshot is whole. Results:
`RestoreTypes`, `RestoreSafety` and the action property `ArchiveSafety`.

**Only model-checked.** The liveness properties, since fairness and ENABLED are
outside the prover's reach. The violations. The evaluation and the migrations
(`CorpusSound`, `VerdictsEarned`, `MigrationsSound`): what they compute are folds
over data, and induction over data is out of reach. The type invariants `HostTypeOK`
and `ServicesTypeOK` range over these modules too; for the other components they
range over, the types are conjuncts of the inductive invariants above.

## 5. What the code does that a reader may not expect

Met while modelling, consistent with the code and part of the models unless
marked (not modelled).

- Stop: steps after the provider step do not read the latch, so a repair may set
  a run to `running` while the stop is engaged; `docs/adr/00048` (line 361) has the
  gate deny `blocked` to `running`, and `transition_with_event`
  (`event_log.py:36-159`) has no gate. An engage and clear between the
  two preflight reads is not noticed by the generation comparison.
- Shadow runs: the comment at `state_machine.py:65-69` keeps them out of the
  approval pipeline; the forbidden set (line 84) leaves `blocked` to
  `waiting_approval` open.
- Agents: `supervisor.py:93` promises that nobody else's process is killed; a group
  whose leader has exited, or started within 5 s of the row, is (143-146) when it
  has the row's group id in the row's boot. The stop tool leaves descendants; a process whose server died before
  its row was committed is recorded nowhere; without psutil a reused group id is
  not noticed.
- Tokens: when the caller rolls back after an operation, the token can be redeemed
  again, so its effect is not at most once; the expiry is not looked at again
  after the claim.
- Approvals: the notification of a pending approval goes to the requester.
- Budgets: wall clock and retry limits never bite; limits of tenant, project and
  all are compared with the run's own sums; a production run is checked after
  the call only; usage that was discarded or rolled back is recorded nowhere; a
  run set going again while a step is under way can lose recorded usage.
- Store: a delete whose unlink was not synced and whose retry finds nothing
  reports success, and a power failure brings the file back; another process may
  rely on a marker or key that is not synced yet; an operator who removes the
  marker lets another backend be pinned; resolve creates a missing master key. The
  comment at `local_secret_store.py:347-350` has the file survive a power failure; a
  directory that the store has just made (332, 362) is not synced into its parent.
- Commands of agents: a cancel in the grace of a time-out's termination skips the
  SIGKILL; descendants survive when the leader exits; two invocations of one run
  share the cancel event, and when the first ends the second no longer hears
  (`orchestrator.py:206`, `cancel_propagation.py:147-152`); a late cancel cancels the next invocation; a full
  pending set drops an arbitrary one. Runner: the normalisation calls itself
  fail-closed (`dangerous_command.py:142-145`), yet `env -v` or `time -p` before a
  dangerous command hides its name; with a cancel token, output not yet
  drained when the process exits is lost; a cancelled `run_command` leaks its
  process. Runner, command orchestrator, publisher and consumer have no
  production caller yet.
- Webhooks: the claim precedes the processing, so a failure after it makes the
  redelivery a refused replay; one failure of the repository lookup loses the
  event though 202 was answered; after a rollback to v2 with v1 deprecated the
  previous secret is v1. Status codes, empty secrets and field cleaning are not
  modelled.
- Messages: delegations and results have no previous hash and no event, so the
  consumer refuses them past the first; the bridge takes no stream lock and can make
  a publisher fail; a trusted approval is not locked.
- Stream: a ticket deleted between the read of the terminal status and the drain
  ends the stream with events missing; events after the terminal one are not
  sent; `reset_stream_resources` zeroes the counter while streams run (not
  modelled).
- Evaluation: the loader does not compare the index with `expected_count`, looks
  for redacted expectations at top level only, and skips tamper detection for an
  empty index; the thresholds of KPIs have one millisecond of tolerance.
- Host lock: the removal unlinks by path a file somebody may hold; the payload
  shown to a refused command may be an earlier command's; the legacy backup takes
  no lock. Restore: with the append-only file on, a successful restore leaves
  Redis empty too; services that a failed start has left up write until the
  rollback's stop, and the rollback throws that away.
- Epochs: a torn line that the next append joins hides an epoch, which is given
  out again if the counter is then lost; a torn first line blocks allocation.
- Migrations: 0049 and 0050 count rows without a lock; the downgrade of 0053
  drops an engaged latch, of 0052 `pre_stop_status`, of 0048 the shadow mode; the
  downgrades of 0011 (line 104), 0012 (65), 0013 (77) and 0025 are refused by rows
  of the newer kinds (not modelled).
- Signed approvals: an approval can be used until it expires; no key is tied to a
  decider, so any key of the allowlist signs for anybody; `taskhub approval
  issue` never writes the fingerprint that a phase 5 backup demands
  (`taskhub_backup_orchestrator.py:1823`).
- Write gate: the files are read one after the other, so a host that may write at
  no moment can pass when two of them change in opposite directions; engage over
  HTTP is refused at the ingress while frozen although the commit gate lets its
  rows through; an enqueue whose answer was lost is repeated.

## 6. Not modelled, and the plan

`PROJECT.json` gives the reason for every part that is left out: user interface,
HTTP routing, read models, metrics and audit rollups have no protocol of their
own; linters, schema checks and request building are pure functions of payloads.
The reservations of MCP idempotency are serialised by the advisory lock that
`EmergencyStop` has.

Next, in this order: an abstract `RunLifecycle` that the locked part of
`EmergencyStop` implements; lease tokens of the orchestrator services.
