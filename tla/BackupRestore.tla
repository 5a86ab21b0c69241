---------------------------- MODULE BackupRestore ----------------------------
(***************************************************************************)
(* Backup, restore and restore-rollback of a host                          *)
(* (scripts/taskhub_backup_orchestrator.py, taskhub_restore_orchestrator.py *)
(* and their commands in taskhub_admin.py).  The host's data is in three   *)
(* places, PostgreSQL, the artifacts directory and Redis; what each holds  *)
(* is the number of the generation it belongs to.  The application writes  *)
(* all three.                                                              *)
(*                                                                         *)
(* Commands run one at a time (HostMutex).  Each of their calls is a step, *)
(* may fail, possibly half done, and the process may die before it.  The   *)
(* archive's cryptography and formats are the guard of a restore: one that *)
(* does not verify leaves the host alone.                                  *)
(***************************************************************************)
EXTENDS Integers, Sequences

CONSTANTS
    AofOn,       \* redis-server runs with --appendonly yes
    MaxGen,      \* bound on the application's writes
    MaxCommands, \* bound on commands
    MaxFaults,   \* bound on calls that fail
    MaxCrash     \* bound on commands that die

ConstantsOK ==
    /\ AofOn \in BOOLEAN
    /\ MaxGen \in Nat \ {0}
    /\ {MaxCommands, MaxFaults, MaxCrash} \subseteq Nat

VARIABLES
    app,      \* the api and worker services: "up" or "down"
    db,       \* generation of the database
    art,      \* of the artifacts directory, or Absent, Partial, Empty
    redis,    \* [up, mem, rdb, aof]: what it serves, dump.rdb, appendonlydir
    archive,  \* the newest archive: [db, art, rdb]
    stage,    \* what a running backup has collected
    snaps,    \* _pre-restore-* directories: [art, db, rdb, aof, manifest]
    cmd,      \* [pc, snap, skip, ok]: the running command; snap 0: none registered
    result,   \* how the last command ended
    before,   \* history: [db, art, mem] when the last restore had stopped the application
    live,     \* history: [db, art] that the application wrote last, or that the
              \* last finished restore put or a rollback command asked for
    newest,   \* the newest generation there ever was
    broken,   \* history: a command died, a rollback failed, or a backup was taken
              \* with the application running
    commands, faults, crashes  \* how many there were

vars == <<app, db, art, redis, archive, stage, snaps, cmd, result, before, live, broken,
          newest, commands, faults, crashes>>
counters == <<newest, commands, faults, crashes>>

(* What a place holds that is not a generation.                            *)
Missing == -1     \* no such file
Empty == -2    \* nothing
Absent == -3   \* no artifacts directory
Partial == -4  \* a directory half copied
Idle == [pc |-> "idle", snap |-> 0, skip |-> FALSE, ok |-> TRUE]
NoStage == [db |-> Missing, art |-> Missing, rdb |-> Missing]
Gens == 0..MaxGen
Artifacts == Gens \cup {Absent, Partial, Empty}
DataSets == Gens \cup {Empty}
Servers == [up : BOOLEAN, mem : DataSets, rdb : DataSets \cup {Missing}, aof : DataSets \cup {Missing}]
Archives == [db : Gens \cup {Missing}, art : Artifacts \cup {Missing}, rdb : DataSets \cup {Missing}]
Snapshots == [art : Artifacts, db : Gens \cup {Missing}, rdb : DataSets \cup {Missing},
              aof : DataSets \cup {Missing}, manifest : BOOLEAN]

BackupPoints == {"b_stop", "b_artifacts", "b_pg_dump", "b_redis", "b_legacy_artifacts",
                 "b_publish", "b_start"}
RestorePoints == {"r_stop", "r_move", "r_pg_dump", "r_save", "r_manifest", "r_artifacts",
                  "r_pg_restore", "r_stop_redis", "r_place_redis", "r_start_redis",
                  "r_alembic", "r_start"}
RollbackPoints == {"rb_stop", "rb_artifacts", "rb_pg_restore", "rb_stop_redis",
                   "rb_place_redis", "rb_start_redis", "rb_start"}
Commands == [pc : {"idle"} \cup BackupPoints \cup RestorePoints \cup RollbackPoints,
             snap : Nat, skip : BOOLEAN, ok : BOOLEAN]
Results == {"none", "backed_up", "backup_failed", "restored", "rolled_back", "restore_failed",
            "rollback_failed", "rollback_done", "died"}

TypeOK ==
    /\ app \in {"up", "down"}
    /\ db \in Gens
    /\ art \in Artifacts
    /\ redis \in Servers
    /\ archive \in Archives
    /\ stage \in Archives
    /\ snaps \in Seq(Snapshots)
    /\ cmd \in Commands
    /\ result \in Results
    /\ before \in [db : Gens, art : Artifacts, mem : DataSets]
    /\ live \in [db : Gens, art : Artifacts]
    /\ broken \in BOOLEAN
    /\ newest \in Gens

Init ==
    /\ app = "up" /\ db = 1 /\ art \in {1, Absent}
    /\ redis = [up |-> TRUE, mem |-> 1, rdb |-> Missing, aof |-> IF AofOn THEN 1 ELSE Missing]
    /\ archive = [db |-> 0, art |-> 0, rdb |-> 0]
    /\ stage = NoStage /\ snaps = <<>> /\ cmd = Idle /\ result = "none"
    /\ before = [db |-> 1, art |-> art, mem |-> 1] /\ live = [db |-> 1, art |-> art]
    /\ broken = FALSE /\ newest = 1
    /\ commands = 0 /\ faults = 0 /\ crashes = 0

-----------------------------------------------------------------------------
(* The services, as docker compose runs them *)

\* A server with the append-only file on loads that and never dump.rdb; without
\* one it starts empty and begins one.
Started(r) ==
    IF r.up THEN r
    ELSE IF AofOn
         THEN LET loaded == IF r.aof = Missing THEN Empty ELSE r.aof IN
              [up |-> TRUE, mem |-> loaded, rdb |-> r.rdb, aof |-> loaded]
         ELSE [up |-> TRUE, mem |-> IF r.rdb = Missing THEN Empty ELSE r.rdb, rdb |-> r.rdb,
               aof |-> r.aof]

\* A stop saves the data set to dump.rdb (the default save points are in force).
Stopped(r) == IF r.up THEN [up |-> FALSE, mem |-> r.mem, rdb |-> r.mem, aof |-> r.aof] ELSE r

Saved(r) == [r EXCEPT !.rdb = r.mem]

\* dump.rdb and the append-only file are put in the place of what is there.
WithFiles(r, rdb, aof) == [up |-> r.up, mem |-> r.mem, rdb |-> rdb, aof |-> aof]

\* The application changes all three places whenever it is up, under a command
\* that has not stopped it yet too; on a host whose artifacts and database do not
\* agree what it writes is left out.  A rollback means to undo what is written
\* before its own stop, by services that a failed start has left up or under a
\* rollback command: that is not what the host must keep.
AppWrites ==
    /\ app = "up" /\ redis.up /\ newest < MaxGen
    /\ art \in {db, Absent, Empty}
    /\ newest' = newest + 1 /\ db' = newest' /\ art' = newest'
    /\ live' = IF cmd.pc = "rb_stop" THEN live ELSE [db |-> newest', art |-> newest']
    /\ redis' = [up |-> TRUE, mem |-> newest', rdb |-> redis.rdb,
                 aof |-> IF AofOn THEN newest' ELSE redis.aof]
    /\ result' = "none"
    /\ UNCHANGED <<app, archive, stage, snaps, cmd, before, broken, commands, faults, crashes>>

\* The call at hand fails, as a SAVE must while Redis is down and phase 5 where
\* there is no artifacts directory.
CallFails ==
    \/ faults < MaxFaults /\ faults' = faults + 1
    \/ cmd.pc \in {"b_redis", "r_save"} /\ ~redis.up /\ UNCHANGED faults
    \/ cmd.pc = "b_artifacts" /\ art = Absent /\ UNCHANGED faults

Begin(c) ==
    /\ cmd = Idle /\ commands < MaxCommands
    /\ cmd' = c /\ commands' = commands + 1
    /\ UNCHANGED <<newest, faults, crashes>>

Goto(point) == cmd' = [cmd EXCEPT !.pc = point]

Fail(point) == cmd' = [pc |-> point, snap |-> cmd.snap, skip |-> cmd.skip, ok |-> FALSE]

End(r) ==
    /\ cmd' = Idle /\ result' = r
    /\ stage' = NoStage

-----------------------------------------------------------------------------
(* run_backup *)

backupOnly == <<db, snaps, before, live, broken, counters>>

BackupBegins(point, skip) ==
    /\ Begin([pc |-> point, snap |-> 0, skip |-> skip, ok |-> TRUE])
    /\ result' = "none"
    /\ UNCHANGED <<app, db, art, redis, archive, stage, snaps, before, live, broken>>

\* The legacy mode never stops the application and reads PostgreSQL first.
_cmd_backup == BackupBegins("b_pg_dump", TRUE)

\* Phase 5 stops it unless told to skip that.
_cmd_backup_phase_5 == BackupBegins("b_stop", FALSE) \/ BackupBegins("b_artifacts", TRUE)

BackupStop_Skipped ==
    /\ cmd.pc = "b_stop"
    /\ Goto("b_artifacts")
    /\ UNCHANGED <<app, art, redis, archive, stage, result, backupOnly>>

BackupStop ==
    /\ cmd.pc = "b_stop"
    /\ app' = "down"
    /\ Goto("b_artifacts")
    /\ UNCHANGED <<art, redis, archive, stage, result, backupOnly>>

\* The artifacts are staged, and the fingerprint of everything that the backup
\* reads is compared with the one the approval was signed for.
BackupArtifacts ==
    /\ cmd.pc = "b_artifacts" /\ art # Absent
    /\ stage' = [stage EXCEPT !.art = art]
    /\ Goto("b_pg_dump")
    /\ UNCHANGED <<app, art, redis, archive, result, backupOnly>>

\* The legacy mode copies the directory itself, last; without one it warns, as it
\* does of an empty one.
BackupLegacyArtifacts ==
    /\ cmd.pc = "b_legacy_artifacts"
    /\ stage' = [stage EXCEPT !.art = IF art = Absent THEN Empty ELSE art]
    /\ Goto("b_publish")
    /\ UNCHANGED <<app, art, redis, archive, result, backupOnly>>

BackupPgDump ==
    /\ cmd.pc = "b_pg_dump"
    /\ stage' = [stage EXCEPT !.db = db]
    /\ Goto("b_redis")
    /\ UNCHANGED <<app, art, redis, archive, result, backupOnly>>

\* SAVE and a copy of dump.rdb; the legacy mode has the server send its data.
BackupRedis ==
    /\ cmd.pc = "b_redis" /\ redis.up
    /\ redis' = IF stage.art = Missing THEN redis ELSE Saved(redis)
    /\ stage' = [stage EXCEPT !.rdb = redis.mem]
    /\ Goto(IF stage.art = Missing THEN "b_legacy_artifacts" ELSE "b_publish")
    /\ UNCHANGED <<app, art, archive, result, backupOnly>>

\* tar, age to .part, os.replace.
BackupPublish ==
    /\ cmd.pc = "b_publish"
    /\ archive' = stage
    /\ broken' = (broken \/ cmd.skip)
    /\ Goto("b_start")
    /\ UNCHANGED <<app, db, art, redis, stage, snaps, result, before, live, counters>>

\* The finally clause: the application is started when its stop was tried.
BackupStart ==
    /\ cmd.pc = "b_start"
    /\ IF cmd.skip THEN UNCHANGED <<app, redis>>
                   ELSE app' = "up" /\ redis' = Started(redis)
    /\ End(IF cmd.ok THEN "backed_up" ELSE "backup_failed")
    /\ UNCHANGED <<art, archive, backupOnly>>

\* A call fails: the finally clause starts the application, whose start may
\* itself be the call that fails.
BackupFails ==
    /\ cmd.pc \in BackupPoints /\ CallFails
    /\ app' \in (IF cmd.pc \in {"b_stop", "b_start"} /\ ~cmd.skip THEN {"up", "down"} ELSE {app})
    /\ IF cmd.pc = "b_start"
       THEN End("backup_failed")
       ELSE /\ Fail("b_start")
            /\ UNCHANGED <<result, stage>>
    /\ UNCHANGED <<db, art, redis, archive, snaps, before, live, broken, newest, commands, crashes>>

-----------------------------------------------------------------------------
(* run_restore *)

\* Everything up to the target binding is checked before anything changes.  A
\* target that holds artifacts needs the overwrite flag.
_cmd_restore ==
    /\ Begin([pc |-> "r_stop", snap |-> 0, skip |-> FALSE, ok |-> TRUE])
    /\ result' = "none"
    /\ UNCHANGED <<app, db, art, redis, archive, stage, snaps, before, live, broken>>

restoreOnly == <<archive, stage, before, live, counters>>

stop_app_services ==
    /\ cmd.pc \in {"r_stop", "rb_stop"}
    /\ app' = "down"
    /\ Goto(IF cmd.pc = "r_stop" THEN "r_move" ELSE "rb_artifacts")
    /\ before' = IF cmd.pc = "r_stop" THEN [db |-> db, art |-> art, mem |-> Started(redis).mem]
                                      ELSE before
    /\ UNCHANGED <<db, art, redis, snaps, result, broken, archive, stage, live, counters>>

\* create_pre_restore_snapshot: the directory, then the artifacts are MOVED
\* into it (an empty directory stands for absent ones), then it is registered
\* for the rollback.
SnapshotArtifacts ==
    /\ cmd.pc = "r_move"
    /\ snaps' = Append(snaps, [art |-> IF art = Absent THEN Empty ELSE art, db |-> Missing,
                               rdb |-> Missing, aof |-> Missing, manifest |-> FALSE])
    /\ art' = Absent
    /\ cmd' = [pc |-> "r_pg_dump", snap |-> Len(snaps) + 1, skip |-> FALSE, ok |-> TRUE]
    /\ UNCHANGED <<app, db, redis, result, broken, restoreOnly>>

SnapshotDb ==
    /\ cmd.pc = "r_pg_dump"
    /\ snaps' = [snaps EXCEPT ![cmd.snap].db = db]
    /\ Goto("r_save")
    /\ UNCHANGED <<app, db, art, redis, result, broken, restoreOnly>>

SnapshotRedis ==
    /\ cmd.pc = "r_save" /\ redis.up
    /\ redis' = Saved(redis)
    /\ snaps' = [snaps EXCEPT ![cmd.snap].rdb = redis.mem]
    /\ Goto("r_manifest")
    /\ UNCHANGED <<app, db, art, result, broken, restoreOnly>>

_write_snapshot_manifest ==
    /\ cmd.pc = "r_manifest"
    /\ snaps' = [snaps EXCEPT ![cmd.snap].manifest = TRUE]
    /\ Goto("r_artifacts")
    /\ UNCHANGED <<app, db, art, redis, result, broken, restoreOnly>>

place_artifacts ==
    /\ cmd.pc = "r_artifacts"
    /\ art' = archive.art
    /\ Goto("r_pg_restore")
    /\ UNCHANGED <<app, db, redis, snaps, result, broken, restoreOnly>>

\* One transaction.
invoke_pg_restore ==
    /\ cmd.pc = "r_pg_restore"
    /\ db' = archive.db
    /\ Goto("r_stop_redis")
    /\ UNCHANGED <<app, art, redis, snaps, result, broken, restoreOnly>>

stop_redis_service_only ==
    /\ cmd.pc \in {"r_stop_redis", "rb_stop_redis"}
    /\ redis' = Stopped(redis)
    /\ Goto(IF cmd.pc = "r_stop_redis" THEN "r_place_redis" ELSE "rb_place_redis")
    /\ UNCHANGED <<app, db, art, snaps, result, broken, restoreOnly>>

\* The append-only file is moved into the snapshot, dump.rdb is replaced.
place_redis_dump_rdb ==
    /\ cmd.pc = "r_place_redis"
    /\ snaps' = [snaps EXCEPT ![cmd.snap].aof = redis.aof]
    /\ redis' = WithFiles(redis, archive.rdb, Missing)
    /\ Goto("r_start_redis")
    /\ UNCHANGED <<app, db, art, result, broken, restoreOnly>>

start_redis_service ==
    /\ cmd.pc \in {"r_start_redis", "rb_start_redis"}
    /\ redis' = Started(redis)
    /\ Goto(IF cmd.pc = "r_start_redis" THEN "r_alembic" ELSE "rb_start")
    /\ UNCHANGED <<app, db, art, snaps, result, broken, restoreOnly>>

verify_alembic_head_in_db ==
    /\ cmd.pc = "r_alembic"
    /\ Goto("r_start")
    /\ UNCHANGED <<app, db, art, redis, snaps, result, broken, restoreOnly>>

start_app_services ==
    /\ cmd.pc \in {"r_start", "rb_start"}
    /\ app' = "up" /\ redis' = Started(redis)
    /\ End(IF cmd.pc = "r_start" THEN "restored" ELSE IF cmd.ok THEN "rollback_done" ELSE "rolled_back")
    /\ live' = IF cmd.pc = "r_start" THEN [db |-> db, art |-> art] ELSE live
    /\ UNCHANGED <<db, art, snaps, broken, archive, before, counters>>

\* What a call that fails may leave behind.
HalfDone ==
    /\ app' \in (IF cmd.pc \in {"r_stop", "rb_stop", "r_start", "rb_start"} THEN {"up", "down"} ELSE {app})
    /\ art' \in (IF cmd.pc \in {"r_artifacts", "rb_artifacts"} THEN {art, Absent, Partial} ELSE {art})
    /\ db' \in (CASE cmd.pc = "r_pg_restore" -> {db, archive.db}
                  [] cmd.pc = "rb_pg_restore" -> {db, snaps[cmd.snap].db}
                  [] OTHER -> {db})
    /\ \/ UNCHANGED <<redis, snaps>>
       \/ /\ cmd.pc = "r_place_redis"
          /\ snaps' = [snaps EXCEPT ![cmd.snap].aof = redis.aof]
          /\ redis' = WithFiles(redis, redis.rdb, Missing)
       \/ /\ cmd.pc = "rb_place_redis"
          /\ redis' = WithFiles(redis, Missing, Missing)
          /\ UNCHANGED snaps
       \/ /\ cmd.pc \in {"r_stop_redis", "rb_stop_redis"}
          /\ redis' = Stopped(redis)
          /\ UNCHANGED snaps
       \/ /\ cmd.pc \in {"r_start_redis", "rb_start_redis"}
          /\ redis' = Started(redis)
          /\ UNCHANGED snaps

\* With a registered snapshot the restore is rolled back; without one nothing
\* is done, and the application stays as it is.
RestoreFails ==
    /\ cmd.pc \in RestorePoints /\ CallFails
    /\ HalfDone
    /\ IF cmd.snap # 0
       THEN Fail("rb_stop") /\ UNCHANGED <<result, stage>>
       ELSE End("restore_failed")
    /\ UNCHANGED <<archive, before, live, broken, newest, commands, crashes>>

-----------------------------------------------------------------------------
(* rollback_from_pre_restore_snapshot *)

\* Every component that the manifest lists is there, unchanged.
verify_snapshot_component_hashes(s) == Missing \notin {s.art, s.db, s.rdb}

\* The command line needs a manifest, as approved.
_cmd_restore_rollback ==
    /\ \E i \in DOMAIN snaps :
          /\ snaps[i].manifest /\ verify_snapshot_component_hashes(snaps[i])
          /\ Begin([pc |-> "rb_stop", snap |-> i, skip |-> FALSE, ok |-> TRUE])
          /\ live' = [db |-> snaps[i].db, art |-> snaps[i].art]
    /\ result' = "none"
    /\ UNCHANGED <<app, db, art, redis, archive, stage, snaps, before, broken>>

\* A COPY, so that a rollback can be tried again.  A snapshot without a database
\* dump ends here.
RollbackArtifacts ==
    /\ cmd.pc = "rb_artifacts"
    /\ art' = snaps[cmd.snap].art
    /\ Goto(IF snaps[cmd.snap].db = Missing THEN "rb_start" ELSE "rb_pg_restore")
    /\ UNCHANGED <<app, db, redis, snaps, result, broken, restoreOnly>>

RollbackDb_WithoutRedis ==
    /\ cmd.pc = "rb_pg_restore"
    /\ db' = snaps[cmd.snap].db
    /\ Goto("rb_start")
    /\ UNCHANGED <<app, art, redis, snaps, result, broken, restoreOnly>>

RollbackDb ==
    /\ cmd.pc = "rb_pg_restore"
    /\ db' = snaps[cmd.snap].db
    /\ Goto(IF snaps[cmd.snap].rdb = Missing THEN "rb_start" ELSE "rb_stop_redis")
    /\ UNCHANGED <<app, art, redis, snaps, result, broken, restoreOnly>>

\* dump.rdb and the append-only file are deleted; what the snapshot has of them
\* is copied back.
RollbackRedis ==
    /\ cmd.pc = "rb_place_redis"
    /\ redis' = WithFiles(redis, snaps[cmd.snap].rdb, snaps[cmd.snap].aof)
    /\ Goto("rb_start_redis")
    /\ UNCHANGED <<app, db, art, snaps, result, broken, restoreOnly>>

RollbackFails ==
    /\ cmd.pc \in RollbackPoints /\ CallFails
    /\ HalfDone
    /\ End("rollback_failed")
    /\ broken' = TRUE
    /\ UNCHANGED <<archive, before, live, newest, commands, crashes>>

-----------------------------------------------------------------------------

\* The command's process is killed between two calls.
Crash ==
    /\ cmd.pc # "idle" /\ crashes < MaxCrash
    /\ crashes' = crashes + 1
    /\ End("died")
    /\ broken' = TRUE
    /\ UNCHANGED <<app, db, art, redis, archive, snaps, before, live, newest, commands, faults>>

\* No command is left to run.
Done == cmd = Idle /\ commands = MaxCommands /\ UNCHANGED vars

run_backup ==
    \/ BackupStop \/ BackupArtifacts \/ BackupPgDump \/ BackupRedis
    \/ BackupLegacyArtifacts \/ BackupPublish \/ BackupStart \/ BackupFails

create_pre_restore_snapshot ==
    \/ SnapshotArtifacts \/ SnapshotDb \/ SnapshotRedis \/ _write_snapshot_manifest

run_restore ==
    \/ create_pre_restore_snapshot \/ place_artifacts \/ invoke_pg_restore
    \/ place_redis_dump_rdb \/ verify_alembic_head_in_db \/ RestoreFails

rollback_from_pre_restore_snapshot ==
    \/ RollbackArtifacts \/ RollbackDb \/ RollbackRedis \/ RollbackFails

ServiceStep ==
    \/ stop_app_services \/ stop_redis_service_only
    \/ start_redis_service \/ start_app_services

Next ==
    \/ _cmd_backup \/ _cmd_backup_phase_5 \/ run_backup
    \/ _cmd_restore \/ run_restore
    \/ _cmd_restore_rollback \/ rollback_from_pre_restore_snapshot
    \/ ServiceStep \/ AppWrites \/ Crash \/ Done

Spec == Init /\ [][Next]_vars

-----------------------------------------------------------------------------
(* Properties *)

\* An empty or absent directory holds the same artifacts: none.
SameArtifacts(a, b) == a = b \/ {a, b} \subseteq {Absent, Empty}

\* Redis serves v; with the append-only file on it may have come up empty.
RedisServes(v) == redis.mem = v \/ (AofOn /\ redis.mem = Empty)

\* A restore that reports success has put the archive in all three places.
RestoredIsArchive ==
    result = "restored" => db = archive.db /\ art = archive.art /\ RedisServes(archive.rdb)

\* A restore that fails at any step and is rolled back leaves the database and
\* the artifacts as they were when it had stopped the application, from whichever
\* snapshot it had got to make and whatever services that a failed start left up
\* wrote meanwhile, and Redis too while it loads dump.rdb.
RolledBack ==
    result = "rolled_back" => /\ db = before.db /\ SameArtifacts(art, before.art)
                              /\ RedisServes(before.mem)

\* The same of all three places, as rollback_from_pre_restore_snapshot says.
RolledBackIsBefore ==
    result = "rolled_back" => /\ db = before.db /\ SameArtifacts(art, before.art)
                              /\ redis.mem = before.mem

\* The services are up between two commands only with the artifacts and the
\* database of one generation, unless a command died, a rollback failed or a
\* backup was taken with the application running.
ConsistentWhileUp ==
    app = "up" /\ ~broken /\ cmd = Idle => (art \in Gens => art = db)

\* Whatever fails, dies or is tried again, what the application wrote last, or
\* an operator has asked to come back to, is in place or in a snapshot.
LiveSurvives ==
    /\ db = live.db \/ \E i \in DOMAIN snaps : snaps[i].db = live.db
    /\ \/ SameArtifacts(art, live.art)
       \/ \E i \in DOMAIN snaps : SameArtifacts(snaps[i].art, live.art)

\* A snapshot that the rollback command accepts has all three components.
ManifestMeansWhole ==
    \A i \in DOMAIN snaps : snaps[i].manifest =>
        Missing \notin {snaps[i].art, snaps[i].db, snaps[i].rdb}

\* A restore that reports success has put the archive in place, one that is
\* rolled back leaves the host as it found it; data an operator may come back to
\* is never lost, a snapshot that the rollback command accepts is whole, and the
\* services are up only with artifacts and a database of one generation.
RestoresSound ==
    RestoredIsArchive /\ RolledBack /\ ConsistentWhileUp /\ LiveSurvives /\ ManifestMeansWhole

\* A backup that stops the application archives the host as it is at one
\* moment: its three parts are those in place when it is published.
ArchiveIsOneMoment ==
    [][archive' # archive /\ ~cmd.skip =>
         archive' = [db |-> db, art |-> art, rdb |-> redis.mem]]_vars
=============================================================================
