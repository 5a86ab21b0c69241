------------------------ MODULE BackupRestore_proofs ------------------------
(***************************************************************************)
(* Proofs for BackupRestore, for any number of commands, failures and      *)
(* generations and for a server with or without the append-only file.      *)
(*                                                                         *)
(* HostInv is the inductive invariant.  Its parts say, for the point where *)
(* the running command stands: what of the archive is in place (PlacedInv),*)
(* what of the host before the restore can still be brought back from the  *)
(* snapshot and what never left its place (BeforeInv), how far a rollback  *)
(* has come (RolledInv), that artifacts and database agree wherever they   *)
(* can be brought back from (CoherentInv), and that what must survive is   *)
(* in a snapshot before the first step that overwrites it (LiveInv).       *)
(* UpInv says when the application may write under them.                   *)
(***************************************************************************)
EXTENDS BackupRestore, TLAPS, SequenceTheorems

Cur == snaps[cmd.snap]

Early == {"r_stop", "r_move"}
Late == (RestorePoints \ Early) \cup RollbackPoints

(* Where a command stands: what it has of a snapshot, and what its kind     *)
(* was allowed to begin with.                                              *)
CommandInv ==
    /\ result # "none" => cmd = Idle
    /\ cmd.pc = "idle" => cmd = Idle
    /\ cmd.pc \in Early \cup BackupPoints => cmd.snap = 0
    /\ cmd.pc \in Late => cmd.snap \in DOMAIN snaps
    /\ cmd.pc \in RestorePoints => cmd.ok
    /\ archive.db \in Gens /\ archive.art \in Artifacts /\ archive.rdb \in DataSets
    /\ cmd.pc \in RollbackPoints /\ cmd.ok => Cur.db # Missing /\ Cur.rdb # Missing

(* A running server with the append-only file on has all of its data there.*)
RedisInv ==
    /\ AofOn /\ redis.up => redis.aof = redis.mem
    /\ cmd.pc \in {"r_place_redis", "r_start_redis", "rb_place_redis", "rb_start_redis"} => ~redis.up

(* What a backup that stopped the application has staged is still in place;*)
(* what any backup publishes has all three parts.                          *)
BackupInv ==
    /\ ~cmd.skip =>
          /\ cmd.pc # "b_legacy_artifacts"
          /\ cmd.pc \in {"b_artifacts", "b_pg_dump", "b_redis", "b_publish"} => app = "down"
          /\ cmd.pc \in {"b_pg_dump", "b_redis", "b_publish"} => stage.art = art
          /\ cmd.pc \in {"b_redis", "b_publish"} => stage.db = db
          /\ cmd.pc = "b_publish" => stage.rdb = redis.mem
    /\ cmd.pc \in {"b_redis", "b_legacy_artifacts", "b_publish"} => stage.db # Missing
    /\ cmd.pc \in {"b_legacy_artifacts", "b_publish"} => stage.rdb # Missing
    /\ cmd.pc = "b_publish" => stage.art # Missing

(* What a restore has put in place so far.                                 *)
PlacedInv ==
    /\ cmd.pc \in {"r_pg_restore", "r_stop_redis", "r_place_redis", "r_start_redis",
                   "r_alembic", "r_start"} => art = archive.art
    /\ cmd.pc \in {"r_stop_redis", "r_place_redis", "r_start_redis", "r_alembic", "r_start"} =>
          db = archive.db
    /\ cmd.pc = "r_start_redis" => redis.rdb = archive.rdb /\ redis.aof = Missing
    /\ cmd.pc \in {"r_alembic", "r_start"} => redis.up /\ RedisServes(archive.rdb)

(* What a restore that has stopped the application, or the rollback of one  *)
(* that failed, can come back to.                                          *)
Restoring == cmd.pc \in RestorePoints \ {"r_stop"} \/ (cmd.pc \in RollbackPoints /\ ~cmd.ok)

BeforeInv ==
    Restoring =>
      /\ cmd.pc \in Early => art = before.art
      /\ cmd.pc \in Early \cup {"r_pg_dump"} => db = before.db
      /\ cmd.pc \in Early \cup {"r_pg_dump", "r_save"} => Started(redis).mem = before.mem
      /\ cmd.pc \in Late => 
           /\ SameArtifacts(Cur.art, before.art)
           /\ Cur.db = before.db \/ (Cur.db = Missing /\ db = before.db /\ Cur.rdb = Missing)
           /\ Cur.rdb = before.mem \/ (Cur.rdb = Missing /\ Started(redis).mem = before.mem)
           /\ AofOn => Cur.aof \in {Missing, before.mem}
      /\ cmd.pc \in {"r_manifest", "r_artifacts", "r_pg_restore", "r_stop_redis"} => 
             redis.up /\ redis.mem = before.mem
      /\ cmd.pc \in RestorePoints \ (Early \cup {"r_pg_dump"}) => Cur.db = before.db
      /\ cmd.pc \in RestorePoints \ (Early \cup {"r_pg_dump", "r_save"}) => Cur.rdb = before.mem
      /\ cmd.pc = "r_place_redis" /\ AofOn => redis.aof = before.mem

(* How far a rollback, of a restore or by command, has come.               *)
RolledInv ==
    /\ cmd.pc \in {"rb_pg_restore", "rb_stop_redis", "rb_place_redis", "rb_start_redis", "rb_start"} =>
          art = Cur.art
    /\ cmd.pc = "rb_pg_restore" => Cur.db # Missing
    /\ cmd.pc \in {"rb_stop_redis", "rb_place_redis", "rb_start_redis"} =>
          Cur.db # Missing /\ Cur.rdb # Missing /\ db = Cur.db
    /\ cmd.pc = "rb_start_redis" => redis.rdb = Cur.rdb /\ redis.aof = Cur.aof
    /\ cmd.pc = "rb_start" =>
          /\ Cur.db # Missing => db = Cur.db
          /\ Cur.rdb # Missing /\ ~cmd.ok => redis.up /\ RedisServes(before.mem)

Coherent(a, d) == a \in Gens => a = d

(* Unless broken, the artifacts and the database everywhere agree.         *)
CoherentInv ==
    ~broken =>
      /\ cmd.pc \in {"idle"} \cup BackupPoints \cup Early => Coherent(art, db)
      /\ Coherent(archive.art, archive.db)
      /\ \A i \in DOMAIN snaps : snaps[i].db # Missing => Coherent(snaps[i].art, snaps[i].db)
      /\ Restoring => Coherent(before.art, before.db)

(* What must not be lost is in a snapshot before anything overwrites it.   *)
LiveInv ==
    /\ \/ \E i \in DOMAIN snaps : snaps[i].db = live.db
       \/ db = live.db /\ (cmd.snap # 0 => Cur.db = Missing)
    /\ \/ \E i \in DOMAIN snaps : SameArtifacts(snaps[i].art, live.art)
       \/ SameArtifacts(art, live.art) /\ cmd.snap = 0

(* The application is up only before a command's own stop; where a rollback *)
(* has still to stop it, the snapshot is whole.                            *)
UpInv ==
    /\ cmd.pc \in (RestorePoints \cup RollbackPoints) \ {"r_stop", "rb_stop"} => app = "down"
    /\ cmd.pc = "rb_stop" /\ app = "up" => Cur.db # Missing /\ Cur.rdb # Missing

HostInv ==
    /\ CommandInv /\ RedisInv /\ BackupInv /\ PlacedInv /\ BeforeInv
    /\ RolledInv /\ CoherentInv /\ LiveInv
    /\ RestoredIsArchive /\ RolledBack /\ ManifestMeansWhole

-----------------------------------------------------------------------------
(* The marks are no generations, and differ.                               *)
LEMMA Marks ==
    ASSUME ConstantsOK
    PROVE  /\ {Missing, Empty, Absent, Partial} \cap Gens = {}
           /\ Missing # Empty /\ Missing # Absent /\ Missing # Partial /\ Empty # Absent
           /\ Empty # Partial /\ Absent # Partial
           /\ 0 \in Gens /\ 1 \in Gens
BY DEF ConstantsOK, Missing, Empty, Absent, Partial, Gens

LEMMA StartedServer ==
    ASSUME NEW r \in Servers
    PROVE  /\ Started(r) \in Servers
           /\ Started(r).up
           /\ r.up => Started(r) = r
           /\ ~r.up /\ AofOn => Started(r).aof = Started(r).mem
           /\ ~r.up /\ AofOn => Started(r).mem = IF r.aof = Missing THEN Empty ELSE r.aof
           /\ ~r.up /\ ~AofOn => Started(r).mem = IF r.rdb = Missing THEN Empty ELSE r.rdb
BY DEF Servers, Started, DataSets

LEMMA StoppedServer ==
    ASSUME NEW r \in Servers
    PROVE  /\ Stopped(r) \in Servers
           /\ ~Stopped(r).up
           /\ Stopped(r).mem = r.mem
           /\ Stopped(r).aof = r.aof
BY DEF Servers, Stopped

LEMMA SavedServer ==
    ASSUME NEW r \in Servers
    PROVE  /\ Saved(r) \in Servers
           /\ Saved(r).up = r.up
           /\ Saved(r).mem = r.mem
           /\ Saved(r).aof = r.aof
BY DEF Servers, Saved

LEMMA FilesServer ==
    ASSUME NEW r \in Servers, NEW rdb \in DataSets \cup {Missing}, NEW aof \in DataSets \cup {Missing}
    PROVE  /\ WithFiles(r, rdb, aof) \in Servers
           /\ WithFiles(r, rdb, aof).up = r.up
           /\ WithFiles(r, rdb, aof).mem = r.mem
           /\ WithFiles(r, rdb, aof).rdb = rdb
           /\ WithFiles(r, rdb, aof).aof = aof
BY DEF Servers, WithFiles

LEMMA SnapsUpdate ==
    ASSUME NEW s \in Seq(Snapshots), NEW i \in DOMAIN s, NEW e \in Snapshots
    PROVE  /\ [s EXCEPT ![i] = e] \in Seq(Snapshots)
           /\ DOMAIN [s EXCEPT ![i] = e] = DOMAIN s
           /\ [s EXCEPT ![i] = e][i] = e
           /\ \A j \in DOMAIN s : j # i => [s EXCEPT ![i] = e][j] = s[j]
BY ExceptSeq

(* Commands.                                                               *)
Points == {"idle"} \cup BackupPoints \cup RestorePoints \cup RollbackPoints

LEMMA CommandIs ==
    ASSUME NEW p \in Points, NEW i \in Nat, NEW skip \in BOOLEAN, NEW ok \in BOOLEAN
    PROVE  [pc |-> p, snap |-> i, skip |-> skip, ok |-> ok] \in Commands
BY DEF Commands, Points

LEMMA IdleIs == Idle \in Commands /\ NoStage \in Archives
<1>1. "idle" \in Points
  BY DEF Points
<1> QED
  BY <1>1, CommandIs DEF Idle, NoStage, Archives

LEMMA GotoPoint ==
    ASSUME cmd \in Commands, NEW p, Goto(p)
    PROVE  /\ cmd'.pc = p /\ cmd'.snap = cmd.snap /\ cmd'.skip = cmd.skip /\ cmd'.ok = cmd.ok
           /\ p \in Points => cmd' \in Commands
BY DEF Commands, Goto, Points

LEMMA FailPoint ==
    ASSUME cmd \in Commands, NEW p, Fail(p)
    PROVE  /\ cmd'.pc = p /\ cmd'.snap = cmd.snap /\ cmd'.skip = cmd.skip /\ ~cmd'.ok
           /\ p \in Points => cmd' \in Commands
BY DEF Commands, Fail, Points

(* Types: every step keeps them; the two of a snapshot's artifacts and dump *)
(* follow from the snapshot being there.                                   *)
LEMMA TypesInit == ConstantsOK /\ Init => TypeOK
<1> SUFFICES ASSUME ConstantsOK, Init PROVE TypeOK
  OBVIOUS
<1> USE Marks DEF Init
<1>1. redis \in Servers
  BY DEF Servers, DataSets
<1>2. archive \in Archives /\ stage \in Archives /\ cmd \in Commands
  BY IdleIs DEF Archives, Artifacts, DataSets
<1>3. snaps \in Seq(Snapshots)
  BY EmptySeq
<1>4. art \in Artifacts
  BY DEF Artifacts
<1>5. before \in [db : Gens, art : Artifacts, mem : DataSets] /\ live \in [db : Gens, art : Artifacts]
  BY <1>4 DEF DataSets
<1> QED
  BY <1>1, <1>2, <1>3, <1>4, <1>5 DEF TypeOK, Results

LEMMA TypesBackup ==
    ASSUME ConstantsOK, TypeOK, run_backup \/ _cmd_backup \/ _cmd_backup_phase_5
    PROVE  TypeOK'
<1> USE Marks DEF TypeOK
<1>1. ASSUME NEW p \in BackupPoints, NEW skip \in BOOLEAN, BackupBegins(p, skip)
      PROVE  TypeOK'
  <2>1. cmd' \in Commands
    BY <1>1, CommandIs DEF BackupBegins, Begin, Points
  <2> QED
    BY <1>1, <2>1 DEF BackupBegins, Begin, Results
<1>2. CASE BackupStop
  BY <1>2, GotoPoint DEF BackupStop, Points, BackupPoints, backupOnly, counters
<1>3. CASE BackupArtifacts \/ BackupLegacyArtifacts \/ BackupPgDump
  <2>1. stage' \in Archives
    BY <1>3 DEF BackupArtifacts, BackupLegacyArtifacts, BackupPgDump, Archives, Artifacts
  <2> QED
    BY <1>3, <2>1, GotoPoint DEF BackupArtifacts, BackupLegacyArtifacts, BackupPgDump, Points,
       BackupPoints, backupOnly, counters
<1>4. CASE BackupRedis
  <2>1. redis' \in Servers
    BY <1>4, SavedServer DEF BackupRedis
  <2>2. redis.mem \in DataSets
    BY DEF Servers
  <2>3. stage' \in Archives
    BY <1>4, <2>2 DEF BackupRedis, Archives
  <2> QED
    BY <1>4, <2>1, <2>3, GotoPoint DEF BackupRedis, Points, BackupPoints, backupOnly, counters
<1>5. CASE BackupPublish
  <2>1. broken' \in BOOLEAN
    BY <1>5 DEF BackupPublish, Commands
  <2> QED
    BY <1>5, <2>1, GotoPoint DEF BackupPublish, counters, Points, BackupPoints
<1>6. CASE BackupStart
  <2>1. redis' \in Servers
    BY <1>6, StartedServer DEF BackupStart
  <2> QED
    BY <1>6, <2>1, IdleIs DEF BackupStart, End, Results, backupOnly, counters
<1>7. CASE BackupFails
  <2>1. "b_start" \in Points
    BY DEF Points, BackupPoints
  <2>2. cmd' \in Commands /\ stage' \in Archives /\ result' \in Results
    BY <1>7, <2>1, FailPoint, IdleIs DEF BackupFails, End, Results
  <2> QED
    BY <1>7, <2>2 DEF BackupFails
<1> QED
  BY <1>1, <1>2, <1>3, <1>4, <1>5, <1>6, <1>7 DEF run_backup, _cmd_backup, _cmd_backup_phase_5, BackupPoints

LEMMA Restored ==
    ASSUME TypeOK, CommandInv, cmd.pc \in RestorePoints
    PROVE  archive.db \in Gens /\ archive.art \in Artifacts /\ archive.rdb \in DataSets
BY DEF CommandInv

LEMMA CurrentSnapshot ==
    ASSUME TypeOK, CommandInv, cmd.pc \in Late
    PROVE  /\ cmd.snap \in DOMAIN snaps /\ cmd.snap # 0
           /\ Cur \in Snapshots
           /\ Cur.art \in Artifacts /\ Cur.db \in Gens \cup {Missing}
           /\ Cur.rdb \in DataSets \cup {Missing} /\ Cur.aof \in DataSets \cup {Missing}
<1>1. cmd.snap \in DOMAIN snaps
  BY DEF CommandInv
<1>2. cmd.snap # 0 /\ Cur \in Snapshots
  BY <1>1 DEF TypeOK, Cur
<1> QED
  BY <1>1, <1>2 DEF Snapshots

LEMMA ServerParts ==
    ASSUME TypeOK
    PROVE  /\ redis.mem \in DataSets
           /\ redis.rdb \in DataSets \cup {Missing} /\ redis.aof \in DataSets \cup {Missing}
BY DEF TypeOK, Servers

(* The steps that write the snapshot at hand change one field of it.       *)
SnapshotNow(a, d, r, f, m) ==
    /\ snaps' \in Seq(Snapshots) /\ DOMAIN snaps' = DOMAIN snaps
    /\ \A j \in DOMAIN snaps : j # cmd.snap => snaps'[j] = snaps[j]
    /\ snaps'[cmd.snap].art = a /\ snaps'[cmd.snap].db = d /\ snaps'[cmd.snap].rdb = r
    /\ snaps'[cmd.snap].aof = f /\ snaps'[cmd.snap].manifest = m

LEMMA SnapshotWritten ==
    ASSUME TypeOK, CommandInv, cmd.pc \in Late
    PROVE  /\ snaps' = [snaps EXCEPT ![cmd.snap].db = db] =>
                SnapshotNow(Cur.art, db, Cur.rdb, Cur.aof, Cur.manifest)
           /\ snaps' = [snaps EXCEPT ![cmd.snap].rdb = redis.mem] =>
                SnapshotNow(Cur.art, Cur.db, redis.mem, Cur.aof, Cur.manifest)
           /\ snaps' = [snaps EXCEPT ![cmd.snap].manifest = TRUE] =>
                SnapshotNow(Cur.art, Cur.db, Cur.rdb, Cur.aof, TRUE)
           /\ snaps' = [snaps EXCEPT ![cmd.snap].aof = redis.aof] =>
                SnapshotNow(Cur.art, Cur.db, Cur.rdb, redis.aof, Cur.manifest)
<1>0. cmd.snap \in DOMAIN snaps /\ Cur \in Snapshots /\ snaps \in Seq(Snapshots) /\ db \in Gens
  BY CurrentSnapshot DEF TypeOK
<1>1. ASSUME NEW e \in Snapshots, snaps' = [snaps EXCEPT ![cmd.snap] = e]
      PROVE  SnapshotNow(e.art, e.db, e.rdb, e.aof, e.manifest)
  BY <1>0, <1>1, SnapsUpdate DEF SnapshotNow
<1>2. ASSUME snaps' = [snaps EXCEPT ![cmd.snap].db = db]
      PROVE  SnapshotNow(Cur.art, db, Cur.rdb, Cur.aof, Cur.manifest)
  <2> DEFINE e == [Cur EXCEPT !.db = db]
  <2>1. /\ e \in Snapshots /\ e.art = Cur.art /\ e.db = db /\ e.rdb = Cur.rdb
        /\ e.aof = Cur.aof /\ e.manifest = Cur.manifest
    BY <1>0, ServerParts DEF Snapshots
  <2>2. snaps' = [snaps EXCEPT ![cmd.snap] = e]
    BY <1>2 DEF Cur
  <2> HIDE DEF e
  <2>3. SnapshotNow(e.art, e.db, e.rdb, e.aof, e.manifest)
    BY <1>1, <2>1, <2>2
  <2> QED
    BY <2>1, <2>3
<1>3. ASSUME snaps' = [snaps EXCEPT ![cmd.snap].rdb = redis.mem]
      PROVE  SnapshotNow(Cur.art, Cur.db, redis.mem, Cur.aof, Cur.manifest)
  <2> DEFINE e == [Cur EXCEPT !.rdb = redis.mem]
  <2>1. /\ e \in Snapshots /\ e.art = Cur.art /\ e.db = Cur.db /\ e.rdb = redis.mem
        /\ e.aof = Cur.aof /\ e.manifest = Cur.manifest
    BY <1>0, ServerParts DEF Snapshots
  <2>2. snaps' = [snaps EXCEPT ![cmd.snap] = e]
    BY <1>3 DEF Cur
  <2> HIDE DEF e
  <2>3. SnapshotNow(e.art, e.db, e.rdb, e.aof, e.manifest)
    BY <1>1, <2>1, <2>2
  <2> QED
    BY <2>1, <2>3
<1>4. ASSUME snaps' = [snaps EXCEPT ![cmd.snap].manifest = TRUE]
      PROVE  SnapshotNow(Cur.art, Cur.db, Cur.rdb, Cur.aof, TRUE)
  <2> DEFINE e == [Cur EXCEPT !.manifest = TRUE]
  <2>1. /\ e \in Snapshots /\ e.art = Cur.art /\ e.db = Cur.db /\ e.rdb = Cur.rdb
        /\ e.aof = Cur.aof /\ e.manifest = TRUE
    BY <1>0, ServerParts DEF Snapshots
  <2>2. snaps' = [snaps EXCEPT ![cmd.snap] = e]
    BY <1>4 DEF Cur
  <2> HIDE DEF e
  <2>3. SnapshotNow(e.art, e.db, e.rdb, e.aof, e.manifest)
    BY <1>1, <2>1, <2>2
  <2> QED
    BY <2>1, <2>3
<1>5. ASSUME snaps' = [snaps EXCEPT ![cmd.snap].aof = redis.aof]
      PROVE  SnapshotNow(Cur.art, Cur.db, Cur.rdb, redis.aof, Cur.manifest)
  <2> DEFINE e == [Cur EXCEPT !.aof = redis.aof]
  <2>1. /\ e \in Snapshots /\ e.art = Cur.art /\ e.db = Cur.db /\ e.rdb = Cur.rdb
        /\ e.aof = redis.aof /\ e.manifest = Cur.manifest
    BY <1>0, ServerParts DEF Snapshots
  <2>2. snaps' = [snaps EXCEPT ![cmd.snap] = e]
    BY <1>5 DEF Cur
  <2> HIDE DEF e
  <2>3. SnapshotNow(e.art, e.db, e.rdb, e.aof, e.manifest)
    BY <1>1, <2>1, <2>2
  <2> QED
    BY <2>1, <2>3
<1> QED
  BY <1>2, <1>3, <1>4, <1>5

LEMMA TypesRestore ==
    ASSUME ConstantsOK, TypeOK, CommandInv, RolledInv,
           \/ _cmd_restore \/ run_restore \/ _cmd_restore_rollback
           \/ rollback_from_pre_restore_snapshot \/ ServiceStep
    PROVE  TypeOK'
<1> USE Marks, GotoPoint, ServerParts DEF TypeOK
<1>p. /\ RestorePoints \cup RollbackPoints \subseteq Points /\ "idle" \in Points
      /\ cmd.pc \in RollbackPoints => cmd.pc \in Late
  BY DEF Points, Late
<1>1. CASE _cmd_restore
  <2>1. cmd' \in Commands
    BY <1>1, CommandIs DEF _cmd_restore, Begin, Points, RestorePoints
  <2> QED
    BY <1>1, <2>1 DEF _cmd_restore, Begin, Results
<1>2. CASE SnapshotArtifacts
  <2> DEFINE e == [art |-> IF art = Absent THEN Empty ELSE art, db |-> Missing,
                   rdb |-> Missing, aof |-> Missing, manifest |-> FALSE]
  <2>1. e \in Snapshots
    BY DEF Snapshots, Artifacts
  <2>2. snaps' = Append(snaps, e)
    BY <1>2 DEF SnapshotArtifacts
  <2>3. snaps' \in Seq(Snapshots) /\ Len(snaps) + 1 \in Nat
    BY <2>1, <2>2, AppendProperties
  <2>4. cmd' \in Commands
    BY <1>2, <2>3, CommandIs DEF SnapshotArtifacts, Points, RestorePoints
  <2> QED
    BY <1>2, <2>3, <2>4 DEF SnapshotArtifacts, restoreOnly, counters, Artifacts
<1>3. CASE SnapshotDb \/ _write_snapshot_manifest
  <2>1. snaps' \in Seq(Snapshots)
    BY <1>3, SnapshotWritten DEF SnapshotDb, _write_snapshot_manifest, SnapshotNow, Late,
       RestorePoints, Early
  <2> QED
    BY <1>3, <2>1 DEF SnapshotDb, _write_snapshot_manifest, restoreOnly, counters, Points, RestorePoints
<1>4. CASE SnapshotRedis
  <2>1. snaps' \in Seq(Snapshots)
    BY <1>4, SnapshotWritten DEF SnapshotRedis, SnapshotNow, Late, RestorePoints, Early
  <2> QED
    BY <1>4, <2>1, SavedServer DEF SnapshotRedis, restoreOnly, counters, Points, RestorePoints
<1>5. CASE place_artifacts \/ invoke_pg_restore \/ verify_alembic_head_in_db
  BY <1>5, Restored DEF place_artifacts, invoke_pg_restore, verify_alembic_head_in_db, restoreOnly, counters,
     Points, RestorePoints
<1>6. CASE place_redis_dump_rdb
  <2>1. snaps' \in Seq(Snapshots)
    BY <1>6, SnapshotWritten DEF place_redis_dump_rdb, SnapshotNow, Late, RestorePoints, Early
  <2>2. redis' \in Servers
    BY <1>6, Restored, FilesServer DEF place_redis_dump_rdb, RestorePoints
  <2> QED
    BY <1>6, <2>1, <2>2 DEF place_redis_dump_rdb, restoreOnly, counters, Points, RestorePoints
<1>7. ASSUME HalfDone, cmd.pc \in RestorePoints \cup RollbackPoints
      PROVE  app' \in {"up", "down"} /\ art' \in Artifacts /\ db' \in Gens /\ redis' \in Servers
             /\ snaps' \in Seq(Snapshots)
  <2>1. app' \in {"up", "down"} /\ art' \in Artifacts
    BY <1>7 DEF HalfDone, Artifacts
  <2>2. db' \in Gens
    <3>1. CASE cmd.pc = "r_pg_restore"
      BY <1>7, <3>1, Restored DEF HalfDone, RestorePoints
    <3>2. CASE cmd.pc = "rb_pg_restore"
      BY <1>7, <3>2, <1>p, CurrentSnapshot DEF HalfDone, RollbackPoints, RolledInv, Cur
    <3>3. CASE cmd.pc \notin {"r_pg_restore", "rb_pg_restore"}
      BY <1>7, <3>3 DEF HalfDone
    <3> QED
      BY <3>1, <3>2, <3>3
  <2>3. redis' \in Servers
    <3>1. /\ WithFiles(redis, redis.rdb, Missing) \in Servers
          /\ WithFiles(redis, Missing, Missing) \in Servers
      BY FilesServer
    <3> QED
      BY <1>7, <3>1, StoppedServer, StartedServer DEF HalfDone
  <2>4. snaps' \in Seq(Snapshots)
    BY <1>7, SnapshotWritten DEF HalfDone, SnapshotNow, Late, RestorePoints, Early
  <2> QED
    BY <2>1, <2>2, <2>3, <2>4
<1>8. CASE RestoreFails
  <2>1. "rb_stop" \in Points
    BY DEF Points, RollbackPoints
  <2>2. cmd' \in Commands /\ stage' \in Archives /\ result' \in Results
    BY <1>8, <2>1, FailPoint, IdleIs DEF RestoreFails, End, Results
  <2> QED
    BY <1>7, <1>8, <2>2 DEF RestoreFails
<1>9. CASE _cmd_restore_rollback
  <2>1. PICK i \in DOMAIN snaps :
           /\ verify_snapshot_component_hashes(snaps[i])
           /\ Begin([pc |-> "rb_stop", snap |-> i, skip |-> FALSE, ok |-> TRUE])
           /\ live' = [db |-> snaps[i].db, art |-> snaps[i].art]
    BY <1>9 DEF _cmd_restore_rollback
  <2>2. i \in Nat /\ snaps[i] \in Snapshots
    OBVIOUS
  <2>3. cmd' \in Commands
    BY <2>1, <2>2, CommandIs DEF Begin, Points, RollbackPoints
  <2>4. live' \in [db : Gens, art : Artifacts]
    BY <2>1, <2>2 DEF verify_snapshot_component_hashes, Snapshots
  <2> QED
    BY <1>9, <2>1, <2>3, <2>4 DEF _cmd_restore_rollback, Begin, Results
<1>10. CASE RollbackArtifacts
  <2>1. art' \in Artifacts
    BY <1>10, CurrentSnapshot DEF RollbackArtifacts, Cur, Late, RollbackPoints
  <2> QED
    BY <1>10, <2>1 DEF RollbackArtifacts, restoreOnly, counters, Points, RollbackPoints
<1>11. CASE RollbackDb
  <2>1. db' \in Gens
    BY <1>11, CurrentSnapshot DEF RollbackDb, Cur, Late, RollbackPoints, RolledInv
  <2> QED
    BY <1>11, <2>1 DEF RollbackDb, restoreOnly, counters, Points, RollbackPoints
<1>12. CASE RollbackRedis
  <2>1. redis' \in Servers
    BY <1>12, CurrentSnapshot, FilesServer DEF RollbackRedis, Cur, Late, RollbackPoints
  <2> QED
    BY <1>12, <2>1 DEF RollbackRedis, restoreOnly, counters, Points, RollbackPoints
<1>13. CASE RollbackFails
  BY <1>7, <1>13, IdleIs DEF RollbackFails, End, Results
<1>14. CASE stop_app_services \/ stop_redis_service_only \/ start_redis_service
  <2>1. before' \in [db : Gens, art : Artifacts, mem : DataSets]
    BY <1>14, StartedServer DEF stop_app_services, stop_redis_service_only, start_redis_service,
       restoreOnly, counters, Servers
  <2> QED
    BY <1>14, <2>1, StoppedServer, StartedServer DEF stop_app_services, stop_redis_service_only,
       start_redis_service, restoreOnly, counters, Points, RestorePoints, RollbackPoints
<1>15. CASE start_app_services
  <2>1. live' \in [db : Gens, art : Artifacts]
    BY <1>15 DEF start_app_services
  <2> QED
    BY <1>15, <2>1, StartedServer, IdleIs DEF start_app_services, counters, End, Results
<1> QED
  BY <1>1, <1>2, <1>3, <1>4, <1>5, <1>6, <1>8, <1>9, <1>10, <1>11, <1>12, <1>13, <1>14, <1>15
     DEF run_restore, create_pre_restore_snapshot, rollback_from_pre_restore_snapshot, ServiceStep

LEMMA TypesOther ==
    ASSUME ConstantsOK, TypeOK, AppWrites \/ Crash \/ UNCHANGED vars
    PROVE  TypeOK'
<1> USE Marks, ServerParts DEF TypeOK
<1>1. CASE AppWrites
  <2>1. newest' \in Gens /\ db' \in Gens
    BY <1>1 DEF AppWrites, Gens, ConstantsOK
  <2>2. redis' \in Servers /\ art' \in Artifacts /\ live' \in [db : Gens, art : Artifacts]
    BY <1>1, <2>1 DEF AppWrites, Servers, Artifacts, DataSets
  <2> QED
    BY <1>1, <2>1, <2>2 DEF AppWrites, Results
<1>2. CASE Crash
  BY <1>2, IdleIs DEF Crash, End, Results
<1>3. CASE UNCHANGED vars
  BY <1>3 DEF vars
<1> QED
  BY <1>1, <1>2, <1>3

-----------------------------------------------------------------------------
(* While a backup runs nothing else changes but the application's state    *)
(* and what Redis has on disk.                                             *)
LEMMA BackupFrame ==
    ASSUME HostInv, cmd.pc \in BackupPoints, cmd'.pc \in BackupPoints, cmd'.snap = cmd.snap,
           UNCHANGED <<db, art, archive, snaps, result, before, live, broken>>,
           redis'.up = redis.up, redis'.mem = redis.mem, redis'.aof = redis.aof,
           BackupInv'
    PROVE  HostInv'
<1> USE DEF HostInv
<1>1. /\ cmd.pc \notin {"idle"} \cup RestorePoints \cup RollbackPoints
      /\ cmd'.pc \notin {"idle"} \cup RestorePoints \cup RollbackPoints
  BY DEF BackupPoints, RestorePoints, RollbackPoints
<1>2. result = "none" /\ cmd.snap = 0
  BY <1>1 DEF CommandInv, Idle
<1>3. CommandInv'
  BY <1>1, <1>2 DEF CommandInv, Early, Late, RestorePoints
<1>4. RedisInv' /\ PlacedInv' /\ BeforeInv' /\ RolledInv'
  BY <1>1 DEF RedisInv, PlacedInv, BeforeInv, RolledInv, Restoring, RestorePoints, RollbackPoints
<1>5. CoherentInv'
  BY <1>1 DEF CoherentInv, Restoring, Coherent, Early
<1>6. LiveInv'
  BY <1>2 DEF LiveInv
<1>7. RestoredIsArchive' /\ RolledBack' /\ ManifestMeansWhole'
  BY <1>2 DEF RestoredIsArchive, RolledBack, ManifestMeansWhole
<1> QED
  BY <1>3, <1>4, <1>5, <1>6, <1>7

(* A command that ends leaves the host as it is; what it must have reached *)
(* by then is what its result says.                                        *)
LEMMA EndFrame ==
    ASSUME HostInv, cmd' = Idle, result' # "none",
           UNCHANGED <<archive, snaps, before>>,
           RedisInv', CoherentInv', LiveInv', RestoredIsArchive', RolledBack'
    PROVE  HostInv'
<1>1. cmd'.pc = "idle" /\ cmd'.snap = 0 /\ ~cmd'.skip
  BY DEF Idle
<1>2. CommandInv' /\ BackupInv' /\ PlacedInv' /\ BeforeInv' /\ RolledInv'
  BY <1>1 DEF HostInv, CommandInv, BackupInv, PlacedInv, BeforeInv, RolledInv, Restoring,
     RestorePoints, RollbackPoints, BackupPoints, Early, Late
<1>3. ManifestMeansWhole'
  BY DEF HostInv, ManifestMeansWhole
<1> QED
  BY <1>2, <1>3 DEF HostInv

LEMMA BackupKeeps ==
    ASSUME ConstantsOK, TypeOK, HostInv, run_backup \/ _cmd_backup \/ _cmd_backup_phase_5
    PROVE  HostInv'
<1> USE Marks
<1>0. /\ cmd \in Commands /\ stage \in Archives /\ redis \in Servers
      /\ db # Missing /\ art # Missing /\ redis.mem # Missing
  BY ServerParts DEF TypeOK, Artifacts, DataSets
<1>1. ASSUME NEW p \in {"b_stop", "b_artifacts", "b_pg_dump"}, NEW skip \in BOOLEAN,
             BackupBegins(p, skip), ~skip => p = "b_stop"
      PROVE  HostInv'
  <2> USE <1>1 DEF HostInv, BackupBegins, Begin
  <2>1. /\ cmd.pc = "idle" /\ cmd.snap = 0 /\ cmd'.pc = p /\ cmd'.snap = 0 /\ cmd'.skip = skip
        /\ p \in BackupPoints /\ p \notin {"idle"} \cup RestorePoints \cup RollbackPoints
    BY DEF Idle, BackupPoints, RestorePoints, RollbackPoints
  <2>2. CommandInv' /\ RedisInv' /\ BackupInv' /\ PlacedInv' /\ BeforeInv' /\ RolledInv'
    BY <2>1 DEF CommandInv, RedisInv, BackupInv, PlacedInv, BeforeInv, RolledInv, Restoring,
       RestorePoints, RollbackPoints, Early, Late
  <2>3. CoherentInv' /\ LiveInv'
    BY <2>1 DEF CoherentInv, Restoring, Coherent, LiveInv, Early
  <2>4. RestoredIsArchive' /\ RolledBack' /\ ManifestMeansWhole'
    BY DEF RestoredIsArchive, RolledBack, ManifestMeansWhole
  <2> QED
    BY <2>2, <2>3, <2>4
<1>2. CASE BackupStop \/ BackupArtifacts \/ BackupLegacyArtifacts \/ BackupPgDump
  <2>1. BackupInv'
    BY <1>0, <1>2, GotoPoint DEF BackupStop, BackupArtifacts, BackupLegacyArtifacts, BackupPgDump,
       backupOnly, HostInv, BackupInv, Archives
  <2> QED
    BY <1>0, <1>2, <2>1, GotoPoint, BackupFrame DEF BackupStop, BackupArtifacts,
       BackupLegacyArtifacts, BackupPgDump, backupOnly, BackupPoints
<1>3. CASE BackupRedis
  <2>1. redis'.up = redis.up /\ redis'.mem = redis.mem /\ redis'.aof = redis.aof
    BY <1>0, <1>3, SavedServer DEF BackupRedis
  <2>2. art # Missing
    BY DEF TypeOK, Artifacts
  <2>3. BackupInv'
    BY <1>0, <1>3, <2>1, <2>2, GotoPoint DEF BackupRedis, backupOnly, HostInv, BackupInv, Archives
  <2> QED
    BY <1>0, <1>3, <2>1, <2>3, GotoPoint, BackupFrame DEF BackupRedis, backupOnly, BackupPoints
<1>4. CASE BackupPublish
  <2> USE <1>4 DEF HostInv, BackupPublish
  <2>1. /\ cmd.pc = "b_publish" /\ cmd'.pc = "b_start" /\ cmd'.snap = cmd.snap /\ cmd.snap = 0
        /\ result = "none"
    BY <1>0, GotoPoint DEF CommandInv, Idle, BackupPoints
  <2>2. archive'.db \in Gens /\ archive'.art \in Artifacts /\ archive'.rdb \in DataSets
    BY <1>0, <2>1 DEF BackupInv, Archives
  <2>6. CommandInv' /\ RedisInv' /\ BackupInv' /\ PlacedInv' /\ BeforeInv' /\ RolledInv'
    BY <2>1, <2>2 DEF CommandInv, RedisInv, BackupInv, PlacedInv, BeforeInv, RolledInv, Restoring,
       RestorePoints, RollbackPoints, Early, Late
  <2>3. ~broken' => ~broken /\ archive'.art = art /\ archive'.db = db
    BY <2>1 DEF BackupInv
  <2>4. CoherentInv' /\ LiveInv'
    BY <2>1, <2>3 DEF CoherentInv, Restoring, Coherent, LiveInv, Early, BackupPoints,
       RestorePoints, RollbackPoints
  <2>5. RestoredIsArchive' /\ RolledBack' /\ ManifestMeansWhole'
    BY <2>1 DEF RestoredIsArchive, RolledBack, ManifestMeansWhole
  <2> QED
    BY <2>4, <2>5, <2>6
<1>5. CASE BackupStart \/ (BackupFails /\ cmd.pc = "b_start")
  <2>1. /\ cmd' = Idle /\ result' \in {"backed_up", "backup_failed"}
        /\ UNCHANGED <<db, art, archive, snaps, before, live, broken>>
        /\ redis' \in {redis, Started(redis)} /\ cmd.pc = "b_start" /\ cmd.snap = 0
    BY <1>5 DEF BackupStart, BackupFails, End, backupOnly, HostInv, CommandInv, BackupPoints
  <2>2. cmd'.pc = "idle" /\ cmd'.snap = 0
    BY <2>1 DEF Idle
  <2>3. RedisInv'
    BY <1>0, <2>1, <2>2, StartedServer DEF HostInv, RedisInv
  <2>4. CoherentInv'
    BY <2>1, <2>2 DEF HostInv, CoherentInv, Restoring, Coherent, BackupPoints,
       RestorePoints, RollbackPoints
  <2>5. LiveInv'
    BY <2>1, <2>2 DEF HostInv, LiveInv
  <2> QED
    BY <2>1, <2>3, <2>4, <2>5, EndFrame DEF RestoredIsArchive, RolledBack
<1>6. CASE BackupFails /\ cmd.pc # "b_start"
  <2>1. BackupInv'
    BY <1>0, <1>6, FailPoint DEF BackupFails, BackupInv
  <2> QED
    BY <1>0, <1>6, <2>1, FailPoint, BackupFrame DEF BackupFails, BackupPoints
<1> QED
  BY <1>1, <1>2, <1>3, <1>4, <1>5, <1>6 DEF run_backup, _cmd_backup, _cmd_backup_phase_5, BackupPoints

-----------------------------------------------------------------------------
(* While a restore or a rollback runs there is no result and no backup.    *)
LEMMA RestoreFrame ==
    ASSUME HostInv, cmd.pc \in RestorePoints \cup RollbackPoints,
           cmd'.pc \in RestorePoints \cup RollbackPoints, UNCHANGED result,
           CommandInv', RedisInv', PlacedInv', BeforeInv', RolledInv', CoherentInv',
           LiveInv', ManifestMeansWhole'
    PROVE  HostInv'
<1>1. result = "none"
  BY DEF HostInv, CommandInv, Idle, RestorePoints, RollbackPoints
<1>2. BackupInv'
  BY DEF BackupInv, RestorePoints, RollbackPoints
<1> QED
  BY <1>1, <1>2 DEF HostInv, RestoredIsArchive, RolledBack

LEMMA RestoreBegins ==
    ASSUME ConstantsOK, TypeOK, HostInv, _cmd_restore
    PROVE  HostInv'
<1> USE Marks DEF HostInv, _cmd_restore, Begin
<1>1. /\ cmd.pc = "idle" /\ cmd.snap = 0 /\ cmd'.pc = "r_stop" /\ cmd'.snap = 0 /\ cmd'.ok
  BY DEF Idle
<1>2. CommandInv' /\ RedisInv' /\ BackupInv' /\ PlacedInv' /\ RolledInv'
  BY <1>1 DEF CommandInv, RedisInv, BackupInv, PlacedInv, RolledInv,
     RestorePoints, RollbackPoints, BackupPoints, Early, Late
<1>3. BeforeInv'
  BY <1>1 DEF BeforeInv, Restoring, RollbackPoints
<1>4. CoherentInv' /\ LiveInv'
  BY <1>1 DEF CoherentInv, Coherent, Restoring, RollbackPoints, Early, LiveInv
<1>5. RestoredIsArchive' /\ RolledBack' /\ ManifestMeansWhole'
  BY DEF RestoredIsArchive, RolledBack, ManifestMeansWhole
<1> QED
  BY <1>2, <1>3, <1>4, <1>5

(* create_pre_restore_snapshot moves the artifacts, then reads the database *)
(* and Redis: what the restore will overwrite is what it began with.       *)
LEMMA SnapshotKeeps ==
    ASSUME ConstantsOK, TypeOK, HostInv, create_pre_restore_snapshot
    PROVE  HostInv'
<1> USE Marks
<1>0. cmd \in Commands /\ redis \in Servers /\ live.db \in Gens
  BY DEF TypeOK
<1>1. CASE SnapshotArtifacts
  <2> USE <1>1 DEF HostInv, SnapshotArtifacts
  <2> DEFINE e == [art |-> IF art = Absent THEN Empty ELSE art, db |-> Missing,
                   rdb |-> Missing, aof |-> Missing, manifest |-> FALSE]
             n == Len(snaps) + 1
  <2>1. e \in Snapshots /\ SameArtifacts(e.art, art)
    BY DEF Snapshots, Artifacts, TypeOK, SameArtifacts
  <2>2. snaps' = Append(snaps, e) /\ snaps \in Seq(Snapshots)
    BY DEF TypeOK
  <2>3. /\ n \in DOMAIN snaps' /\ n # 0 /\ snaps'[n] = e /\ DOMAIN snaps' = DOMAIN snaps \cup {n}
        /\ \A i \in DOMAIN snaps : i \in DOMAIN snaps' /\ i # n /\ snaps'[i] = snaps[i]
    BY <2>1, <2>2, AppendProperties
  <2>4. /\ cmd.pc = "r_move" /\ cmd.snap = 0 /\ cmd.ok /\ cmd'.pc = "r_pg_dump"
        /\ cmd'.snap = n /\ cmd'.ok
    BY DEF CommandInv, Early, RestorePoints
  <2>5. e.db = Missing /\ e.rdb = Missing /\ e.aof = Missing /\ ~e.manifest
    OBVIOUS
  <2> HIDE DEF e, n
  <2>6. CommandInv' /\ RedisInv' /\ PlacedInv' /\ RolledInv'
    BY <2>3, <2>4 DEF CommandInv, RedisInv, PlacedInv, RolledInv, restoreOnly, Idle,
       RestorePoints, RollbackPoints, BackupPoints, Early, Late
  <2>7. BeforeInv'
    BY <2>1, <2>3, <2>4, <2>5 DEF BeforeInv, Cur, Restoring, restoreOnly, Early, Late, RestorePoints,
       RollbackPoints
  <2>8. CoherentInv'
    BY <2>3, <2>4, <2>5 DEF CoherentInv, Coherent, Restoring, restoreOnly, RestorePoints, Early,
       BackupPoints, RollbackPoints
  <2>9. LiveInv'
    <3>1. (\E i \in DOMAIN snaps' : snaps'[i].db = live'.db) \/ (db' = live'.db /\ Cur'.db = Missing)
      BY <2>3, <2>4, <2>5 DEF LiveInv, restoreOnly, Cur
    <3>2. \E i \in DOMAIN snaps' : SameArtifacts(snaps'[i].art, live'.art)
      <4>1. SameArtifacts(art, live.art) => SameArtifacts(e.art, live.art)
        BY <2>1 DEF SameArtifacts
      <4> QED
        BY <2>3, <4>1 DEF LiveInv, restoreOnly
    <3> QED
      BY <3>1, <3>2 DEF LiveInv
  <2>10. ManifestMeansWhole'
    BY <2>3, <2>5 DEF ManifestMeansWhole
  <2> QED
    BY <2>4, <2>6, <2>7, <2>8, <2>9, <2>10, RestoreFrame DEF RestorePoints
<1>2. CASE SnapshotDb
  <2> USE <1>2 DEF HostInv, SnapshotDb
  <2>1. /\ cmd.pc = "r_pg_dump" /\ cmd.pc \in Late /\ cmd'.pc = "r_save" /\ cmd'.snap = cmd.snap
        /\ cmd.ok /\ cmd'.ok
    BY <1>0, GotoPoint DEF CommandInv, RestorePoints, Late, Early
  <2>2. SnapshotNow(Cur.art, db, Cur.rdb, Cur.aof, Cur.manifest)
    BY <2>1, SnapshotWritten
  <2>3. cmd.snap \in DOMAIN snaps /\ db = before.db /\ db # Missing
    BY <2>1 DEF CommandInv, BeforeInv, Restoring, RestorePoints, TypeOK
  <2>4. CommandInv' /\ RedisInv' /\ PlacedInv' /\ RolledInv'
    BY <2>1, <2>2 DEF CommandInv, RedisInv, PlacedInv, RolledInv, restoreOnly, Idle, SnapshotNow,
       RestorePoints, RollbackPoints, BackupPoints, Early, Late
  <2>5. BeforeInv'
    BY <2>1, <2>2, <2>3 DEF BeforeInv, Cur, Restoring, restoreOnly, Early, Late, RestorePoints,
       RollbackPoints, SnapshotNow
  <2>6. CoherentInv'
    <3>1. ~broken => Coherent(snaps'[cmd.snap].art, db)
      BY <2>1, <2>2, <2>3 DEF CoherentInv, Coherent, BeforeInv, Restoring, RestorePoints, Late,
         SnapshotNow, SameArtifacts
    <3> QED
      BY <2>1, <2>2, <3>1 DEF CoherentInv, Coherent, Restoring, restoreOnly, RestorePoints, Early,
         BackupPoints, RollbackPoints, SnapshotNow
  <2>7. LiveInv'
    <3>1. \E i \in DOMAIN snaps' : snaps'[i].db = live'.db
      <4>1. CASE db = live.db
        BY <2>2, <2>3, <4>1 DEF SnapshotNow, restoreOnly
      <4>2. CASE db # live.db
        <5>1. PICK i \in DOMAIN snaps : snaps[i].db = live.db
          BY <4>2 DEF LiveInv
        <5>2. i # cmd.snap
          BY <1>0, <5>1, <2>1, <2>3, <4>2 DEF BeforeInv, Restoring, RestorePoints, Cur
        <5> QED
          BY <2>2, <5>1, <5>2 DEF SnapshotNow, restoreOnly
      <4> QED
        BY <4>1, <4>2
    <3>2. \E i \in DOMAIN snaps' : SameArtifacts(snaps'[i].art, live'.art)
      BY <2>2, <2>1, CurrentSnapshot DEF LiveInv, restoreOnly, SnapshotNow, Cur
    <3> QED
      BY <3>1, <3>2 DEF LiveInv
  <2>8. ManifestMeansWhole'
    BY <2>2, <2>3 DEF ManifestMeansWhole, SnapshotNow, Cur
  <2> QED
    BY <2>1, <2>4, <2>5, <2>6, <2>7, <2>8, RestoreFrame DEF RestorePoints
<1>3. CASE SnapshotRedis
  <2> USE <1>3 DEF HostInv, SnapshotRedis
  <2>1. /\ cmd.pc = "r_save" /\ cmd.pc \in Late /\ cmd'.pc = "r_manifest" /\ cmd'.snap = cmd.snap
        /\ cmd.ok /\ cmd'.ok
    BY <1>0, GotoPoint DEF CommandInv, RestorePoints, Late, Early
  <2>2. SnapshotNow(Cur.art, Cur.db, redis.mem, Cur.aof, Cur.manifest)
    BY <2>1, SnapshotWritten
  <2>3. /\ cmd.snap \in DOMAIN snaps /\ cmd.snap # 0 /\ Cur.db = before.db /\ before.db # Missing
        /\ redis.mem = before.mem /\ redis.mem # Missing
    BY <1>0, <2>1, StartedServer, CurrentSnapshot, ServerParts DEF BeforeInv, Restoring, RestorePoints,
       TypeOK, Early, DataSets
  <2>4. redis'.up = redis.up /\ redis'.mem = redis.mem /\ redis'.aof = redis.aof /\ redis' \in Servers
    BY <1>0, SavedServer
  <2>5. CommandInv' /\ RedisInv' /\ PlacedInv' /\ RolledInv'
    BY <2>1, <2>2, <2>4 DEF CommandInv, RedisInv, PlacedInv, RolledInv, restoreOnly, Idle, SnapshotNow,
       RestorePoints, RollbackPoints, BackupPoints, Early, Late
  <2>6. BeforeInv'
    BY <2>1, <2>2, <2>3, <2>4 DEF BeforeInv, Cur, Restoring, restoreOnly, Early, Late, RestorePoints,
       RollbackPoints, SnapshotNow
  <2>7. CoherentInv'
    BY <2>1, <2>2 DEF CoherentInv, Coherent, Restoring, restoreOnly, RestorePoints, Early,
       BackupPoints, RollbackPoints, SnapshotNow, Cur
  <2>8. LiveInv'
    BY <2>1, <2>2, <2>3 DEF LiveInv, restoreOnly, SnapshotNow, Cur
  <2>9. ManifestMeansWhole'
    BY <2>2, <2>3 DEF ManifestMeansWhole, SnapshotNow, Cur
  <2> QED
    BY <2>1, <2>5, <2>6, <2>7, <2>8, <2>9, RestoreFrame DEF RestorePoints
<1>4. CASE _write_snapshot_manifest
  <2> USE <1>4 DEF HostInv, _write_snapshot_manifest
  <2>1. /\ cmd.pc = "r_manifest" /\ cmd.pc \in Late /\ cmd'.pc = "r_artifacts"
        /\ cmd'.snap = cmd.snap /\ cmd.ok /\ cmd'.ok
    BY <1>0, GotoPoint DEF CommandInv, RestorePoints, Late, Early
  <2>2. SnapshotNow(Cur.art, Cur.db, Cur.rdb, Cur.aof, TRUE)
    BY <2>1, SnapshotWritten
  <2>3. /\ cmd.snap \in DOMAIN snaps /\ cmd.snap # 0 /\ Cur.db = before.db /\ before.db # Missing
        /\ Cur.rdb = before.mem /\ before.mem # Missing /\ Cur.art # Missing
    BY <2>1, CurrentSnapshot DEF BeforeInv, Restoring, RestorePoints, TypeOK, Early, DataSets, Artifacts
  <2>4. CommandInv' /\ RedisInv' /\ PlacedInv' /\ RolledInv'
    BY <2>1, <2>2 DEF CommandInv, RedisInv, PlacedInv, RolledInv, restoreOnly, Idle, SnapshotNow,
       RestorePoints, RollbackPoints, BackupPoints, Early, Late
  <2>5. BeforeInv'
    BY <2>1, <2>2, <2>3 DEF BeforeInv, Cur, Restoring, restoreOnly, Early, Late, RestorePoints,
       RollbackPoints, SnapshotNow
  <2>6. CoherentInv'
    BY <2>1, <2>2 DEF CoherentInv, Coherent, Restoring, restoreOnly, RestorePoints, Early,
       BackupPoints, RollbackPoints, SnapshotNow, Cur
  <2>7. LiveInv'
    BY <2>1, <2>2, <2>3 DEF LiveInv, restoreOnly, SnapshotNow, Cur
  <2>8. ManifestMeansWhole'
    BY <2>2, <2>3 DEF ManifestMeansWhole, SnapshotNow, Cur
  <2> QED
    BY <2>1, <2>4, <2>5, <2>6, <2>7, <2>8, RestoreFrame DEF RestorePoints
<1> QED
  BY <1>1, <1>2, <1>3, <1>4 DEF create_pre_restore_snapshot

(* The steps that replace what is in place, and the services' stops and    *)
(* starts, up to the last start of the application.                        *)
LEMMA PlacementKeeps ==
    ASSUME ConstantsOK, TypeOK, HostInv,
           \/ stop_app_services \/ place_artifacts \/ invoke_pg_restore \/ verify_alembic_head_in_db
           \/ stop_redis_service_only \/ start_redis_service
           \/ RollbackArtifacts \/ RollbackDb \/ RollbackRedis
    PROVE  HostInv'
<1> USE Marks
<1>0. cmd \in Commands /\ redis \in Servers
  BY DEF TypeOK
<1> DEFINE NotLast == {"r_stop", "r_artifacts", "r_pg_restore", "r_stop_redis", "r_start_redis",
                       "r_alembic", "rb_stop", "rb_artifacts", "rb_pg_restore", "rb_stop_redis",
                       "rb_place_redis", "rb_start_redis"}
           NotFirst == {"r_move", "r_pg_restore", "r_stop_redis", "r_place_redis", "r_alembic", "r_start",
                       "rb_artifacts", "rb_pg_restore", "rb_stop_redis",
                       "rb_place_redis", "rb_start_redis", "rb_start"}
<1>1. /\ cmd.pc \in NotLast /\ cmd'.pc \in NotFirst
      /\ cmd'.snap = cmd.snap /\ cmd'.ok = cmd.ok
      /\ cmd.pc = "r_stop" <=> cmd'.pc = "r_move"
      /\ cmd.pc \in RestorePoints <=> cmd'.pc \in RestorePoints
      /\ cmd.pc \in RollbackPoints <=> cmd'.pc \in RollbackPoints
      /\ UNCHANGED <<snaps, result, broken, archive, live>>
      /\ cmd.pc # "r_stop" => UNCHANGED before
  BY <1>0, GotoPoint DEF stop_app_services, place_artifacts, invoke_pg_restore,
     verify_alembic_head_in_db, stop_redis_service_only, start_redis_service, RollbackArtifacts,
     RollbackDb, RollbackRedis, RestorePoints, RollbackPoints, restoreOnly
<1>2. CommandInv' /\ cmd'.pc \in RestorePoints \cup RollbackPoints
      /\ cmd.pc \in RestorePoints \cup RollbackPoints /\ Cur' = Cur
  BY <1>1 DEF HostInv, CommandInv, Early, Late, RestorePoints, RollbackPoints, BackupPoints, Idle, Cur
<1>3. ManifestMeansWhole'
  BY <1>1 DEF HostInv, ManifestMeansWhole
<1>4. LiveInv'
  <2>1. CASE cmd.pc = "r_stop"
    BY <1>1, <1>2, <2>1 DEF HostInv, LiveInv, stop_app_services, place_artifacts, invoke_pg_restore,
     verify_alembic_head_in_db, stop_redis_service_only, start_redis_service, RollbackArtifacts,
     RollbackDb, RollbackRedis
  <2>2. CASE cmd.pc # "r_stop"
    <3>1. cmd.pc \in Late /\ cmd.snap # 0
      BY <1>1, <2>2, CurrentSnapshot DEF HostInv, Late, Early, RestorePoints, RollbackPoints
    <3>2. db' # db => Cur.db # Missing
      BY <3>1, <1>1 DEF HostInv, RolledInv, BeforeInv, Restoring, RestorePoints, Early, TypeOK,
         stop_app_services, place_artifacts, invoke_pg_restore,
         verify_alembic_head_in_db, stop_redis_service_only, start_redis_service, RollbackArtifacts,
         RollbackDb, RollbackRedis
    <3> QED
      BY <1>1, <1>2, <3>1, <3>2 DEF HostInv, LiveInv
  <2> QED
    BY <2>1, <2>2
<1>5. CoherentInv'
  BY <1>1 DEF HostInv, CoherentInv, Restoring, Coherent, Early, BackupPoints, RestorePoints, RollbackPoints,
         stop_app_services, place_artifacts, invoke_pg_restore,
         verify_alembic_head_in_db, stop_redis_service_only, start_redis_service, RollbackArtifacts,
         RollbackDb, RollbackRedis
<1> HIDE DEF NotLast, NotFirst
<1>6. CASE stop_app_services \/ place_artifacts \/ invoke_pg_restore \/ verify_alembic_head_in_db
  <2> USE <1>6, <1>1, <1>2 DEF HostInv, stop_app_services, place_artifacts, invoke_pg_restore,
         verify_alembic_head_in_db, restoreOnly
  <2>1. UNCHANGED redis
    OBVIOUS
  <2>2. RedisInv' /\ PlacedInv'
    BY <1>0, <2>1, GotoPoint DEF RedisInv, PlacedInv, RedisServes
  <2>3. BeforeInv'
    <3>1. CASE cmd.pc = "r_stop"
      BY <1>0, <2>1, <3>1, GotoPoint DEF BeforeInv, Restoring, Early, Late, RestorePoints, RollbackPoints
    <3>2. CASE cmd.pc # "r_stop"
      BY <1>0, <2>1, <3>2, GotoPoint DEF BeforeInv, Restoring, Early, Late, RestorePoints, RollbackPoints
    <3> QED
      BY <3>1, <3>2
  <2>4. RolledInv'
    BY <1>0, <2>1, GotoPoint DEF RolledInv
  <2> QED
    BY <1>3, <1>4, <1>5, <2>2, <2>3, <2>4, RestoreFrame
<1>7. CASE stop_redis_service_only
  <2> USE <1>7, <1>1, <1>2 DEF HostInv, stop_redis_service_only, restoreOnly
  <2>1. ~redis'.up /\ redis'.aof = redis.aof /\ UNCHANGED <<db, art>>
    BY <1>0, StoppedServer
  <2>2. RedisInv' /\ PlacedInv'
    BY <1>0, <2>1, GotoPoint DEF RedisInv, PlacedInv
  <2>3. BeforeInv'
    BY <1>0, <2>1, GotoPoint DEF BeforeInv, Restoring, Early, Late, RestorePoints, RollbackPoints,
       RedisInv, RolledInv
  <2>4. RolledInv'
    BY <1>0, <2>1, GotoPoint DEF RolledInv
  <2> QED
    BY <1>3, <1>4, <1>5, <2>2, <2>3, <2>4, RestoreFrame
<1>8. CASE start_redis_service
  <2> USE <1>8, <1>1, <1>2 DEF HostInv, start_redis_service, restoreOnly
  <2>1. /\ redis'.up /\ (AofOn => redis'.aof = redis'.mem) /\ UNCHANGED <<db, art>>
        /\ AofOn => redis'.mem = IF redis.aof = Missing THEN Empty ELSE redis.aof
        /\ ~AofOn => redis'.mem = IF redis.rdb = Missing THEN Empty ELSE redis.rdb
    BY <1>0, StartedServer DEF RedisInv
  <2>2. RedisInv'
    BY <1>0, <2>1, GotoPoint DEF RedisInv
  <2>3. PlacedInv'
    BY <1>0, <2>1, GotoPoint DEF PlacedInv, RedisServes, CommandInv, RestorePoints, DataSets
  <2>4. BeforeInv'
    BY <1>0, <2>1, GotoPoint DEF BeforeInv, Restoring, Early, Late, RestorePoints, RollbackPoints,
       RolledInv
  <2>5. RolledInv'
    <3>1. CASE cmd.pc = "rb_start_redis" /\ ~cmd.ok
      <4>1. /\ redis.rdb = before.mem /\ before.mem \in DataSets
            /\ AofOn => redis.aof \in {Missing, before.mem}
        BY <3>1 DEF RolledInv, BeforeInv, Restoring, RollbackPoints, Late, TypeOK
      <4> QED
        BY <1>0, <2>1, <3>1, <4>1, GotoPoint DEF RolledInv, RedisServes, DataSets
    <3>2. CASE ~(cmd.pc = "rb_start_redis" /\ ~cmd.ok)
      BY <1>0, <2>1, <3>2, GotoPoint DEF RolledInv
    <3> QED
      BY <3>1, <3>2
  <2> QED
    BY <1>3, <1>4, <1>5, <2>2, <2>3, <2>4, <2>5, RestoreFrame
<1>9. CASE RollbackArtifacts \/ RollbackDb
  <2> USE <1>9, <1>1, <1>2 DEF HostInv, RollbackArtifacts, RollbackDb, restoreOnly
  <2>1. UNCHANGED redis /\ cmd.pc \in {"rb_artifacts", "rb_pg_restore"}
    OBVIOUS
  <2>2. RedisInv' /\ PlacedInv'
    BY <1>0, <2>1, GotoPoint DEF RedisInv, PlacedInv
  <2>3. BeforeInv'
    BY <1>0, <2>1, GotoPoint DEF BeforeInv, Restoring, Early, Late, RestorePoints, RollbackPoints,
       RolledInv, Cur
  <2>4. RolledInv'
    <3>1. Cur.db = Missing => cmd.ok \/ Cur.rdb = Missing
      BY <2>1 DEF BeforeInv, Restoring, RollbackPoints, Late, TypeOK
    <3>2. CASE RollbackArtifacts
      BY <1>0, <3>1, <3>2, GotoPoint DEF RolledInv, CommandInv, RollbackPoints, Cur
    <3>3. CASE RollbackDb
      BY <1>0, <3>1, <3>3, GotoPoint DEF RolledInv, Cur
    <3> QED
      BY <3>2, <3>3
  <2> QED
    BY <1>3, <1>4, <1>5, <2>2, <2>3, <2>4, RestoreFrame
<1>10. CASE RollbackRedis
  <2> USE <1>10, <1>1, <1>2 DEF HostInv, RollbackRedis, restoreOnly
  <2>1. /\ redis'.up = redis.up /\ redis'.rdb = Cur.rdb /\ redis'.aof = Cur.aof
        /\ UNCHANGED <<db, art>> /\ ~redis.up
    BY <1>0, FilesServer, CurrentSnapshot DEF Cur, RedisInv, Late, RollbackPoints
  <2>2. RedisInv' /\ PlacedInv'
    BY <1>0, <2>1, GotoPoint DEF RedisInv, PlacedInv
  <2>3. BeforeInv'
    BY <1>0, <2>1, GotoPoint DEF BeforeInv, Restoring, Early, Late, RestorePoints, RollbackPoints,
       RolledInv
  <2>4. RolledInv'
    BY <1>0, <2>1, GotoPoint DEF RolledInv
  <2> QED
    BY <1>3, <1>4, <1>5, <2>2, <2>3, <2>4, RestoreFrame
<1> QED
  BY <1>6, <1>7, <1>8, <1>9, <1>10

(* Redis' files: the append-only file goes to the snapshot.                *)
LEMMA PlaceRedisKeeps ==
    ASSUME ConstantsOK, TypeOK, HostInv, place_redis_dump_rdb
    PROVE  HostInv'
<1> USE Marks DEF HostInv, place_redis_dump_rdb
<1>0. cmd \in Commands /\ redis \in Servers
  BY DEF TypeOK
<1>1. /\ cmd.pc = "r_place_redis" /\ cmd.pc \in Late /\ cmd'.pc = "r_start_redis"
      /\ cmd'.snap = cmd.snap /\ cmd.ok /\ cmd'.ok /\ cmd.snap \in DOMAIN snaps /\ cmd.snap # 0
  BY <1>0, GotoPoint, CurrentSnapshot DEF CommandInv, RestorePoints, Late, Early
<1>2. SnapshotNow(Cur.art, Cur.db, Cur.rdb, redis.aof, Cur.manifest)
  BY <1>1, SnapshotWritten
<1>3. /\ redis'.up = redis.up /\ redis'.mem = redis.mem /\ redis'.rdb = archive.rdb
      /\ redis'.aof = Missing /\ ~redis.up
  BY <1>0, <1>1, Restored, FilesServer DEF RestorePoints, RedisInv
<1>4. CommandInv' /\ RedisInv' /\ PlacedInv' /\ RolledInv'
  BY <1>1, <1>2, <1>3 DEF CommandInv, RedisInv, PlacedInv, RolledInv, restoreOnly, Idle, SnapshotNow,
     RestorePoints, RollbackPoints, BackupPoints, Early, Late
<1>5. BeforeInv'
  BY <1>1, <1>2, <1>3 DEF BeforeInv, Cur, Restoring, restoreOnly, Early, Late, RestorePoints,
     RollbackPoints, SnapshotNow
<1>6. CoherentInv'
  BY <1>1, <1>2 DEF CoherentInv, Coherent, Restoring, restoreOnly, RestorePoints, Early,
     BackupPoints, RollbackPoints, SnapshotNow, Cur
<1>7. LiveInv'
  BY <1>1, <1>2 DEF LiveInv, restoreOnly, SnapshotNow, Cur
<1>8. ManifestMeansWhole'
  BY <1>1, <1>2 DEF ManifestMeansWhole, SnapshotNow, Cur
<1> QED
  BY <1>1, <1>4, <1>5, <1>6, <1>7, <1>8, RestoreFrame DEF RestorePoints

(* What a call that fails leaves behind: the snapshot keeps all but its    *)
(* append-only file, and only what is in a snapshot already is lost.       *)
LEMMA HalfDoneLeaves ==
    ASSUME ConstantsOK, TypeOK, HostInv, HalfDone, cmd.pc \in RestorePoints \cup RollbackPoints,
           UNCHANGED <<live, archive, before>>
    PROVE  /\ DOMAIN snaps' = DOMAIN snaps
           /\ \A i \in DOMAIN snaps : /\ snaps'[i].art = snaps[i].art /\ snaps'[i].db = snaps[i].db
                                      /\ snaps'[i].rdb = snaps[i].rdb
                                      /\ snaps'[i].manifest = snaps[i].manifest
                                      /\ snaps'[i].aof = snaps[i].aof \/ cmd.pc = "r_place_redis"
           /\ cmd.pc = "r_place_redis" /\ AofOn => snaps'[cmd.snap].aof \in {Cur.aof, redis.aof}
           /\ cmd.pc \in Early => UNCHANGED <<db, art, redis, snaps>>
           /\ cmd.pc \in {"r_pg_dump", "r_save"} => UNCHANGED <<db, redis>>
           /\ db' # db => Cur.db # Missing
           /\ AofOn /\ redis'.up => redis'.aof = redis'.mem
           /\ ManifestMeansWhole'
<1> USE Marks
<1>0. cmd \in Commands /\ redis \in Servers
  BY DEF TypeOK
<1>f. /\ WithFiles(redis, redis.rdb, Missing).up = redis.up
      /\ WithFiles(redis, Missing, Missing).up = redis.up
  BY DEF WithFiles
<1>1. CASE UNCHANGED snaps
  <2>1. /\ cmd.pc \in Early => UNCHANGED <<db, art, redis, snaps>>
        /\ cmd.pc \in {"r_pg_dump", "r_save"} => UNCHANGED <<db, redis>>
    BY DEF HalfDone, Early
  <2>2. db' # db => Cur.db # Missing
    BY DEF HalfDone, HostInv, RolledInv, BeforeInv, Restoring, RestorePoints, Early, TypeOK, CommandInv
  <2>3. AofOn /\ redis'.up => redis'.aof = redis'.mem
    <3>1. CASE UNCHANGED redis
      BY <3>1 DEF HostInv, RedisInv
    <3>2. CASE cmd.pc \in {"r_place_redis", "rb_place_redis"} /\ redis'.up = redis.up
      BY <3>2 DEF HostInv, RedisInv
    <3>3. CASE redis' = Stopped(redis)
      BY <1>0, <3>3, StoppedServer
    <3>4. CASE redis' = Started(redis)
      BY <1>0, <3>4, StartedServer DEF HostInv, RedisInv
    <3> QED
      BY <1>f, <3>1, <3>2, <3>3, <3>4 DEF HalfDone
  <2> QED
    BY <1>1, <2>1, <2>2, <2>3 DEF HostInv, ManifestMeansWhole, Cur
<1>2. CASE ~UNCHANGED snaps
  <2>1. /\ cmd.pc = "r_place_redis" /\ cmd.pc \in Late /\ cmd.pc \notin Early
        /\ snaps' = [snaps EXCEPT ![cmd.snap].aof = redis.aof]
        /\ redis' = WithFiles(redis, redis.rdb, Missing)
        /\ UNCHANGED db
    BY <1>2 DEF HalfDone, Late, RestorePoints, Early
  <2>2. SnapshotNow(Cur.art, Cur.db, Cur.rdb, redis.aof, Cur.manifest)
    BY <2>1, SnapshotWritten DEF HostInv
  <2>3. ~redis'.up
    BY <1>f, <2>1 DEF HostInv, RedisInv
  <2>4. cmd.snap \in DOMAIN snaps
    BY <2>1 DEF HostInv, CommandInv
  <2>5. ManifestMeansWhole'
    BY <2>2, <2>4 DEF HostInv, ManifestMeansWhole, SnapshotNow, Cur
  <2> QED
    BY <2>1, <2>2, <2>3, <2>4, <2>5 DEF SnapshotNow, Cur
<1> QED
  BY <1>1, <1>2

LEMMA FailuresKeep ==
    ASSUME ConstantsOK, TypeOK, HostInv, RestoreFails \/ RollbackFails
    PROVE  HostInv'
<1> USE Marks
<1>0. cmd \in Commands /\ redis \in Servers
  BY DEF TypeOK
<1>1. HalfDone /\ cmd.pc \in RestorePoints \cup RollbackPoints /\ UNCHANGED <<live, archive, before>>
  BY DEF RestoreFails, RollbackFails
<1>a. CASE RestoreFails /\ cmd.snap # 0
  <2> USE <1>a, <1>1, HalfDoneLeaves DEF HostInv, RestoreFails
  <2>1. /\ cmd.pc \in Late /\ cmd.pc \in RestorePoints \ Early /\ cmd.snap \in DOMAIN snaps /\ cmd.ok
        /\ cmd'.pc = "rb_stop" /\ cmd'.snap = cmd.snap /\ ~cmd'.ok
    BY <1>0, FailPoint DEF CommandInv, Late
  <2>2. CommandInv' /\ RedisInv' /\ PlacedInv' /\ RolledInv'
    BY <2>1 DEF CommandInv, RedisInv, PlacedInv, RolledInv, Idle,
       RestorePoints, RollbackPoints, BackupPoints, Early, Late
  <2>3. BeforeInv'
    <3>1. /\ SameArtifacts(Cur.art, before.art)
          /\ Cur.db = before.db \/ (Cur.db = Missing /\ db = before.db /\ Cur.rdb = Missing)
          /\ Cur.rdb = before.mem \/ (Cur.rdb = Missing /\ Started(redis).mem = before.mem)
          /\ AofOn => Cur.aof \in {Missing, before.mem}
          /\ cmd.pc \notin {"r_pg_dump"} => Cur.db = before.db /\ before.db # Missing
          /\ cmd.pc \notin {"r_pg_dump", "r_save"} => Cur.rdb = before.mem
          /\ cmd.pc = "r_place_redis" /\ AofOn => redis.aof = before.mem
      BY <2>1 DEF BeforeInv, Restoring, Early, TypeOK
    <3>2. /\ Cur'.art = Cur.art /\ Cur'.db = Cur.db /\ Cur'.rdb = Cur.rdb
          /\ AofOn => Cur'.aof \in {Cur.aof, redis.aof} /\ (Cur'.aof = Cur.aof \/ cmd.pc = "r_place_redis")
      BY <2>1 DEF Cur
    <3>3. AofOn => Cur'.aof \in {Missing, before.mem}
      BY <3>1, <3>2
    <3>4. Cur'.db = before.db \/ (Cur'.db = Missing /\ db' = before.db /\ Cur'.rdb = Missing)
      BY <3>1, <3>2
    <3>5. Cur'.rdb = before.mem \/ (Cur'.rdb = Missing /\ Started(redis').mem = before.mem)
      BY <3>1, <3>2
    <3> QED
      BY <2>1, <3>1, <3>2, <3>3, <3>4, <3>5 DEF BeforeInv, Restoring, Early, RestorePoints, RollbackPoints
  <2>4. CoherentInv'
    BY <2>1 DEF CoherentInv, Coherent, Restoring, Early, BackupPoints, RestorePoints, RollbackPoints
  <2>5. LiveInv'
    BY <2>1 DEF LiveInv, Cur
  <2> QED
    BY <2>1, <2>2, <2>3, <2>4, <2>5, RestoreFrame DEF RollbackPoints
<1>b. CASE RestoreFails /\ cmd.snap = 0
  <2> USE <1>b, <1>1, HalfDoneLeaves DEF RestoreFails, End
  <2>1. cmd.pc \in Early /\ UNCHANGED <<db, art, redis, snaps, broken>>
    BY CurrentSnapshot DEF HostInv, Late
  <2>2. cmd'.pc = "idle" /\ cmd'.snap = 0
    BY DEF Idle
  <2>3. RedisInv' /\ CoherentInv' /\ LiveInv'
    BY <2>1, <2>2 DEF HostInv, RedisInv, CoherentInv, Coherent, Restoring, RestorePoints, RollbackPoints,
       LiveInv
  <2> QED
    BY <2>1, <2>3, EndFrame DEF RestoredIsArchive, RolledBack
<1>c. CASE RollbackFails
  <2> USE <1>c, <1>1, HalfDoneLeaves DEF RollbackFails, End
  <2>1. cmd.pc \in Late /\ cmd.snap # 0
    BY CurrentSnapshot DEF HostInv, Late
  <2>2. cmd'.pc = "idle" /\ cmd'.snap = 0 /\ broken'
    BY DEF Idle
  <2>3. RedisInv' /\ CoherentInv'
    BY <2>2 DEF RedisInv, CoherentInv
  <2>4. LiveInv'
    BY <2>1, <2>2 DEF HostInv, LiveInv
  <2>5. cmd.pc # "r_place_redis"
    BY DEF RollbackPoints
  <2>6. CommandInv' /\ BackupInv' /\ PlacedInv' /\ BeforeInv' /\ RolledInv'
    BY <2>2 DEF HostInv, CommandInv, BackupInv, PlacedInv, BeforeInv, RolledInv, Restoring,
       RestorePoints, RollbackPoints, BackupPoints, Early, Late
  <2> QED
    BY <2>3, <2>4, <2>6 DEF HostInv, RestoredIsArchive, RolledBack
<1> QED
  BY <1>a, <1>b, <1>c

(* The last start of the application ends the command.                     *)
LEMMA StartKeeps ==
    ASSUME ConstantsOK, TypeOK, HostInv, start_app_services
    PROVE  HostInv'
<1> USE Marks DEF start_app_services, End
<1>0. cmd \in Commands /\ redis \in Servers
  BY DEF TypeOK
<1>1. /\ cmd'.pc = "idle" /\ cmd'.snap = 0 /\ cmd' = Idle /\ result' # "none"
      /\ UNCHANGED <<db, art, archive, snaps, before, broken>>
  BY DEF Idle
<1>2. redis' = Started(redis) /\ redis'.up /\ (redis.up => redis' = redis) /\ redis' \in Servers
  BY <1>0, StartedServer
<1>3. RedisInv'
  BY <1>0, <1>1, StartedServer DEF RedisInv, HostInv
<1>4. CASE cmd.pc = "r_start"
  <2>1. /\ art = archive.art /\ db = archive.db /\ redis.up /\ RedisServes(archive.rdb)
    BY <1>4 DEF HostInv, PlacedInv
  <2>2. RestoredIsArchive' /\ RolledBack'
    BY <1>1, <1>2, <1>4, <2>1 DEF RestoredIsArchive, RolledBack, RedisServes
  <2>3. CoherentInv'
    BY <1>1, <2>1 DEF HostInv, CoherentInv, Coherent, Restoring, RestorePoints, RollbackPoints
  <2>4. LiveInv'
    BY <1>1, <1>4 DEF LiveInv, SameArtifacts
  <2> QED
    BY <1>1, <1>3, <2>2, <2>3, <2>4, EndFrame
<1>5. CASE cmd.pc = "rb_start"
  <2>1. /\ cmd.pc \in Late /\ cmd.pc \in RollbackPoints /\ cmd.snap # 0 /\ cmd.snap \in DOMAIN snaps
        /\ art = Cur.art
        /\ Cur.db # Missing => db = Cur.db
        /\ Cur.rdb # Missing /\ ~cmd.ok => redis.up /\ RedisServes(before.mem)
    BY <1>5, CurrentSnapshot DEF HostInv, RolledInv, Late, RollbackPoints
  <2>2. CASE cmd.ok
    <3>1. db = Cur.db /\ Cur.db # Missing
      BY <2>1, <2>2 DEF HostInv, CommandInv
    <3>2. RestoredIsArchive' /\ RolledBack'
      BY <1>5, <2>2 DEF RestoredIsArchive, RolledBack
    <3>3. CoherentInv'
      BY <1>1, <2>1, <3>1 DEF HostInv, CoherentInv, Coherent, Restoring, RestorePoints, RollbackPoints,
         Cur
    <3>4. LiveInv'
      BY <1>1, <1>5, <2>1, <3>1 DEF HostInv, LiveInv
    <3> QED
      BY <1>1, <1>3, <3>2, <3>3, <3>4, EndFrame
  <2>3. CASE ~cmd.ok
    <3>1. /\ SameArtifacts(art, before.art) /\ db = before.db
          /\ Cur.rdb # Missing \/ Started(redis).mem = before.mem
      BY <2>1, <2>3 DEF HostInv, BeforeInv, Restoring, TypeOK, DataSets
    <3>2. RestoredIsArchive'
      BY <1>5, <2>3 DEF RestoredIsArchive
    <3>3. RolledBack'
      BY <1>1, <1>2, <2>1, <2>3, <3>1 DEF RolledBack, RedisServes
    <3>4. CoherentInv'
      BY <1>1, <2>1, <2>3, <3>1 DEF HostInv, CoherentInv, Coherent, Restoring, RestorePoints,
         RollbackPoints, SameArtifacts
    <3>5. LiveInv'
      BY <1>1, <1>5, <2>1 DEF HostInv, LiveInv
    <3> QED
      BY <1>1, <1>3, <3>2, <3>3, <3>4, <3>5, EndFrame
  <2> QED
    BY <2>2, <2>3
<1> QED
  BY <1>4, <1>5

(* A rollback by command starts from a snapshot that is whole.             *)
LEMMA RollbackBegins ==
    ASSUME ConstantsOK, TypeOK, HostInv, _cmd_restore_rollback
    PROVE  HostInv'
<1> USE Marks DEF HostInv, _cmd_restore_rollback
<1>1. PICK i \in DOMAIN snaps :
         /\ verify_snapshot_component_hashes(snaps[i])
         /\ Begin([pc |-> "rb_stop", snap |-> i, skip |-> FALSE, ok |-> TRUE])
         /\ live' = [db |-> snaps[i].db, art |-> snaps[i].art]
  OBVIOUS
<1>2. /\ cmd.pc = "idle" /\ cmd.snap = 0 /\ cmd'.pc = "rb_stop" /\ cmd'.snap = i /\ cmd'.ok
      /\ ~cmd'.skip /\ UNCHANGED snaps /\ Cur' = snaps[i]
  BY <1>1 DEF Begin, Idle, Cur
<1>3. snaps[i].db # Missing /\ snaps[i].rdb # Missing
  BY <1>1 DEF verify_snapshot_component_hashes
<1>4. CommandInv' /\ RedisInv' /\ BackupInv' /\ PlacedInv' /\ RolledInv' /\ BeforeInv'
  BY <1>2, <1>3 DEF CommandInv, RedisInv, BackupInv, PlacedInv, RolledInv, BeforeInv, Restoring,
     RestorePoints, RollbackPoints, BackupPoints, Early, Late
<1>5. CoherentInv'
  BY <1>2 DEF CoherentInv, Coherent, Restoring, RestorePoints, RollbackPoints, BackupPoints, Early
<1>6. LiveInv'
  BY <1>1, <1>2 DEF LiveInv, SameArtifacts
<1>7. RestoredIsArchive' /\ RolledBack' /\ ManifestMeansWhole'
  BY <1>2 DEF RestoredIsArchive, RolledBack, ManifestMeansWhole
<1> QED
  BY <1>4, <1>5, <1>6, <1>7

(* The application's writes, and the end of a command's process.           *)
LEMMA OtherKeeps ==
    ASSUME ConstantsOK, TypeOK, HostInv, UpInv, AppWrites \/ Crash \/ UNCHANGED vars
    PROVE  HostInv'
<1> USE Marks
<1>1. CASE AppWrites
  <2> USE <1>1 DEF AppWrites, HostInv
  <2>1. /\ cmd.pc \notin (RestorePoints \cup RollbackPoints) \ {"r_stop", "rb_stop"} /\ UNCHANGED cmd
        /\ cmd.pc = "rb_stop" => /\ cmd.snap \in DOMAIN snaps /\ cmd.snap # 0 /\ UNCHANGED live
                                 /\ Cur.db # Missing /\ Cur.rdb # Missing
        /\ cmd.pc # "rb_stop" => /\ cmd.snap = 0 /\ ~Restoring
                                 /\ live' = [db |-> db', art |-> art']
    <3>1. cmd.pc \notin (RestorePoints \cup RollbackPoints) \ {"r_stop", "rb_stop"}
      BY DEF UpInv
    <3>2. cmd.pc = "rb_stop" => cmd.snap \in DOMAIN snaps /\ cmd.snap # 0
      BY CurrentSnapshot DEF Late, RollbackPoints
    <3>3. cmd.pc # "rb_stop" => cmd.pc \in {"idle", "r_stop"} \cup BackupPoints
      BY <3>1 DEF TypeOK, Commands
    <3> QED
      BY <3>1, <3>2, <3>3 DEF UpInv, CommandInv, Idle, Early, Restoring, RollbackPoints
  <2>2. CommandInv' /\ PlacedInv' /\ RolledInv'
    BY <2>1 DEF CommandInv, PlacedInv, RolledInv, RestorePoints, RollbackPoints, Cur
  <2>3. RedisInv'
    BY <2>1 DEF RedisInv, RestorePoints, RollbackPoints
  <2>4. BackupInv'
    BY <2>1 DEF BackupInv
  <2>5. BeforeInv'
    BY <2>1 DEF BeforeInv, Restoring, RestorePoints, RollbackPoints, Early, Late, Cur
  <2>6. CoherentInv'
    BY <2>1 DEF CoherentInv, Coherent, Restoring, Early, BackupPoints
  <2>7. LiveInv'
    BY <2>1 DEF LiveInv, SameArtifacts, Cur
  <2>8. RestoredIsArchive' /\ RolledBack' /\ ManifestMeansWhole'
    BY DEF RestoredIsArchive, RolledBack, ManifestMeansWhole
  <2> QED
    BY <2>2, <2>3, <2>4, <2>5, <2>6, <2>7, <2>8
<1>2. CASE Crash
  <2> USE <1>2 DEF Crash, End
  <2>1. cmd'.pc = "idle" /\ cmd'.snap = 0 /\ broken'
    BY DEF Idle
  <2>2. RedisInv' /\ CoherentInv'
    BY <2>1 DEF HostInv, RedisInv, CoherentInv
  <2>3. LiveInv'
    BY <2>1 DEF HostInv, LiveInv
  <2> QED
    BY <2>2, <2>3, EndFrame DEF RestoredIsArchive, RolledBack
<1>3. CASE UNCHANGED vars
  BY <1>3 DEF vars, HostInv, CommandInv, RedisInv, BackupInv, PlacedInv, BeforeInv, RolledInv,
     CoherentInv, LiveInv, RestoredIsArchive, RolledBack, ManifestMeansWhole, Cur, Restoring,
     RedisServes
<1> QED
  BY <1>1, <1>2, <1>3

(* Stops and failed starts: where the application is up under a rollback,  *)
(* the restore had come to its last call.                                  *)
LEMMA UpKeeps ==
    ASSUME ConstantsOK, TypeOK, HostInv, UpInv, [Next]_vars
    PROVE  UpInv'
<1> USE Marks
<1>0. cmd \in Commands /\ app \in {"up", "down"}
  BY DEF TypeOK
<1>1. CASE run_backup \/ _cmd_backup \/ _cmd_backup_phase_5
  <2>1. cmd'.pc \in {"idle"} \cup BackupPoints
    BY <1>0, <1>1, GotoPoint, FailPoint DEF run_backup, BackupStop, BackupArtifacts, BackupPgDump,
       BackupRedis, BackupLegacyArtifacts, BackupPublish, BackupStart, BackupFails, End, Idle,
       _cmd_backup, _cmd_backup_phase_5, BackupBegins, Begin, BackupPoints
  <2> QED
    BY <2>1 DEF UpInv, BackupPoints, RestorePoints, RollbackPoints
<1>2. CASE _cmd_restore
  BY <1>2 DEF _cmd_restore, Begin, UpInv
<1>3. CASE _cmd_restore_rollback
  <2>1. PICK i \in DOMAIN snaps :
           /\ verify_snapshot_component_hashes(snaps[i])
           /\ Begin([pc |-> "rb_stop", snap |-> i, skip |-> FALSE, ok |-> TRUE])
    BY <1>3 DEF _cmd_restore_rollback
  <2> QED
    BY <1>3, <2>1 DEF _cmd_restore_rollback, Begin, UpInv, Cur, verify_snapshot_component_hashes
<1>4. CASE \/ create_pre_restore_snapshot \/ place_artifacts \/ invoke_pg_restore
           \/ place_redis_dump_rdb \/ verify_alembic_head_in_db
           \/ stop_app_services \/ stop_redis_service_only \/ start_redis_service
           \/ RollbackArtifacts \/ RollbackDb \/ RollbackRedis
  <2>1. /\ cmd'.pc \notin {"r_stop", "rb_stop"}
        /\ app' = "down"
    BY <1>0, <1>4, GotoPoint DEF create_pre_restore_snapshot, SnapshotArtifacts, SnapshotDb,
       SnapshotRedis, _write_snapshot_manifest, place_artifacts, invoke_pg_restore,
       place_redis_dump_rdb, verify_alembic_head_in_db, stop_app_services, stop_redis_service_only,
       start_redis_service, RollbackArtifacts, RollbackDb, RollbackRedis, UpInv, RestorePoints,
       RollbackPoints
  <2> QED
    BY <2>1 DEF UpInv
<1>5. CASE start_app_services \/ RollbackFails \/ Crash
  BY <1>5 DEF start_app_services, RollbackFails, Crash, End, Idle, UpInv, RestorePoints, RollbackPoints
<1>6. CASE RestoreFails
  <2>1. CASE cmd.snap = 0
    BY <1>6, <2>1 DEF RestoreFails, End, Idle, UpInv, RestorePoints, RollbackPoints
  <2>2. CASE cmd.snap # 0
    <3>1. cmd'.pc = "rb_stop" /\ cmd'.snap = cmd.snap /\ cmd.pc \in Late
      BY <1>0, <1>6, <2>2, FailPoint DEF RestoreFails, HostInv, CommandInv, Late
    <3>2. app' = "up" => cmd.pc = "r_start"
      BY <1>6, <3>1 DEF RestoreFails, HalfDone, UpInv, Late, Early, RestorePoints, RollbackPoints
    <3>3. cmd.pc = "r_start" => Cur.db = before.db /\ Cur.rdb = before.mem /\ UNCHANGED snaps
      BY <1>6 DEF RestoreFails, HalfDone, HostInv, BeforeInv, Restoring, RestorePoints, Early
    <3>4. before.db # Missing /\ before.mem # Missing
      BY DEF TypeOK, DataSets
    <3> QED
      BY <3>1, <3>2, <3>3, <3>4 DEF UpInv, Cur
  <2> QED
    BY <2>1, <2>2
<1>7. CASE AppWrites \/ UNCHANGED vars
  BY <1>7 DEF AppWrites, vars, UpInv, Cur
<1> QED
  BY <1>1, <1>2, <1>3, <1>4, <1>5, <1>6, <1>7 DEF Next, Done, run_restore,
     rollback_from_pre_restore_snapshot, ServiceStep

LEMMA InitHost == ConstantsOK /\ Init => HostInv
<1> SUFFICES ASSUME ConstantsOK, Init PROVE HostInv
  OBVIOUS
<1> USE Marks DEF Init
<1>1. cmd.pc = "idle" /\ cmd.snap = 0 /\ ~cmd.skip /\ DOMAIN snaps = {}
  BY DEF Idle
<1>2. CommandInv /\ RedisInv /\ BackupInv /\ PlacedInv /\ BeforeInv /\ RolledInv
  BY <1>1 DEF Artifacts, DataSets, CommandInv, RedisInv, BackupInv, PlacedInv, BeforeInv, RolledInv, Restoring,
     RestorePoints, RollbackPoints, BackupPoints, Early, Late
<1>3. CoherentInv /\ LiveInv
  BY <1>1 DEF CoherentInv, Coherent, Restoring, RestorePoints, RollbackPoints, LiveInv, SameArtifacts
<1> QED
  BY <1>1, <1>2, <1>3 DEF HostInv, RestoredIsArchive, RolledBack, ManifestMeansWhole

LEMMA HostInvariant == ConstantsOK => (Spec => [](TypeOK /\ HostInv))
<1> SUFFICES ASSUME ConstantsOK PROVE Spec => [](TypeOK /\ HostInv)
  OBVIOUS
<1>1. Init => TypeOK /\ HostInv /\ UpInv
  BY TypesInit, InitHost DEF Init, Idle, UpInv, RestorePoints, RollbackPoints
<1>2. TypeOK /\ HostInv /\ UpInv /\ [Next]_vars => TypeOK' /\ HostInv' /\ UpInv'
  <2> SUFFICES ASSUME TypeOK, HostInv, UpInv, [Next]_vars PROVE TypeOK' /\ HostInv'
    BY UpKeeps
  <2>0. CommandInv /\ RolledInv
    BY DEF HostInv
  <2>1. CASE run_backup \/ _cmd_backup \/ _cmd_backup_phase_5
    BY <2>1, TypesBackup, BackupKeeps
  <2>2. CASE _cmd_restore \/ run_restore \/ _cmd_restore_rollback
             \/ rollback_from_pre_restore_snapshot \/ ServiceStep
    <3>1. TypeOK'
      BY <2>0, <2>2, TypesRestore
    <3>2. HostInv'
      BY <2>2, RestoreBegins, SnapshotKeeps, PlacementKeeps, PlaceRedisKeeps, FailuresKeep,
         StartKeeps, RollbackBegins DEF run_restore, rollback_from_pre_restore_snapshot, ServiceStep
    <3> QED
      BY <3>1, <3>2
  <2>3. CASE AppWrites \/ Crash \/ UNCHANGED vars
    BY <2>3, TypesOther, OtherKeeps
  <2> QED
    BY <2>1, <2>2, <2>3 DEF Next, Done
<1> QED
  BY <1>1, <1>2, PTL DEF Spec

-----------------------------------------------------------------------------
(* Every variable keeps its type, so a restore never places a component    *)
(* that its archive or its snapshot does not have (run_restore,            *)
(* rollback_from_pre_restore_snapshot).                                    *)
THEOREM RestoreTypes == ConstantsOK => (Spec => []TypeOK)
BY HostInvariant, PTL

(* A restore that succeeds has put the archive in place, one that is       *)
(* rolled back what was there when it had stopped the application; the     *)
(* application never comes up on artifacts and a database that do not      *)
(* belong together, what it wrote last is never lost, but for writes that  *)
(* a rollback finds before its own stop, and a snapshot that a rollback    *)
(* accepts is whole, whatever call of whatever command fails or dies.      *)
THEOREM RestoreSafety == ConstantsOK => (Spec => []RestoresSound)
<1>1. TypeOK /\ HostInv => RestoresSound
  <2> SUFFICES ASSUME TypeOK, HostInv PROVE RestoresSound
    OBVIOUS
  <2>1. ConsistentWhileUp
    BY DEF ConsistentWhileUp, HostInv, CoherentInv, Coherent, Idle
  <2>2. LiveSurvives
    BY DEF LiveSurvives, HostInv, LiveInv
  <2> QED
    BY <2>1, <2>2 DEF RestoresSound, HostInv
<1> QED
  BY HostInvariant, <1>1, PTL

(* A backup that stops the application publishes the host as it is at one  *)
(* moment, although it reads its parts one after the other (run_backup).   *)
THEOREM ArchiveSafety == ConstantsOK => (Spec => ArchiveIsOneMoment)
<1> DEFINE OneMoment == archive' # archive /\ ~cmd.skip =>
                          archive' = [db |-> db, art |-> art, rdb |-> redis.mem]
<1>1. TypeOK /\ HostInv /\ [Next]_vars => [OneMoment]_vars
  <2> SUFFICES ASSUME TypeOK, HostInv, Next, archive' # archive, ~cmd.skip
               PROVE  archive' = [db |-> db, art |-> art, rdb |-> redis.mem]
    OBVIOUS
  <2>1. BackupPublish
    BY DEF Next, _cmd_backup, _cmd_backup_phase_5, BackupBegins, run_backup, BackupStop,
       BackupArtifacts, BackupPgDump, BackupRedis, BackupLegacyArtifacts, BackupStart, BackupFails,
       _cmd_restore, run_restore, create_pre_restore_snapshot, SnapshotArtifacts, SnapshotDb,
       SnapshotRedis, _write_snapshot_manifest, place_artifacts, invoke_pg_restore,
       place_redis_dump_rdb, verify_alembic_head_in_db, RestoreFails, _cmd_restore_rollback,
       rollback_from_pre_restore_snapshot, RollbackArtifacts, RollbackDb, RollbackRedis,
       RollbackFails, ServiceStep, stop_app_services, stop_redis_service_only,
       start_redis_service, start_app_services, AppWrites, Crash, Done, restoreOnly, vars
  <2>2. stage.db = db /\ stage.art = art /\ stage.rdb = redis.mem
    BY <2>1 DEF BackupPublish, HostInv, BackupInv
  <2> QED
    BY <2>1, <2>2 DEF BackupPublish, TypeOK, Archives
<1> QED
  BY HostInvariant, <1>1, PTL DEF Spec, ArchiveIsOneMoment
=============================================================================
