----------------------------- MODULE Migrations -----------------------------
(***************************************************************************)
(* alembic upgrades and downgrades of the database, one command at a time. *)
(* A command takes any number of revisions in one transaction              *)
(* (migrations/env.py: begin_transaction around run_migrations), each of   *)
(* them applies its operations in order; the first that fails rolls the    *)
(* whole command back.                                                     *)
(*                                                                         *)
(* Between commands the application of the revision at hand writes rows:   *)
(* tickets and the runs bound to them, secrets, the emergency stop.  It    *)
(* may also write while a command is between an unlocked count and its     *)
(* first ALTER TABLE, as 0049 and 0050 leave room for; every other         *)
(* statement of a command holds ACCESS EXCLUSIVE on the table it concerns. *)
(***************************************************************************)
EXTENDS MigrationScripts, OrmModels, Integers, FiniteSets, SequencesExt

CONSTANTS
    Lowest, Highest,   \* the revisions the commands move between
    Facts          \* the kinds of rows the application writes

ConstantsOK == Lowest \in 0..HeadRevision /\ Highest \in Lowest..HeadRevision
               /\ Facts \subseteq {"tickets", "secrets", "stop", "anomalies"}

VARIABLES
    rev,       \* alembic_version of the transaction that is open, or of the database
    schema,    \* the objects
    rows,      \* the rows that matter, see NoRows
    tx,        \* the open command: direction, and what it rolls back to
    refused,   \* the direction and the revision that last failed
    kept,      \* history: what must not be lost, see the properties
    raced      \* history: a local secret came between the count and the ALTER

vars == <<rev, schema, rows, tx, refused, kept, raced>>

-----------------------------------------------------------------------------
(* One operation on the schema (PostgreSQL) *)

Failed == {<<"failed", "", "", "">>}

Id(o) == <<o[1], o[2], o[3]>>
Ids(s) == {Id(o) : o \in s}
Has(s, t) == <<"table", t, "", "">> \in s

\* What a new object needs: its table, the table it refers to, its function, and
\* that nothing has its name.
MayAdd(s, o) ==
    /\ Id(o) \notin Ids(s)
    /\ o[1] # "table" => Has(s, o[2])
    /\ o[1] = "fk" => Has(s, o[4])
    /\ o[1] = "trigger" => <<"function", o[4], "">> \in Ids(s)

\* What a drop needs: the object, and nothing that depends on it.
MayDrop(s, op) ==
    CASE op.do = "drop" -> op.objs \subseteq Ids(s)
      [] op.do = "drop_table" -> Has(s, op.table) /\
             \A o \in s : o[1] = "fk" /\ o[4] = op.table => o[2] = op.table
      [] op.do = "drop_function" -> \A o \in s : o[1] = "trigger" => o[4] # op.table
      [] OTHER -> TRUE

\* A dropped column takes its NOT NULL along, a dropped table all that is its.
Kept(s, op) ==
    IF op.do = "drop_table" THEN {o \in s : o[1] = "function" \/ o[2] # op.table}
    ELSE {o \in s : /\ Id(o) \notin op.objs
                    /\ o[1] = "not null" => <<"column", o[2], o[3]>> \notin op.objs}

Apply(s, op) ==
    IF s = Failed THEN Failed
    ELSE CASE op.do = "rows" -> s
           [] op.do = "replace" -> {o \in s : Id(o) # <<"function", op.table, "">>} \cup op.objs
           [] op.do = "create" -> IF /\ ~Has(s, op.table)
                                     /\ \A o \in op.objs : o[1] = "fk" => Has(s, o[4])
                                  THEN s \cup op.objs ELSE Failed
           [] op.do = "add" -> IF \A o \in op.objs : MayAdd(s, o)
                               THEN s \cup op.objs ELSE Failed
           [] OTHER -> IF MayDrop(s, op) THEN Kept(s, op) ELSE Failed

Run(s, ops) == FoldLeft(Apply, s, ops)

\* The schemas that upgrades alone lead to, from the empty database on.
Schemas == FoldLeft(LAMBDA ss, ops : Append(ss, Run(Last(ss), ops)), <<{}>>, upgrade)

SchemaAt(r) == Schemas[r + 1]

-----------------------------------------------------------------------------
(* The rows: one ticket, one run, one secret, the stop *)

NoRows == [ticket |-> "none",      \* tickets, deleted_at
           run |-> "none",         \* the ticket its run_queued event names: same
                                   \* project, another project, or none
           bound |-> FALSE,        \* agent_runs.ticket_id
           secret |-> "none",      \* the backend of its secret_uri
           revoked |-> FALSE,      \* secret_refs.status
           material |-> "",        \* secret_refs.material_state
           stored |-> FALSE,       \* the store has the material of a local secret
           stopped |-> FALSE,      \* superintendent_emergency_stops has an open row
           stopEvent |-> FALSE,    \* an event of 0051's two types
           reasonless |-> FALSE,   \* a quarantined webhook event without reason
           pgid0 |-> FALSE]        \* managed_agents.process_group_id <= 0

\* ALTER TABLE ... ADD CONSTRAINT validates the rows.  Of the event types, only the
\* two of 0051 have rows here, and no artifact kind has: the downgrades of 0011,
\* 0012, 0013 and 0025, which fail on rows of the types and kinds they take out, lie
\* below every instance that carries rows.
CheckHolds(o, w) ==
    CASE o[3] = "ck_event_type" -> o[4] # "39" => ~w.stopEvent
      [] o[3] = "ck_secret_uri_format" -> o[4] = "sops" => w.secret # "local"
      [] o[3] = "quarantine_reason_check" -> o[4] = "required" => ~w.reasonless
      [] o[3] = "ck_pgid_positive" -> ~w.pgid0
      [] o[3] = "ck_transient_material_local_only" ->
            w.secret = "sops" => w.material \notin {"writing", "purging"}
      [] o[3] = "ck_material_purge_requires_revoked" ->
            w.material \in {"purging", "purged"} => w.revoked
      [] OTHER -> TRUE

RowsMay(w, op) ==
    CASE op.do = "add" -> \A o \in op.objs : o[1] = "check" => CheckHolds(o, w)
      [] op = Rows("none deleted") -> w.ticket # "deleted"
      [] op = Rows("binding resolved") -> w.run # "none" /\ ~w.bound => w.run = "free"
      [] op = Rows("binding lossless") -> w.bound => w.run = "same"
      [] op = Rows("no local") -> w.secret # "local"
      [] OTHER -> TRUE

\* Updates, defaults of new columns, and what goes with a column or a table.
RowsAfter(w, op) ==
    CASE op = Rows("ticket binding") ->
            [w EXCEPT !.bound = w.run = "same" /\ w.ticket # "none"]
      [] op = Rows("reasons") -> [w EXCEPT !.reasonless = FALSE]
      [] op = Rows("pgids") -> [w EXCEPT !.pgid0 = FALSE]
      [] op = Rows("material") ->
            [w EXCEPT !.material = IF w.secret = "none" THEN ""
                                   ELSE IF w.revoked THEN "purged" ELSE "present"]
      [] op = NoColumn("tickets", {"deleted_by_actor_id", "deleted_batch_id", "deleted_at"}) ->
            [w EXCEPT !.ticket = IF @ = "none" THEN @ ELSE "live"]
      [] op = NoColumn("agent_runs", {"ticket_id"}) -> [w EXCEPT !.bound = FALSE]
      [] op = NoColumn("secret_refs", {"purge_attempts", "material_purged_at", "material_state"}) ->
            [w EXCEPT !.material = ""]
      [] op = NoTable("managed_agents") -> [w EXCEPT !.pgid0 = FALSE]
      [] op = NoTable("github_webhook_events") -> [w EXCEPT !.reasonless = FALSE]
      [] op = NoTable("superintendent_emergency_stops") -> [w EXCEPT !.stopped = FALSE]
      [] OTHER -> w

RunRows(w, ops) == FoldLeft(RowsAfter, w, ops)

\* Every statement succeeds on the rows as the earlier ones left them.
RowsAllow(w, ops) ==
    \A i \in 1..Len(ops) : RowsMay(RunRows(w, SubSeq(ops, 1, i - 1)), ops[i])

-----------------------------------------------------------------------------
(* Commands *)

Idle == [do |-> "idle", counted |-> FALSE, rev |-> 0, schema |-> {}, rows |-> NoRows]

Init ==
    /\ rev = Lowest
    /\ schema = SchemaAt(Lowest)
    /\ rows = NoRows
    /\ tx = Idle
    /\ refused = <<"", 0>>
    /\ kept = [deleted |-> FALSE, bound |-> FALSE]
    /\ raced = FALSE

Begin(dir) ==
    /\ tx.do = "idle"
    /\ tx' = [do |-> dir, counted |-> FALSE, rev |-> rev, schema |-> schema, rows |-> rows]
    /\ UNCHANGED <<rev, schema, rows, refused, kept, raced>>

\* A failing statement aborts the transaction of the whole command.  Rows that
\* the application committed after an unlocked count stay.
Abort(dir, r) ==
    /\ rev' = tx.rev
    /\ schema' = tx.schema
    /\ rows' = tx.rows
    /\ tx' = Idle
    /\ refused' = <<dir, r>>
    /\ UNCHANGED <<kept, raced>>

Succeed(ops, to) ==
    /\ schema' = Run(schema, ops)
    /\ rows' = RunRows(rows, ops)
    /\ rev' = to
    /\ tx' = [tx EXCEPT !.counted = FALSE]
    /\ UNCHANGED <<refused, kept, raced>>

StepUp ==
    /\ tx.do = "up"
    /\ rev < Highest
    /\ LET ops == upgrade[rev + 1]
       IN IF RowsAllow(rows, ops) /\ Run(schema, ops) # Failed
          THEN Succeed(ops, rev + 1)
          ELSE Abort("up", rev + 1)

\* 0049 and 0050 count without a lock, unless an earlier revision of the command
\* has altered secret_refs.
CountsUnlocked == rev \in {49, 50} /\ (rev = 49 => tx.rev < 50)

Count ==
    /\ tx.do = "down"
    /\ CountsUnlocked
    /\ ~tx.counted
    /\ IF RowsMay(rows, Head(downgrade[rev]))
       THEN tx' = [tx EXCEPT !.counted = TRUE] /\ UNCHANGED <<rev, schema, rows, refused, kept, raced>>
       ELSE Abort("down", rev)

StepDown ==
    /\ tx.do = "down"
    /\ rev > Lowest
    /\ CountsUnlocked => tx.counted
    /\ LET ops == IF tx.counted THEN Tail(downgrade[rev]) ELSE downgrade[rev]
       IN IF RowsAllow(rows, ops) /\ Run(schema, ops) # Failed
          THEN Succeed(ops, rev - 1)
          ELSE Abort("down", rev)

Commit ==
    /\ tx.do # "idle"
    /\ ~tx.counted
    /\ tx' = Idle
    /\ UNCHANGED <<rev, schema, rows, refused, kept, raced>>

-----------------------------------------------------------------------------
(* The application *)

\* An application of the revision at hand, with no command under way.
Writes(fact, since, w) ==
    /\ fact \in Facts
    /\ tx.do = "idle"
    /\ rev >= since
    /\ rows' = w
    /\ UNCHANGED <<rev, schema, tx, refused>>

Tickets ==
    \/ /\ rows.ticket = "none"
       /\ Writes("tickets", 3, [rows EXCEPT !.ticket = "live"]) /\ UNCHANGED <<kept, raced>>
    \/ /\ rows.ticket = "live"
       /\ Writes("tickets", 39, [rows EXCEPT !.ticket = "deleted"])
       /\ kept' = [kept EXCEPT !.deleted = TRUE] /\ UNCHANGED raced
    \/ /\ rows.ticket = "deleted"
       /\ Writes("tickets", 39, [rows EXCEPT !.ticket = "live"])
       /\ kept' = [kept EXCEPT !.deleted = FALSE] /\ UNCHANGED raced
    \/ /\ rows.run = "none"
       /\ \E claim \in {"same", "other", "free"}, bound \in BOOLEAN :
             /\ claim = "same" => rows.ticket # "none"
             /\ bound => rev >= 40 /\ rows.ticket # "none"
             /\ claim = "same" /\ rev >= 40 => bound
             /\ Writes("tickets", 8, [rows EXCEPT !.run = claim, !.bound = bound])
             /\ kept' = [kept EXCEPT !.bound = bound]
       /\ UNCHANGED raced

\* secret_registration and revoke of local secrets, from 0050 on.
Secrets ==
    /\ UNCHANGED <<kept, raced>>
    /\ \/ rows.secret = "none" /\ Writes("secrets", 4,
             [rows EXCEPT !.secret = "sops", !.material = IF rev >= 50 THEN "present" ELSE ""])
       \/ rows.secret = "none" /\ Writes("secrets", 50,
             [rows EXCEPT !.secret = "local", !.material = "writing"])
       \/ rows.material = "writing" /\ Writes("secrets", 50,
             [rows EXCEPT !.material = "present", !.stored = TRUE])
       \/ ~rows.revoked /\ rows.secret = "local" /\ Writes("secrets", 50,
             [rows EXCEPT !.revoked = TRUE, !.material = "purging"])
       \/ rows.material = "purging" /\ Writes("secrets", 50,
             [rows EXCEPT !.material = "purged", !.stored = FALSE])
       \/ ~rows.revoked /\ rows.secret = "sops" /\ Writes("secrets", 4,
             [rows EXCEPT !.revoked = TRUE])
       \/ rows.material = "purged" /\ Writes("secrets", 50,   \* the operator removes the row
             [rows EXCEPT !.secret = "none", !.material = "", !.revoked = FALSE])

\* A registration that commits between the count of 0050 and its ALTER TABLE; the
\* command does not roll it back.
LateSecret ==
    /\ "secrets" \in Facts
    /\ tx.counted /\ rev = 50 /\ rows.secret = "none"
    /\ LET w == [rows EXCEPT !.secret = "local", !.material = "writing"]
       IN rows' = w /\ tx' = [tx EXCEPT !.rows = w]
    /\ raced' = TRUE
    /\ UNCHANGED <<rev, schema, refused, kept>>

Stop ==
    /\ UNCHANGED <<kept, raced>>
    /\ \/ ~rows.stopped /\ Writes("stop", 53, [rows EXCEPT !.stopped = TRUE, !.stopEvent = TRUE])
       \/ rows.stopped /\ Writes("stop", 53, [rows EXCEPT !.stopped = FALSE])

\* Rows written by hand or by older code, which the checks of their time allowed.
Anomaly ==
    /\ UNCHANGED <<kept, raced>>
    /\ \/ rev < 47 /\ ~rows.reasonless /\ Writes("anomalies", 44, [rows EXCEPT !.reasonless = TRUE])
       \/ rev < 54 /\ ~rows.pgid0 /\ Writes("anomalies", 52, [rows EXCEPT !.pgid0 = TRUE])

Next == Begin("up") \/ Begin("down") \/ StepUp \/ Count \/ StepDown \/ Commit
        \/ Tickets \/ Secrets \/ LateSecret \/ Stop \/ Anomaly

-----------------------------------------------------------------------------
(* Properties *)

\* The database is at a revision, and no command leaves a schema that no revision made.
TypeOK ==
    /\ rev \in Lowest..Highest
    /\ DOMAIN rows = DOMAIN NoRows
    /\ tx.do \in {"idle", "up", "down"}
    /\ schema # Failed

\* The schema depends on the revision alone, not on the upgrades and downgrades
\* that led there.
SchemaIsItsRevision == tx.do = "idle" => schema = SchemaAt(rev)

\* The same, except for the payload-key checks that 0014 and 0015 write again:
\* below them they have 18 keys after a downgrade and 21 on a fresh database.
PayloadKeys(o) == o[3] = "ck_no_prohibited_payload_keys"

SchemaIsItsRevisionButKeys ==
    tx.do = "idle" =>
        /\ {o \in schema : ~PayloadKeys(o)} = {o \in SchemaAt(rev) : ~PayloadKeys(o)}
        /\ \A o \in schema : PayloadKeys(o) /\ rev >= (IF o[2] = "artifacts" THEN 15 ELSE 14)
              => o[4] = "21"

\* At the head revision, however it was reached, the database has what the mapped
\* classes name: their tables, the references and later columns they have and no
\* others, their indexes and constraints.
ModelInSchema(m) ==
    LET ofTable(kind) == {o \in schema : o[1] = kind /\ o[2] = m.table}
    IN /\ Has(schema, m.table)
       /\ {o[4] : o \in ofTable("fk")} \ {m.table} = m.refs
       /\ {o[3] : o \in ofTable("column")} = m.columns
       /\ m.objs \subseteq schema

ModelsMatchSchema ==
    tx.do = "idle" /\ rev = HeadRevision => \A m \in metadata : ModelInSchema(m)

\* Over the revisions that the instances with rows walk, 0038 to 0041 and 0046 to
\* 0054: upgrades are refused by 0040 only, downgrades by the revisions whose
\* docstring says so.  It says nothing of the revisions below, some of which
\* (0011, 0012, 0013, 0025) refuse rows too.
RefusedForACause ==
    /\ refused[1] = "up" => refused[2] = 40
    /\ refused[1] = "down" => refused[2] \in {39, 40, 49, 50, 51}

\* No way down and up again brings a deleted ticket back or loosens a run from its
\* ticket.
NothingResurrected ==
    tx.do = "idle" => /\ kept.deleted => rows.ticket = "deleted"
                      /\ kept.bound /\ rev >= 40 => rows.bound

\* A local secret that the broker may use has its material, unless it was
\* registered between the count of 0050 and its ALTER TABLE.
PresentIsStored ==
    tx.do = "idle" /\ rows.secret = "local" /\ rows.material = "present" => rows.stored \/ raced

\* The schema is that of the revision and what the application expects, and the
\* commands keep the rows or refuse, for the reasons the scripts give.
SchemaSound == SchemaIsItsRevisionButKeys /\ ModelsMatchSchema
RowsSound == RefusedForACause /\ NothingResurrected /\ PresentIsStored
=============================================================================
