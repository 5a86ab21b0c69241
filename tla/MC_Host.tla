------------------------------- MODULE MC_Host -------------------------------
(***************************************************************************)
(* The host's commands on small instances, side by side: part names the    *)
(* instance that is at work, the variables of the others keep their        *)
(* initial values.                                                         *)
(*   stale  three commands and a legacy backup, lock files may grow old    *)
(*   restore   backups and restores of a host                              *)
(*   epoch  two processes allocate epochs, five of them                    *)
(*   schema    upgrades and downgrades between the empty database and head *)
(*   tickets   the revisions around ticket deletion and binding, with rows *)
(*   secrets   the last revisions, with secrets, a stop, and odd rows      *)
(*   approval  approvals are issued, edited and used, keys are exchanged   *)
(*   session   one database session while the host's files change          *)
(*   worker    one worker and one job while the host's files change        *)
(***************************************************************************)
EXTENDS BackupRestore, DestructiveLock, EpochJournal, SignedApproval, WriteGate, TLC

CONSTANT Parts   \* the instances of a run

ASSUME HostConstantsOK ==
    ConstantsOK /\ LockConstantsOK /\ EpochConstantsOK /\ ApprovalConstantsOK /\ GateConstantsOK

VARIABLES part, rev, schema, rows, tx, refused, kept, raced

restoreVars == vars
databaseVars == <<rev, schema, rows, tx, refused, kept, raced>>
admissionVars == <<approvalVars, gateVars>>
hostVars == <<part, lockVars, restoreVars, epochVars, databaseVars, admissionVars>>

-----------------------------------------------------------------------------
(* The destructive lock, backup and restore *)

LockStep ==
    part = "stale" /\ LockNext /\ UNCHANGED <<part, restoreVars, epochVars, databaseVars, admissionVars>>
RestoreStep ==
    part = "restore" /\ Next /\ UNCHANGED <<part, lockVars, epochVars, databaseVars, admissionVars>>

-----------------------------------------------------------------------------
(* Epochs *)

EpochStep == part = "epoch" /\ EpochNext
             /\ UNCHANGED <<part, lockVars, restoreVars, databaseVars, admissionVars>>

\* Nobody needs another epoch.
EpochsDone == part = "epoch" /\ UNCHANGED hostVars

-----------------------------------------------------------------------------
(* Migrations *)

Path == INSTANCE Migrations WITH Lowest <- 0, Highest <- 54, Facts <- {}

Tickets == INSTANCE Migrations WITH Lowest <- 38, Highest <- 41, Facts <- {"tickets"}

Secrets == INSTANCE Migrations WITH
    Lowest <- 46, Highest <- 54, Facts <- {"secrets", "stop", "anomalies"}

ASSUME MigrationConstantsOK ==
    Path!ConstantsOK /\ Tickets!ConstantsOK /\ Secrets!ConstantsOK

PathStep ==
    part = "schema" /\ Path!Next /\ UNCHANGED <<part, lockVars, restoreVars, epochVars, admissionVars>>
TicketsStep ==
    part = "tickets" /\ Tickets!Next /\ UNCHANGED <<part, lockVars, restoreVars, epochVars, admissionVars>>
SecretsStep ==
    part = "secrets" /\ Secrets!Next /\ UNCHANGED <<part, lockVars, restoreVars, epochVars, admissionVars>>

-----------------------------------------------------------------------------
(* Signed approvals and the gates on writing *)

ApprovalStep ==
    /\ part = "approval" /\ ApprovalNext
    /\ UNCHANGED <<part, lockVars, restoreVars, epochVars, databaseVars, gateVars>>
GateStep ==
    /\ \/ part = "session" /\ (ChangeDisk \/ SessionNext)
       \/ part = "worker" /\ (ChangeDisk \/ WorkerNext)
    /\ UNCHANGED <<part, lockVars, restoreVars, epochVars, databaseVars, approvalVars>>

\* The bounded work is done.
AdmissionDone == part \in {"approval", "session", "worker"} /\ UNCHANGED hostVars

-----------------------------------------------------------------------------

HostInit ==
    /\ part \in Parts
    /\ LockInit
    /\ Init
    /\ part # "restore" => art = 1
    /\ EpochInit
    /\ CASE part = "tickets" -> Tickets!Init
         [] part = "secrets" -> Secrets!Init
         [] OTHER -> Path!Init
    /\ ApprovalInit /\ verifyKey = CHOOSE k \in Keys : TRUE
    /\ GateInit

HostNext == LockStep \/ RestoreStep \/ EpochStep \/ EpochsDone
            \/ PathStep \/ TicketsStep \/ SecretsStep
            \/ ApprovalStep \/ GateStep \/ AdmissionDone

HostSpec == HostInit /\ [][HostNext]_hostVars

-----------------------------------------------------------------------------
(* Properties, besides those of the extended modules: those of the         *)
(* migrations, where the instance is at work.                              *)

\* Types of the lock files, of the host's data and of the running command.
HostTypeOK ==
    /\ TypeOK /\ LockTypeOK /\ EpochTypeOK /\ ApprovalTypeOK /\ GateTypeOK
    /\ part = "schema" => Path!TypeOK
    /\ part = "tickets" => Tickets!TypeOK
    /\ part = "secrets" => Secrets!TypeOK

\* The schema depends on the revision alone, but for the payload-key checks below
\* 0014 and 0015, and at the head it is what the mapped classes expect.  Where rows
\* are carried, over 0038-0041 and 0046-0054, migrations refuse for the reasons they
\* state, and otherwise keep deletions, bindings and the record of which secrets have
\* material.
MigrationsSound ==
    /\ part \in {"schema", "tickets", "secrets"} => Path!SchemaSound
    /\ part \in {"tickets", "secrets"} => Path!RowsSound

\* The schema depends on the revision alone, so that 0014 finds 18 keys in the
\* check it extends, as its docstring says.
SchemaIsItsRevision == part = "schema" => Path!SchemaIsItsRevision
=============================================================================
