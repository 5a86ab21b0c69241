---------------------------- MODULE SecretCustody ----------------------------
(***************************************************************************)
(* Custody of broker-owned ("local") secret material: the versions of one  *)
(* (tenant, scope, name) as rows of secret_refs, and the LocalSecretStore  *)
(* that keeps their material outside the database.                         *)
(*                                                                         *)
(* A database commit and a write to the store are never one step, so       *)
(* register, rotate, revoke and gc_orphans are split at every commit and   *)
(* every store call; a process may die, or get an exception, between any   *)
(* two of its steps, and store.delete may fail.  Rows of the sops backend  *)
(* have no material here and are not modelled.  material_purged_at is not  *)
(* a variable: the CHECK secret_refs_ck_material_purged_at_state makes it  *)
(* non-NULL exactly when material_state is "purged".                       *)
(***************************************************************************)
CONSTANTS
    Rows,   \* the rows (versions) of secret_refs of this name
    NoRow   \* "no row": rotated_from_id NULL, gc with no row in hand

ASSUME NoRowAssumption == NoRow \notin Rows

VARIABLES
    st,        \* secret_refs.status, "absent" before the INSERT commits
    mat,       \* secret_refs.material_state, "none" before the INSERT
    from,      \* secret_refs.rotated_from_id (known to rotate from its start)
    aged,      \* the rows whose updated_at is older than the gc's grace
    material,  \* the rows that have material in the store
    writer,    \* where the register or rotate call of the row stands
    purger,    \* where the revoke call of the row stands after its commit
    gc,        \* where gc_orphans stands
    gcRows,    \* the revoked rows gc has selected and not yet deleted
    gcPurged,  \* of these, the ones material_purged_at was non-NULL for
    gcRow      \* the row gc has deleted and not yet marked purged

rowVars == <<st, mat, from, aged>>
gcVars == <<gc, gcRows, gcPurged, gcRow>>
vars == <<rowVars, material, writer, purger, gcVars>>

SecretRefStatuses == {"pending", "active", "deprecated", "revoked"}
SecretMaterialStates == {"writing", "present", "purging", "purged"}
WriterPoints == {"idle", "checked", "created", "stored", "cleanup", "done",
                 "dead"}

(* Types, with two facts of the table: a row exists with both columns, and *)
(* secret_refs_ck_material_purge_requires_revoked is never violated.       *)
TypeOK ==
    /\ st \in [Rows -> SecretRefStatuses \cup {"absent"}]
    /\ mat \in [Rows -> SecretMaterialStates \cup {"none"}]
    /\ \A r \in Rows : st[r] = "absent" <=> mat[r] = "none"
    /\ \A r \in Rows : mat[r] \in {"purging", "purged"} => st[r] = "revoked"
    /\ from \in [Rows -> Rows \cup {NoRow}]
    /\ aged \subseteq Rows
    /\ material \subseteq Rows
    /\ writer \in [Rows -> WriterPoints]
    /\ purger \in [Rows -> {"idle", "delete", "mark"}]
    /\ gc \in {"idle", "writing", "stale", "select", "purge"}
    /\ gcRows \subseteq Rows
    /\ gcPurged \subseteq Rows
    /\ gcRow \in Rows \cup {NoRow}

Init ==
    /\ st = [r \in Rows |-> "absent"]
    /\ mat = [r \in Rows |-> "none"]
    /\ from = [r \in Rows |-> NoRow]
    /\ aged = {}
    /\ material = {}
    /\ writer = [r \in Rows |-> "idle"]
    /\ purger = [r \in Rows |-> "idle"]
    /\ gc = "idle"
    /\ gcRows = {}
    /\ gcPurged = {}
    /\ gcRow = NoRow

-----------------------------------------------------------------------------
(* The table: conditional updates and the two partial unique indexes.      *)

Usable(r) == st[r] = "active" /\ mat[r] = "present"

(* secret_refs_one_active_per_name and secret_refs_one_pending_per_name.   *)
IndexFree(status) == \A q \in Rows : st[q] # status

(* Any UPDATE sets updated_at as well.                                     *)
SetRow(r, status, state) ==
    /\ st' = [st EXCEPT ![r] = status]
    /\ mat' = [mat EXCEPT ![r] = state]
    /\ aged' = aged \ {r}

(* Mutants of ClaimSwap: without the expected status of the raised row;    *)
(* without the rollback when the second UPDATE matches no row.             *)
ClaimSwap_Unexpected(demoted, raised, expected) ==
    /\ st[demoted] = "active"
    /\ st' = [st EXCEPT ![demoted] = "deprecated", ![raised] = "active"]
    /\ aged' = aged \ {demoted, raised}

ClaimSwap_NoRollback(demoted, raised, expected) ==
    /\ st[demoted] = "active"
    /\ st' = IF st[raised] = expected /\ mat[raised] = "present"
             THEN [st EXCEPT ![demoted] = "deprecated", ![raised] = "active"]
             ELSE [st EXCEPT ![demoted] = "deprecated"]
    /\ aged' = aged \ {demoted, raised}

(* The two-row claim of a promotion: demote one row, raise another, both   *)
(* with the expected status and the raised one with its material in place, *)
(* or roll back.                                                           *)
ClaimSwap(demoted, raised, expected) ==
    /\ st[demoted] = "active"
    /\ st[raised] = expected
    /\ mat[raised] = "present"
    /\ st' = [st EXCEPT ![demoted] = "deprecated", ![raised] = "active"]
    /\ aged' = aged \ {demoted, raised}

(* Time passes; a slow writer may well outlive the grace period.           *)
Age(r) ==
    /\ st[r] = "pending"
    /\ r \notin aged
    /\ aged' = aged \cup {r}
    /\ UNCHANGED <<st, mat, from, material, writer, purger, gcVars>>

-----------------------------------------------------------------------------
(* SecretRegistrationService.register and rotate.                          *)

Insert(r) ==
    /\ st[r] = "absent"
    /\ IndexFree("pending")
    /\ SetRow(r, "pending", "writing")
    /\ writer' = [writer EXCEPT ![r] = "created"]
    /\ UNCHANGED <<from, material, purger, gcVars>>

RegisterInsert(r) == writer[r] = "idle" /\ Insert(r)

(* rotate's precondition on the old row, read before the INSERT commits.   *)
RotateCheck(r, old) ==
    /\ writer[r] = "idle"
    /\ Usable(old)
    /\ from' = [from EXCEPT ![r] = old]
    /\ writer' = [writer EXCEPT ![r] = "checked"]
    /\ UNCHANGED <<st, mat, aged, material, purger, gcVars>>

RotateInsert(r) == writer[r] = "checked" /\ Insert(r)

StoreMaterial(r) ==
    /\ writer[r] = "created"
    /\ material' = material \cup {r}
    /\ writer' = [writer EXCEPT ![r] = "stored"]
    /\ UNCHANGED <<rowVars, purger, gcVars>>

Writing(r) == st[r] = "pending" /\ mat[r] = "writing"

(* Mutant: the UPDATE goes by the row's id alone.                          *)
RegisterActivate_AnyState(r) ==
    /\ writer[r] = "stored"
    /\ from[r] = NoRow
    /\ IndexFree("active")
    /\ SetRow(r, "active", "present")
    /\ writer' = [writer EXCEPT ![r] = "done"]
    /\ UNCHANGED <<from, material, purger, gcVars>>

(* The conditional UPDATE of register.  A second active row of the name    *)
(* is an IntegrityError, which abandons the call (WriterDies).             *)
RegisterActivate(r) ==
    /\ writer[r] = "stored"
    /\ from[r] = NoRow
    /\ Writing(r)
    /\ IndexFree("active")
    /\ SetRow(r, "active", "present")
    /\ writer' = [writer EXCEPT ![r] = "done"]
    /\ UNCHANGED <<from, material, purger, gcVars>>

(* The conditional UPDATE of rotate re-validates the old row.              *)
RotatePlace(r) ==
    /\ writer[r] = "stored"
    /\ from[r] # NoRow
    /\ Writing(r)
    /\ Usable(from[r])
    /\ SetRow(r, "pending", "present")
    /\ writer' = [writer EXCEPT ![r] = "done"]
    /\ UNCHANGED <<from, material, purger, gcVars>>

(* The conditional UPDATE matched no row.                                  *)
WriterLoses(r) ==
    /\ writer[r] = "stored"
    /\ \/ ~Writing(r)
       \/ from[r] # NoRow /\ ~Usable(from[r])
    /\ writer' = [writer EXCEPT ![r] = "cleanup"]
    /\ UNCHANGED <<rowVars, material, purger, gcVars>>

WriterCleanup(r) ==
    /\ writer[r] = "cleanup"
    /\ material' = material \ {r}
    /\ writer' = [writer EXCEPT ![r] = "done"]
    /\ UNCHANGED <<rowVars, purger, gcVars>>

(* A crash, or an exception out of the store or the database; also the     *)
(* swallowed failure of the cleanup.                                       *)
WriterDies(r) ==
    /\ writer[r] \in {"checked", "created", "stored", "cleanup"}
    /\ writer' = [writer EXCEPT ![r] = "dead"]
    /\ UNCHANGED <<rowVars, material, purger, gcVars>>

-----------------------------------------------------------------------------
(* Promotion and rollback: promote_rotated, and SecretRotationService.     *)

(* Mutant: any deprecated row is taken as the target.                      *)
Rollback_AnyTarget(current, target) ==
    /\ ClaimSwap(current, target, "deprecated")
    /\ UNCHANGED <<mat, from, material, writer, purger, gcVars>>

Promote(old, new) ==
    /\ from[new] = old
    /\ ClaimSwap(old, new, "pending")
    /\ UNCHANGED <<mat, from, material, writer, purger, gcVars>>

Rollback(current, target) ==
    /\ from[current] = target
    /\ ClaimSwap(current, target, "deprecated")
    /\ UNCHANGED <<mat, from, material, writer, purger, gcVars>>

(* Only the status: the material is left to gc_orphans.                    *)
RotationRevoke(r) ==
    /\ st[r] = "deprecated"
    /\ SetRow(r, "revoked", mat[r])
    /\ UNCHANGED <<from, material, writer, purger, gcVars>>

-----------------------------------------------------------------------------
(* SecretRegistrationService.revoke and its best-effort purge.             *)

Revoke(r) ==
    /\ st[r] \in {"pending", "active", "deprecated"}
    /\ SetRow(r, "revoked", "purging")
    /\ purger' = [purger EXCEPT ![r] = "delete"]
    /\ UNCHANGED <<from, material, writer, gcVars>>

PurgeDelete(r) ==
    /\ purger[r] = "delete"
    /\ material' = material \ {r}
    /\ purger' = [purger EXCEPT ![r] = "mark"]
    /\ UNCHANGED <<rowVars, writer, gcVars>>

(* WHERE status = 'revoked' AND material_purged_at IS NULL.                *)
MarkPurged(r) ==
    IF st[r] = "revoked" /\ mat[r] # "purged"
    THEN SetRow(r, "revoked", "purged")
    ELSE UNCHANGED <<st, mat, aged>>

PurgeMark(r) ==
    /\ purger[r] = "mark"
    /\ MarkPurged(r)
    /\ purger' = [purger EXCEPT ![r] = "idle"]
    /\ UNCHANGED <<from, material, writer, gcVars>>

(* A failed delete, which only counts the attempt, or a crash.             *)
PurgerStops(r) ==
    /\ purger[r] # "idle"
    /\ purger' = [purger EXCEPT ![r] = "idle"]
    /\ UNCHANGED <<rowVars, material, writer, gcVars>>

-----------------------------------------------------------------------------
(* MaterialReconciliationService.gc_orphans.  At most one row is pending,  *)
(* so each of the two tombstone loops is a single conditional UPDATE.      *)

GcStart ==
    /\ gc = "idle"
    /\ gc' = "writing"
    /\ UNCHANGED <<rowVars, material, writer, purger, gcRows, gcPurged, gcRow>>

(* rotated_from is set and its row is not active with material present.    *)
StaleCandidate(r) ==
    /\ st[r] = "pending"
    /\ mat[r] = "present"
    /\ from[r] # NoRow
    /\ ~Usable(from[r])

TombstoneWriting ==
    /\ gc = "writing"
    /\ \/ \E r \in aged : Writing(r) /\ SetRow(r, "revoked", "purging")
       \/ /\ \A r \in aged : ~Writing(r)
          /\ UNCHANGED <<st, mat, aged>>
    /\ gc' = "stale"
    /\ UNCHANGED <<from, material, writer, purger, gcRows, gcPurged, gcRow>>

TombstoneStale ==
    /\ gc = "stale"
    /\ \/ \E r \in aged : StaleCandidate(r) /\ SetRow(r, "revoked", "purging")
       \/ /\ \A r \in aged : ~StaleCandidate(r)
          /\ UNCHANGED <<st, mat, aged>>
    /\ gc' = "select"
    /\ UNCHANGED <<from, material, writer, purger, gcRows, gcPurged, gcRow>>

(* Mutant: rows with material_purged_at set are left out.                  *)
GcSelect_UnpurgedOnly ==
    /\ gc = "select"
    /\ gcRows' = {r \in Rows : st[r] = "revoked" /\ mat[r] # "purged"}
    /\ gcPurged' = {}
    /\ gc' = "purge"
    /\ UNCHANGED <<rowVars, material, writer, purger, gcRow>>

(* All revoked rows, purged ones too, with material_purged_at as it is now.*)
GcSelect ==
    /\ gc = "select"
    /\ gcRows' = {r \in Rows : st[r] = "revoked"}
    /\ gcPurged' = {r \in Rows : st[r] = "revoked" /\ mat[r] = "purged"}
    /\ gc' = "purge"
    /\ UNCHANGED <<rowVars, material, writer, purger, gcRow>>

GcDelete(r) ==
    /\ gc = "purge" /\ gcRow = NoRow
    /\ r \in gcRows
    /\ material' = material \ {r}
    /\ gcRows' = gcRows \ {r}
    /\ gcPurged' = gcPurged \ {r}
    /\ gcRow' = IF r \in gcPurged THEN NoRow ELSE r
    /\ UNCHANGED <<rowVars, writer, purger, gc>>

(* Mutant: the exception is swallowed and the row marked all the same.     *)
GcDeleteFails_Marks(r) ==
    /\ gc = "purge" /\ gcRow = NoRow
    /\ r \in gcRows
    /\ gcRows' = gcRows \ {r}
    /\ gcPurged' = gcPurged \ {r}
    /\ gcRow' = r
    /\ UNCHANGED <<rowVars, material, writer, purger, gc>>

(* The delete failed: a row that was purged at the SELECT is purging again.*)
GcDeleteFails(r) ==
    /\ gc = "purge" /\ gcRow = NoRow
    /\ r \in gcRows
    /\ IF r \in gcPurged THEN SetRow(r, "revoked", "purging")
                         ELSE UNCHANGED <<st, mat, aged>>
    /\ gcRows' = gcRows \ {r}
    /\ gcPurged' = gcPurged \ {r}
    /\ UNCHANGED <<from, material, writer, purger, gc, gcRow>>

GcMark ==
    /\ gc = "purge" /\ gcRow # NoRow
    /\ MarkPurged(gcRow)
    /\ gcRow' = NoRow
    /\ UNCHANGED <<from, material, writer, purger, gc, gcRows, gcPurged>>

GcEnd ==
    /\ gc = "purge" /\ gcRow = NoRow /\ gcRows = {}
    /\ gc' = "idle"
    /\ UNCHANGED <<rowVars, material, writer, purger, gcRows, gcPurged, gcRow>>

GcCrash ==
    /\ gc # "idle"
    /\ gc' = "idle"
    /\ gcRows' = {}
    /\ gcPurged' = {}
    /\ gcRow' = NoRow
    /\ UNCHANGED <<rowVars, material, writer, purger>>

-----------------------------------------------------------------------------
WriterStep(r) ==
    \/ RegisterInsert(r)
    \/ \E old \in Rows : RotateCheck(r, old)
    \/ RotateInsert(r)
    \/ StoreMaterial(r)
    \/ RegisterActivate(r)
    \/ RotatePlace(r)
    \/ WriterLoses(r)
    \/ WriterCleanup(r)
    \/ WriterDies(r)

RotationStep(r) ==
    \/ \E q \in Rows : Promote(q, r)
    \/ \E q \in Rows : Rollback(q, r)
    \/ RotationRevoke(r)

RevokeStep(r) ==
    \/ Revoke(r)
    \/ PurgeDelete(r)
    \/ PurgeMark(r)
    \/ PurgerStops(r)

GcStep ==
    \/ GcStart
    \/ TombstoneWriting
    \/ TombstoneStale
    \/ GcSelect
    \/ \E r \in Rows : GcDelete(r)
    \/ \E r \in Rows : GcDeleteFails(r)
    \/ GcMark
    \/ GcEnd
    \/ GcCrash

Next ==
    \/ \E r \in Rows : Age(r) \/ WriterStep(r) \/ RotationStep(r) \/ RevokeStep(r)
    \/ GcStep

Spec == Init /\ [][Next]_vars

-----------------------------------------------------------------------------
(* A version that the broker may use, now or after a promotion or a        *)
(* rollback, has its material in the store, whatever crashed on the way    *)
(* and whoever cleaned up after it.                                        *)
UsableHasMaterial ==
    \A r \in Rows : st[r] # "revoked" /\ mat[r] = "present" => r \in material

(* A row is reported purged while its material exists only through its own *)
(* late writer: a purge by revoke or by gc_orphans, in any interleaving,   *)
(* never marks a row whose material it left behind.                        *)
FalsePurgedOnlyByLateWriter ==
    \A r \in Rows : mat[r] = "purged" /\ r \in material =>
        writer[r] \in {"stored", "cleanup", "dead"}

(* A name that has an active version loses it only by a revoke: promotion  *)
(* and rollback replace it in the same step.                               *)
ActiveLostOnlyByRevoke ==
    [][\A r \in Rows : st[r] = "active" /\ st'[r] # "active" =>
         st'[r] = "revoked" \/ \E q \in Rows : st'[q] = "active"]_vars

(* What _old_not_promotable calls permanent is permanent: a candidate that *)
(* gc_orphans may tombstone never becomes promotable again, so gc destroys *)
(* no rotation that could still have been completed.                       *)
StaleForever ==
    [][\A r \in Rows : StaleCandidate(r) /\ st'[r] = "pending" =>
         StaleCandidate(r)']_vars

(* Revoked material is gone in the end and stays gone, although late       *)
(* writers may put it back after a purge.                                  *)
RevokedMaterialGoes(r) == (st[r] = "revoked") ~> [](r \notin material)

(* A writer that died does not block the name for ever: its pending row    *)
(* leaves the one-pending index.                                           *)
DeadWriterFreesName(r) ==
    (Writing(r) /\ writer[r] = "dead") ~> (st[r] = "revoked")

(* _purge_revoke_orphans: when its delete fails, a row whose material is   *)
(* still there is not left as purged ("fail-closed").                      *)
FailedPurgeNotReported ==
    [][\A r \in Rows : GcDeleteFails(r) /\ r \in material =>
         mat'[r] # "purged"]_vars

=============================================================================
