------------------------ MODULE SecretCustody_proofs ------------------------
(***************************************************************************)
(* Proofs for SecretCustody, for any set of rows, and, in the second half, *)
(* for LocalSecretStore, for any processes and refs.                       *)
(*                                                                         *)
(* CustodyInv is the inductive invariant.  Beside the two invariants it    *)
(* states who may still touch the material of a row: purgers only work on  *)
(* revoked rows, a writer that has not finished has not made its row       *)
(* usable, and what it stored is still there while its row is writing.     *)
(***************************************************************************)
EXTENDS SecretCustody, LocalSecretStore, TLAPS

PurgersOnRevoked ==
    /\ \A r \in Rows : purger[r] # "idle" => st[r] = "revoked"
    /\ \A r \in gcRows : st[r] = "revoked"
    /\ gcRow # NoRow => st[gcRow] = "revoked"

WritersUnfinished ==
    \A r \in Rows : writer[r] # "done" /\ st[r] # "revoked" => mat[r] # "present"

StoredWhileWriting ==
    \A r \in Rows : writer[r] = "stored" /\ Writing(r) => r \in material

Deleted(r) == purger[r] = "mark" \/ gcRow = r \/ mat[r] = "purged"

DeletedStaysDeleted ==
    \A r \in Rows : Deleted(r) /\ r \in material =>
        writer[r] \in {"stored", "cleanup", "dead"}

CustodyInv ==
    /\ TypeOK
    /\ PurgersOnRevoked
    /\ WritersUnfinished
    /\ StoredWhileWriting
    /\ DeletedStaysDeleted
    /\ UsableHasMaterial

-----------------------------------------------------------------------------
(* The steps, with what each does to its row.                              *)

LEMMA InitInv == Init => CustodyInv
BY NoRowAssumption DEF Init, CustodyInv, TypeOK, PurgersOnRevoked, WritersUnfinished,
   StoredWhileWriting, Writing, Deleted, DeletedStaysDeleted, UsableHasMaterial,
   SecretRefStatuses, SecretMaterialStates, WriterPoints

(* register and rotate keep the invariant.                                 *)
LEMMA WriterInv ==
    ASSUME CustodyInv, NEW r \in Rows, Age(r) \/ WriterStep(r)
    PROVE  CustodyInv'
<1> USE NoRowAssumption DEF CustodyInv, TypeOK, PurgersOnRevoked, WritersUnfinished,
        StoredWhileWriting, Writing, Deleted, DeletedStaysDeleted,
        UsableHasMaterial, SecretRefStatuses, SecretMaterialStates,
        WriterPoints, rowVars, gcVars, SetRow
<1>1. CASE Age(r)
  BY <1>1 DEF Age
<1>2. CASE RegisterInsert(r) \/ RotateInsert(r)
  BY <1>2 DEF RegisterInsert, RotateInsert, Insert
<1>3. ASSUME NEW old \in Rows, RotateCheck(r, old)
      PROVE  CustodyInv'
  BY <1>3 DEF RotateCheck
<1>4. CASE StoreMaterial(r)
  BY <1>4 DEF StoreMaterial
<1>5. CASE RegisterActivate(r)
  BY <1>5 DEF RegisterActivate
<1>6. CASE RotatePlace(r)
  BY <1>6 DEF RotatePlace
<1>7. CASE WriterLoses(r)
  BY <1>7 DEF WriterLoses
<1>8. CASE WriterCleanup(r)
  BY <1>8 DEF WriterCleanup
<1>9. CASE WriterDies(r)
  BY <1>9 DEF WriterDies
<1> QED
  BY <1>1, <1>2, <1>3, <1>4, <1>5, <1>6, <1>7, <1>8, <1>9 DEF WriterStep

(* So do promotion, rollback and the two revokes with their purge.         *)
LEMMA RevokeInv ==
    ASSUME CustodyInv, NEW r \in Rows, RotationStep(r) \/ RevokeStep(r)
    PROVE  CustodyInv'
<1> USE NoRowAssumption DEF CustodyInv, TypeOK, PurgersOnRevoked, WritersUnfinished,
        StoredWhileWriting, Writing, Deleted, DeletedStaysDeleted,
        UsableHasMaterial, SecretRefStatuses, SecretMaterialStates,
        WriterPoints, rowVars, gcVars, SetRow
<1>1. ASSUME NEW q \in Rows, Promote(q, r)
      PROVE  CustodyInv'
  BY <1>1 DEF Promote, ClaimSwap
<1>2. ASSUME NEW q \in Rows, Rollback(q, r)
      PROVE  CustodyInv'
  BY <1>2 DEF Rollback, ClaimSwap
<1>3. CASE RotationRevoke(r)
  BY <1>3 DEF RotationRevoke
<1>4. CASE Revoke(r)
  BY <1>4 DEF Revoke
<1>5. CASE PurgeDelete(r)
  BY <1>5 DEF PurgeDelete
<1>6. CASE PurgeMark(r)
  BY <1>6 DEF PurgeMark, MarkPurged
<1>7. CASE PurgerStops(r)
  BY <1>7 DEF PurgerStops
<1> QED
  BY <1>1, <1>2, <1>3, <1>4, <1>5, <1>6, <1>7 DEF RotationStep, RevokeStep

(* So does gc_orphans.                                                     *)
LEMMA GcInv ==
    ASSUME CustodyInv, GcStep
    PROVE  CustodyInv'
<1> USE NoRowAssumption DEF CustodyInv, TypeOK, PurgersOnRevoked, WritersUnfinished,
        StoredWhileWriting, Writing, Deleted, DeletedStaysDeleted,
        UsableHasMaterial, SecretRefStatuses, SecretMaterialStates,
        WriterPoints, rowVars, gcVars, SetRow
<1>1. CASE GcStart
  BY <1>1 DEF GcStart
<1>2. CASE TombstoneWriting
  BY <1>2 DEF TombstoneWriting
<1>3. CASE TombstoneStale
  BY <1>3 DEF TombstoneStale, StaleCandidate
<1>4. CASE GcSelect
  BY <1>4 DEF GcSelect
<1>5. ASSUME NEW r \in Rows, GcDelete(r)
      PROVE  CustodyInv'
  BY <1>5 DEF GcDelete
<1>6. ASSUME NEW r \in Rows, GcDeleteFails(r)
      PROVE  CustodyInv'
  BY <1>6 DEF GcDeleteFails
<1>7. CASE GcMark
  BY <1>7 DEF GcMark, MarkPurged
<1>8. CASE GcEnd
  BY <1>8 DEF GcEnd
<1>9. CASE GcCrash
  BY <1>9 DEF GcCrash
<1> QED
  BY <1>1, <1>2, <1>3, <1>4, <1>5, <1>6, <1>7, <1>8, <1>9 DEF GcStep

LEMMA StutterInv == CustodyInv /\ UNCHANGED vars => CustodyInv'
BY DEF vars, CustodyInv, TypeOK, PurgersOnRevoked, WritersUnfinished,
   StoredWhileWriting, Writing, Deleted, DeletedStaysDeleted,
   UsableHasMaterial, rowVars, gcVars

(* The invariant holds in every state.                                     *)
LEMMA CustodyInvariant == Spec => []CustodyInv
<1>1. CustodyInv /\ [Next]_vars => CustodyInv'
  BY WriterInv, RevokeInv, GcInv, StutterInv DEF Next
<1> QED
  BY InitInv, <1>1, PTL DEF Spec

-----------------------------------------------------------------------------
(* The columns keep their types and the purge CHECK of secret_refs is      *)
(* never violated by any interleaving of the services.                     *)
THEOREM CustodyTypes == Spec => []TypeOK
<1>1. CustodyInv => TypeOK
  BY DEF CustodyInv
<1> QED
  BY CustodyInvariant, <1>1, PTL

(* Whatever crashes, no version the broker can be given lacks its material:*)
(* pending+writing is committed first and present is set last.             *)
THEOREM MaterialSafety == Spec => []UsableHasMaterial
<1>1. CustodyInv => UsableHasMaterial
  BY DEF CustodyInv
<1> QED
  BY CustodyInvariant, <1>1, PTL

(* Neither revoke's purge nor gc_orphans reports material as purged that   *)
(* it has left: only the row's own late writer can make the report false.  *)
THEOREM PurgeHonesty == Spec => []FalsePurgedOnlyByLateWriter
<1>1. CustodyInv => FalsePurgedOnlyByLateWriter
  BY DEF CustodyInv, DeletedStaysDeleted, Deleted, FalsePurgedOnlyByLateWriter
<1> QED
  BY CustodyInvariant, <1>1, PTL

-----------------------------------------------------------------------------
(* One step of the specification, seen from a row that is active.          *)
LEMMA ActiveStep ==
    ASSUME TypeOK, PurgersOnRevoked, Next, NEW x \in Rows,
           st[x] = "active", st'[x] # "active"
    PROVE  st'[x] = "revoked" \/ \E q \in Rows : st'[q] = "active"
<1> USE NoRowAssumption DEF TypeOK, PurgersOnRevoked, Writing, rowVars, gcVars, SetRow
<1>1. ASSUME NEW r \in Rows, Age(r) \/ WriterStep(r)
      PROVE  FALSE
  BY <1>1 DEF Age, WriterStep, RegisterInsert, RotateInsert, Insert,
     RotateCheck, StoreMaterial, RegisterActivate, RotatePlace, WriterLoses,
     WriterCleanup, WriterDies
<1>2. ASSUME NEW r \in Rows, RotationStep(r)
      PROVE  st'[r] = "active"
  <2>1. ~RotationRevoke(r)
    BY DEF RotationRevoke
  <2>2. ASSUME NEW q \in Rows, Promote(q, r) \/ Rollback(q, r)
        PROVE  st'[r] = "active"
    BY <2>2 DEF Promote, Rollback, ClaimSwap
  <2> QED
    BY <1>2, <2>1, <2>2 DEF RotationStep
<1>3. ASSUME NEW r \in Rows, RevokeStep(r)
      PROVE  st'[x] = "revoked"
  BY <1>3 DEF RevokeStep, Revoke, PurgeDelete, PurgeMark, MarkPurged,
     PurgerStops
<1>4. CASE GcStep
  BY <1>4 DEF GcStep, GcStart, TombstoneWriting, TombstoneStale,
     StaleCandidate, GcSelect, GcDelete, GcDeleteFails, GcMark, MarkPurged,
     GcEnd, GcCrash
<1> QED
  BY <1>1, <1>2, <1>3, <1>4 DEF Next

(* promote, promote_rotated and rollback never leave the name without an   *)
(* active version: an active version is lost only when it is revoked.      *)
THEOREM ActiveSafety == Spec => ActiveLostOnlyByRevoke
<1> DEFINE Keeps == \A r \in Rows : st[r] = "active" /\ st'[r] # "active" =>
                      st'[r] = "revoked" \/ \E q \in Rows : st'[q] = "active"
<1>1. CustodyInv /\ [Next]_vars => [Keeps]_vars
  BY ActiveStep DEF CustodyInv
<1> QED
  BY CustodyInvariant, <1>1, PTL DEF Spec, ActiveLostOnlyByRevoke

-----------------------------------------------------------------------------
(* A rotation whose old version is no longer usable stays dead.  The old   *)
(* version of a placed candidate was active when it was placed, and from   *)
(* then on the active version only moves back along rotated_from: no other *)
(* row is pending, so nothing else can be promoted.  It could come back to *)
(* the old version only through a version rotated from it, and such a one  *)
(* is not among the old version's own ancestors.                           *)
(*                                                                         *)
(* "Among the ancestors" is said with the sets of rows that rotated_from   *)
(* does not leave.                                                         *)
Closed(S) == \A x \in S : from[x] \in S \cup {NoRow}

Placed(r) == st[r] = "pending" /\ mat[r] = "present" /\ from[r] # NoRow

(* No row is its own ancestor.                                             *)
NoCycle ==
    \A c \in Rows : from[c] # NoRow =>
        \E S \in SUBSET Rows : Closed(S) /\ from[c] \in S /\ c \notin S

(* The active row is the candidate's old row or an ancestor of it.         *)
ActiveIsAncestor ==
    \A r \in Rows : Placed(r) =>
        \A S \in SUBSET Rows : Closed(S) /\ from[r] \in S =>
            \A a \in Rows : st[a] = "active" => a \in S

OneOf(status) ==
    \A p, q \in Rows : st[p] = status /\ st[q] = status => p = q

LineageKnown ==
    /\ \A r \in Rows : from[r] # NoRow => st[from[r]] # "absent"
    /\ \A r \in Rows : writer[r] = "idle" => st[r] = "absent" /\ from[r] = NoRow

LineageInv ==
    OneOf("active") /\ OneOf("pending") /\ LineageKnown /\ NoCycle /\ ActiveIsAncestor

(* A step that sets no rotated_from leaves the lineage alone.              *)
LEMMA SameLineage ==
    ASSUME UNCHANGED from, NoCycle
    PROVE  NoCycle' /\ \A S : Closed(S)' <=> Closed(S)
BY DEF NoCycle, Closed

(* Nor does one that makes no row active or pending.                       *)
LEMMA QuietLineage ==
    ASSUME TypeOK, LineageInv, UNCHANGED from,
           \A r \in Rows : st'[r] = "active" => st[r] = "active",
           \A r \in Rows : st'[r] = "pending" =>
               st[r] = "pending" /\ (mat'[r] = "present" => mat[r] = "present"),
           \A r \in Rows : st[r] # "absent" => st'[r] # "absent",
           \A r \in Rows : writer'[r] = "idle" => writer[r] = "idle" /\ st'[r] = st[r]
    PROVE  LineageInv'
<1> USE DEF TypeOK, LineageInv
<1>1. OneOf("active")' /\ OneOf("pending")'
  BY DEF OneOf
<1>2. LineageKnown'
  BY DEF LineageKnown
<1>3. NoCycle' /\ \A S : Closed(S)' <=> Closed(S)
  BY SameLineage
<1>4. ActiveIsAncestor'
  BY <1>3 DEF ActiveIsAncestor, Placed
<1> QED
  BY <1>1, <1>2, <1>3, <1>4

(* rotate's check gives the new row an ancestor; the row is in no lineage  *)
(* yet, so it can be taken out of every set.                               *)
LEMMA CheckLineage ==
    ASSUME TypeOK, LineageInv, NEW r \in Rows, NEW old \in Rows, RotateCheck(r, old)
    PROVE  LineageInv'
<1> USE NoRowAssumption DEF TypeOK, LineageInv, RotateCheck, Usable
<1>1. OneOf("active")' /\ OneOf("pending")'
  BY DEF OneOf
<1>2. LineageKnown'
  BY DEF LineageKnown
<1>3. /\ from[r] = NoRow /\ st[r] = "absent" /\ r # old
      /\ \A c \in Rows : from[c] # r
      /\ from'[r] = old /\ \A c \in Rows \ {r} : from'[c] = from[c]
  BY DEF LineageKnown
<1>4. ASSUME NEW S \in SUBSET Rows, Closed(S)'
      PROVE  Closed(S)
  BY <1>3, <1>4 DEF Closed
<1>5. ASSUME NEW S \in SUBSET Rows, Closed(S)
      PROVE  Closed(S \ {r})'
  BY <1>3, <1>5 DEF Closed
<1>6. ActiveIsAncestor'
  BY <1>3, <1>4 DEF ActiveIsAncestor, Placed
<1>7. NoCycle'
  <2> SUFFICES ASSUME NEW c \in Rows, from'[c] # NoRow
               PROVE  \E S \in SUBSET Rows : Closed(S)' /\ from'[c] \in S /\ c \notin S
    BY DEF NoCycle
  <2>1. CASE c = r
    <3>1. Closed(Rows)
      BY DEF Closed
    <3>2. Closed(Rows \ {r})'
      BY <3>1, <1>5
    <3>3. from'[c] \in Rows \ {r} /\ c \notin Rows \ {r}
      BY <1>3, <2>1
    <3> QED
      BY <3>2, <3>3
  <2>2. CASE c # r
    <3>1. PICK S \in SUBSET Rows : Closed(S) /\ from[c] \in S /\ c \notin S
      BY <2>2, <1>3 DEF NoCycle
    <3>2. Closed(S \ {r})'
      BY <3>1, <1>5
    <3>3. from'[c] \in S \ {r} /\ c \notin S \ {r}
      BY <1>3, <2>2, <3>1
    <3> QED
      BY <3>2, <3>3
  <2> QED
    BY <2>1, <2>2
<1> QED
  BY <1>1, <1>2, <1>6, <1>7

(* The other steps of a writer: an inserted row is the one pending row, an *)
(* activated one leaves none, a placed one was rotated from the active row.*)
LEMMA WriterLineage ==
    ASSUME TypeOK, LineageInv, NEW r \in Rows, Age(r) \/ WriterStep(r)
    PROVE  LineageInv'
<1> USE NoRowAssumption DEF TypeOK, rowVars, gcVars, SetRow, Writing
<1>1. CASE RegisterInsert(r) \/ RotateInsert(r)
  <2> USE <1>1 DEF LineageInv, RegisterInsert, RotateInsert, Insert, IndexFree
  <2>1. OneOf("active")' /\ OneOf("pending")'
    BY DEF OneOf
  <2>2. LineageKnown'
    BY DEF LineageKnown
  <2>3. ActiveIsAncestor'
    BY DEF ActiveIsAncestor, Placed
  <2> QED
    BY <2>1, <2>2, <2>3, SameLineage
<1>2. CASE RegisterActivate(r)
  <2> USE <1>2 DEF LineageInv, RegisterActivate, IndexFree
  <2>1. OneOf("active")' /\ OneOf("pending")'
    BY DEF OneOf
  <2>2. LineageKnown'
    BY DEF LineageKnown
  <2>3. ActiveIsAncestor'
    BY DEF ActiveIsAncestor, Placed, OneOf
  <2> QED
    BY <2>1, <2>2, <2>3, SameLineage
<1>3. CASE RotatePlace(r)
  <2> USE <1>3 DEF LineageInv, RotatePlace, Usable
  <2>1. OneOf("active")' /\ OneOf("pending")'
    BY DEF OneOf
  <2>2. LineageKnown'
    BY DEF LineageKnown
  <2>3. ActiveIsAncestor'
    BY DEF ActiveIsAncestor, Placed, OneOf
  <2> QED
    BY <2>1, <2>2, <2>3, SameLineage
<1>4. CASE Age(r)
  BY <1>4, QuietLineage DEF Age
<1>5. CASE StoreMaterial(r) \/ WriterLoses(r) \/ WriterCleanup(r) \/ WriterDies(r)
  BY <1>5, QuietLineage DEF StoreMaterial, WriterLoses, WriterCleanup, WriterDies
<1> QED
  BY <1>1, <1>2, <1>3, <1>4, <1>5, CheckLineage DEF WriterStep

(* A promotion ends the one rotation under way, a rollback moves the       *)
(* active version to its own ancestor; revokes make nothing active.        *)
LEMMA RevokeLineage ==
    ASSUME TypeOK, PurgersOnRevoked, LineageInv, NEW r \in Rows,
           RotationStep(r) \/ RevokeStep(r)
    PROVE  LineageInv'
<1> USE NoRowAssumption DEF TypeOK, rowVars, gcVars, SetRow
<1>1. ASSUME NEW q \in Rows, Promote(q, r)
      PROVE  LineageInv'
  <2> USE <1>1 DEF LineageInv, Promote, ClaimSwap
  <2>1. OneOf("active")' /\ OneOf("pending")'
    BY DEF OneOf
  <2>2. LineageKnown'
    BY DEF LineageKnown
  <2>3. ActiveIsAncestor'
    BY DEF ActiveIsAncestor, Placed, OneOf
  <2> QED
    BY <2>1, <2>2, <2>3, SameLineage
<1>2. ASSUME NEW q \in Rows, Rollback(q, r)
      PROVE  LineageInv'
  <2> USE <1>2 DEF LineageInv, Rollback, ClaimSwap
  <2>1. OneOf("active")' /\ OneOf("pending")'
    BY DEF OneOf
  <2>2. LineageKnown'
    BY DEF LineageKnown
  <2>3. NoCycle' /\ \A S : Closed(S)' <=> Closed(S)
    BY SameLineage
  <2>4. ASSUME NEW S \in SUBSET Rows, Closed(S), q \in S
        PROVE  r \in S
    BY <2>4 DEF Closed
  <2>5. ASSUME NEW a \in Rows, st'[a] = "active"
        PROVE  a = r
    BY <2>5 DEF OneOf
  <2>6. \A x \in Rows : Placed(x)' => Placed(x) /\ from'[x] = from[x]
    BY DEF Placed
  <2>7. ActiveIsAncestor'
    BY <2>3, <2>4, <2>5, <2>6 DEF ActiveIsAncestor
  <2> QED
    BY <2>1, <2>2, <2>3, <2>7
<1>3. CASE RotationRevoke(r)
  BY <1>3, QuietLineage DEF RotationRevoke, LineageInv, LineageKnown
<1>4. CASE RevokeStep(r)
  BY <1>4, QuietLineage DEF RevokeStep, Revoke, PurgeDelete, PurgeMark, MarkPurged,
     PurgerStops, PurgersOnRevoked, LineageInv, LineageKnown
<1> QED
  BY <1>1, <1>2, <1>3, <1>4 DEF RotationStep

(* gc_orphans only revokes and purges.                                     *)
LEMMA GcLineage ==
    ASSUME TypeOK, PurgersOnRevoked, LineageInv, GcStep
    PROVE  LineageInv'
<1> USE NoRowAssumption DEF TypeOK, rowVars, gcVars, SetRow
<1>1. CASE TombstoneWriting \/ TombstoneStale
  BY <1>1, QuietLineage DEF TombstoneWriting, TombstoneStale, StaleCandidate, Writing,
     LineageInv, LineageKnown
<1>2. ASSUME NEW r \in Rows, GcDeleteFails(r)
      PROVE  LineageInv'
  BY <1>2, QuietLineage DEF GcDeleteFails, PurgersOnRevoked, LineageInv, LineageKnown
<1>3. CASE GcMark
  BY <1>3, QuietLineage DEF GcMark, MarkPurged, PurgersOnRevoked, LineageInv, LineageKnown
<1>4. CASE GcStart \/ GcSelect \/ (\E r \in Rows : GcDelete(r)) \/ GcEnd \/ GcCrash
  BY <1>4, QuietLineage DEF GcStart, GcSelect, GcDelete, GcEnd, GcCrash
<1> QED
  BY <1>1, <1>2, <1>3, <1>4 DEF GcStep

LEMMA LineageInvariant == Spec => []LineageInv
<1>1. Init => LineageInv
  BY DEF Init, LineageInv, OneOf, LineageKnown, NoCycle, ActiveIsAncestor, Placed
<1>2. CustodyInv /\ LineageInv /\ [Next]_vars => LineageInv'
  <2>1. CASE UNCHANGED vars
    BY <2>1, QuietLineage DEF vars, rowVars, CustodyInv
  <2>2. CASE Next
    BY <2>2, WriterLineage, RevokeLineage, GcLineage DEF Next, CustodyInv
  <2> QED
    BY <2>1, <2>2
<1> QED
  BY CustodyInvariant, <1>1, <1>2, PTL DEF Spec

(* One step, seen from a candidate whose old version is not usable.        *)
LEMMA StaleStep ==
    ASSUME TypeOK, PurgersOnRevoked, LineageInv, Next, NEW x \in Rows,
           StaleCandidate(x), st'[x] = "pending"
    PROVE  StaleCandidate(x)'
<1> DEFINE old == from[x]
<1> USE NoRowAssumption DEF TypeOK, rowVars, gcVars, SetRow
<1>1. old \in Rows /\ ~Usable(old) /\ Placed(x) /\ st[x] = "pending" /\ mat[x] = "present"
  BY DEF StaleCandidate, Placed
<1>2. ASSUME NEW q \in Rows, Rollback(q, old)
      PROVE  FALSE
  <2>1. PICK S \in SUBSET Rows : Closed(S) /\ old \in S /\ q \notin S
    BY <1>1, <1>2 DEF LineageInv, NoCycle, Rollback
  <2> QED
    BY <1>1, <1>2, <2>1 DEF LineageInv, ActiveIsAncestor, Rollback, ClaimSwap
<1>3. ASSUME NEW r \in Rows, Age(r) \/ WriterStep(r)
      PROVE  StaleCandidate(x)'
  BY <1>1, <1>3 DEF Age, WriterStep, RegisterInsert, RotateInsert, Insert, IndexFree,
     RotateCheck, StoreMaterial, RegisterActivate, RotatePlace, WriterLoses,
     WriterCleanup, WriterDies, StaleCandidate, Usable, Writing, LineageInv, OneOf,
     LineageKnown
<1>4. ASSUME NEW r \in Rows, NEW q \in Rows, Promote(q, r) \/ Rollback(q, r)
      PROVE  StaleCandidate(x)'
  BY <1>1, <1>2, <1>4 DEF Promote, Rollback, ClaimSwap, StaleCandidate, Usable,
     LineageInv, OneOf
<1>5. ASSUME NEW r \in Rows, RotationRevoke(r) \/ RevokeStep(r)
      PROVE  StaleCandidate(x)'
  BY <1>1, <1>5 DEF RotationRevoke, RevokeStep, Revoke, PurgeDelete, PurgeMark,
     MarkPurged, PurgerStops, PurgersOnRevoked, StaleCandidate, Usable
<1>6. CASE GcStep
  BY <1>1, <1>6 DEF GcStep, GcStart, TombstoneWriting, TombstoneStale, GcSelect,
     GcDelete, GcDeleteFails, GcMark, MarkPurged, GcEnd, GcCrash, PurgersOnRevoked,
     StaleCandidate, Usable, Writing
<1> QED
  BY <1>3, <1>4, <1>5, <1>6 DEF Next, RotationStep

(* A candidate that gc_orphans may tombstone never becomes promotable      *)
(* again: _old_not_promotable is permanent although rollback makes old     *)
(* versions active again.                                                  *)
THEOREM StaleStaysStale == Spec => StaleForever
<1> DEFINE Stays == \A r \in Rows : StaleCandidate(r) /\ st'[r] = "pending" =>
                       StaleCandidate(r)'
<1>1. CustodyInv /\ LineageInv /\ [Next]_vars => [Stays]_vars
  BY StaleStep DEF CustodyInv
<1> QED
  BY CustodyInvariant, LineageInvariant, <1>1, PTL DEF Spec, StaleForever

-----------------------------------------------------------------------------
(***************************************************************************)
(* The store of the material.  StoreInv is inductive: beside what the      *)
(* store promises it says where a process can be in its call, that all     *)
(* work under way is in the pinned backend and under the one key, that     *)
(* whatever is not on disk yet is somebody's open change or an orphan, and *)
(* that no file of a ref exists before the one store of it has written it. *)
(***************************************************************************)

FilePoints == {"key", "publish_key", "sync_key", "replace", "sync_file", "open", "decrypt",
               "unlink", "sync_unlink"}

\* What a process is at, call by call.
CallInv(p) ==
    /\ proc[p].pc # "down" => proc[p].backend \in {"keyring", "file"}
    /\ proc[p].pc \in {"down", "idle"} => proc[p].call = None
    /\ proc[p].pc \notin {"down", "idle"} => proc[p].call \in Calls /\ proc[p].ref \in Refs
    /\ proc[p].pc = "ring" => proc[p].call \in {"store", "resolve", "delete"}
    /\ proc[p].pc \in {"key", "publish_key", "sync_key"} => proc[p].call \in {"store", "resolve"}
    /\ proc[p].pc \in {"replace", "sync_file"} => proc[p].call = "store"
    /\ proc[p].pc = "open" => proc[p].call = "resolve"
    /\ proc[p].pc \in {"unlink", "sync_unlink"} => proc[p].call = "delete"
    /\ proc[p].call \in {"store", "delete"} => <<proc[p].call, proc[p].ref>> \in asked

\* No process goes on without a key.
KeyInv(p) ==
    /\ proc[p].pc \in {"publish_key", "replace"} => proc[p].key # 0
    /\ proc[p].pc = "sync_key" => key # 0

\* What is not on disk is somebody's open change, or an orphan.
MarkerDisk == disk.marker # marker => "marker" \in orphans \/ \E p \in Procs : proc[p].pc = "sync_marker"
KeyDisk == disk.key # key => "key" \in orphans \/ \E p \in Procs : proc[p].pc = "sync_key"
UnlinkDisk ==
    \A r \in Refs : file[r] = 0 /\ disk.file[r] # 0 =>
        r \in orphans \/ \E p \in Procs : proc[p].pc = "sync_unlink" /\ proc[p].ref = r
DiskInv == MarkerDisk /\ KeyDisk /\ UnlinkDisk

\* All work, on disk and under way, is in the pinned backend.
Pinned ==
    "marker" \notin excused /\ "base" \notin excused =>
        /\ ring # {} => marker = "keyring"
        /\ links # {} => marker = "file"
        /\ \A r \in Refs : file[r] # 0 \/ disk.file[r] # 0 => marker = "file"
        /\ \A p \in Procs : /\ proc[p].pc = "ring" => marker = "keyring"
                            /\ proc[p].pc \in FilePoints => marker = "file"

\* All files, here, on disk and to be written, are encrypted with the one key.
OneKey ==
    "key" \notin excused /\ "keyring.d" \notin excused =>
        /\ \A r \in Refs : file[r] \in {0, key} /\ disk.file[r] \in {0, key}
        /\ \A p \in Procs : proc[p].pc = "replace" => proc[p].key = key

\* The store of a ref has not written its file yet.
Unwritten(r) ==
    \/ <<"store", r>> \notin asked
    \/ \E p \in Procs : proc[p].call = "store" /\ proc[p].ref = r /\ proc[p].pc # "sync_file"

\* A ref is stored once; until then there is no file of it and nobody deletes one.
StoredOnce ==
    /\ \A p, q \in Procs :
          proc[p].call = "store" /\ proc[q].call = "store" /\ proc[p].ref = proc[q].ref => p = q
    /\ \A r \in Refs : Unwritten(r) =>
          /\ file[r] = 0 /\ disk.file[r] = 0
          /\ \A p \in Procs : proc[p].pc = "sync_unlink" => proc[p].ref # r

\* What a process has written or unlinked is still so when it syncs.
SyncInv(p) ==
    /\ proc[p].pc = "sync_unlink" => file[proc[p].ref] = 0 /\ proc[p].ref \notin links
    /\ proc[p].pc = "sync_file" => <<"delete", proc[p].ref>> \in asked \/ file[proc[p].ref] # 0

\* What a store returned from is on disk, or went with its directory.
StoredDurable ==
    \A r \in Refs : <<"store", r>> \in done /\ <<"delete", r>> \notin asked =>
        r \in ring \/ (file[r] # 0 /\ disk.file[r] # 0) \/ r \in lost

StoreInv ==
    /\ StoreTypeOK
    /\ \A p \in Procs : CallInv(p)
    /\ \A p \in Procs : KeyInv(p)
    /\ \A p \in Procs : SyncInv(p)
    /\ DiskInv /\ Pinned /\ OneKey /\ StoredOnce /\ StoredDurable /\ DeletedIsGone

\* Directories that were there stay, with what they hold.
TreeInv ==
    /\ prepared \in {{}, {"base"}, Directories} /\ prepared \subseteq durable /\ durable \subseteq dirs
    /\ PreparedIsKept

-----------------------------------------------------------------------------

\* What a step does to the process that takes it; the others keep their records.
NowAt(p, pc, b, call, r, k) ==
    /\ proc'[p].pc = pc /\ proc'[p].backend = b /\ proc'[p].call = call
    /\ proc'[p].ref = r /\ proc'[p].key = k
    /\ \A q \in Procs : q # p => proc'[q] = proc[q]
NowIdle(p) == NowAt(p, "idle", proc[p].backend, None, None, 0)
Goes(p, pc) == NowAt(p, pc, proc[p].backend, proc[p].call, proc[p].ref, proc[p].key)
GoesWith(p, pc, k) == NowAt(p, pc, proc[p].backend, proc[p].call, proc[p].ref, k)

LEMMA OverIs == ASSUME StoreTypeOK, NEW p \in Procs, Over(p) PROVE NowIdle(p)
BY DEF StoreTypeOK, Over, Without, NowIdle, NowAt

LEMMA GotoIs == ASSUME StoreTypeOK, NEW p \in Procs, NEW pc, Goto(p, pc) PROVE Goes(p, pc)
BY DEF StoreTypeOK, Goto, Goes, NowAt

\* Where a process may go once the marker agrees with its backend.
Arrives(p, pc) ==
    /\ pc \in {"pin", "return", "ring", "key", "open", "unlink"}
    /\ pc = "ring" => marker = "keyring" /\ proc[p].call \in {"store", "resolve", "delete"}
    /\ pc \in {"key", "open", "unlink"} => marker = "file"
    /\ pc = "key" => proc[p].call = "store"
    /\ pc = "open" => proc[p].call = "resolve"
    /\ pc = "unlink" => proc[p].call = "delete"

\* Work leads where the call and the backend belong.
LEMMA WorkArrives ==
    ASSUME StoreConstantsOK, NEW p \in Procs, CallInv(p), proc[p].pc \notin {"down", "idle"},
           marker = proc[p].backend
    PROVE  Arrives(p, Work(proc[p].call, marker))
BY DEF StoreConstantsOK, CallInv, Work, Arrives

\* After the marker was read a call ends or goes to its work.
LEMMA MarkerMoves ==
    ASSUME StoreConstantsOK, NEW p \in Procs, CallInv(p), check_marker(p) \/ sync_marker(p)
    PROVE  Over(p) \/ \E pc : Arrives(p, pc) /\ Goto(p, pc)
<1>1. CASE marker = proc[p].backend
  BY <1>1, WorkArrives DEF check_marker, _assert_backend_consistent, _ensure_marker_pinned,
     sync_marker, CallInv, StoreConstantsOK
<1>2. CASE marker # proc[p].backend
  <2>1. Arrives(p, "pin")
    BY DEF Arrives
  <2> QED
    BY <1>2, <2>1 DEF check_marker, _assert_backend_consistent, _ensure_marker_pinned, sync_marker
<1> QED
  BY <1>1, <1>2

\* What each step does to its process.
LEMMA StepShapes ==
    ASSUME StoreConstantsOK, StoreTypeOK, NEW p \in Procs, CallInv(p)
    PROVE  /\ _detect_keyring(p) => \E b \in {"keyring", "file"} : NowAt(p, "idle", b, None, None, 0)
           /\ \A call, r : begin(p, call, r) => NowAt(p, "marker", proc[p].backend, call, r, proc[p].key)
           /\ check_marker(p) \/ sync_marker(p) => NowIdle(p) \/ \E pc : Arrives(p, pc) /\ Goes(p, pc)
           /\ pin(p) => Goes(p, "sync_marker")
           /\ return(p) \/ use_keyring(p) \/ _fsync_dir(p) \/ raise(p) => NowIdle(p)
           /\ publish_key(p) => Goes(p, "sync_key")
           /\ sync_key(p) => GoesWith(p, AfterKey(proc[p].call), key)
           /\ _file_store(p) => Goes(p, "sync_file")
           /\ _file_resolve(p) => NowIdle(p) \/ (proc[p].pc = "open" /\ Goes(p, "key"))
           /\ die(p) => NowAt(p, "down", None, None, None, 0)
<1>1. /\ _detect_keyring(p) => \E b \in {"keyring", "file"} : NowAt(p, "idle", b, None, None, 0)
      /\ die(p) => NowAt(p, "down", None, None, None, 0)
  BY DEF StoreTypeOK, _detect_keyring, die, Down, Without, NowAt
<1>2. \A call, r : begin(p, call, r) => NowAt(p, "marker", proc[p].backend, call, r, proc[p].key)
  BY DEF StoreTypeOK, begin, NowAt
<1>3. check_marker(p) \/ sync_marker(p) => NowIdle(p) \/ \E pc : Arrives(p, pc) /\ Goes(p, pc)
  BY MarkerMoves, OverIs, GotoIs
<1>4. /\ pin(p) => Goes(p, "sync_marker")
      /\ publish_key(p) => Goes(p, "sync_key")
      /\ _file_store(p) => Goes(p, "sync_file")
  BY GotoIs DEF pin, publish_key, _file_store
<1>5. return(p) \/ use_keyring(p) \/ _fsync_dir(p) \/ raise(p) => NowIdle(p)
  BY OverIs DEF return, use_keyring, _keyring_set, _keyring_get, _keyring_delete, _fsync_dir,
     raise, Return
<1>6. sync_key(p) => GoesWith(p, AfterKey(proc[p].call), key)
  BY DEF StoreTypeOK, sync_key, GoesWith, NowAt
<1>8. _file_resolve(p) => NowIdle(p) \/ (proc[p].pc = "open" /\ Goes(p, "key"))
  BY OverIs, GotoIs DEF _file_resolve
<1> QED
  BY <1>1, <1>2, <1>3, <1>4, <1>5, <1>6, <1>8

LEMMA LoadShape ==
    ASSUME StoreTypeOK, NEW p \in Procs, _load_or_create_master_key(p)
    PROVE  \/ key # 0 /\ GoesWith(p, AfterKey(proc[p].call), key)
           \/ key = 0 /\ GoesWith(p, "publish_key", keys + 1)
           \/ NowIdle(p)
BY OverIs DEF StoreTypeOK, _load_or_create_master_key, GoesWith, NowAt

LEMMA DeleteShape ==
    ASSUME StoreTypeOK, NEW p \in Procs, _file_delete(p)
    PROVE  \/ (proc[p].ref \in links \/ file[proc[p].ref] = 0) /\ NowIdle(p)
           \/ proc[p].ref \notin links /\ file[proc[p].ref] # 0 /\ Goes(p, "sync_unlink")
BY OverIs, GotoIs DEF _file_delete, Return

LEMMA StoreInitInv == StoreConstantsOK /\ StoreInit => StoreInv
<1> SUFFICES ASSUME StoreConstantsOK, StoreInit PROVE StoreInv
  OBVIOUS
<1>1. StoreTypeOK
  BY DEF StoreConstantsOK, StoreInit, StoreTypeOK, Down, Without, Points, Backends, Changes, Directories
<1>2. \A p \in Procs : CallInv(p) /\ KeyInv(p) /\ SyncInv(p)
  BY DEF StoreConstantsOK, StoreInit, CallInv, KeyInv, SyncInv, Down, Without
<1>3. DiskInv /\ Pinned /\ OneKey
  BY DEF StoreInit, DiskInv, MarkerDisk, KeyDisk, UnlinkDisk, Pinned, OneKey, Down, Without,
     FilePoints
<1>4. StoredOnce /\ StoredDurable /\ DeletedIsGone
  BY DEF StoreConstantsOK, StoreInit, StoredOnce, StoredDurable, DeletedIsGone, Down, Without
<1> QED
  BY <1>1, <1>2, <1>3, <1>4 DEF StoreInv

\* Every step of a process keeps the types.
LEMMA StoreStepTypes ==
    ASSUME StoreConstantsOK, StoreInv, NEW p \in Procs, StoreStep(p)
    PROVE  StoreTypeOK'
<1> USE DEF StoreConstantsOK, StoreTypeOK, Points, Backends, Changes, Over, Return, Goto, Written,
   Fault, Open, Down, Without, entries, tree, history, mkdir, Directories
<1>0. StoreTypeOK /\ CallInv(p)
  BY DEF StoreInv
<1>1. CASE _detect_keyring(p)
  BY <1>0, <1>1 DEF CallInv, _detect_keyring
<1>2. ASSUME NEW call \in Calls, NEW r \in Refs, begin(p, call, r) PROVE StoreTypeOK'
  BY <1>0, <1>2 DEF CallInv, begin
<1>3. CASE check_marker(p)
  BY <1>0, <1>3 DEF CallInv, check_marker, _assert_backend_consistent, _ensure_marker_pinned, Work
<1>4. CASE pin(p)
  BY <1>0, <1>4 DEF CallInv, pin, _atomic_publish
<1>5. CASE sync_marker(p)
  BY <1>0, <1>5 DEF CallInv, sync_marker, Work
<1>6. CASE return(p)
  BY <1>0, <1>6 DEF CallInv, return
<1>7. CASE use_keyring(p)
  BY <1>0, <1>7 DEF CallInv, use_keyring, _keyring_set, _keyring_get, _keyring_delete
<1>8. CASE _load_or_create_master_key(p)
  BY <1>0, <1>8 DEF CallInv, _load_or_create_master_key, AfterKey
<1>9. CASE publish_key(p)
  BY <1>0, <1>9 DEF CallInv, publish_key, _atomic_publish
<1>10. CASE sync_key(p)
  BY <1>0, <1>10 DEF CallInv, sync_key, AfterKey
<1>11. CASE _file_store(p)
  BY <1>0, <1>11 DEF CallInv, _file_store
<1>12. CASE _fsync_dir(p)
  BY <1>0, <1>12 DEF CallInv, _fsync_dir
<1>13. CASE _file_resolve(p)
  BY <1>0, <1>13 DEF CallInv, _file_resolve
<1>14. CASE _file_delete(p)
  BY <1>0, <1>14 DEF CallInv, _file_delete
<1>15. CASE raise(p)
  BY <1>0, <1>15 DEF CallInv, raise
<1>16. CASE die(p)
  BY <1>0, <1>16 DEF CallInv, die
<1> QED
  BY <1>1, <1>2, <1>3, <1>4, <1>5, <1>6, <1>7, <1>8, <1>9, <1>10, <1>11, <1>12, <1>13, <1>14,
     <1>15, <1>16 DEF StoreStep

\* Processes make directories and lose none.
LEMMA TreeMoves ==
    ASSUME NEW p \in Procs, StoreStep(p)
    PROVE  /\ prepared' = prepared /\ lost' = lost /\ excused' = excused
           /\ dirs \subseteq dirs' /\ durable \subseteq durable' /\ durable' \subseteq durable \cup dirs
<1> USE DEF tree, history, mkdir
<1>1. CASE pin(p) \/ publish_key(p) \/ _file_store(p)
  BY <1>1 DEF pin, publish_key, _file_store
<1>2. CASE sync_marker(p)
  BY <1>2 DEF sync_marker
<1>3. CASE \/ _detect_keyring(p) \/ \E call \in Calls, r \in Refs : begin(p, call, r)
           \/ check_marker(p) \/ return(p) \/ use_keyring(p)
  BY <1>3 DEF _detect_keyring, begin, check_marker, return, use_keyring
<1>4. CASE \/ _load_or_create_master_key(p) \/ sync_key(p) \/ _fsync_dir(p) \/ _file_resolve(p)
           \/ _file_delete(p) \/ raise(p) \/ die(p)
  BY <1>4 DEF _load_or_create_master_key, sync_key, _fsync_dir, _file_resolve, _file_delete, raise, die
<1> QED
  BY <1>1, <1>2, <1>3, <1>4 DEF StoreStep

\* A step does not disturb the calls of others.
LEMMA OthersKeepCall ==
    ASSUME NEW p \in Procs, \A q \in Procs : CallInv(q), asked \subseteq asked',
           \A q \in Procs : q # p => proc'[q] = proc[q]
    PROVE  \A q \in Procs : q # p => CallInv(q)'
BY DEF CallInv

\* Every step of a process keeps the invariant.
LEMMA StoreStepInv ==
    ASSUME StoreConstantsOK, StoreInv, NEW p \in Procs, StoreStep(p)
    PROVE  StoreInv'
<1> USE DEF entries, history
<1>t. StoreTypeOK /\ StoreTypeOK'
  BY StoreStepTypes DEF StoreInv
<1>c. /\ \A q \in Procs : CallInv(q)
      /\ None # "store" /\ None # "delete" /\ None # "keyring" /\ None # "file"
      /\ "marker" \notin Refs /\ "key" \notin Refs
  BY DEF StoreInv, StoreConstantsOK
<1>k. \A q \in Procs : KeyInv(q)
  BY DEF StoreInv
<1>s. \A q \in Procs : SyncInv(q)
  BY DEF StoreInv
<1>d. DiskInv
  BY DEF StoreInv
<1>p. Pinned
  BY DEF StoreInv
<1>y. OneKey
  BY DEF StoreInv
<1>o. StoredOnce
  BY DEF StoreInv
<1>b. StoredDurable /\ lost' = lost
  BY TreeMoves DEF StoreInv
<1>g. DeletedIsGone
  BY DEF StoreInv
<1>f. /\ file \in [Refs -> Nat] /\ keys \in Nat
      /\ disk = [marker |-> disk.marker, key |-> disk.key, file |-> disk.file]
  BY <1>t DEF StoreTypeOK, StoreConstantsOK
<1>1. CASE _detect_keyring(p)
  <2>1. \E b \in {"keyring", "file"} : NowAt(p, "idle", b, None, None, 0)
    BY <1>c, <1>t, <1>1, StepShapes
  <2>2. proc[p].pc = "down" /\ UNCHANGED <<entries, disk, keys, faults, history>>
    BY <1>c, <1>f, <1>1 DEF CallInv, _detect_keyring
  <2>3. CallInv(p)'
    BY <2>1, <2>2, <1>c DEF NowAt, CallInv
  <2>4. (\A q \in Procs : KeyInv(q))'
    BY <2>1, <2>2, <1>c, <1>k DEF NowAt, CallInv, KeyInv
  <2>5. (\A q \in Procs : SyncInv(q))'
    BY <2>1, <2>2, <1>c, <1>k, <1>s, <1>o DEF NowAt, CallInv, SyncInv, StoredOnce, Unwritten, KeyInv
  <2>6. DiskInv'
    <3>1. MarkerDisk'
      BY <2>1, <2>2, <1>c, <1>d DEF NowAt, DiskInv, MarkerDisk
    <3>2. KeyDisk'
      BY <2>1, <2>2, <1>c, <1>d DEF NowAt, DiskInv, KeyDisk
    <3>3. UnlinkDisk'
      BY <2>1, <2>2, <1>c, <1>k, <1>d DEF NowAt, DiskInv, UnlinkDisk, CallInv, KeyInv
    <3> QED
      BY <3>1, <3>2, <3>3 DEF DiskInv
  <2>7. Pinned'
    BY <2>1, <2>2, <1>c, <1>p DEF NowAt, CallInv, Pinned, FilePoints
  <2>8. OneKey'
    BY <2>1, <2>2, <1>c, <1>k, <1>y DEF NowAt, CallInv, OneKey, KeyInv
  <2>9. StoredOnce'
    BY <2>1, <2>2, <1>c, <1>k, <1>o DEF NowAt, CallInv, StoredOnce, Unwritten, KeyInv
  <2>10. StoredDurable'
    BY <2>1, <2>2, <1>c, <1>k, <1>s, <1>b DEF NowAt, CallInv, StoredDurable, SyncInv, KeyInv
  <2>11. DeletedIsGone'
    BY <2>1, <2>2, <1>c, <1>s, <1>p, <1>g DEF NowAt, CallInv, DeletedIsGone, SyncInv, Pinned,
       FilePoints
  <2>12. \A q \in Procs : q # p => CallInv(q)'
    BY <2>1, <2>2, <1>c, OthersKeepCall DEF NowAt
  <2> QED
    BY <1>t, <2>12, <2>3, <2>4, <2>5, <2>6, <2>7, <2>8, <2>9, <2>10, <2>11 DEF StoreInv
<1>2. ASSUME NEW call \in Calls, NEW r \in Refs, begin(p, call, r) PROVE StoreInv'
  <2>1. NowAt(p, "marker", proc[p].backend, call, r, proc[p].key)
    BY <1>c, <1>t, <1>2, StepShapes
  <2>2. /\ proc[p].pc = "idle" /\ (call = "store" => <<call, r>> \notin asked)
        /\ asked' = IF call \in {"store", "delete"} THEN asked \cup {<<call, r>>} ELSE asked
        /\ UNCHANGED <<entries, disk, keys, faults, done, orphans, excused>>
    BY <1>c, <1>f, <1>2 DEF CallInv, begin
  <2>3. CallInv(p)'
    BY <2>1, <2>2, <1>c DEF NowAt, CallInv
  <2>4. (\A q \in Procs : KeyInv(q))'
    BY <2>1, <2>2, <1>c, <1>k DEF NowAt, CallInv, KeyInv
  <2>5. (\A q \in Procs : SyncInv(q))'
    BY <2>1, <2>2, <1>c, <1>k, <1>s, <1>o DEF NowAt, CallInv, SyncInv, StoredOnce, Unwritten, KeyInv
  <2>6. DiskInv'
    <3>1. MarkerDisk'
      BY <2>1, <2>2, <1>c, <1>d DEF NowAt, DiskInv, MarkerDisk
    <3>2. KeyDisk'
      BY <2>1, <2>2, <1>c, <1>d DEF NowAt, DiskInv, KeyDisk
    <3>3. UnlinkDisk'
      BY <2>1, <2>2, <1>c, <1>k, <1>d DEF NowAt, DiskInv, UnlinkDisk, CallInv, KeyInv
    <3> QED
      BY <3>1, <3>2, <3>3 DEF DiskInv
  <2>7. Pinned'
    BY <2>1, <2>2, <1>c, <1>p DEF NowAt, CallInv, Pinned, FilePoints
  <2>8. OneKey'
    BY <2>1, <2>2, <1>c, <1>k, <1>y DEF NowAt, CallInv, OneKey, KeyInv
  <2>9. StoredOnce'
    BY <2>1, <2>2, <1>c, <1>k, <1>o DEF NowAt, CallInv, StoredOnce, Unwritten, KeyInv
  <2>10. StoredDurable'
    BY <2>1, <2>2, <1>c, <1>k, <1>s, <1>b DEF NowAt, CallInv, StoredDurable, SyncInv, KeyInv
  <2>11. DeletedIsGone'
    BY <2>1, <2>2, <1>c, <1>s, <1>p, <1>g DEF NowAt, CallInv, DeletedIsGone, SyncInv, Pinned,
       FilePoints
  <2>12. \A q \in Procs : q # p => CallInv(q)'
    BY <2>1, <2>2, <1>c, OthersKeepCall DEF NowAt
  <2> QED
    BY <1>t, <2>12, <2>3, <2>4, <2>5, <2>6, <2>7, <2>8, <2>9, <2>10, <2>11 DEF StoreInv
<1>3. CASE check_marker(p)
  <2>1. NowIdle(p) \/ \E pc : Arrives(p, pc) /\ Goes(p, pc)
    BY <1>c, <1>t, <1>3, StepShapes
  <2>2. proc[p].pc = "marker" /\ UNCHANGED <<entries, disk, keys, faults, history>>
    BY <1>c, <1>f, <1>3 DEF CallInv, check_marker
  <2>3. CallInv(p)'
    BY <2>1, <2>2, <1>c DEF NowIdle, Goes, NowAt, CallInv, Arrives
  <2>4. (\A q \in Procs : KeyInv(q))'
    BY <2>1, <2>2, <1>c, <1>k DEF NowIdle, Goes, NowAt, CallInv, KeyInv, Arrives
  <2>5. (\A q \in Procs : SyncInv(q))'
    BY <2>1, <2>2, <1>c, <1>k, <1>s, <1>o DEF NowIdle, Goes, NowAt, CallInv, SyncInv,
       StoredOnce, Unwritten, KeyInv, Arrives
  <2>6. DiskInv'
    <3>1. MarkerDisk'
      BY <2>1, <2>2, <1>c, <1>d DEF NowIdle, Goes, NowAt, DiskInv, MarkerDisk, Arrives
    <3>2. KeyDisk'
      BY <2>1, <2>2, <1>c, <1>d DEF NowIdle, Goes, NowAt, DiskInv, KeyDisk, Arrives
    <3>3. UnlinkDisk'
      BY <2>1, <2>2, <1>c, <1>k, <1>d DEF NowIdle, Goes, NowAt, DiskInv, UnlinkDisk,
         CallInv, KeyInv, Arrives
    <3> QED
      BY <3>1, <3>2, <3>3 DEF DiskInv
  <2>7. Pinned'
    BY <2>1, <2>2, <1>c, <1>p DEF NowIdle, Goes, NowAt, CallInv, Pinned, FilePoints, Arrives
  <2>8. OneKey'
    BY <2>1, <2>2, <1>c, <1>k, <1>y DEF NowIdle, Goes, NowAt, CallInv, OneKey, KeyInv, Arrives
  <2>9. StoredOnce'
    BY <2>1, <2>2, <1>c, <1>k, <1>o DEF NowIdle, Goes, NowAt, CallInv, StoredOnce, Unwritten,
       KeyInv, Arrives
  <2>10. StoredDurable'
    BY <2>1, <2>2, <1>c, <1>k, <1>s, <1>b DEF NowIdle, Goes, NowAt, CallInv, StoredDurable,
       SyncInv, KeyInv, Arrives
  <2>11. DeletedIsGone'
    BY <2>1, <2>2, <1>c, <1>s, <1>p, <1>g DEF NowIdle, Goes, NowAt, CallInv, DeletedIsGone,
       SyncInv, Pinned, FilePoints, Arrives
  <2>12. \A q \in Procs : q # p => CallInv(q)'
    BY <2>1, <2>2, <1>c, OthersKeepCall DEF NowIdle, Goes, NowAt, Arrives
  <2> QED
    BY <1>t, <2>12, <2>3, <2>4, <2>5, <2>6, <2>7, <2>8, <2>9, <2>10, <2>11 DEF StoreInv
<1>4. CASE sync_marker(p)
  <2>1. NowIdle(p) \/ \E pc : Arrives(p, pc) /\ Goes(p, pc)
    BY <1>c, <1>t, <1>4, StepShapes
  <2>2. /\ proc[p].pc = "sync_marker"
        /\ disk'.marker = marker /\ disk'.key = disk.key /\ disk'.file = disk.file
        /\ orphans' = orphans \ {"marker"} /\ UNCHANGED <<entries, keys, faults, asked, done, excused>>
    BY <1>c, <1>f, <1>4 DEF CallInv, sync_marker
  <2>3. CallInv(p)'
    BY <2>1, <2>2, <1>c DEF NowIdle, Goes, NowAt, CallInv, Arrives
  <2>4. (\A q \in Procs : KeyInv(q))'
    BY <2>1, <2>2, <1>c, <1>k DEF NowIdle, Goes, NowAt, CallInv, KeyInv, Arrives
  <2>5. (\A q \in Procs : SyncInv(q))'
    BY <2>1, <2>2, <1>c, <1>k, <1>s, <1>o DEF NowIdle, Goes, NowAt, CallInv, SyncInv,
       StoredOnce, Unwritten, KeyInv, Arrives
  <2>6. DiskInv'
    <3>1. MarkerDisk'
      BY <2>1, <2>2, <1>c, <1>d DEF NowIdle, Goes, NowAt, DiskInv, MarkerDisk, Arrives
    <3>2. KeyDisk'
      BY <2>1, <2>2, <1>c, <1>d DEF NowIdle, Goes, NowAt, DiskInv, KeyDisk, Arrives
    <3>3. UnlinkDisk'
      BY <2>1, <2>2, <1>c, <1>k, <1>d DEF NowIdle, Goes, NowAt, DiskInv, UnlinkDisk,
         CallInv, KeyInv, Arrives
    <3> QED
      BY <3>1, <3>2, <3>3 DEF DiskInv
  <2>7. Pinned'
    BY <2>1, <2>2, <1>c, <1>p DEF NowIdle, Goes, NowAt, CallInv, Pinned, FilePoints, Arrives
  <2>8. OneKey'
    BY <2>1, <2>2, <1>c, <1>k, <1>y DEF NowIdle, Goes, NowAt, CallInv, OneKey, KeyInv, Arrives
  <2>9. StoredOnce'
    BY <2>1, <2>2, <1>c, <1>k, <1>o DEF NowIdle, Goes, NowAt, CallInv, StoredOnce, Unwritten,
       KeyInv, Arrives
  <2>10. StoredDurable'
    BY <2>1, <2>2, <1>c, <1>k, <1>s, <1>b DEF NowIdle, Goes, NowAt, CallInv, StoredDurable,
       SyncInv, KeyInv, Arrives
  <2>11. DeletedIsGone'
    BY <2>1, <2>2, <1>c, <1>s, <1>p, <1>g DEF NowIdle, Goes, NowAt, CallInv, DeletedIsGone,
       SyncInv, Pinned, FilePoints, Arrives
  <2>12. \A q \in Procs : q # p => CallInv(q)'
    BY <2>1, <2>2, <1>c, OthersKeepCall DEF NowIdle, Goes, NowAt, Arrives
  <2> QED
    BY <1>t, <2>12, <2>3, <2>4, <2>5, <2>6, <2>7, <2>8, <2>9, <2>10, <2>11 DEF StoreInv
<1>5. CASE pin(p)
  <2>1. Goes(p, "sync_marker")
    BY <1>c, <1>t, <1>5, StepShapes
  <2>3. CallInv(p)'
    BY <2>1, <1>5, <1>c DEF Goes, NowAt, CallInv, pin, _atomic_publish
  <2>4. (\A q \in Procs : KeyInv(q))'
    BY <2>1, <1>5, <1>c, <1>k DEF Goes, NowAt, CallInv, KeyInv, pin, _atomic_publish
  <2>5. (\A q \in Procs : SyncInv(q))'
    BY <2>1, <1>5, <1>c, <1>k, <1>s, <1>o DEF Goes, NowAt, CallInv, SyncInv, StoredOnce,
       Unwritten, KeyInv, pin, _atomic_publish
  <2>6. DiskInv'
    <3>1. MarkerDisk'
      BY <2>1, <1>5, <1>c, <1>d DEF Goes, NowAt, DiskInv, MarkerDisk, pin, _atomic_publish
    <3>2. KeyDisk'
      BY <2>1, <1>5, <1>c, <1>d DEF Goes, NowAt, DiskInv, KeyDisk, pin, _atomic_publish
    <3>3. UnlinkDisk'
      BY <2>1, <1>5, <1>c, <1>k, <1>d DEF Goes, NowAt, DiskInv, UnlinkDisk, CallInv, KeyInv,
         pin, _atomic_publish
    <3> QED
      BY <3>1, <3>2, <3>3 DEF DiskInv
  <2>7. Pinned'
    BY <2>1, <1>5, <1>c, <1>p DEF Goes, NowAt, CallInv, Pinned, FilePoints, pin, _atomic_publish
  <2>8. OneKey'
    BY <2>1, <1>5, <1>c, <1>k, <1>y DEF Goes, NowAt, CallInv, OneKey, KeyInv, pin, _atomic_publish
  <2>9. StoredOnce'
    BY <2>1, <1>5, <1>c, <1>k, <1>o DEF Goes, NowAt, CallInv, StoredOnce, Unwritten, KeyInv,
       pin, _atomic_publish
  <2>10. StoredDurable'
    BY <2>1, <1>5, <1>c, <1>k, <1>s, <1>b DEF Goes, NowAt, CallInv, StoredDurable, SyncInv,
       KeyInv, pin, _atomic_publish
  <2>11. DeletedIsGone'
    BY <2>1, <1>5, <1>c, <1>s, <1>p, <1>g DEF Goes, NowAt, CallInv, DeletedIsGone, SyncInv,
       Pinned, FilePoints, pin, _atomic_publish
  <2>12. \A q \in Procs : q # p => CallInv(q)'
    BY <2>1, <1>5, <1>c, OthersKeepCall DEF Goes, NowAt, pin, _atomic_publish
  <2> QED
    BY <1>t, <2>12, <2>3, <2>4, <2>5, <2>6, <2>7, <2>8, <2>9, <2>10, <2>11 DEF StoreInv
<1>6. CASE return(p)
  <2>1. NowIdle(p)
    BY <1>c, <1>t, <1>6, StepShapes
  <2>3. CallInv(p)'
    BY <2>1, <1>6, <1>c DEF NowIdle, NowAt, CallInv, return
  <2>4. (\A q \in Procs : KeyInv(q))'
    BY <2>1, <1>6, <1>c, <1>k DEF NowIdle, NowAt, CallInv, KeyInv, return
  <2>5. (\A q \in Procs : SyncInv(q))'
    BY <2>1, <1>6, <1>c, <1>k, <1>s, <1>o DEF NowIdle, NowAt, CallInv, SyncInv, StoredOnce,
       Unwritten, KeyInv, return
  <2>6. DiskInv'
    <3>1. MarkerDisk'
      BY <2>1, <1>6, <1>c, <1>d DEF NowIdle, NowAt, DiskInv, MarkerDisk, return
    <3>2. KeyDisk'
      BY <2>1, <1>6, <1>c, <1>d DEF NowIdle, NowAt, DiskInv, KeyDisk, return
    <3>3. UnlinkDisk'
      BY <2>1, <1>6, <1>c, <1>k, <1>d DEF NowIdle, NowAt, DiskInv, UnlinkDisk, CallInv,
         KeyInv, return
    <3> QED
      BY <3>1, <3>2, <3>3 DEF DiskInv
  <2>7. Pinned'
    BY <2>1, <1>6, <1>c, <1>p DEF NowIdle, NowAt, CallInv, Pinned, FilePoints, return
  <2>8. OneKey'
    BY <2>1, <1>6, <1>c, <1>k, <1>y DEF NowIdle, NowAt, CallInv, OneKey, KeyInv, return
  <2>9. StoredOnce'
    BY <2>1, <1>6, <1>c, <1>k, <1>o DEF NowIdle, NowAt, CallInv, StoredOnce, Unwritten,
       KeyInv, return
  <2>10. StoredDurable'
    BY <2>1, <1>6, <1>c, <1>k, <1>s, <1>b DEF NowIdle, NowAt, CallInv, StoredDurable, SyncInv,
       KeyInv, return
  <2>11. DeletedIsGone'
    BY <2>1, <1>6, <1>c, <1>s, <1>p, <1>g DEF NowIdle, NowAt, CallInv, DeletedIsGone, SyncInv,
       Pinned, FilePoints, return
  <2>12. \A q \in Procs : q # p => CallInv(q)'
    BY <2>1, <1>6, <1>c, OthersKeepCall DEF NowIdle, NowAt, return
  <2> QED
    BY <1>t, <2>12, <2>3, <2>4, <2>5, <2>6, <2>7, <2>8, <2>9, <2>10, <2>11 DEF StoreInv
<1>7. CASE use_keyring(p)
  <2>1. NowIdle(p)
    BY <1>c, <1>t, <1>7, StepShapes
  <2>3. CallInv(p)'
    BY <2>1, <1>7, <1>c DEF NowIdle, NowAt, CallInv, use_keyring, _keyring_set, _keyring_get,
       _keyring_delete, Return
  <2>4. (\A q \in Procs : KeyInv(q))'
    BY <2>1, <1>7, <1>c, <1>k DEF NowIdle, NowAt, CallInv, KeyInv, use_keyring, _keyring_set,
       _keyring_get, _keyring_delete, Return
  <2>5. (\A q \in Procs : SyncInv(q))'
    BY <2>1, <1>7, <1>c, <1>k, <1>s, <1>o DEF NowIdle, NowAt, CallInv, SyncInv, StoredOnce,
       Unwritten, KeyInv, use_keyring, _keyring_set, _keyring_get, _keyring_delete, Return
  <2>6. DiskInv'
    <3>1. MarkerDisk'
      BY <2>1, <1>7, <1>c, <1>d DEF NowIdle, NowAt, DiskInv, MarkerDisk, use_keyring,
         _keyring_set, _keyring_get, _keyring_delete, Return
    <3>2. KeyDisk'
      BY <2>1, <1>7, <1>c, <1>d DEF NowIdle, NowAt, DiskInv, KeyDisk, use_keyring,
         _keyring_set, _keyring_get, _keyring_delete, Return
    <3>3. UnlinkDisk'
      BY <2>1, <1>7, <1>c, <1>k, <1>d DEF NowIdle, NowAt, DiskInv, UnlinkDisk, CallInv,
         KeyInv, use_keyring, _keyring_set, _keyring_get, _keyring_delete, Return
    <3> QED
      BY <3>1, <3>2, <3>3 DEF DiskInv
  <2>7. Pinned'
    BY <2>1, <1>7, <1>c, <1>p DEF NowIdle, NowAt, CallInv, Pinned, FilePoints, use_keyring,
       _keyring_set, _keyring_get, _keyring_delete, Return
  <2>8. OneKey'
    BY <2>1, <1>7, <1>c, <1>k, <1>y DEF NowIdle, NowAt, CallInv, OneKey, KeyInv, use_keyring,
       _keyring_set, _keyring_get, _keyring_delete, Return
  <2>9. StoredOnce'
    BY <2>1, <1>7, <1>c, <1>k, <1>o DEF NowIdle, NowAt, CallInv, StoredOnce, Unwritten,
       KeyInv, use_keyring, _keyring_set, _keyring_get, _keyring_delete, Return
  <2>10. StoredDurable'
    BY <2>1, <1>7, <1>c, <1>k, <1>s, <1>b DEF NowIdle, NowAt, CallInv, StoredDurable, SyncInv,
       KeyInv, use_keyring, _keyring_set, _keyring_get, _keyring_delete, Return
  <2>11. DeletedIsGone'
    BY <2>1, <1>7, <1>c, <1>s, <1>p, <1>g DEF NowIdle, NowAt, CallInv, DeletedIsGone, SyncInv,
       Pinned, FilePoints, use_keyring, _keyring_set, _keyring_get, _keyring_delete, Return
  <2>12. \A q \in Procs : q # p => CallInv(q)'
    BY <2>1, <1>7, <1>c, OthersKeepCall DEF NowIdle, NowAt, use_keyring, _keyring_set,
       _keyring_get, _keyring_delete, Return
  <2> QED
    BY <1>t, <2>12, <2>3, <2>4, <2>5, <2>6, <2>7, <2>8, <2>9, <2>10, <2>11 DEF StoreInv
<1>8. CASE _load_or_create_master_key(p)
  <2>1. \/ key # 0 /\ GoesWith(p, AfterKey(proc[p].call), key)
        \/ key = 0 /\ GoesWith(p, "publish_key", keys + 1)
        \/ NowIdle(p)
    BY <1>c, <1>t, <1>8, LoadShape
  <2>2. proc[p].pc = "key" /\ UNCHANGED <<entries, disk, faults, history>>
    BY <1>c, <1>f, <1>8 DEF CallInv, _load_or_create_master_key
  <2>3. CallInv(p)'
    BY <2>1, <2>2, <1>c DEF GoesWith, NowIdle, NowAt, CallInv, AfterKey
  <2>4. (\A q \in Procs : KeyInv(q))'
    BY <2>1, <2>2, <1>f, <1>c, <1>k DEF GoesWith, NowIdle, NowAt, CallInv, KeyInv, AfterKey
  <2>5. (\A q \in Procs : SyncInv(q))'
    BY <2>1, <2>2, <1>f, <1>c, <1>k, <1>s, <1>o DEF GoesWith, NowIdle, NowAt, CallInv, SyncInv,
       StoredOnce, Unwritten, KeyInv, AfterKey
  <2>6. DiskInv'
    <3>1. MarkerDisk'
      BY <2>1, <2>2, <1>c, <1>d DEF GoesWith, NowIdle, NowAt, DiskInv, MarkerDisk, AfterKey
    <3>2. KeyDisk'
      BY <2>1, <2>2, <1>c, <1>d DEF GoesWith, NowIdle, NowAt, DiskInv, KeyDisk, AfterKey
    <3>3. UnlinkDisk'
      BY <2>1, <2>2, <1>c, <1>k, <1>d DEF GoesWith, NowIdle, NowAt, DiskInv, UnlinkDisk, CallInv,
         KeyInv, AfterKey
    <3> QED
      BY <3>1, <3>2, <3>3 DEF DiskInv
  <2>7. Pinned'
    BY <2>1, <2>2, <1>f, <1>c, <1>p DEF GoesWith, NowIdle, NowAt, CallInv, Pinned, FilePoints, AfterKey
  <2>8. OneKey'
    BY <2>1, <2>2, <1>f, <1>c, <1>k, <1>y DEF GoesWith, NowIdle, NowAt, CallInv, OneKey, KeyInv, AfterKey
  <2>9. StoredOnce'
    BY <2>1, <2>2, <1>f, <1>c, <1>k, <1>o DEF GoesWith, NowIdle, NowAt, CallInv, StoredOnce, Unwritten,
       KeyInv, AfterKey
  <2>10. StoredDurable'
    BY <2>1, <2>2, <1>f, <1>c, <1>k, <1>s, <1>b DEF GoesWith, NowIdle, NowAt, CallInv, StoredDurable,
       SyncInv, KeyInv, AfterKey
  <2>11. DeletedIsGone'
    BY <2>1, <2>2, <1>f, <1>c, <1>s, <1>p, <1>g DEF GoesWith, NowIdle, NowAt, CallInv, DeletedIsGone,
       SyncInv, Pinned, FilePoints, AfterKey
  <2>12. \A q \in Procs : q # p => CallInv(q)'
    BY <2>1, <2>2, <1>c, OthersKeepCall DEF GoesWith, NowIdle, NowAt, AfterKey
  <2> QED
    BY <1>t, <2>12, <2>3, <2>4, <2>5, <2>6, <2>7, <2>8, <2>9, <2>10, <2>11 DEF StoreInv
<1>9. CASE publish_key(p)
  <2>1. Goes(p, "sync_key")
    BY <1>c, <1>t, <1>9, StepShapes
  <2>3. CallInv(p)'
    BY <2>1, <1>9, <1>c DEF Goes, NowAt, CallInv, publish_key, _atomic_publish
  <2>4. (\A q \in Procs : KeyInv(q))'
    BY <2>1, <1>9, <1>c, <1>k DEF Goes, NowAt, CallInv, KeyInv, publish_key, _atomic_publish
  <2>5. (\A q \in Procs : SyncInv(q))'
    BY <2>1, <1>9, <1>c, <1>k, <1>s, <1>o DEF Goes, NowAt, CallInv, SyncInv, StoredOnce,
       Unwritten, KeyInv, publish_key, _atomic_publish
  <2>6. DiskInv'
    <3>1. MarkerDisk'
      BY <2>1, <1>9, <1>c, <1>d DEF Goes, NowAt, DiskInv, MarkerDisk, publish_key, _atomic_publish
    <3>2. KeyDisk'
      BY <2>1, <1>9, <1>c, <1>d DEF Goes, NowAt, DiskInv, KeyDisk, publish_key, _atomic_publish
    <3>3. UnlinkDisk'
      BY <2>1, <1>9, <1>c, <1>k, <1>d DEF Goes, NowAt, DiskInv, UnlinkDisk, CallInv, KeyInv,
         publish_key, _atomic_publish
    <3> QED
      BY <3>1, <3>2, <3>3 DEF DiskInv
  <2>7. Pinned'
    BY <2>1, <1>9, <1>c, <1>p DEF Goes, NowAt, CallInv, Pinned, FilePoints, publish_key,
       _atomic_publish
  <2>8. OneKey'
    BY <2>1, <1>9, <1>c, <1>k, <1>y DEF Goes, NowAt, CallInv, OneKey, KeyInv, publish_key,
       _atomic_publish
  <2>9. StoredOnce'
    BY <2>1, <1>9, <1>c, <1>k, <1>o DEF Goes, NowAt, CallInv, StoredOnce, Unwritten, KeyInv,
       publish_key, _atomic_publish
  <2>10. StoredDurable'
    BY <2>1, <1>9, <1>c, <1>k, <1>s, <1>b DEF Goes, NowAt, CallInv, StoredDurable, SyncInv,
       KeyInv, publish_key, _atomic_publish
  <2>11. DeletedIsGone'
    BY <2>1, <1>9, <1>c, <1>s, <1>p, <1>g DEF Goes, NowAt, CallInv, DeletedIsGone, SyncInv,
       Pinned, FilePoints, publish_key, _atomic_publish
  <2>12. \A q \in Procs : q # p => CallInv(q)'
    BY <2>1, <1>9, <1>c, OthersKeepCall DEF Goes, NowAt, publish_key, _atomic_publish
  <2> QED
    BY <1>t, <2>12, <2>3, <2>4, <2>5, <2>6, <2>7, <2>8, <2>9, <2>10, <2>11 DEF StoreInv
<1>10. CASE sync_key(p)
  <2>1. GoesWith(p, AfterKey(proc[p].call), key)
    BY <1>c, <1>t, <1>10, StepShapes
  <2>2. /\ proc[p].pc = "sync_key"
        /\ disk'.marker = disk.marker /\ disk'.key = key /\ disk'.file = disk.file
        /\ orphans' = orphans \ {"key"} /\ UNCHANGED <<entries, keys, faults, asked, done, excused>>
    BY <1>c, <1>f, <1>10 DEF CallInv, sync_key
  <2>3. CallInv(p)'
    BY <2>1, <2>2, <1>c DEF GoesWith, NowAt, CallInv, AfterKey
  <2>4. (\A q \in Procs : KeyInv(q))'
    BY <2>1, <2>2, <1>c, <1>k DEF GoesWith, NowAt, CallInv, KeyInv, AfterKey
  <2>5. (\A q \in Procs : SyncInv(q))'
    BY <2>1, <2>2, <1>c, <1>k, <1>s, <1>o DEF GoesWith, NowAt, CallInv, SyncInv, StoredOnce,
       Unwritten, KeyInv, AfterKey
  <2>6. DiskInv'
    <3>1. MarkerDisk'
      BY <2>1, <2>2, <1>c, <1>d DEF GoesWith, NowAt, DiskInv, MarkerDisk, AfterKey
    <3>2. KeyDisk'
      BY <2>1, <2>2, <1>c, <1>d DEF GoesWith, NowAt, DiskInv, KeyDisk, AfterKey
    <3>3. UnlinkDisk'
      BY <2>1, <2>2, <1>c, <1>k, <1>d DEF GoesWith, NowAt, DiskInv, UnlinkDisk, CallInv,
         KeyInv, AfterKey
    <3> QED
      BY <3>1, <3>2, <3>3 DEF DiskInv
  <2>7. Pinned'
    BY <2>1, <2>2, <1>c, <1>p DEF GoesWith, NowAt, CallInv, Pinned, FilePoints, AfterKey
  <2>8. OneKey'
    BY <2>1, <2>2, <1>c, <1>k, <1>y DEF GoesWith, NowAt, CallInv, OneKey, KeyInv, AfterKey
  <2>9. StoredOnce'
    BY <2>1, <2>2, <1>c, <1>k, <1>o DEF GoesWith, NowAt, CallInv, StoredOnce, Unwritten,
       KeyInv, AfterKey
  <2>10. StoredDurable'
    BY <2>1, <2>2, <1>c, <1>k, <1>s, <1>b DEF GoesWith, NowAt, CallInv, StoredDurable,
       SyncInv, KeyInv, AfterKey
  <2>11. DeletedIsGone'
    BY <2>1, <2>2, <1>c, <1>s, <1>p, <1>g DEF GoesWith, NowAt, CallInv, DeletedIsGone,
       SyncInv, Pinned, FilePoints, AfterKey
  <2>12. \A q \in Procs : q # p => CallInv(q)'
    BY <2>1, <2>2, <1>c, OthersKeepCall DEF GoesWith, NowAt, AfterKey
  <2> QED
    BY <1>t, <2>12, <2>3, <2>4, <2>5, <2>6, <2>7, <2>8, <2>9, <2>10, <2>11 DEF StoreInv
<1>11. CASE _file_store(p)
  <2>1. Goes(p, "sync_file")
    BY <1>c, <1>t, <1>11, StepShapes
  <2>2. /\ proc[p].pc = "replace" /\ file'[proc[p].ref] = proc[p].key
        /\ \A r \in Refs : r # proc[p].ref => file'[r] = file[r]
        /\ done' = done \ {<<"delete", proc[p].ref>>}
        /\ UNCHANGED <<marker, key, ring, links, disk, keys, faults, asked, orphans, excused>>
    BY <1>c, <1>f, <1>11 DEF CallInv, _file_store, Written
  <2>3. CallInv(p)'
    BY <2>1, <2>2, <1>c DEF Goes, NowAt, CallInv
  <2>4. (\A q \in Procs : KeyInv(q))'
    BY <2>1, <2>2, <1>c, <1>k DEF Goes, NowAt, CallInv, KeyInv
  <2>5. (\A q \in Procs : SyncInv(q))'
    <3>1. \A q \in Procs : proc[q].pc = "sync_unlink" => proc[q].ref # proc[p].ref
      BY <2>2, <1>c, <1>o DEF CallInv, StoredOnce, Unwritten
    <3>2. SyncInv(p)'
      BY <2>1, <2>2, <1>c, <1>k DEF Goes, NowAt, CallInv, KeyInv, SyncInv
    <3>3. ASSUME NEW q \in Procs, q # p PROVE SyncInv(q)'
      <4>1. proc'[q] = proc[q]
        BY <2>1, <3>3 DEF Goes, NowAt
      <4>2. SyncInv(q) /\ (proc[q].pc \in {"sync_file", "sync_unlink"} => proc[q].ref \in Refs)
        BY <1>c, <1>s DEF CallInv
      <4>3. proc[p].key # 0
        BY <2>2, <1>k DEF KeyInv
      <4> QED
        BY <2>2, <3>1, <4>1, <4>2, <4>3 DEF SyncInv
    <3> QED
      BY <3>2, <3>3
  <2>6. DiskInv'
    <3>1. MarkerDisk'
      BY <2>1, <2>2, <1>c, <1>d DEF Goes, NowAt, DiskInv, MarkerDisk
    <3>2. KeyDisk'
      BY <2>1, <2>2, <1>c, <1>d DEF Goes, NowAt, DiskInv, KeyDisk
    <3>3. UnlinkDisk'
      BY <2>1, <2>2, <1>c, <1>k, <1>d DEF Goes, NowAt, DiskInv, UnlinkDisk, CallInv, KeyInv
    <3> QED
      BY <3>1, <3>2, <3>3 DEF DiskInv
  <2>7. Pinned'
    BY <2>1, <2>2, <1>c, <1>p DEF Goes, NowAt, CallInv, Pinned, FilePoints
  <2>8. OneKey'
    BY <2>1, <2>2, <1>c, <1>k, <1>y DEF Goes, NowAt, CallInv, OneKey, KeyInv
  <2>9. StoredOnce'
    <3>1. \A q \in Procs : proc[q].call = "store" /\ proc[q].ref = proc[p].ref => q = p
      BY <2>2, <1>c, <1>o DEF CallInv, StoredOnce
    <3>2. <<"store", proc[p].ref>> \in asked
      BY <2>2, <1>c DEF CallInv
    <3>3. ASSUME NEW r \in Refs, Unwritten(r)' PROVE r # proc[p].ref /\ Unwritten(r)
      BY <2>1, <2>2, <3>1, <3>2, <3>3 DEF Goes, NowAt, Unwritten
    <3>4. \A q, u \in Procs :
              (proc'[q].call = "store" /\ proc'[u].call = "store" /\ proc'[q].ref = proc'[u].ref)
                 => q = u
      BY <2>1, <1>o DEF Goes, NowAt, StoredOnce
    <3>5. \A q \in Procs : proc'[q].pc = "sync_unlink" =>
              proc[q].pc = "sync_unlink" /\ proc'[q].ref = proc[q].ref
      BY <2>1 DEF Goes, NowAt
    <3> QED
      BY <2>2, <3>3, <3>4, <3>5, <1>o DEF StoredOnce
  <2>10. StoredDurable'
    BY <2>1, <2>2, <1>c, <1>k, <1>s, <1>b DEF Goes, NowAt, CallInv, StoredDurable, SyncInv, KeyInv
  <2>11. DeletedIsGone'
    BY <2>1, <2>2, <1>c, <1>s, <1>p, <1>g DEF Goes, NowAt, CallInv, DeletedIsGone, SyncInv,
       Pinned, FilePoints
  <2>12. \A q \in Procs : q # p => CallInv(q)'
    BY <2>1, <2>2, <1>c, OthersKeepCall DEF Goes, NowAt
  <2> QED
    BY <1>t, <2>12, <2>3, <2>4, <2>5, <2>6, <2>7, <2>8, <2>9, <2>10, <2>11 DEF StoreInv
<1>12. CASE _fsync_dir(p)
  <2>1. NowIdle(p)
    BY <1>c, <1>t, <1>12, StepShapes
  <2>2. /\ proc[p].pc \in {"sync_file", "sync_unlink"}
        /\ disk'.marker = disk.marker /\ disk'.key = disk.key /\ disk'.file = file
        /\ orphans' = orphans \ Refs /\ done' = done \cup {<<proc[p].call, proc[p].ref>>}
        /\ UNCHANGED <<entries, keys, faults, asked, excused>>
    BY <1>c, <1>f, <1>12 DEF CallInv, _fsync_dir, Return
  <2>3. CallInv(p)'
    BY <2>1, <2>2, <1>c DEF NowIdle, NowAt, CallInv
  <2>4. (\A q \in Procs : KeyInv(q))'
    BY <2>1, <2>2, <1>c, <1>k DEF NowIdle, NowAt, CallInv, KeyInv
  <2>5. (\A q \in Procs : SyncInv(q))'
    BY <2>1, <2>2, <1>c, <1>k, <1>s, <1>o DEF NowIdle, NowAt, CallInv, SyncInv, StoredOnce,
       Unwritten, KeyInv
  <2>6. DiskInv'
    <3>1. MarkerDisk'
      BY <2>1, <2>2, <1>c, <1>d DEF NowIdle, NowAt, DiskInv, MarkerDisk
    <3>2. KeyDisk'
      BY <2>1, <2>2, <1>c, <1>d DEF NowIdle, NowAt, DiskInv, KeyDisk
    <3>3. UnlinkDisk'
      BY <2>1, <2>2, <1>c, <1>k, <1>d DEF NowIdle, NowAt, DiskInv, UnlinkDisk, CallInv, KeyInv
    <3> QED
      BY <3>1, <3>2, <3>3 DEF DiskInv
  <2>7. Pinned'
    BY <2>1, <2>2, <1>c, <1>p DEF NowIdle, NowAt, CallInv, Pinned, FilePoints
  <2>8. OneKey'
    BY <2>1, <2>2, <1>c, <1>k, <1>y DEF NowIdle, NowAt, CallInv, OneKey, KeyInv
  <2>9. StoredOnce'
    BY <2>1, <2>2, <1>c, <1>k, <1>o DEF NowIdle, NowAt, CallInv, StoredOnce, Unwritten, KeyInv
  <2>10. StoredDurable'
    BY <2>1, <2>2, <1>c, <1>k, <1>s, <1>b DEF NowIdle, NowAt, CallInv, StoredDurable, SyncInv,
       KeyInv
  <2>11. DeletedIsGone'
    BY <2>1, <2>2, <1>c, <1>s, <1>p, <1>g DEF NowIdle, NowAt, CallInv, DeletedIsGone, SyncInv,
       Pinned, FilePoints
  <2>12. \A q \in Procs : q # p => CallInv(q)'
    BY <2>1, <2>2, <1>c, OthersKeepCall DEF NowIdle, NowAt
  <2> QED
    BY <1>t, <2>12, <2>3, <2>4, <2>5, <2>6, <2>7, <2>8, <2>9, <2>10, <2>11 DEF StoreInv
<1>13. CASE _file_resolve(p)
  <2>1. NowIdle(p) \/ (proc[p].pc = "open" /\ Goes(p, "key"))
    BY <1>c, <1>t, <1>13, StepShapes
  <2>2. proc[p].pc \in {"open", "decrypt"} /\ UNCHANGED <<entries, disk, keys, faults, history>>
    BY <1>c, <1>f, <1>13 DEF CallInv, _file_resolve
  <2>3. CallInv(p)'
    BY <2>1, <2>2, <1>c DEF NowIdle, Goes, NowAt, CallInv
  <2>4. (\A q \in Procs : KeyInv(q))'
    BY <2>1, <2>2, <1>c, <1>k DEF NowIdle, Goes, NowAt, CallInv, KeyInv
  <2>5. (\A q \in Procs : SyncInv(q))'
    BY <2>1, <2>2, <1>c, <1>k, <1>s, <1>o DEF NowIdle, Goes, NowAt, CallInv, SyncInv,
       StoredOnce, Unwritten, KeyInv
  <2>6. DiskInv'
    <3>1. MarkerDisk'
      BY <2>1, <2>2, <1>c, <1>d DEF NowIdle, Goes, NowAt, DiskInv, MarkerDisk
    <3>2. KeyDisk'
      BY <2>1, <2>2, <1>c, <1>d DEF NowIdle, Goes, NowAt, DiskInv, KeyDisk
    <3>3. UnlinkDisk'
      BY <2>1, <2>2, <1>c, <1>k, <1>d DEF NowIdle, Goes, NowAt, DiskInv, UnlinkDisk, CallInv, KeyInv
    <3> QED
      BY <3>1, <3>2, <3>3 DEF DiskInv
  <2>7. Pinned'
    BY <2>1, <2>2, <1>c, <1>p DEF NowIdle, Goes, NowAt, CallInv, Pinned, FilePoints
  <2>8. OneKey'
    BY <2>1, <2>2, <1>c, <1>k, <1>y DEF NowIdle, Goes, NowAt, CallInv, OneKey, KeyInv
  <2>9. StoredOnce'
    BY <2>1, <2>2, <1>c, <1>k, <1>o DEF NowIdle, Goes, NowAt, CallInv, StoredOnce, Unwritten, KeyInv
  <2>10. StoredDurable'
    BY <2>1, <2>2, <1>c, <1>k, <1>s, <1>b DEF NowIdle, Goes, NowAt, CallInv, StoredDurable,
       SyncInv, KeyInv
  <2>11. DeletedIsGone'
    BY <2>1, <2>2, <1>c, <1>s, <1>p, <1>g DEF NowIdle, Goes, NowAt, CallInv, DeletedIsGone,
       SyncInv, Pinned, FilePoints
  <2>12. \A q \in Procs : q # p => CallInv(q)'
    BY <2>1, <2>2, <1>c, OthersKeepCall DEF NowIdle, Goes, NowAt
  <2> QED
    BY <1>t, <2>12, <2>3, <2>4, <2>5, <2>6, <2>7, <2>8, <2>9, <2>10, <2>11 DEF StoreInv
<1>14. CASE _file_delete(p)
  <2>1. \/ (proc[p].ref \in links \/ file[proc[p].ref] = 0) /\ NowIdle(p)
        \/ proc[p].ref \notin links /\ file[proc[p].ref] # 0 /\ Goes(p, "sync_unlink")
    BY <1>c, <1>t, <1>14, DeleteShape
  <2>2. /\ proc[p].pc = "unlink"
        /\ \A r \in Refs : r # proc[p].ref => file'[r] = file[r]
        /\ \/ file'[proc[p].ref] = file[proc[p].ref] /\ done' = done /\ proc[p].ref \in links
           \/ /\ file'[proc[p].ref] = 0 /\ file[proc[p].ref] = 0 /\ proc[p].ref \notin links
              /\ done' = done \cup {<<proc[p].call, proc[p].ref>>}
           \/ file'[proc[p].ref] = 0 /\ file[proc[p].ref] # 0 /\ done' = done /\ proc[p].ref \notin links
        /\ UNCHANGED <<marker, key, ring, links, disk, keys, faults, asked, orphans, excused>>
    BY <1>c, <1>f, <1>14 DEF CallInv, _file_delete, Return
  <2>3. CallInv(p)'
    BY <2>1, <2>2, <1>c DEF NowIdle, Goes, NowAt, CallInv
  <2>4. (\A q \in Procs : KeyInv(q))'
    BY <2>1, <2>2, <1>c, <1>k DEF NowIdle, Goes, NowAt, CallInv, KeyInv
  <2>5. (\A q \in Procs : SyncInv(q))'
    <3>1. <<"delete", proc[p].ref>> \in asked /\ proc[p].ref \in Refs
      BY <2>2, <1>c DEF CallInv
    <3>2. SyncInv(p)'
      BY <2>1, <2>2, <3>1 DEF NowIdle, Goes, NowAt, SyncInv
    <3>3. ASSUME NEW q \in Procs, q # p PROVE SyncInv(q)'
      <4>1. proc'[q] = proc[q]
        BY <2>1, <3>3 DEF NowIdle, Goes, NowAt
      <4>2. SyncInv(q) /\ (proc[q].pc \in {"sync_file", "sync_unlink"} => proc[q].ref \in Refs)
        BY <1>c, <1>s DEF CallInv
      <4> QED
        BY <2>2, <3>1, <4>1, <4>2 DEF SyncInv
    <3> QED
      BY <3>2, <3>3
  <2>6. DiskInv'
    <3>1. MarkerDisk'
      BY <2>1, <2>2, <1>c, <1>d DEF NowIdle, Goes, NowAt, DiskInv, MarkerDisk
    <3>2. KeyDisk'
      BY <2>1, <2>2, <1>c, <1>d DEF NowIdle, Goes, NowAt, DiskInv, KeyDisk
    <3>3. UnlinkDisk'
      BY <2>1, <2>2, <1>c, <1>k, <1>d DEF NowIdle, Goes, NowAt, DiskInv, UnlinkDisk, CallInv, KeyInv
    <3> QED
      BY <3>1, <3>2, <3>3 DEF DiskInv
  <2>7. Pinned'
    BY <2>1, <2>2, <1>c, <1>p DEF NowIdle, Goes, NowAt, CallInv, Pinned, FilePoints
  <2>8. OneKey'
    BY <2>1, <2>2, <1>c, <1>k, <1>y DEF NowIdle, Goes, NowAt, CallInv, OneKey, KeyInv
  <2>9. StoredOnce'
    BY <2>1, <2>2, <1>c, <1>k, <1>o DEF NowIdle, Goes, NowAt, CallInv, StoredOnce, Unwritten, KeyInv
  <2>10. StoredDurable'
    <3>1. <<"delete", proc[p].ref>> \in asked /\ proc[p].call = "delete"
      BY <2>2, <1>c DEF CallInv
    <3>2. ASSUME NEW r \in Refs, <<"store", r>> \in done', <<"delete", r>> \notin asked
          PROVE  r # proc[p].ref /\ <<"store", r>> \in done /\ file'[r] = file[r]
      BY <2>2, <3>1, <3>2
    <3> QED
      BY <2>2, <3>2, <1>b DEF StoredDurable
  <2>11. DeletedIsGone'
    BY <2>1, <2>2, <1>c, <1>s, <1>p, <1>g DEF NowIdle, Goes, NowAt, CallInv, DeletedIsGone,
       SyncInv, Pinned, FilePoints
  <2>12. \A q \in Procs : q # p => CallInv(q)'
    BY <2>1, <2>2, <1>c, OthersKeepCall DEF NowIdle, Goes, NowAt
  <2> QED
    BY <1>t, <2>12, <2>3, <2>4, <2>5, <2>6, <2>7, <2>8, <2>9, <2>10, <2>11 DEF StoreInv
<1>15. CASE raise(p)
  <2>1. NowIdle(p)
    BY <1>c, <1>t, <1>15, StepShapes
  <2>2. /\ proc[p].pc \notin {"down", "idle"} /\ orphans' = orphans \cup Open(p)
        /\ UNCHANGED <<entries, disk, keys, asked, done, excused>>
    BY <1>c, <1>f, <1>15 DEF CallInv, raise
  <2>3. CallInv(p)'
    BY <2>1, <2>2, <1>c DEF NowIdle, NowAt, CallInv, Open
  <2>4. (\A q \in Procs : KeyInv(q))'
    BY <2>1, <2>2, <1>c, <1>k DEF NowIdle, NowAt, CallInv, KeyInv, Open
  <2>5. (\A q \in Procs : SyncInv(q))'
    BY <2>1, <2>2, <1>c, <1>k, <1>s, <1>o DEF NowIdle, NowAt, CallInv, SyncInv, StoredOnce,
       Unwritten, KeyInv, Open
  <2>6. DiskInv'
    <3>1. MarkerDisk'
      BY <2>1, <2>2, <1>c, <1>d DEF NowIdle, NowAt, DiskInv, MarkerDisk, Open
    <3>2. KeyDisk'
      BY <2>1, <2>2, <1>c, <1>d DEF NowIdle, NowAt, DiskInv, KeyDisk, Open
    <3>3. UnlinkDisk'
      BY <2>1, <2>2, <1>c, <1>k, <1>d DEF NowIdle, NowAt, DiskInv, UnlinkDisk, CallInv, KeyInv, Open
    <3> QED
      BY <3>1, <3>2, <3>3 DEF DiskInv
  <2>7. Pinned'
    BY <2>1, <2>2, <1>c, <1>p DEF NowIdle, NowAt, CallInv, Pinned, FilePoints, Open
  <2>8. OneKey'
    BY <2>1, <2>2, <1>c, <1>k, <1>y DEF NowIdle, NowAt, CallInv, OneKey, KeyInv, Open
  <2>9. StoredOnce'
    BY <2>1, <2>2, <1>c, <1>k, <1>o DEF NowIdle, NowAt, CallInv, StoredOnce, Unwritten, KeyInv, Open
  <2>10. StoredDurable'
    BY <2>1, <2>2, <1>c, <1>k, <1>s, <1>b DEF NowIdle, NowAt, CallInv, StoredDurable, SyncInv,
       KeyInv, Open
  <2>11. DeletedIsGone'
    BY <2>1, <2>2, <1>c, <1>s, <1>p, <1>g DEF NowIdle, NowAt, CallInv, DeletedIsGone, SyncInv,
       Pinned, FilePoints, Open
  <2>12. \A q \in Procs : q # p => CallInv(q)'
    BY <2>1, <2>2, <1>c, OthersKeepCall DEF NowIdle, NowAt, Open
  <2> QED
    BY <1>t, <2>12, <2>3, <2>4, <2>5, <2>6, <2>7, <2>8, <2>9, <2>10, <2>11 DEF StoreInv
<1>16. CASE die(p)
  <2>1. NowAt(p, "down", None, None, None, 0)
    BY <1>c, <1>t, <1>16, StepShapes
  <2>2. /\ proc[p].pc # "down" /\ orphans' = orphans \cup Open(p)
        /\ UNCHANGED <<entries, disk, keys, asked, done, excused>>
    BY <1>c, <1>f, <1>16 DEF CallInv, die
  <2>3. CallInv(p)'
    BY <2>1, <2>2, <1>c DEF NowAt, CallInv, Open
  <2>4. (\A q \in Procs : KeyInv(q))'
    BY <2>1, <2>2, <1>c, <1>k DEF NowAt, CallInv, KeyInv, Open
  <2>5. (\A q \in Procs : SyncInv(q))'
    BY <2>1, <2>2, <1>c, <1>k, <1>s, <1>o DEF NowAt, CallInv, SyncInv, StoredOnce, Unwritten,
       KeyInv, Open
  <2>6. DiskInv'
    <3>1. MarkerDisk'
      BY <2>1, <2>2, <1>c, <1>d DEF NowAt, DiskInv, MarkerDisk, Open
    <3>2. KeyDisk'
      BY <2>1, <2>2, <1>c, <1>d DEF NowAt, DiskInv, KeyDisk, Open
    <3>3. UnlinkDisk'
      BY <2>1, <2>2, <1>c, <1>k, <1>d DEF NowAt, DiskInv, UnlinkDisk, CallInv, KeyInv, Open
    <3> QED
      BY <3>1, <3>2, <3>3 DEF DiskInv
  <2>7. Pinned'
    BY <2>1, <2>2, <1>c, <1>p DEF NowAt, CallInv, Pinned, FilePoints, Open
  <2>8. OneKey'
    BY <2>1, <2>2, <1>c, <1>k, <1>y DEF NowAt, CallInv, OneKey, KeyInv, Open
  <2>9. StoredOnce'
    BY <2>1, <2>2, <1>c, <1>k, <1>o DEF NowAt, CallInv, StoredOnce, Unwritten, KeyInv, Open
  <2>10. StoredDurable'
    BY <2>1, <2>2, <1>c, <1>k, <1>s, <1>b DEF NowAt, CallInv, StoredDurable, SyncInv, KeyInv, Open
  <2>11. DeletedIsGone'
    BY <2>1, <2>2, <1>c, <1>s, <1>p, <1>g DEF NowAt, CallInv, DeletedIsGone, SyncInv, Pinned,
       FilePoints, Open
  <2>12. \A q \in Procs : q # p => CallInv(q)'
    BY <2>1, <2>2, <1>c, OthersKeepCall DEF NowAt, Open
  <2> QED
    BY <1>t, <2>12, <2>3, <2>4, <2>5, <2>6, <2>7, <2>8, <2>9, <2>10, <2>11 DEF StoreInv
<1> QED
  BY <1>1, <1>2, <1>3, <1>4, <1>5, <1>6, <1>7, <1>8, <1>9, <1>10, <1>11, <1>12, <1>13, <1>14,
     <1>15, <1>16 DEF StoreStep

\* Moving a file and linking to it keeps the invariant.
LEMMA RedirectInv ==
    ASSUME StoreConstantsOK, StoreInv, NEW r \in Refs, redirect(r)
    PROVE  StoreInv'
<1>1. /\ file[r] # 0 /\ links' = links \cup {r} /\ faults' = faults + 1 /\ faults < MaxFaults
      /\ UNCHANGED <<marker, key, file, ring, disk, proc, keys, asked, done, orphans, excused, lost>>
      /\ UNCHANGED <<prepared, dirs, durable>>
  BY DEF redirect, Fault, history, tree
<1>2. StoreTypeOK'
  BY <1>1 DEF StoreConstantsOK, StoreInv, StoreTypeOK
<1>3. (\A q \in Procs : CallInv(q))' /\ (\A q \in Procs : KeyInv(q))'
  BY <1>1 DEF StoreInv, CallInv, KeyInv
<1>4. (\A q \in Procs : SyncInv(q))'
  BY <1>1 DEF StoreInv, SyncInv
<1>5. DiskInv' /\ OneKey'
  BY <1>1 DEF StoreInv, DiskInv, MarkerDisk, KeyDisk, UnlinkDisk, OneKey
<1>6. Pinned' /\ DeletedIsGone'
  BY <1>1 DEF StoreInv, Pinned, FilePoints, DeletedIsGone
<1>7. StoredOnce' /\ StoredDurable'
  BY <1>1 DEF StoreInv, StoredOnce, Unwritten, StoredDurable
<1> QED
  BY <1>2, <1>3, <1>4, <1>5, <1>6, <1>7 DEF StoreInv

\* What is not fsynced is a change of marker, key or file.
LEMMA UnsyncedAreChanges ==
    ASSUME StoreInv PROVE orphans \cup UNION {Open(p) : p \in Procs} \subseteq Changes
<1>1. ASSUME NEW p \in Procs PROVE Open(p) \subseteq Changes
  BY DEF StoreInv, CallInv, Open, Changes
<1>2. orphans \subseteq Changes
  BY DEF StoreInv, StoreTypeOK
<1> QED
  BY <1>1, <1>2

\* A power failure keeps the invariant: what it takes back was not fsynced, and is
\* recorded.
LEMMA PowerFailureInv ==
    ASSUME StoreConstantsOK, StoreInv, power_failure
    PROVE  StoreInv'
<1> DEFINE unsynced == orphans \cup UNION {Open(p) : p \in Procs}
<1> DEFINE noFiles(gone) == gone \cap {"base", "secrets.d"} # {}
<1>1. PICK gone \in SUBSET (dirs \ durable) :
      /\ marker' \in IF "base" \in gone THEN {None} ELSE {marker, disk.marker}
      /\ key' \in IF gone \cap {"base", "keyring.d"} # {} THEN {0} ELSE {key, disk.key}
      /\ file' \in [Refs -> 0 .. MaxKeys]
      /\ \A r \in Refs : file'[r] \in IF noFiles(gone) THEN {0} ELSE {file[r], disk.file[r]}
      /\ links' = IF noFiles(gone) THEN {} ELSE links
      /\ excused' = excused \cup gone \cup
             {x \in unsynced : \/ x = "marker" /\ marker' # marker
                               \/ x = "key" /\ key' # key
                               \/ x \in Refs /\ file'[x] # file[x]}
      /\ lost' = lost \cup (IF noFiles(gone) THEN {r \in Refs : file[r] # 0} ELSE {})
      /\ disk' = [marker |-> marker', key |-> key', file |-> file']
      /\ proc' = [p \in Procs |-> Down] /\ orphans' = {}
      /\ faults' = faults + 1 /\ faults < MaxFaults
      /\ dirs' \subseteq dirs /\ durable' = dirs'
      /\ UNCHANGED <<prepared, ring, keys, asked, done>>
  BY DEF power_failure, Fault
<1>2. disk'.marker = marker' /\ disk'.key = key' /\ disk'.file = file'
  BY <1>1
<1>3. \A p \in Procs : /\ proc'[p].pc = "down" /\ proc'[p].call = None /\ proc'[p].ref = None
                       /\ proc'[p].key = 0 /\ proc'[p].backend = None
  BY <1>1 DEF Down, Without
<1>4. excused \subseteq excused' /\ gone \subseteq excused' /\ lost \subseteq lost' /\ links' \subseteq links
  BY <1>1
<1>5. ("marker" \in orphans \/ \E p \in Procs : proc[p].pc = "sync_marker") => "marker" \in unsynced
  BY DEF Open
<1>6. ("key" \in orphans \/ \E p \in Procs : proc[p].pc = "sync_key") => "key" \in unsynced
  BY DEF Open
<1>7. \A r \in Refs :
          (r \in orphans \/ \E p \in Procs : proc[p].pc = "sync_unlink" /\ proc[p].ref = r) =>
              r \in unsynced
  BY DEF Open
<1>u. unsynced \subseteq Changes
  BY UnsyncedAreChanges
<1> HIDE DEF unsynced
\* What a power failure takes back is excused, or lost with its directory.
<1>8. "marker" \notin excused' /\ "base" \notin excused' => marker' = marker
  BY <1>1, <1>4, <1>5 DEF StoreInv, DiskInv, MarkerDisk
<1>9. "key" \notin excused' /\ "keyring.d" \notin excused' =>
          key' = key \/ \A r \in Refs : file'[r] = 0
  BY <1>1, <1>4, <1>6 DEF StoreInv, DiskInv, KeyDisk
<1>10. \A r \in Refs : r \notin excused' /\ file[r] = 0 => file'[r] = 0
  BY <1>1, <1>7 DEF StoreInv, DiskInv, UnlinkDisk
<1>x. \A r \in Refs : file'[r] = 0 \/ file'[r] = file[r] \/ file'[r] = disk.file[r]
  BY <1>1
<1>l. \A r \in Refs : file[r] # 0 /\ disk.file[r] # 0 => file'[r] # 0 \/ r \in lost'
  BY <1>1
<1>11. StoreTypeOK'
  <2>1. file' \in [Refs -> 0 .. keys]
    BY <1>1, <1>x DEF StoreInv, StoreTypeOK, StoreConstantsOK
  <2>2. marker' \in Backends /\ key' \in 0 .. keys
    BY <1>1 DEF StoreInv, StoreTypeOK, Backends
  <2>3. disk' \in [marker : Backends, key : 0 .. keys, file : [Refs -> 0 .. keys]]
    BY <1>1, <2>1, <2>2
  <2>4. proc' \in [Procs -> [pc : Points, backend : Backends, call : Calls \cup {None},
                             ref : Refs \cup {None}, key : 0 .. keys]]
    BY <1>1 DEF StoreInv, StoreTypeOK, Down, Without, Points, Backends
  <2>6. excused' \subseteq Changes \cup Directories
    <3>1. dirs \subseteq Directories
      BY DEF StoreInv, StoreTypeOK
    <3> QED
      BY <1>1, <1>u, <3>1 DEF StoreInv, StoreTypeOK
  <2>7. links' \subseteq Refs
    BY <1>4 DEF StoreInv, StoreTypeOK
  <2> QED
    BY <1>1, <2>1, <2>2, <2>3, <2>4, <2>6, <2>7 DEF StoreInv, StoreTypeOK, StoreConstantsOK
<1>12. (\A q \in Procs : CallInv(q))' /\ (\A q \in Procs : KeyInv(q))' /\ (\A q \in Procs : SyncInv(q))'
  BY <1>3 DEF StoreConstantsOK, CallInv, KeyInv, SyncInv
<1>13. DiskInv'
  BY <1>2 DEF DiskInv, MarkerDisk, KeyDisk, UnlinkDisk
<1>14. Pinned'
  BY <1>1, <1>2, <1>3, <1>4, <1>8, <1>x DEF StoreInv, Pinned, FilePoints
<1>15. OneKey'
  BY <1>2, <1>3, <1>4, <1>9, <1>x DEF StoreInv, OneKey
<1>16. StoredOnce'
  <2>1. \A r \in Refs : Unwritten(r)' => Unwritten(r)
    BY <1>1, <1>3 DEF StoreConstantsOK, Unwritten
  <2> QED
    BY <1>2, <1>3, <1>x, <2>1 DEF StoreConstantsOK, StoreInv, StoredOnce
<1>17. StoredDurable'
  BY <1>1, <1>2, <1>4, <1>l DEF StoreInv, StoredDurable
<1>18. DeletedIsGone'
  BY <1>1, <1>4, <1>10 DEF StoreInv, DeletedIsGone
<1> QED
  BY <1>11, <1>12, <1>13, <1>14, <1>15, <1>16, <1>17, <1>18 DEF StoreInv

\* A power failure takes no directory that was there, and no file where both were.
LEMMA PowerFailureTree ==
    ASSUME StoreConstantsOK, StoreInv, TreeInv, power_failure
    PROVE  TreeInv'
<1> DEFINE unsynced == orphans \cup UNION {Open(p) : p \in Procs}
<1>1. PICK gone \in SUBSET (dirs \ durable) :
      /\ excused' \subseteq excused \cup gone \cup unsynced
      /\ gone \cap {"base", "secrets.d"} = {} => lost' = lost
      /\ dirs' = IF "base" \in gone THEN {} ELSE dirs \ gone
      /\ durable' = dirs' /\ prepared' = prepared
  BY DEF power_failure
<1>2. unsynced \subseteq Changes
  BY UnsyncedAreChanges
<1> HIDE DEF unsynced
<1>3. prepared \cap gone = {} /\ prepared \subseteq dirs /\ ("base" \in gone => prepared = {})
  BY DEF TreeInv, Directories
<1>4. prepared \subseteq Directories /\ Changes \cap Directories = {}
  BY DEF TreeInv, StoreConstantsOK, Changes, Directories
<1>5. prepared' \subseteq durable' /\ durable' \subseteq dirs'
  BY <1>1, <1>3
<1>6. excused' \cap prepared' = {}
  BY <1>1, <1>2, <1>3, <1>4 DEF TreeInv, PreparedIsKept
<1>7. {"base", "secrets.d"} \subseteq prepared' => lost' = {}
  BY <1>1, <1>3 DEF TreeInv, PreparedIsKept
<1> QED
  BY <1>1, <1>5, <1>6, <1>7 DEF TreeInv, PreparedIsKept

LEMMA TreeStep ==
    ASSUME StoreConstantsOK, StoreInv, TreeInv, [StoreNext]_storeVars
    PROVE  TreeInv'
<1>1. ASSUME NEW p \in Procs, StoreStep(p) PROVE TreeInv'
  BY <1>1, TreeMoves DEF TreeInv, PreparedIsKept
<1>2. ASSUME NEW r \in Refs, redirect(r) PROVE TreeInv'
  BY <1>2 DEF redirect, tree, history, TreeInv, PreparedIsKept
<1>3. CASE UNCHANGED storeVars
  BY <1>3 DEF storeVars, tree, history, TreeInv, PreparedIsKept
<1> QED
  BY <1>1, <1>2, <1>3, PowerFailureTree DEF StoreNext

LEMMA StoreStutterInv ==
    ASSUME StoreInv, UNCHANGED storeVars
    PROVE  StoreInv'
BY DEF StoreInv, storeVars, entries, tree, history, StoreTypeOK, CallInv, KeyInv, SyncInv, DiskInv,
   MarkerDisk, KeyDisk, UnlinkDisk,
   Pinned, OneKey, StoredOnce, Unwritten, StoredDurable, DeletedIsGone

(* For any number of processes, refs, keys and faults: all material is in   *)
(* the pinned backend under one key, what store returned from stays until   *)
(* it is deleted and what delete returned from is gone, whatever processes  *)
(* do between any two system calls and wherever calls, processes and power  *)
(* fail, but for the changes that excused and lost record: those that      *)
(* nobody fsynced and those that went with a directory the store made.      *)
(* Nothing is lost in directories that were there before                    *)
(* (local_secret_store.py).                                                 *)
THEOREM StoreSafety == StoreConstantsOK => (StoreSpec => []MaterialKept)
<1> SUFFICES ASSUME StoreConstantsOK PROVE StoreSpec => []MaterialKept
  OBVIOUS
<1>1. StoreInit => StoreInv /\ TreeInv
  BY StoreInitInv DEF StoreInit, TreeInv, PreparedIsKept
<1>2. StoreInv /\ TreeInv /\ [StoreNext]_storeVars => StoreInv' /\ TreeInv'
  BY StoreStepInv, RedirectInv, PowerFailureInv, StoreStutterInv, TreeStep DEF StoreNext
<1>3. StoreInv /\ TreeInv => MaterialKept
  BY DEF StoreInv, TreeInv, MaterialKept, Pinned, OneKey, OneBackendOneKey, StoredDurable, StoredStays
<1> QED
  BY <1>1, <1>2, <1>3, PTL DEF StoreSpec
=============================================================================
