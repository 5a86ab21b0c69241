-------------------------- MODULE ApprovalFlow_proofs --------------------------
(***************************************************************************)
(* Proofs for ApprovalFlow: any number of sessions, actors, action classes *)
(* and approvals.                                                          *)
(*                                                                         *)
(* A session decides by the row it has loaded, which others may have       *)
(* changed since.  What carries the proofs is how a row may differ from    *)
(* one that was loaded earlier (Same), and that every step keeps to it.    *)
(***************************************************************************)
EXTENDS ApprovalFlow, SequenceTheorems, FiniteSetTheorems, TLAPS

\* b is a later state of the row a: the request is the same, and once it is no longer
\* pending it can only be invalidated.
Same(a, b) ==
    /\ a.action = b.action /\ a.ref = b.ref /\ a.requester = b.requester
    /\ a.artifact = b.artifact /\ a.policy = b.policy /\ a.replaces = b.replaces
    /\ a.status # "pending" => b.status \in {a.status, "invalidated"} /\ b.decider = a.decider

SameRevision(a, b) == a.approval = b.approval /\ a.by = b.by

\* What holds of every row: a decision is independent of the request, a promotion's
\* artifact was computed from one state of the claims.
Good(r) ==
    /\ r.decider # r.requester
    /\ r.status \in {"approved", "rejected"} =>
          /\ r.decider \in Actors
          /\ r.action \in {"merge", "deploy"} => EffectiveHuman[r.decider] # EffectiveHuman[r.requester]
    /\ r.status = "pending" => r.decider = None
    /\ r.ref = "research" => r.artifact.summary = r.artifact.evidence

RowsGood == \A i \in 1..Len(appr) : Good(appr[i])

Loaded == {"approve", "decide_approve", "decide_reject", "revise", "fetch", "hash"}

\* A session that has loaded an approval has an earlier state of an existing row.
HasRow(x) ==
    sess[x].pc \in Loaded =>
        /\ sess[x].i \in 1..Len(appr) /\ sess[x].seen \in Rows /\ sess[x].actor \in Actors
        /\ Same(sess[x].seen, appr[sess[x].i])

HasRevision(x) ==
    sess[x].pc = "handoff" =>
        /\ sess[x].i \in 1..Len(rev) /\ sess[x].seen \in Revisions
        /\ SameRevision(sess[x].seen, rev[sess[x].i])

\* A session about to insert a ticket has found the approval in order.
HasBinding(x) ==
    /\ sess[x].pc = "hash" => sess[x].fetched \in 0..MaxVersion
    /\ sess[x].pc = "insert" =>
        /\ sess[x].i \in 1..Len(appr) /\ sess[x].seen \in Bindings
        /\ Same(sess[x].seen.row, appr[sess[x].i])
        /\ sess[x].seen.row.status = "approved" /\ sess[x].seen.row.ref = "research"
        /\ sess[x].seen.row.decider \in Humans
        /\ sess[x].seen.row.artifact = sess[x].seen.artifact
        /\ sess[x].seen.row.policy = sess[x].seen.policy

\* A session about to approve work on a ticket holds the project's row.
HasLock(x) ==
    sess[x].pc = "decide_approve" /\ sess[x].seen.ref = "ticket" => lock = x /\ TicketActionable

SessionGood(x) == HasRow(x) /\ HasRevision(x) /\ HasBinding(x) /\ HasLock(x)

\* Revision requests: what they are about is invalidated, and those answered are answered
\* by an approval of their own.
RevisionGood(r) ==
    /\ rev[r].approval \in 1..Len(appr) /\ appr[rev[r].approval].status = "invalidated"
    /\ rev[r].superseded_by # 0 =>
          /\ rev[r].superseded_by \in 1..Len(appr)
          /\ appr[rev[r].superseded_by].replaces = rev[r].approval

RevisionsGood ==
    /\ \A r \in 1..Len(rev) : RevisionGood(r)
    /\ \A r, q \in 1..Len(rev) :
          rev[r].superseded_by # 0 /\ rev[r].superseded_by = rev[q].superseded_by => r = q
    /\ \A i \in 1..Len(appr) : appr[i].replaces # 0 =>
          \E r \in 1..Len(rev) : rev[r].superseded_by = i

TicketGood(t) ==
    /\ t.approval \in 1..Len(appr)
    /\ appr[t.approval].artifact = t.artifact /\ appr[t.approval].policy = t.policy
    /\ appr[t.approval].ref = "research" /\ appr[t.approval].decider \in Humans
    /\ appr[t.approval].status \in {"approved", "invalidated"}

TicketsGood == Len(promoted) <= 1 /\ \A k \in 1..Len(promoted) : TicketGood(promoted[k])

Inv ==
    /\ TypeOK /\ RowsGood /\ RevisionsGood /\ TicketsGood
    /\ \A x \in Sessions : SessionGood(x)

-----------------------------------------------------------------------------

LEMMA InitInv == ConstantsOK /\ Init => Inv
<1> SUFFICES ASSUME ConstantsOK, Init PROVE Inv
  OBVIOUS
<1>1. TypeOK
  BY DEF ConstantsOK, Init, TypeOK, Idle, Records, Points, Found
<1>2. RowsGood /\ RevisionsGood /\ TicketsGood
  BY DEF Init, RowsGood, RevisionsGood, TicketsGood
<1>3. \A x \in Sessions : SessionGood(x)
  BY DEF Init, Idle, SessionGood, HasRow, HasRevision, HasBinding, HasLock, Loaded
<1> QED
  BY <1>1, <1>2, <1>3 DEF Inv

LEMMA SameTransitive == ASSUME NEW a, NEW b, NEW c, Same(a, b), Same(b, c) PROVE Same(a, c)
BY DEF Same

LEMMA SameReflexive == ASSUME NEW a PROVE Same(a, a)
BY DEF Same

\* What an UPDATE of one approval leaves.
LEMMA UpdateFields ==
    ASSUME appr \in Seq(Rows), NEW i \in 1..Len(appr), NEW st \in Statuses,
           NEW d \in Actors \cup {None}, Update(i, st, d)
    PROVE  /\ appr' \in Seq(Rows) /\ Len(appr') = Len(appr)
           /\ \A j \in 1..Len(appr) : j # i => appr'[j] = appr[j]
           /\ appr'[i].status = st /\ appr'[i].decider = d
           /\ appr'[i].action = appr[i].action /\ appr'[i].ref = appr[i].ref
           /\ appr'[i].requester = appr[i].requester /\ appr'[i].artifact = appr[i].artifact
           /\ appr'[i].policy = appr[i].policy /\ appr'[i].replaces = appr[i].replaces
<1> DEFINE e == [status |-> st, action |-> appr[i].action, ref |-> appr[i].ref,
                 requester |-> appr[i].requester, decider |-> d, artifact |-> appr[i].artifact,
                 policy |-> appr[i].policy, seq |-> appr[i].seq, replaces |-> appr[i].replaces]
<1>1. appr[i] \in Rows
  OBVIOUS
<1>2. e \in Rows
  BY <1>1 DEF Rows
<1>3. appr' = [appr EXCEPT ![i] = e]
  BY DEF Update
<1> HIDE DEF e
<1>4. /\ appr' \in Seq(Rows) /\ Len(appr') = Len(appr)
      /\ \A j \in 1..Len(appr) : appr'[j] = IF j = i THEN e ELSE appr[j]
  BY <1>2, <1>3, ExceptSeq
<1> QED
  BY <1>4 DEF e

LEMMA CreateFields ==
    ASSUME appr \in Seq(Rows), NEW row \in Rows, NEW to, create_pending_approval(row, to),
           MaxApprovals \in Nat
    PROVE  /\ appr' \in Seq(Rows) /\ Len(appr') = Len(appr) + 1 /\ Len(appr') <= MaxApprovals
           /\ \A j \in 1..Len(appr) : appr'[j] = appr[j]
           /\ appr'[Len(appr) + 1] = row
<1>1. appr' = Append(appr, row) /\ Len(appr) < MaxApprovals /\ Len(appr) \in Nat
  BY DEF create_pending_approval
<1> QED
  BY <1>1, AppendProperties

LEMMA RevisionFields ==
    ASSUME NEW v \in Revisions
    PROVE  v.approval \in Nat /\ v.by \in Actors /\ v.artifact \in Artifacts /\ v.seq \in Nat /\ v.seq + 1 \in Nat
BY DEF Revisions

\* Rows and revision requests only move on.
ApprovalsLater ==
    /\ appr' \in Seq(Rows) /\ Len(appr) <= Len(appr')
    /\ \A j \in 1..Len(appr) : Same(appr[j], appr'[j])

RevisionsLater ==
    /\ rev' \in Seq(Revisions) /\ Len(rev) <= Len(rev')
    /\ \A r \in 1..Len(rev) : SameRevision(rev[r], rev'[r])

LEMMA NoApprovalChange == ASSUME TypeOK, UNCHANGED appr PROVE ApprovalsLater
BY SameReflexive DEF ApprovalsLater, TypeOK

LEMMA NoRevisionChange == ASSUME TypeOK, UNCHANGED rev PROVE RevisionsLater
BY DEF RevisionsLater, TypeOK, SameRevision

LEMMA UpdateLater ==
    ASSUME TypeOK, NEW i \in 1..Len(appr), NEW st \in Statuses, NEW d \in Actors \cup {None},
           Update(i, st, d),
           appr[i].status = "pending" \/ (st = "invalidated" /\ d = appr[i].decider)
    PROVE  ApprovalsLater
<1>1. appr \in Seq(Rows)
  BY DEF TypeOK
<1>2. /\ appr' \in Seq(Rows) /\ Len(appr') = Len(appr)
      /\ \A j \in 1..Len(appr) : j # i => appr'[j] = appr[j]
      /\ Same(appr[i], appr'[i])
  BY <1>1, UpdateFields DEF Same
<1> QED
  BY <1>1, <1>2, SameReflexive DEF ApprovalsLater

LEMMA CreateLater ==
    ASSUME TypeOK, NEW row \in Rows, NEW to, create_pending_approval(row, to), MaxApprovals \in Nat
    PROVE  ApprovalsLater
BY CreateFields, SameReflexive DEF ApprovalsLater, TypeOK

\* A session stands as it did, whatever others do to rows that only move on, as long as
\* they respect its lock.
LEMMA Frame ==
    ASSUME TypeOK, NEW y \in Sessions, SessionGood(y), ApprovalsLater, RevisionsLater,
           sess'[y] = sess[y], lock = y => lock' = y /\ project' = project
    PROVE  SessionGood(y)'
<1>1. HasRow(y)'
  <2> SUFFICES ASSUME sess[y].pc \in Loaded PROVE HasRow(y)'
    BY DEF HasRow
  <2>1. /\ sess[y].i \in 1..Len(appr) /\ sess[y].seen \in Rows /\ sess[y].actor \in Actors
        /\ Same(sess[y].seen, appr[sess[y].i])
    BY DEF SessionGood, HasRow
  <2>2. sess[y].i \in 1..Len(appr') /\ Same(appr[sess[y].i], appr'[sess[y].i])
    BY <2>1 DEF ApprovalsLater, TypeOK
  <2>3. Same(sess[y].seen, appr'[sess[y].i])
    BY <2>1, <2>2, SameTransitive
  <2> QED
    BY <2>1, <2>2, <2>3 DEF HasRow
<1>2. HasRevision(y)'
  <2> SUFFICES ASSUME sess[y].pc = "handoff" PROVE HasRevision(y)'
    BY DEF HasRevision
  <2>1. /\ sess[y].i \in 1..Len(rev) /\ sess[y].seen \in Revisions
        /\ SameRevision(sess[y].seen, rev[sess[y].i])
    BY DEF SessionGood, HasRevision
  <2>2. sess[y].i \in 1..Len(rev') /\ SameRevision(rev[sess[y].i], rev'[sess[y].i])
    BY <2>1 DEF RevisionsLater, TypeOK
  <2> QED
    BY <2>1, <2>2 DEF HasRevision, SameRevision
<1>3. HasBinding(y)'
  <2>1. CASE sess[y].pc = "insert"
    <3>1. sess[y].i \in 1..Len(appr) /\ Same(sess[y].seen.row, appr[sess[y].i])
      BY <2>1 DEF SessionGood, HasBinding
    <3>2. sess[y].i \in 1..Len(appr') /\ Same(appr[sess[y].i], appr'[sess[y].i])
      BY <3>1 DEF ApprovalsLater, TypeOK
    <3>3. Same(sess[y].seen.row, appr'[sess[y].i])
      BY <3>1, <3>2, SameTransitive
    <3> QED
      BY <2>1, <3>2, <3>3 DEF SessionGood, HasBinding
  <2> QED
    BY <2>1 DEF SessionGood, HasBinding
<1>4. HasLock(y)'
  BY DEF SessionGood, HasLock, TicketActionable
<1> QED
  BY <1>1, <1>2, <1>3, <1>4 DEF SessionGood

LEMMA TicketsFrame ==
    ASSUME TypeOK, TicketsGood, ApprovalsLater, UNCHANGED promoted
    PROVE  TicketsGood'
<1> SUFFICES ASSUME NEW k \in 1..Len(promoted) PROVE TicketGood(promoted[k])'
  BY DEF TicketsGood
<1>1. TicketGood(promoted[k])
  BY DEF TicketsGood
<1>2. promoted[k].approval \in 1..Len(appr')
  BY <1>1 DEF TicketGood, ApprovalsLater, TypeOK
<1>3. Same(appr[promoted[k].approval], appr'[promoted[k].approval])
  BY <1>1 DEF TicketGood, ApprovalsLater
<1> QED
  BY <1>1, <1>2, <1>3 DEF TicketGood, Same

\* The rows of revision requests stay in order when none changes, unless an approval is
\* made that says it replaces another.
LEMMA RevisionsFrame ==
    ASSUME TypeOK, RevisionsGood, ApprovalsLater, UNCHANGED rev,
           \A j \in 1..Len(appr') : j \notin 1..Len(appr) => appr'[j].replaces = 0
    PROVE  RevisionsGood'
<1>1. ASSUME NEW r \in 1..Len(rev) PROVE RevisionGood(r)'
  <2>1. RevisionGood(r)
    BY DEF RevisionsGood
  <2>2. 1..Len(appr) \subseteq 1..Len(appr')
    BY DEF ApprovalsLater, TypeOK
  <2>3. Same(appr[rev[r].approval], appr'[rev[r].approval])
    BY <2>1 DEF RevisionGood, ApprovalsLater
  <2>4. rev[r].superseded_by # 0 => Same(appr[rev[r].superseded_by], appr'[rev[r].superseded_by])
    BY <2>1 DEF RevisionGood, ApprovalsLater
  <2> QED
    BY <2>1, <2>2, <2>3, <2>4 DEF RevisionGood, Same
<1>2. \A i \in 1..Len(appr') : appr'[i].replaces # 0 =>
         \E r \in 1..Len(rev) : rev[r].superseded_by = i
  BY DEF RevisionsGood, ApprovalsLater, Same
<1> QED
  BY <1>1, <1>2 DEF RevisionsGood

-----------------------------------------------------------------------------
(* What a step does to its session.                                        *)

LEMMA IdleGood ==
    ASSUME NEW x \in Sessions, sess'[x] = Idle
    PROVE  SessionGood(x)'
BY DEF Idle, SessionGood, HasRow, HasRevision, HasBinding, HasLock, Loaded

LEMMA EndFields ==
    ASSUME sess \in [Sessions -> Records], NEW x \in Sessions, End(x)
    PROVE  /\ sess' \in [Sessions -> Records] /\ sess'[x] = Idle
           /\ \A y \in Sessions \ {x} : sess'[y] = sess[y]
<1>1. Idle \in Records
  BY DEF Idle, Records, Points, Found
<1> QED
  BY <1>1 DEF End

LEMMA MoveFields ==
    ASSUME sess \in [Sessions -> Records], NEW x \in Sessions, NEW p \in Points, NEW v \in Found,
           NEW f \in (0..MaxVersion) \cup {None}, Move(x, p, v, f)
    PROVE  /\ sess' \in [Sessions -> Records]
           /\ sess'[x].pc = p /\ sess'[x].i = sess[x].i /\ sess'[x].actor = sess[x].actor
           /\ sess'[x].seen = v /\ sess'[x].fetched = f
           /\ \A y \in Sessions \ {x} : sess'[y] = sess[y]
BY DEF Records, Move

LEMMA StartFields ==
    ASSUME sess \in [Sessions -> Records], NEW x \in Sessions, NEW p \in Points, NEW i \in Nat,
           NEW a \in Actors \cup {None}, NEW v \in Found, Start(x, p, i, a, v)
    PROVE  /\ sess' \in [Sessions -> Records]
           /\ sess'[x].pc = p /\ sess'[x].i = i /\ sess'[x].actor = a /\ sess'[x].seen = v
           /\ \A y \in Sessions \ {x} : sess'[y] = sess[y]
BY DEF Records, Start

\* The other sessions stand.
LEMMA Others ==
    ASSUME Inv, ApprovalsLater, RevisionsLater, NEW x \in Sessions,
           \A y \in Sessions \ {x} : sess'[y] = sess[y] /\ (lock = y => lock' = y),
           UNCHANGED project
    PROVE  \A y \in Sessions \ {x} : SessionGood(y)'
BY Frame DEF Inv

LEMMA AllStand ==
    ASSUME Inv, ApprovalsLater, RevisionsLater, UNCHANGED <<sess, lock, project>>
    PROVE  \A y \in Sessions : SessionGood(y)'
BY Frame DEF Inv

\* The rows of approvals stay in order when one is invalidated.
LEMMA InvalidateGood ==
    ASSUME ConstantsOK, Inv, NEW i \in 1..Len(appr), Update(i, "invalidated", appr[i].decider)
    PROVE  /\ ApprovalsLater /\ RowsGood'
           /\ appr' \in Seq(Rows) /\ Len(appr') = Len(appr) /\ appr'[i].status = "invalidated"
<1>1. appr \in Seq(Rows) /\ appr[i] \in Rows
  BY DEF Inv, TypeOK
<1>2. appr[i].decider \in Actors \cup {None} /\ "invalidated" \in Statuses
  BY <1>1 DEF Rows, Statuses
<1>3. ApprovalsLater
  BY <1>2, UpdateLater DEF Inv
<1>4. /\ appr' \in Seq(Rows) /\ Len(appr') = Len(appr)
      /\ \A j \in 1..Len(appr) : j # i => appr'[j] = appr[j]
      /\ appr'[i].status = "invalidated" /\ appr'[i].decider = appr[i].decider
      /\ appr'[i].ref = appr[i].ref /\ appr'[i].requester = appr[i].requester
      /\ appr'[i].artifact = appr[i].artifact
  BY <1>1, <1>2, UpdateFields
<1>5. RowsGood'
  BY <1>4 DEF RowsGood, Good, Inv
<1> QED
  BY <1>3, <1>4, <1>5

\* Types of rows that are not pending name their deciders.
LEMMA RowsTyped ==
    ASSUME appr' \in Seq(Rows), RowsGood'
    PROVE  \A i \in 1..Len(appr') :
              /\ appr'[i].status \in {"approved", "rejected"} => appr'[i].decider \in Actors
              /\ appr'[i].status = "pending" => appr'[i].decider = None
BY DEF RowsGood, Good

-----------------------------------------------------------------------------
(* The steps.                                                              *)

LEMMA CreateStep ==
    ASSUME ConstantsOK, Inv, NEW row \in Rows, NEW to \in Actors, create_pending_approval(row, to),
           row.status = "pending", row.decider = None,
           row.ref = "research" => row.artifact.summary = row.artifact.evidence,
           row.replaces = 0,
           UNCHANGED <<rev, project, lock, claims, policy, promoted, sess>>
    PROVE  Inv'
<1>1. MaxApprovals \in Nat /\ TypeOK /\ appr \in Seq(Rows) /\ None \notin Actors
  BY DEF Inv, TypeOK, ConstantsOK
<1>2. ApprovalsLater /\ RevisionsLater
  BY <1>1, CreateLater, NoRevisionChange
<1>3. /\ appr' \in Seq(Rows) /\ Len(appr') = Len(appr) + 1 /\ Len(appr') <= MaxApprovals
      /\ \A j \in 1..Len(appr) : appr'[j] = appr[j]
      /\ appr'[Len(appr) + 1] = row
  BY <1>1, CreateFields
<1>4. RowsGood'
  <2>1. Good(row)
    BY <1>1 DEF Good, Rows
  <2>2. \A j \in 1..Len(appr') : j \in 1..Len(appr) \/ j = Len(appr) + 1
    BY <1>1, <1>3
  <2> QED
    BY <1>3, <2>1, <2>2 DEF RowsGood, Inv
<1>5. RevisionsGood'
  <2>1. \A j \in 1..Len(appr') : j \notin 1..Len(appr) => appr'[j].replaces = 0
    BY <1>1, <1>3
  <2> QED
    BY <1>1, <1>2, <2>1, RevisionsFrame DEF Inv
<1>6. TicketsGood' /\ \A y \in Sessions : SessionGood(y)'
  BY <1>1, <1>2, TicketsFrame, AllStand DEF Inv
<1>7. notes' \subseteq Notes
  <2>1. Len(appr) + 1 \in Nat /\ notes \subseteq Notes
    BY <1>1 DEF TypeOK
  <2> QED
    BY <2>1 DEF create_pending_approval, Notes
<1>8. TypeOK'
  BY <1>1, <1>3, <1>4, <1>7, RowsTyped DEF TypeOK
<1> QED
  BY <1>4, <1>5, <1>6, <1>8 DEF Inv

\* A step that changes a session and maybe the lock of the project's row.
LEMMA QuietStep ==
    ASSUME Inv, UNCHANGED <<appr, rev, notes, promoted, project, claims, policy>>,
           NEW x \in Sessions, sess' \in [Sessions -> Records], lock' \in Sessions \cup {None},
           \A y \in Sessions \ {x} : sess'[y] = sess[y] /\ (lock = y => lock' = y),
           SessionGood(x)'
    PROVE  Inv'
<1>1. TypeOK'
  BY DEF Inv, TypeOK
<1>2. ApprovalsLater /\ RevisionsLater
  BY NoApprovalChange, NoRevisionChange DEF Inv
<1>3. RowsGood' /\ RevisionsGood' /\ TicketsGood'
  BY DEF Inv, RowsGood, RevisionsGood, RevisionGood, TicketsGood, TicketGood
<1>4. \A y \in Sessions \ {x} : SessionGood(y)'
  BY <1>2, Others
<1> QED
  BY <1>1, <1>3, <1>4 DEF Inv

LEMMA LoadStep ==
    ASSUME Inv, NEW x \in Sessions, NEW i \in 1..Len(appr), NEW a \in Actors,
           NEW p \in {"approve", "decide_reject", "revise", "fetch"}, Load(x, p, i, a)
    PROVE  Inv'
<1>1. /\ sess \in [Sessions -> Records] /\ lock \in Sessions \cup {None} /\ appr[i] \in Rows /\ i \in Nat
      /\ appr \in Seq(Rows)
  BY DEF Inv, TypeOK
<1>2. p \in Points /\ appr[i] \in Found
  BY <1>1 DEF Points, Found
<1>3. /\ Start(x, p, i, a, appr[i])
      /\ UNCHANGED <<appr, rev, notes, project, lock, claims, policy, promoted>>
  BY DEF Load
<1>4. /\ sess' \in [Sessions -> Records]
      /\ sess'[x].pc = p /\ sess'[x].i = i /\ sess'[x].actor = a /\ sess'[x].seen = appr[i]
      /\ \A y \in Sessions \ {x} : sess'[y] = sess[y]
  BY <1>1, <1>2, <1>3, StartFields
<1>5. SessionGood(x)'
  BY <1>1, <1>3, <1>4, SameReflexive DEF SessionGood, HasRow, HasRevision, HasBinding, HasLock, Loaded
<1> QED
  BY <1>1, <1>3, <1>4, <1>5, QuietStep

LEMMA LoadRevisionStep ==
    ASSUME Inv, NEW x \in Sessions, NEW r \in 1..Len(rev), LoadRevision(x, r)
    PROVE  Inv'
<1>1. /\ sess \in [Sessions -> Records] /\ lock \in Sessions \cup {None} /\ rev[r] \in Revisions /\ r \in Nat
      /\ rev \in Seq(Revisions)
  BY DEF Inv, TypeOK
<1>2. "handoff" \in Points /\ rev[r] \in Found /\ None \in Actors \cup {None}
  BY <1>1 DEF Points, Found
<1>3. /\ Start(x, "handoff", r, None, rev[r])
      /\ UNCHANGED <<appr, rev, notes, project, lock, claims, policy, promoted>>
  BY DEF LoadRevision
<1>4. /\ sess' \in [Sessions -> Records]
      /\ sess'[x].pc = "handoff" /\ sess'[x].i = r /\ sess'[x].seen = rev[r]
      /\ \A y \in Sessions \ {x} : sess'[y] = sess[y]
  BY <1>1, <1>2, <1>3 DEF Start, Records
<1>5. SessionGood(x)'
  BY <1>1, <1>3, <1>4 DEF SessionGood, HasRow, HasRevision, HasBinding, HasLock, Loaded, SameRevision
<1> QED
  BY <1>1, <1>3, <1>4, <1>5, QuietStep

LEMMA LockStep ==
    ASSUME ConstantsOK, Inv, NEW x \in Sessions, assert_approval_target_actionable_locked(x)
    PROVE  Inv'
<1>1. /\ sess \in [Sessions -> Records] /\ lock \in Sessions \cup {None} /\ None \notin Sessions
      /\ sess[x].seen \in Rows
      /\ UNCHANGED <<appr, rev, notes, project, claims, policy, promoted>> /\ sess[x].pc = "approve"
      /\ SessionGood(x)
  BY DEF Inv, TypeOK, ConstantsOK, SessionGood, HasRow, Loaded, assert_approval_target_actionable_locked
<1>2. "decide_approve" \in Points /\ sess[x].seen \in Found /\ None \in (0..MaxVersion) \cup {None}
  BY <1>1 DEF Points, Found
<1>3. ASSUME Move(x, "decide_approve", sess[x].seen, None), lock' \in {lock, x},
             sess[x].seen.ref # "ticket" \/ (lock' = x /\ TicketActionable), lock' = lock \/ lock = None
      PROVE  Inv'
  <2>1. /\ sess' \in [Sessions -> Records]
        /\ sess'[x].pc = "decide_approve" /\ sess'[x].i = sess[x].i /\ sess'[x].actor = sess[x].actor
        /\ sess'[x].seen = sess[x].seen
        /\ \A y \in Sessions \ {x} : sess'[y] = sess[y]
    BY <1>1, <1>2, <1>3 DEF Move, Records
  <2>2. SessionGood(x)'
    BY <1>1, <1>3, <2>1 DEF SessionGood, HasRow, HasRevision, HasBinding, HasLock, Loaded, TicketActionable
  <2> QED
    BY <1>1, <1>3, <2>1, <2>2, QuietStep
<1>4. ASSUME End(x), UNCHANGED lock PROVE Inv'
  BY <1>1, <1>4, EndFields, IdleGood, QuietStep
<1> QED
  BY <1>1, <1>3, <1>4 DEF assert_approval_target_actionable_locked

LEMMA FetchStep ==
    ASSUME Inv, NEW x \in Sessions, _fetch_research_bundle(x)
    PROVE  Inv'
<1>1. /\ sess \in [Sessions -> Records] /\ lock \in Sessions \cup {None} /\ claims \in 0..MaxVersion
      /\ sess[x].seen \in Rows /\ Move(x, "hash", sess[x].seen, claims)
      /\ UNCHANGED <<appr, rev, notes, project, lock, claims, policy, promoted>> /\ sess[x].pc = "fetch"
      /\ SessionGood(x)
  BY DEF Inv, TypeOK, SessionGood, HasRow, Loaded, _fetch_research_bundle
<1>2. "hash" \in Points /\ sess[x].seen \in Found
  BY <1>1 DEF Points, Found
<1>3. /\ sess' \in [Sessions -> Records]
      /\ sess'[x].pc = "hash" /\ sess'[x].i = sess[x].i /\ sess'[x].actor = sess[x].actor
      /\ sess'[x].seen = sess[x].seen /\ sess'[x].fetched = claims
      /\ \A y \in Sessions \ {x} : sess'[y] = sess[y]
  BY <1>1, <1>2, MoveFields
<1>4. SessionGood(x)'
  BY <1>1, <1>3 DEF SessionGood, HasRow, HasRevision, HasBinding, HasLock, Loaded
<1> QED
  BY <1>1, <1>3, <1>4, QuietStep

\* A step that changes one approval's row, ends its session and gives back its lock.
LEMMA RowStep ==
    ASSUME ConstantsOK, Inv, NEW x \in Sessions, End(x), lock' = lock \/ Unlock(x),
           ApprovalsLater, Len(appr') = Len(appr), RowsGood',
           UNCHANGED <<rev, project, claims, policy, promoted>>, notes' \subseteq Notes
    PROVE  Inv'
<1>1. sess \in [Sessions -> Records] /\ lock \in Sessions \cup {None} /\ TypeOK /\ RevisionsLater
  BY NoRevisionChange DEF Inv, TypeOK
<1>2. /\ sess' \in [Sessions -> Records] /\ sess'[x] = Idle
      /\ \A y \in Sessions \ {x} : sess'[y] = sess[y]
  BY <1>1, EndFields
<1>3. /\ lock' \in Sessions \cup {None}
      /\ \A y \in Sessions \ {x} : lock = y => lock' = y
  BY <1>1 DEF Unlock
<1>4. \A y \in Sessions : SessionGood(y)'
  BY <1>1, <1>2, <1>3, Others, IdleGood
<1>5. RevisionsGood' /\ TicketsGood'
  BY <1>1, RevisionsFrame, TicketsFrame DEF Inv
<1>6. TypeOK'
  BY <1>1, <1>2, <1>3, RowsTyped DEF TypeOK, ApprovalsLater
<1> QED
  BY <1>4, <1>5, <1>6 DEF Inv

LEMMA DecideStep ==
    ASSUME ConstantsOK, Inv, NEW x \in Sessions, NEW st \in {"approved", "rejected"},
           sess[x].pc \in {"decide_approve", "decide_reject"}, _decide(x, st)
    PROVE  Inv'
<1> DEFINE i == sess[x].i
           a == sess[x].actor
           ok == /\ sess[x].seen.status = "pending"
                 /\ assert_not_delegated_self_approval(sess[x].seen, a)
                 /\ UpdatePending(i)
<1>1. /\ i \in 1..Len(appr) /\ sess[x].seen \in Rows /\ a \in Actors
      /\ Same(sess[x].seen, appr[i]) /\ appr \in Seq(Rows) /\ TypeOK
  BY DEF Inv, TypeOK, SessionGood, HasRow, Loaded
<1>2. /\ IF ok THEN Update(i, st, a) ELSE UNCHANGED appr
      /\ End(x) /\ Unlock(x) /\ UNCHANGED <<rev, notes, project, claims, policy, promoted>>
      /\ notes' \subseteq Notes
  BY <1>1 DEF _decide, TypeOK
<1>3. CASE ok
  <2>1. Update(i, st, a) /\ appr[i].status = "pending"
    BY <1>2, <1>3 DEF UpdatePending
  <2>2. st \in Statuses /\ a \in Actors \cup {None}
    BY <1>1 DEF Statuses
  <2> HIDE DEF i, a, ok
  <2>3. ApprovalsLater
    BY <1>1, <2>1, <2>2, UpdateLater
  <2>4. /\ appr' \in Seq(Rows) /\ Len(appr') = Len(appr)
        /\ \A j \in 1..Len(appr) : j # i => appr'[j] = appr[j]
        /\ appr'[i].status = st /\ appr'[i].decider = a
        /\ appr'[i].action = appr[i].action /\ appr'[i].ref = appr[i].ref
        /\ appr'[i].requester = appr[i].requester /\ appr'[i].artifact = appr[i].artifact
    BY <1>1, <2>1, <2>2, UpdateFields
  <2>5. /\ a # appr[i].requester
        /\ appr[i].action \in {"merge", "deploy"} => EffectiveHuman[appr[i].requester] # EffectiveHuman[a]
    BY <1>1, <1>3 DEF ok, Same, assert_not_delegated_self_approval, assert_not_self_approval,
       assert_not_delegated_same_human, INDEPENDENT_REVIEWER_REQUIRED_ACTIONS
  <2>6. RowsGood'
    BY <1>1, <2>4, <2>5 DEF RowsGood, Good, Inv
  <2> QED
    BY <1>2, <2>3, <2>4, <2>6, RowStep
<1>4. CASE ~ok
  <2>1. UNCHANGED appr
    BY <1>2, <1>4
  <2>2. ApprovalsLater /\ RowsGood' /\ Len(appr') = Len(appr)
    BY <1>1, <2>1, NoApprovalChange DEF RowsGood, Inv
  <2> QED
    BY <1>2, <2>2, RowStep
<1> QED
  BY <1>3, <1>4

LEMMA RequestRevisionStep ==
    ASSUME ConstantsOK, Inv, NEW x \in Sessions, request_revision(x)
    PROVE  Inv'
<1> DEFINE i == sess[x].i
           row == sess[x].seen
           new == [approval |-> i, by |-> sess[x].actor, artifact |-> row.artifact, seq |-> row.seq,
                   superseded_by |-> 0]
           ok == /\ row.status = "pending"
                 /\ assert_not_delegated_same_human(row, sess[x].actor)
                 /\ ~OpenRevision(i)
                 /\ UpdatePending(i)
<1>1. /\ i \in 1..Len(appr) /\ row \in Rows /\ sess[x].actor \in Actors
      /\ appr \in Seq(Rows) /\ rev \in Seq(Revisions) /\ TypeOK
      /\ sess \in [Sessions -> Records]
  BY DEF Inv, TypeOK, SessionGood, HasRow, Loaded, request_revision
<1>2. /\ IF ok THEN /\ Update(i, "invalidated", appr[i].decider) /\ rev' = Append(rev, new)
                    /\ notes' = notes \cup {[kind |-> "revision_requested", approval |-> i, to |-> row.requester]}
               ELSE UNCHANGED <<appr, rev, notes>>
      /\ End(x) /\ UNCHANGED <<project, lock, claims, policy, promoted>>
  BY DEF request_revision
<1>3. CASE ok
  <2>1. new \in Revisions
    BY <1>1 DEF Revisions, Rows
  <2>2. notes' \subseteq Notes
    BY <1>1, <1>2, <1>3 DEF Notes, Rows, TypeOK
  <2>3. /\ ApprovalsLater /\ RowsGood' /\ appr' \in Seq(Rows) /\ Len(appr') = Len(appr)
        /\ appr'[i].status = "invalidated"
    BY <1>1, <1>2, <1>3, InvalidateGood
  <2>4. rev' = Append(rev, new) /\ new.approval = i /\ new.superseded_by = 0
    BY <1>2, <1>3
  <2> HIDE DEF i, row, new, ok
  <2>5. /\ rev' \in Seq(Revisions) /\ Len(rev') = Len(rev) + 1
        /\ \A r \in 1..Len(rev) : rev'[r] = rev[r]
        /\ rev'[Len(rev) + 1] = new
    BY <1>1, <2>1, <2>4, AppendProperties
  <2>6. \A r \in 1..Len(rev') : r \in 1..Len(rev) \/ r = Len(rev) + 1
    BY <1>1, <2>5
  <2>7. RevisionsLater
    BY <1>1, <2>5 DEF RevisionsLater, SameRevision
  <2>8. RevisionsGood'
    <3>1. ASSUME NEW r \in 1..Len(rev) PROVE RevisionGood(r)'
      <4>1. RevisionGood(r)
        BY DEF RevisionsGood, Inv
      <4>2. Same(appr[rev[r].approval], appr'[rev[r].approval])
        BY <4>1, <2>3 DEF RevisionGood, ApprovalsLater
      <4>3. rev[r].superseded_by # 0 => Same(appr[rev[r].superseded_by], appr'[rev[r].superseded_by])
        BY <4>1, <2>3 DEF RevisionGood, ApprovalsLater
      <4> QED
        BY <2>3, <2>5, <4>1, <4>2, <4>3 DEF RevisionGood, Same
    <3>2. ASSUME NEW n, n = Len(rev) + 1 PROVE RevisionGood(n)'
      BY <1>1, <2>3, <2>4, <2>5, <3>2 DEF RevisionGood
    <3>3. \A r, q \in 1..Len(rev') :
             rev'[r].superseded_by # 0 /\ rev'[r].superseded_by = rev'[q].superseded_by => r = q
      BY <2>4, <2>5, <2>6 DEF RevisionsGood, Inv
    <3>4. ASSUME NEW j \in 1..Len(appr'), appr'[j].replaces # 0
          PROVE  \E r \in 1..Len(rev') : rev'[r].superseded_by = j
      <4>1. j \in 1..Len(appr) /\ appr[j].replaces # 0
        BY <2>3, <3>4 DEF ApprovalsLater, Same
      <4>2. PICK r \in 1..Len(rev) : rev[r].superseded_by = j
        BY <4>1 DEF RevisionsGood, Inv
      <4>3. r \in 1..Len(rev') /\ rev'[r].superseded_by = j
        BY <1>1, <2>5, <4>2
      <4> QED
        BY <4>3
    <3> QED
      BY <2>6, <3>1, <3>2, <3>3, <3>4 DEF RevisionsGood
  <2>9. /\ sess' \in [Sessions -> Records] /\ sess'[x] = Idle
        /\ \A y \in Sessions \ {x} : sess'[y] = sess[y]
    BY <1>1, <1>2, EndFields
  <2>10. \A y \in Sessions : SessionGood(y)'
    BY <1>2, <2>3, <2>7, <2>9, Others, IdleGood
  <2>11. TicketsGood'
    BY <1>1, <1>2, <2>3, TicketsFrame DEF Inv
  <2>12. TypeOK'
    BY <1>1, <1>2, <2>2, <2>3, <2>5, <2>9, RowsTyped DEF TypeOK
  <2> QED
    BY <2>3, <2>8, <2>10, <2>11, <2>12 DEF Inv
<1>4. CASE ~ok
  <2>1. UNCHANGED <<appr, rev, notes>> /\ notes \subseteq Notes
    BY <1>1, <1>2, <1>4 DEF TypeOK
  <2>2. ApprovalsLater /\ RowsGood' /\ Len(appr') = Len(appr)
    BY <1>1, <2>1, NoApprovalChange DEF RowsGood, Inv
  <2> QED
    BY <1>2, <2>1, <2>2, RowStep
<1> QED
  BY <1>3, <1>4

LEMMA RevisedStep ==
    ASSUME ConstantsOK, Inv, NEW x \in Sessions, create_revised_approval(x)
    PROVE  Inv'
<1> DEFINE r == sess[x].i
           snapshot == sess[x].seen
           old == appr[snapshot.approval]
           artifact == IF old.ref = "research" THEN ArtifactHash(claims, claims, old.requester, policy)
                                               ELSE ArtifactHash(0, Len(appr), None, 0)
           row == Pending(old.action, old.ref, old.requester, artifact, policy, snapshot.seq + 1,
                          snapshot.approval)
           e == [approval |-> rev[r].approval, by |-> rev[r].by, artifact |-> rev[r].artifact,
                 seq |-> rev[r].seq, superseded_by |-> Len(appr) + 1]
           ok == /\ _validate_revised_decision_packet(snapshot, artifact, snapshot.seq + 1)
                 /\ snapshot.superseded_by = 0
                 /\ old.status = "invalidated"
                 /\ supersede_open_revision_request(r)
<1>1. /\ r \in 1..Len(rev) /\ snapshot \in Revisions /\ SameRevision(snapshot, rev[r])
      /\ appr \in Seq(Rows) /\ rev \in Seq(Revisions) /\ TypeOK /\ claims \in Nat /\ policy \in {0, 1}
      /\ sess \in [Sessions -> Records] /\ MaxApprovals \in Nat /\ Len(appr) \in Nat /\ rev[r] \in Revisions
      /\ None \notin Actors
  BY DEF Inv, TypeOK, SessionGood, HasRevision, create_revised_approval, ConstantsOK
<1>2. /\ IF ok THEN create_pending_approval(row, snapshot.by) /\ rev' = [rev EXCEPT ![r] = e]
               ELSE UNCHANGED <<appr, notes, rev>>
      /\ End(x) /\ UNCHANGED <<project, lock, claims, policy, promoted>>
  BY DEF create_revised_approval
<1>3. CASE ok
  <2>1. RevisionGood(r) /\ rev[r].superseded_by = 0
    BY <1>1, <1>3 DEF Inv, RevisionsGood, supersede_open_revision_request
  <2>2. /\ snapshot.approval = rev[r].approval /\ snapshot.approval \in 1..Len(appr)
        /\ old \in Rows /\ old.status = "invalidated" /\ snapshot.by \in Actors
    BY <1>1, <2>1 DEF RevisionGood, SameRevision, Revisions
  <2>3. artifact \in Artifacts /\ (old.ref = "research" => artifact.summary = artifact.evidence)
    BY <1>1, <2>2 DEF Artifacts, ArtifactHash, Rows
  <2>4. row \in Rows
    <3> HIDE DEF artifact, old
    <3>1. snapshot.seq + 1 \in Nat /\ snapshot.approval \in Nat
      BY <1>1, RevisionFields
    <3> QED
      BY <1>1, <2>2, <2>3, <3>1 DEF Pending, Rows, Statuses
  <2>5. /\ row.status = "pending" /\ row.decider = None /\ row.requester = old.requester
        /\ row.replaces = rev[r].approval
        /\ row.ref = "research" => row.artifact.summary = row.artifact.evidence
    BY <2>2, <2>3 DEF Pending
  <2>6. e \in Revisions /\ e.approval = rev[r].approval /\ e.by = rev[r].by /\ e.superseded_by = Len(appr) + 1
    <3>1. Len(appr) + 1 \in Nat
      BY <1>1
    <3> QED
      BY <1>1, <3>1, RevisionFields DEF Revisions
  <2>7. create_pending_approval(row, snapshot.by) /\ rev' = [rev EXCEPT ![r] = e]
    BY <1>2, <1>3
  <2>8. Good(row)
    BY <1>1, <2>2, <2>5 DEF Good, Rows
  <2>9. notes' \subseteq Notes
    <3>1. Len(appr) + 1 \in Nat /\ notes \subseteq Notes
      BY <1>1 DEF TypeOK
    <3> HIDE DEF row
    <3> QED
      BY <3>1, <2>2, <2>7 DEF create_pending_approval, Notes
  <2> HIDE DEF r, old, artifact, row, e, ok
  <2>10. /\ appr' \in Seq(Rows) /\ Len(appr') = Len(appr) + 1 /\ Len(appr') <= MaxApprovals
         /\ \A j \in 1..Len(appr) : appr'[j] = appr[j]
         /\ appr'[Len(appr) + 1] = row /\ ApprovalsLater
    BY <1>1, <2>4, <2>7, CreateFields, CreateLater
  <2>11. /\ rev' \in Seq(Revisions) /\ Len(rev') = Len(rev)
         /\ \A q \in 1..Len(rev) : rev'[q] = IF q = r THEN e ELSE rev[q]
    BY <1>1, <2>6, <2>7, ExceptSeq
  <2>12. RevisionsLater
    BY <1>1, <2>6, <2>11 DEF RevisionsLater, SameRevision
  <2>13. \A j \in 1..Len(appr') : j \in 1..Len(appr) \/ j = Len(appr) + 1
    BY <1>1, <2>10
  <2>14. RowsGood'
    BY <2>8, <2>10, <2>13 DEF RowsGood, Inv
  <2>15. RevisionsGood'
    <3>a. 1..Len(appr) \subseteq 1..Len(appr') /\ Len(appr) + 1 \in 1..Len(appr') /\ Len(appr) + 1 \notin 1..Len(appr)
      BY <1>1, <2>10
    <3>1. ASSUME NEW q \in 1..Len(rev) PROVE RevisionGood(q)'
      <4>1. RevisionGood(q)
        BY DEF RevisionsGood, Inv
      <4>2. CASE q = r
        BY <2>1, <2>5, <2>6, <2>10, <2>11, <3>a, <4>2 DEF RevisionGood
      <4>3. CASE q # r
        BY <2>10, <2>11, <3>a, <4>1, <4>3 DEF RevisionGood
      <4> QED
        BY <4>2, <4>3
    <3>2. ASSUME NEW p \in 1..Len(rev), NEW q \in 1..Len(rev), rev'[p].superseded_by # 0,
                 rev'[p].superseded_by = rev'[q].superseded_by
          PROVE  p = q
      <4>1. \A k \in 1..Len(rev) : rev[k].superseded_by # Len(appr) + 1
        BY <1>1, <3>a DEF RevisionsGood, RevisionGood, Inv
      <4> QED
        BY <2>6, <2>11, <3>2, <4>1 DEF RevisionsGood, Inv
    <3>3. ASSUME NEW j \in 1..Len(appr'), appr'[j].replaces # 0
          PROVE  \E q \in 1..Len(rev) : rev'[q].superseded_by = j
      <4>1. CASE j = Len(appr) + 1
        BY <1>1, <2>6, <2>11, <4>1
      <4>2. CASE j \in 1..Len(appr)
        <5>1. PICK q \in 1..Len(rev) : rev[q].superseded_by = j
          BY <2>10, <3>3, <4>2 DEF RevisionsGood, Inv
        <5>2. q # r
          BY <2>1, <4>2, <5>1
        <5> QED
          BY <2>11, <5>1, <5>2
      <4> QED
        BY <2>13, <4>1, <4>2
    <3> QED
      BY <2>11, <3>1, <3>2, <3>3 DEF RevisionsGood
  <2>16. /\ sess' \in [Sessions -> Records] /\ sess'[x] = Idle
         /\ \A y \in Sessions \ {x} : sess'[y] = sess[y]
    BY <1>1, <1>2, EndFields
  <2>17. \A y \in Sessions : SessionGood(y)'
    BY <1>2, <2>10, <2>12, <2>16, Others, IdleGood
  <2>18. TicketsGood'
    BY <1>1, <1>2, <2>10, TicketsFrame DEF Inv
  <2>19. TypeOK'
    BY <1>1, <1>2, <2>9, <2>10, <2>11, <2>14, <2>16, RowsTyped DEF TypeOK
  <2> QED
    BY <2>14, <2>15, <2>17, <2>18, <2>19 DEF Inv
<1>4. CASE ~ok
  <2>1. UNCHANGED <<appr, rev, notes>> /\ notes \subseteq Notes
    BY <1>1, <1>2, <1>4 DEF TypeOK
  <2>2. ApprovalsLater /\ RowsGood' /\ Len(appr') = Len(appr)
    BY <1>1, <2>1, NoApprovalChange DEF RowsGood, Inv
  <2> QED
    BY <1>2, <2>1, <2>2, RowStep
<1> QED
  BY <1>3, <1>4

LEMMA BindingStep ==
    ASSUME ConstantsOK, Inv, NEW x \in Sessions, _assert_approval_binding(x)
    PROVE  Inv'
<1> DEFINE artifact == ArtifactHash(sess[x].fetched, claims, sess[x].actor, policy)
           found == BindingOf(sess[x].seen, artifact, sess[x].actor)
           b == [row |-> sess[x].seen, artifact |-> artifact, policy |-> policy]
<1>1. /\ sess[x].pc = "hash" /\ sess \in [Sessions -> Records] /\ lock \in Sessions \cup {None}
      /\ sess[x].i \in 1..Len(appr) /\ sess[x].seen \in Rows /\ sess[x].actor \in Actors
      /\ Same(sess[x].seen, appr[sess[x].i]) /\ sess[x].fetched \in 0..MaxVersion
      /\ claims \in Nat /\ policy \in {0, 1} /\ TypeOK /\ notes \subseteq Notes /\ MaxVersion \in Nat
  BY DEF Inv, TypeOK, SessionGood, HasRow, HasBinding, Loaded, _assert_approval_binding, ConstantsOK
<1>2. /\ \/ found = "ok" /\ UNCHANGED appr /\ Move(x, "insert", b, sess[x].fetched)
         \/ found # "ok" /\ End(x) /\ UNCHANGED appr
         \/ found = "invalidate" /\ End(x) /\ Update(sess[x].i, "invalidated", appr[sess[x].i].decider)
      /\ UNCHANGED <<rev, notes, project, lock, claims, policy, promoted>>
  BY DEF _assert_approval_binding
<1>3. artifact \in Artifacts
  BY <1>1 DEF Artifacts, ArtifactHash
<1>4. found = "ok" => /\ sess[x].seen.status = "approved" /\ sess[x].seen.ref = "research"
                      /\ sess[x].seen.decider \in Humans
                      /\ sess[x].seen.artifact = artifact /\ sess[x].seen.policy = policy
  BY DEF BindingOf
<1>5. /\ b \in Bindings /\ b.row = sess[x].seen /\ b.artifact = artifact /\ b.policy = policy
      /\ b \in Found /\ "insert" \in Points
  BY <1>1, <1>3 DEF Bindings, Found, Points
<1> HIDE DEF artifact, found, b
<1>6. CASE found = "ok" /\ UNCHANGED appr /\ Move(x, "insert", b, sess[x].fetched)
  <2>1. /\ sess' \in [Sessions -> Records]
        /\ sess'[x].pc = "insert" /\ sess'[x].i = sess[x].i /\ sess'[x].seen = b
        /\ \A y \in Sessions \ {x} : sess'[y] = sess[y]
    BY <1>1, <1>5, <1>6, MoveFields
  <2>2. SessionGood(x)'
    BY <1>1, <1>2, <1>4, <1>5, <1>6, <2>1
       DEF SessionGood, HasRow, HasRevision, HasBinding, HasLock, Loaded
  <2> QED
    BY <1>1, <1>2, <1>6, <2>1, <2>2, QuietStep
<1>7. CASE End(x) /\ UNCHANGED appr
  BY <1>1, <1>2, <1>7, EndFields, IdleGood, QuietStep
<1>8. CASE End(x) /\ Update(sess[x].i, "invalidated", appr[sess[x].i].decider)
  <2>1. ApprovalsLater /\ RowsGood' /\ Len(appr') = Len(appr)
    BY <1>1, <1>8, InvalidateGood
  <2> QED
    BY <1>1, <1>2, <1>8, <2>1, RowStep
<1> QED
  BY <1>2, <1>6, <1>7, <1>8

LEMMA PromoteStep ==
    ASSUME Inv, NEW x \in Sessions, promote(x)
    PROVE  Inv'
<1> DEFINE t == [artifact |-> sess[x].seen.artifact, approval |-> sess[x].i, policy |-> sess[x].seen.policy]
<1>1. /\ sess[x].pc = "insert" /\ TypeOK /\ sess \in [Sessions -> Records] /\ End(x)
      /\ UNCHANGED <<appr, rev, notes, project, lock, claims, policy>>
      /\ promoted' = promoted \/ (promoted = <<>> /\ promoted' = Append(promoted, t))
  BY DEF Inv, TypeOK, promote, SlugFree
<1>2. /\ sess[x].i \in 1..Len(appr) /\ sess[x].seen \in Bindings
      /\ Same(sess[x].seen.row, appr[sess[x].i])
      /\ sess[x].seen.row.status = "approved" /\ sess[x].seen.row.ref = "research"
      /\ sess[x].seen.row.decider \in Humans
      /\ sess[x].seen.row.artifact = sess[x].seen.artifact
      /\ sess[x].seen.row.policy = sess[x].seen.policy
  BY <1>1 DEF Inv, SessionGood, HasBinding
<1>3. t \in Tickets
  BY <1>2 DEF Tickets, Bindings
<1>4. TicketGood(t)
  BY <1>2 DEF TicketGood, Same
<1> HIDE DEF t
<1>5. /\ promoted' \in Seq(Tickets) /\ Len(promoted') <= 1
      /\ \A k \in 1..Len(promoted') : TicketGood(promoted'[k])
  <2>1. CASE promoted' = promoted
    BY <1>1, <2>1 DEF Inv, TicketsGood, TypeOK
  <2>2. CASE promoted = <<>> /\ promoted' = Append(promoted, t)
    <3>1. promoted' = <<t>>
      BY <2>2
    <3> QED
      BY <1>3, <1>4, <3>1
  <2> QED
    BY <1>1, <2>1, <2>2
<1>6. TicketsGood'
  BY <1>1, <1>5 DEF TicketsGood, TicketGood
<1>7. /\ sess' \in [Sessions -> Records] /\ sess'[x] = Idle
      /\ \A y \in Sessions \ {x} : sess'[y] = sess[y]
  BY <1>1, EndFields
<1>8. \A y \in Sessions : SessionGood(y)'
  BY <1>1, <1>7, Others, IdleGood, NoApprovalChange, NoRevisionChange
<1>9. RowsGood' /\ RevisionsGood'
  BY <1>1 DEF Inv, RowsGood, RevisionsGood, RevisionGood
<1>10. TypeOK'
  BY <1>1, <1>5, <1>7 DEF TypeOK
<1> QED
  BY <1>6, <1>8, <1>9, <1>10 DEF Inv

\* Archiving and deleting wait for the lock; claims and policy are nobody's to protect.
LEMMA AroundStep ==
    ASSUME ConstantsOK, Inv, UNCHANGED <<appr, rev, notes, promoted, sess, lock>>,
           UNCHANGED project \/ lock = None,
           project' \in [status : {"active", "archived"}, deleted : BOOLEAN],
           claims' \in 0..MaxVersion, policy' \in {0, 1}
    PROVE  Inv'
<1>1. ApprovalsLater /\ RevisionsLater /\ TypeOK /\ None \notin Sessions
  BY NoApprovalChange, NoRevisionChange DEF Inv, ConstantsOK
<1>2. \A y \in Sessions : SessionGood(y)'
  BY <1>1, Frame DEF Inv
<1>3. RowsGood' /\ RevisionsGood' /\ TicketsGood'
  BY DEF Inv, RowsGood, RevisionsGood, RevisionGood, TicketsGood, TicketGood
<1>4. TypeOK'
  BY <1>1 DEF TypeOK
<1> QED
  BY <1>2, <1>3, <1>4 DEF Inv

LEMMA StaleStep ==
    ASSUME ConstantsOK, Inv, NEW i \in 1..Len(appr), invalidate_if_stale(i)
    PROVE  Inv'
<1>1. /\ Update(i, "invalidated", appr[i].decider) /\ TypeOK
      /\ UNCHANGED <<rev, notes, project, lock, claims, policy, promoted, sess>>
  BY DEF invalidate_if_stale, Inv
<1>2. ApprovalsLater /\ RowsGood' /\ appr' \in Seq(Rows) /\ Len(appr') = Len(appr)
  BY <1>1, InvalidateGood
<1>3. RevisionsLater
  BY <1>1, NoRevisionChange
<1>4. RevisionsGood' /\ TicketsGood' /\ \A y \in Sessions : SessionGood(y)'
  BY <1>1, <1>2, <1>3, RevisionsFrame, TicketsFrame, AllStand DEF Inv
<1>5. TypeOK'
  BY <1>1, <1>2, RowsTyped DEF TypeOK
<1> QED
  BY <1>2, <1>4, <1>5 DEF Inv

LEMMA StepInv == ASSUME ConstantsOK, Inv, [Next]_vars PROVE Inv'
<1>t. TypeOK /\ claims \in 0..MaxVersion /\ policy \in {0, 1} /\ MaxVersion \in Nat
      /\ project \in [status : {"active", "archived"}, deleted : BOOLEAN]
  BY DEF Inv, TypeOK, ConstantsOK
<1>1. ASSUME NEW a \in Actors, NEW c \in ActionClasses, bridge_approval_request_create(a, c) PROVE Inv'
  <2> DEFINE row == Pending(c, "ticket", a, ArtifactHash(0, 0, None, 0), policy, 0, 0)
  <2>1. row \in Rows
    BY <1>t DEF Rows, Pending, ArtifactHash, Artifacts, Statuses
  <2>2. row.status = "pending" /\ row.decider = None /\ row.ref = "ticket" /\ row.replaces = 0
    BY DEF Pending
  <2>3. /\ create_pending_approval(row, a)
        /\ UNCHANGED <<rev, project, lock, claims, policy, promoted, sess>>
    BY <1>1 DEF bridge_approval_request_create
  <2> HIDE DEF row
  <2> QED
    BY <2>1, <2>2, <2>3, CreateStep
<1>2. ASSUME NEW a \in Actors, NEW b \in Actors, RequestPromotion(a, b) PROVE Inv'
  <2> DEFINE row == Pending("task_write", "research", a, ArtifactHash(claims, claims, a, policy), policy, 0, 0)
  <2>1. row \in Rows
    BY <1>t DEF Rows, Pending, ArtifactHash, Artifacts, Statuses
  <2>2. /\ row.status = "pending" /\ row.decider = None /\ row.replaces = 0
        /\ row.artifact.summary = row.artifact.evidence
    BY DEF Pending, ArtifactHash
  <2>3. /\ create_pending_approval(row, b)
        /\ UNCHANGED <<rev, project, lock, claims, policy, promoted, sess>>
    BY <1>2 DEF RequestPromotion
  <2> HIDE DEF row
  <2> QED
    BY <2>1, <2>2, <2>3, CreateStep
<1>3. ASSUME NEW x \in Sessions, NEW i \in 1..Len(appr), NEW a \in Actors,
             decide_approval(x, i, a) \/ request_approval_revision(x, i, a) \/ PromoteLoad(x, i, a)
      PROVE  Inv'
  BY <1>3, LoadStep DEF decide_approval, request_approval_revision, PromoteLoad
<1>4. ASSUME NEW x \in Sessions, approve(x) \/ reject(x) PROVE Inv'
  BY <1>4, DecideStep DEF approve, reject
<1>5. ASSUME NEW s \in {"active", "archived"}, set_archived(s) PROVE Inv'
  <2>1. /\ UNCHANGED <<appr, rev, notes, promoted, sess, lock>> /\ lock = None
        /\ project' \in [status : {"active", "archived"}, deleted : BOOLEAN]
        /\ claims' \in 0..MaxVersion /\ policy' \in {0, 1}
    BY <1>5, <1>t DEF set_archived
  <2> QED
    BY <2>1, AroundStep
<1>6. ASSUME NEW d \in BOOLEAN, SetDeleted(d) PROVE Inv'
  <2>1. /\ UNCHANGED <<appr, rev, notes, promoted, sess, lock>> /\ lock = None
        /\ project' \in [status : {"active", "archived"}, deleted : BOOLEAN]
        /\ claims' \in 0..MaxVersion /\ policy' \in {0, 1}
    BY <1>6, <1>t DEF SetDeleted
  <2> QED
    BY <2>1, AroundStep
<1>7. ASSUME ChangeClaims \/ ChangePolicy \/ UNCHANGED vars PROVE Inv'
  <2>1. /\ UNCHANGED <<appr, rev, notes, promoted, sess, lock, project>>
        /\ project' \in [status : {"active", "archived"}, deleted : BOOLEAN]
        /\ claims' \in 0..MaxVersion /\ policy' \in {0, 1}
    BY <1>7, <1>t DEF ChangeClaims, ChangePolicy, vars
  <2> QED
    BY <2>1, AroundStep
<1> QED
  BY <1>1, <1>2, <1>3, <1>4, <1>5, <1>6, <1>7, LoadRevisionStep, LockStep, RequestRevisionStep,
     RevisedStep, FetchStep, BindingStep, PromoteStep, StaleStep DEF Next

-----------------------------------------------------------------------------

LEMMA Inductive == ConstantsOK => (Spec => []Inv)
<1> SUFFICES ASSUME ConstantsOK PROVE Spec => []Inv
  OBVIOUS
<1>1. Init => Inv
  BY InitInv
<1>2. Inv /\ [Next]_vars => Inv'
  BY StepInv
<1> QED
  BY <1>1, <1>2, PTL DEF Spec

\* Rows of approval_requests and approval_revision_requests, notifications, promoted
\* tickets and sessions are always well formed; exactly the decided rows name a decider.
THEOREM ApprovalTypes == ConstantsOK => (Spec => []TypeOK)
<1> SUFFICES ASSUME ConstantsOK PROVE Spec => []TypeOK
  OBVIOUS
<1>1. Inv => TypeOK
  BY DEF Inv
<1> QED
  BY <1>1, Inductive, PTL

\* Nobody decides their own request, and nobody who stands for the same human decides a
\* merge or a deploy, although SelfApprovalGuardService looks at a row loaded earlier.
THEOREM IndependenceHolds == ConstantsOK => (Spec => []IndependentDecision)
<1> SUFFICES ASSUME ConstantsOK PROVE Spec => []IndependentDecision
  OBVIOUS
<1>1. Inv => IndependentDecision
  BY DEF Inv, RowsGood, Good, IndependentDecision
<1> QED
  BY <1>1, Inductive, PTL

\* A research task becomes at most one ticket, with the claims, creator and policy that a
\* human other than the requester approved (ResearchToTicketAdapter.promote), and every
\* revised approval answers exactly one revision request, whose own approval stays
\* invalidated (create_revised_approval).
THEOREM OutcomeSafety == ConstantsOK => (Spec => []OneApprovalOneOutcome)
<1> SUFFICES ASSUME ConstantsOK PROVE Spec => []OneApprovalOneOutcome
  OBVIOUS
<1>1. ASSUME Inv PROVE OneApprovalOneOutcome
  <2>1. PromotedAsApproved /\ PromotedOnce
    BY <1>1 DEF Inv, TicketsGood, TicketGood, RowsGood, Good, PromotedAsApproved, PromotedOnce
  <2>2. ASSUME NEW i \in 1..Len(appr), appr[i].replaces # 0
        PROVE  /\ Cardinality({r \in 1..Len(rev) : rev[r].superseded_by = i}) = 1
               /\ appr[appr[i].replaces].status = "invalidated"
    <3>1. PICK q \in 1..Len(rev) : rev[q].superseded_by = i
      BY <1>1, <2>2 DEF Inv, RevisionsGood
    <3>2. i # 0
      BY <1>1 DEF Inv, TypeOK
    <3>3. {r \in 1..Len(rev) : rev[r].superseded_by = i} = {q}
      BY <1>1, <3>1, <3>2 DEF Inv, RevisionsGood
    <3>4. appr[i].replaces = rev[q].approval /\ appr[rev[q].approval].status = "invalidated"
      BY <1>1, <3>1, <3>2 DEF Inv, RevisionsGood, RevisionGood
    <3> QED
      BY <3>3, <3>4, FS_Singleton
  <2>3. OneReplacement
    BY <1>1, <2>2 DEF OneReplacement, Inv, RevisionsGood, RevisionGood
  <2> QED
    BY <2>1, <2>3 DEF OneApprovalOneOutcome
<1> QED
  BY <1>1, Inductive, PTL

\* A row turns approved only where it may.
GrantsLive ==
    \A i \in 1..Len(appr) : appr[i].status # "approved" /\ appr'[i].status = "approved"
                            /\ appr[i].ref = "ticket" => TicketActionable

LEMMA InvalidateKeeps ==
    ASSUME ConstantsOK, Inv, NEW i \in 1..Len(appr), Update(i, "invalidated", appr[i].decider)
    PROVE  ApprovalsLater /\ GrantsLive
<1>0. appr \in Seq(Rows) /\ appr[i] \in Rows
  BY DEF Inv, TypeOK
<1>1. appr[i].decider \in Actors \cup {None} /\ "invalidated" \in Statuses
  BY <1>0 DEF Rows, Statuses
<1>2. /\ appr'[i].status = "invalidated"
      /\ \A j \in 1..Len(appr) : j # i => appr'[j] = appr[j]
  BY <1>0, <1>1, UpdateFields
<1> QED
  BY <1>2, InvalidateGood DEF GrantsLive

LEMMA DecideKeeps ==
    ASSUME ConstantsOK, Inv, NEW x \in Sessions, NEW st \in {"approved", "rejected"},
           sess[x].pc \in {"decide_approve", "decide_reject"}, _decide(x, st),
           st = "approved" => sess[x].pc = "decide_approve"
    PROVE  ApprovalsLater /\ GrantsLive
<1> DEFINE i == sess[x].i
<1>1. /\ i \in 1..Len(appr) /\ sess[x].seen \in Rows /\ sess[x].actor \in Actors \cup {None}
      /\ Same(sess[x].seen, appr[i]) /\ HasLock(x)
      /\ appr \in Seq(Rows) /\ TypeOK /\ st \in Statuses
  BY DEF Inv, TypeOK, SessionGood, HasRow, Loaded, Statuses
<1>2. UNCHANGED appr \/ (Update(i, st, sess[x].actor) /\ appr[i].status = "pending")
  BY DEF _decide, UpdatePending
<1> HIDE DEF i
<1>3. CASE UNCHANGED appr
  BY <1>1, <1>3, NoApprovalChange DEF GrantsLive
<1>4. CASE Update(i, st, sess[x].actor) /\ appr[i].status = "pending"
  <2>1. ApprovalsLater
    BY <1>1, <1>4, UpdateLater
  <2>2. /\ appr'[i].status = st
        /\ \A j \in 1..Len(appr) : j # i => appr'[j] = appr[j]
    BY <1>1, <1>4, UpdateFields
  <2>3. st = "approved" /\ appr[i].ref = "ticket" => TicketActionable
    BY <1>1 DEF HasLock, Same
  <2> QED
    BY <2>1, <2>2, <2>3 DEF GrantsLive
<1> QED
  BY <1>2, <1>3, <1>4

LEMMA CreateKeeps ==
    ASSUME ConstantsOK, Inv, NEW row, NEW to, create_pending_approval(row, to), appr' \in Seq(Rows)
    PROVE  ApprovalsLater /\ GrantsLive
<1>1. appr \in Seq(Rows) /\ appr' = Append(appr, row)
  BY DEF Inv, TypeOK, create_pending_approval
<1>2. Len(appr') = Len(appr) + 1 /\ \A j \in 1..Len(appr) : appr'[j] = appr[j]
  BY <1>1
<1> QED
  BY <1>1, <1>2, SameReflexive DEF ApprovalsLater, GrantsLive

LEMMA StepKeeps == ASSUME ConstantsOK, Inv, [Next]_vars PROVE ApprovalsLater /\ GrantsLive
<1>0. appr' \in Seq(Rows) /\ TypeOK
  BY StepInv DEF Inv, TypeOK
<1>1. ASSUME UNCHANGED appr PROVE ApprovalsLater /\ GrantsLive
  BY <1>0, <1>1, NoApprovalChange DEF GrantsLive
<1>2. ASSUME NEW a \in Actors, NEW c, bridge_approval_request_create(a, c) PROVE ApprovalsLater /\ GrantsLive
  BY <1>0, <1>2, CreateKeeps DEF bridge_approval_request_create
<1>3. ASSUME NEW a \in Actors, NEW b \in Actors, RequestPromotion(a, b) PROVE ApprovalsLater /\ GrantsLive
  BY <1>0, <1>3, CreateKeeps DEF RequestPromotion
<1>4. ASSUME NEW x \in Sessions, approve(x) \/ reject(x) PROVE ApprovalsLater /\ GrantsLive
  BY <1>4, DecideKeeps DEF approve, reject
<1>5. ASSUME NEW x \in Sessions, request_revision(x) PROVE ApprovalsLater /\ GrantsLive
  <2>1. sess[x].i \in 1..Len(appr)
    BY <1>5 DEF Inv, SessionGood, HasRow, Loaded, request_revision
  <2>2. UNCHANGED appr \/ Update(sess[x].i, "invalidated", appr[sess[x].i].decider)
    BY <1>5 DEF request_revision
  <2> QED
    BY <1>1, <2>1, <2>2, InvalidateKeeps
<1>6. ASSUME NEW x \in Sessions, create_revised_approval(x) PROVE ApprovalsLater /\ GrantsLive
  <2>1. UNCHANGED appr \/ \E row, to : create_pending_approval(row, to)
    BY <1>6 DEF create_revised_approval
  <2> QED
    BY <1>0, <1>1, <2>1, CreateKeeps
<1>7. ASSUME NEW x \in Sessions, _assert_approval_binding(x) PROVE ApprovalsLater /\ GrantsLive
  <2>1. sess[x].i \in 1..Len(appr)
    BY <1>7 DEF Inv, SessionGood, HasRow, Loaded, _assert_approval_binding
  <2>2. UNCHANGED appr \/ Update(sess[x].i, "invalidated", appr[sess[x].i].decider)
    BY <1>7 DEF _assert_approval_binding
  <2> QED
    BY <1>1, <2>1, <2>2, InvalidateKeeps
<1>8. ASSUME NEW i \in 1..Len(appr), invalidate_if_stale(i) PROVE ApprovalsLater /\ GrantsLive
  BY <1>8, InvalidateKeeps DEF invalidate_if_stale
<1>9. ASSUME \/ \E x \in Sessions, i \in 1..Len(appr), a \in Actors :
                   decide_approval(x, i, a) \/ request_approval_revision(x, i, a) \/ PromoteLoad(x, i, a)
             \/ \E x \in Sessions, r \in 1..Len(rev) : LoadRevision(x, r)
             \/ \E x \in Sessions : \/ assert_approval_target_actionable_locked(x)
                                    \/ _fetch_research_bundle(x) \/ promote(x)
             \/ (\E s \in {"active", "archived"} : set_archived(s)) \/ (\E d \in BOOLEAN : SetDeleted(d))
             \/ ChangeClaims \/ ChangePolicy \/ UNCHANGED vars
      PROVE  UNCHANGED appr
  BY <1>9 DEF decide_approval, request_approval_revision, PromoteLoad, Load, LoadRevision,
     assert_approval_target_actionable_locked, _fetch_research_bundle, promote, set_archived,
     SetDeleted, ChangeClaims, ChangePolicy, vars
<1> QED
  BY <1>1, <1>2, <1>3, <1>4, <1>5, <1>6, <1>7, <1>8, <1>9 DEF Next

\* A decision is made once and stands: what was approved, rejected or invalidated is never
\* decided again, whatever a session had loaded (the conditional UPDATE of _decide); and an
\* approval is granted only while its ticket is there and its project is active, although
\* deletion and archiving race it (assert_approval_target_actionable_locked).
THEOREM DecisionSafety == ConstantsOK => (Spec => DecisionsStand)
<1> SUFFICES ASSUME ConstantsOK PROVE Spec => DecisionsStand
  OBVIOUS
<1>1. ASSUME Inv, [Next]_vars
      PROVE  /\ \A i \in DOMAIN appr : appr[i].status # "approved" /\ appr'[i].status = "approved"
                                       /\ appr[i].ref = "ticket" => TicketActionable
             /\ \A i \in DOMAIN appr : appr[i].status # "pending" =>
                  appr'[i].status \in {appr[i].status, "invalidated"} /\ appr'[i].decider = appr[i].decider
  <2>1. DOMAIN appr = 1..Len(appr)
    BY <1>1 DEF Inv, TypeOK
  <2>2. ApprovalsLater /\ GrantsLive
    BY <1>1, StepKeeps
  <2> QED
    BY <2>1, <2>2 DEF ApprovalsLater, GrantsLive, Same
<1> QED
  BY <1>1, Inductive, PTL DEF Spec, DecisionsStand, AuthorizesOnlyLiveWork, DecidedOnce
=============================================================================
