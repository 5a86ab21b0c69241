----------------------------- MODULE ApprovalFlow -----------------------------
(***************************************************************************)
(* Approval requests: creation with its notification, decision, request    *)
(* for revision, hand-over to a revised approval, stale invalidation       *)
(* (services/policy, api/approval_inbox.py), and the promotion of a        *)
(* research task to a ticket, which an approval authorizes                 *)
(* (services/research/research_to_ticket.py).                              *)
(*                                                                         *)
(* Every operation loads its approval first and works on the loaded        *)
(* object; what protects it from what others commit meanwhile is a         *)
(* condition in its UPDATE or the lock of the project's row.  A final      *)
(* UPDATE and the commit behind it are one step: until the commit nobody   *)
(* sees it, and others that want the row wait.                             *)
(***************************************************************************)
EXTENDS Naturals, Sequences, FiniteSets

CONSTANTS Sessions,        \* database sessions of requests in progress
          Actors,
          EffectiveHuman,  \* [Actors -> Actors]: impersonated_by, or the actor itself
          Humans,          \* actors of type human
          ActionClasses,   \* the action classes requested
          Calls,           \* the calls an instance makes: "decide", "revise", "promote",
                           \* "archive" (of the project, or its tickets deleted), "stale"
          MaxApprovals,    \* bound on approval rows
          MaxVersion,      \* bound on changes of the research's claims
          None

ConstantsOK ==
    /\ EffectiveHuman \in [Actors -> Actors]
    /\ Humans \subseteq Actors
    /\ None \notin Actors \cup Sessions
    /\ MaxApprovals \in Nat /\ MaxVersion \in Nat

VARIABLES
    appr,      \* rows of approval_requests, in the order of creation
    rev,       \* rows of approval_revision_requests
    notes,     \* notifications: [kind, approval, to]
    project,   \* the project's row and its ticket's: [status, deleted]
    lock,      \* the session that holds the project's row, or None
    claims,    \* version of the research task's claims and evidence
    policy,    \* version of the policy pack in force
    promoted,  \* tickets made from the research task: [artifact, approval, policy]
    sess       \* sessions: [pc, i, actor, seen, fetched]

vars == <<appr, rev, notes, project, lock, claims, policy, promoted, sess>>

Idle == [pc |-> "idle", i |-> 0, actor |-> None, seen |-> None, fetched |-> None]
Statuses == {"pending", "approved", "rejected", "invalidated"}
INDEPENDENT_REVIEWER_REQUIRED_ACTIONS == {"merge", "deploy"}

\* The canonical hash of the promotion: what was read of the claims for the
\* summary, what was read of them for evidence_set_hash, the creator, the policy.
ArtifactHash(v1, v2, actor, pol) == [summary |-> v1, evidence |-> v2, by |-> actor, policy |-> pol]

Artifacts == [summary : Nat, evidence : Nat, by : Actors \cup {None}, policy : {0, 1}]
Rows == [status : Statuses, action : ActionClasses \cup {"task_write"}, ref : {"ticket", "research"},
         requester : Actors, decider : Actors \cup {None}, artifact : Artifacts, policy : {0, 1},
         seq : Nat, replaces : Nat]
Revisions == [approval : Nat, by : Actors, artifact : Artifacts, seq : Nat, superseded_by : Nat]
Bindings == [row : Rows, artifact : Artifacts, policy : {0, 1}]
Tickets == [artifact : Artifacts, approval : Nat, policy : {0, 1}]
Notes == [kind : {"approval_pending", "revision_requested"}, approval : Nat, to : Actors]
Points == {"idle", "approve", "decide_approve", "decide_reject", "revise", "handoff", "fetch",
           "hash", "insert"}
Found == Rows \cup Revisions \cup Bindings \cup {None}
Records == [pc : Points, i : Nat, actor : Actors \cup {None}, seen : Found,
            fetched : (0..MaxVersion) \cup {None}]

\* Rows are well formed: a decided one names who decided, and nobody else does.
TypeOK ==
    /\ appr \in Seq(Rows) /\ Len(appr) <= MaxApprovals
    /\ \A i \in 1..Len(appr) :
          /\ appr[i].status \in {"approved", "rejected"} => appr[i].decider \in Actors
          /\ appr[i].status = "pending" => appr[i].decider = None
    /\ rev \in Seq(Revisions) /\ notes \subseteq Notes /\ promoted \in Seq(Tickets)
    /\ lock \in Sessions \cup {None}
    /\ project \in [status : {"active", "archived"}, deleted : BOOLEAN]
    /\ claims \in 0..MaxVersion /\ policy \in {0, 1}
    /\ sess \in [Sessions -> Records]

Init ==
    /\ appr = <<>> /\ rev = <<>> /\ notes = {} /\ promoted = <<>>
    /\ project = [status |-> "active", deleted |-> FALSE]
    /\ lock = None /\ claims = 0 /\ policy = 0
    /\ sess = [x \in Sessions |-> Idle]

End(x) == sess' = [sess EXCEPT ![x] = Idle]
Unlock(x) == lock' = IF lock = x THEN None ELSE lock

Start(x, pc, i, actor, seen) ==
    /\ sess[x].pc = "idle"
    /\ sess' = [sess EXCEPT ![x] = [pc |-> pc, i |-> i, actor |-> actor, seen |-> seen, fetched |-> None]]

Move(x, pc, seen, fetched) ==
    sess' = [sess EXCEPT ![x] = [pc |-> pc, i |-> sess[x].i, actor |-> sess[x].actor, seen |-> seen,
                                 fetched |-> fetched]]

\* An UPDATE of one approval: nothing but its status and its decider ever changes.
Update(i, status, decider) ==
    appr' = [appr EXCEPT ![i] = [status |-> status, action |-> appr[i].action, ref |-> appr[i].ref,
                                 requester |-> appr[i].requester, decider |-> decider,
                                 artifact |-> appr[i].artifact, policy |-> appr[i].policy,
                                 seq |-> appr[i].seq, replaces |-> appr[i].replaces]]

-----------------------------------------------------------------------------
(* Creation                                                                *)

\* create_pending_approval: the row and its notification in one transaction.
create_pending_approval(row, to) ==
    /\ Len(appr) < MaxApprovals
    /\ appr' = Append(appr, row)
    /\ notes' = notes \cup {[kind |-> "approval_pending", approval |-> Len(appr) + 1, to |-> to]}

Pending(action, ref, requester, artifact, pol, seq, replaces) ==
    [status |-> "pending", action |-> action, ref |-> ref, requester |-> requester, decider |-> None,
     artifact |-> artifact, policy |-> pol, seq |-> seq, replaces |-> replaces]

TicketActionable == project.status = "active" /\ ~project.deleted

\* bridge_approval_request_create notifies the actor that asks; the artifact is
\* the ticket itself.
bridge_approval_request_create(actor, action) ==
    /\ lock = None /\ TicketActionable
    /\ create_pending_approval(Pending(action, "ticket", actor, ArtifactHash(0, 0, None, 0), policy, 0, 0), actor)
    /\ UNCHANGED <<rev, project, lock, claims, policy, promoted, sess>>

\* A caller previews the promotion and asks for its approval.
RequestPromotion(actor, to) ==
    /\ create_pending_approval(
          Pending("task_write", "research", actor, ArtifactHash(claims, claims, actor, policy), policy, 0, 0), to)
    /\ UNCHANGED <<rev, project, lock, claims, policy, promoted, sess>>

-----------------------------------------------------------------------------
(* Decision                                                                *)

\* SelfApprovalGuardService.
assert_not_self_approval(row, actor) == row.requester # actor
assert_not_delegated_same_human(row, actor) ==
    /\ assert_not_self_approval(row, actor)
    /\ EffectiveHuman[row.requester] # EffectiveHuman[actor]

assert_not_delegated_self_approval_OneWay(row, actor) ==
    /\ assert_not_self_approval(row, actor)
    /\ row.action \in INDEPENDENT_REVIEWER_REQUIRED_ACTIONS =>
          EffectiveHuman[actor] # row.requester
assert_not_delegated_self_approval(row, actor) ==
    /\ assert_not_self_approval(row, actor)
    /\ row.action \in INDEPENDENT_REVIEWER_REQUIRED_ACTIONS => assert_not_delegated_same_human(row, actor)

Load(x, pc, i, actor) ==
    /\ Start(x, pc, i, actor, appr[i])
    /\ UNCHANGED <<appr, rev, notes, project, lock, claims, policy, promoted>>

decide_approval(x, i, actor) == Load(x, "approve", i, actor) \/ Load(x, "decide_reject", i, actor)

\* assert_approval_target_actionable_locked: the project's row is locked until
\* the decision commits.
assert_approval_target_actionable_locked_Unlocked(x) ==
    /\ sess[x].pc = "approve"
    /\ lock = None
    /\ IF sess[x].seen.ref = "ticket" /\ ~TicketActionable
         THEN End(x)
         ELSE Move(x, "decide_approve", sess[x].seen, None)
    /\ UNCHANGED <<appr, rev, notes, project, lock, claims, policy, promoted>>
assert_approval_target_actionable_locked(x) ==
    /\ sess[x].pc = "approve"
    /\ IF sess[x].seen.ref # "ticket"
         THEN Move(x, "decide_approve", sess[x].seen, None) /\ UNCHANGED lock
         ELSE /\ lock = None
              /\ IF TicketActionable
                   THEN lock' = x /\ Move(x, "decide_approve", sess[x].seen, None)
                   ELSE End(x) /\ UNCHANGED lock
    /\ UNCHANGED <<appr, rev, notes, project, claims, policy, promoted>>

\* The UPDATE matches only a row that is still pending.
UpdatePending(i) == appr[i].status = "pending"

_decide_Anonymous(x, new_status) ==
    LET i == sess[x].i
        ok == /\ sess[x].seen.status = "pending"
              /\ assert_not_delegated_self_approval(sess[x].seen, sess[x].actor)
              /\ UpdatePending(i) IN
    /\ IF ok THEN Update(i, new_status, appr[i].decider) ELSE UNCHANGED appr
    /\ End(x) /\ Unlock(x)
    /\ UNCHANGED <<rev, notes, project, claims, policy, promoted>>

_decide(x, new_status) ==
    LET i == sess[x].i
        ok == /\ sess[x].seen.status = "pending"
              /\ assert_not_delegated_self_approval(sess[x].seen, sess[x].actor)
              /\ UpdatePending(i) IN
    /\ IF ok THEN Update(i, new_status, sess[x].actor) ELSE UNCHANGED appr
    /\ End(x) /\ Unlock(x)
    /\ UNCHANGED <<rev, notes, project, claims, policy, promoted>>

approve(x) == sess[x].pc = "decide_approve" /\ _decide(x, "approved")
reject(x) == sess[x].pc = "decide_reject" /\ _decide(x, "rejected")

-----------------------------------------------------------------------------
(* Revision                                                                *)

request_approval_revision(x, i, actor) == Load(x, "revise", i, actor)

OpenRevision(i) == \E r \in 1..Len(rev) : rev[r].approval = i /\ rev[r].superseded_by = 0

request_revision(x) ==
    LET i == sess[x].i
        row == sess[x].seen
        ok == /\ row.status = "pending"
              /\ assert_not_delegated_same_human(row, sess[x].actor)
              /\ ~OpenRevision(i)
              /\ UpdatePending(i) IN
    /\ sess[x].pc = "revise"
    /\ IF ok THEN /\ Update(i, "invalidated", appr[i].decider)
                  /\ rev' = Append(rev, [approval |-> i, by |-> sess[x].actor, artifact |-> row.artifact,
                                         seq |-> row.seq, superseded_by |-> 0])
                  /\ notes' = notes \cup {[kind |-> "revision_requested", approval |-> i, to |-> row.requester]}
             ELSE UNCHANGED <<appr, rev, notes>>
    /\ End(x)
    /\ UNCHANGED <<project, lock, claims, policy, promoted>>

\* create_revised_approval is called with a loaded revision request.
LoadRevision(x, r) ==
    /\ Start(x, "handoff", r, None, rev[r])
    /\ UNCHANGED <<appr, rev, notes, project, lock, claims, policy, promoted>>

\* _validate_revised_decision_packet: the evidence differs, the sequence advances.
_validate_revised_decision_packet(snapshot, artifact, seq) ==
    artifact # snapshot.artifact /\ seq > snapshot.seq

\* The conditional UPDATE of the revision request, or nothing at all.
supersede_open_revision_request(r) == rev[r].superseded_by = 0

create_revised_approval(x) ==
    LET r == sess[x].i
        snapshot == sess[x].seen
        old == appr[snapshot.approval]
        artifact == IF old.ref = "research" THEN ArtifactHash(claims, claims, old.requester, policy)
                                            ELSE ArtifactHash(0, Len(appr), None, 0)
        ok == /\ _validate_revised_decision_packet(snapshot, artifact, snapshot.seq + 1)
              /\ snapshot.superseded_by = 0
              /\ old.status = "invalidated"
              /\ supersede_open_revision_request(r) IN
    /\ sess[x].pc = "handoff"
    /\ IF ok THEN /\ create_pending_approval(
                        Pending(old.action, old.ref, old.requester, artifact, policy, snapshot.seq + 1,
                                snapshot.approval), snapshot.by)
                  /\ rev' = [rev EXCEPT ![r] = [approval |-> rev[r].approval, by |-> rev[r].by,
                                                artifact |-> rev[r].artifact, seq |-> rev[r].seq,
                                                superseded_by |-> Len(appr) + 1]]
             ELSE UNCHANGED <<appr, notes, rev>>
    /\ End(x)
    /\ UNCHANGED <<project, lock, claims, policy, promoted>>

-----------------------------------------------------------------------------
(* Stale invalidation: the evidence of an approval against what holds now. *)

detect_stale(i) == \/ appr[i].policy # policy
                   \/ appr[i].ref = "research" /\ appr[i].artifact.evidence # claims

invalidate_if_stale(i) ==
    /\ appr[i].status \in {"pending", "approved", "rejected"}
    /\ detect_stale(i)
    /\ Update(i, "invalidated", appr[i].decider)
    /\ UNCHANGED <<rev, notes, project, lock, claims, policy, promoted, sess>>

-----------------------------------------------------------------------------
(* ResearchToTicketAdapter.promote                                         *)

PromoteLoad(x, i, actor) == Load(x, "fetch", i, actor)

\* The claims are read without a lock, then read again for evidence_set_hash;
\* the approval is the object loaded before.
_fetch_research_bundle(x) ==
    /\ sess[x].pc = "fetch"
    /\ Move(x, "hash", sess[x].seen, claims)
    /\ UNCHANGED <<appr, rev, notes, project, lock, claims, policy, promoted>>

\* _assert_approval_binding: which mismatch is found first decides whether the
\* approval is invalidated.
BindingOf_NoArtifact(row, artifact, actor) ==
    IF row.status # "approved" THEN "refused"
    ELSE IF row.action # "task_write" \/ row.policy # policy THEN "invalidate"
    ELSE IF row.ref # "research" \/ row.requester # actor \/ row.decider \notin Humans THEN "refused"
    ELSE "ok"
BindingOf(row, artifact, actor) ==
    IF row.status # "approved" THEN "refused"
    ELSE IF row.action # "task_write" \/ row.artifact # artifact \/ row.policy # policy THEN "invalidate"
    ELSE IF row.ref # "research" \/ row.requester # actor \/ row.decider \notin Humans THEN "refused"
    ELSE "ok"

\* An invalidation is kept when the caller commits after the error and lost
\* when it rolls back.
_assert_approval_binding(x) ==
    LET artifact == ArtifactHash(sess[x].fetched, claims, sess[x].actor, policy)
        found == BindingOf(sess[x].seen, artifact, sess[x].actor) IN
    /\ sess[x].pc = "hash"
    /\ \/ /\ found = "ok" /\ UNCHANGED appr
          /\ Move(x, "insert", [row |-> sess[x].seen, artifact |-> artifact, policy |-> policy], sess[x].fetched)
       \/ found # "ok" /\ End(x) /\ UNCHANGED appr
       \/ found = "invalidate" /\ End(x) /\ Update(sess[x].i, "invalidated", appr[sess[x].i].decider)
    /\ UNCHANGED <<rev, notes, project, lock, claims, policy, promoted>>

\* create_in_project locks the project's row and refuses an archived project;
\* the slug is made from the research task's id and unique.
SlugFree == promoted = <<>>

promote(x) ==
    /\ sess[x].pc = "insert"
    /\ lock = None
    /\ promoted' = IF project.status = "active" /\ SlugFree
                     THEN Append(promoted, [artifact |-> sess[x].seen.artifact, approval |-> sess[x].i,
                                            policy |-> sess[x].seen.policy])
                     ELSE promoted
    /\ End(x)
    /\ UNCHANGED <<appr, rev, notes, project, lock, claims, policy>>

-----------------------------------------------------------------------------
(* What changes around them                                                *)

set_archived(s) ==
    /\ lock = None /\ project.status # s
    /\ project' = [status |-> s, deleted |-> project.deleted]
    /\ UNCHANGED <<appr, rev, notes, lock, claims, policy, promoted, sess>>

\* bulk_soft_delete_in_project and restore_batch_in_project.
SetDeleted(d) ==
    /\ lock = None /\ project.status = "active" /\ project.deleted # d
    /\ project' = [status |-> project.status, deleted |-> d]
    /\ UNCHANGED <<appr, rev, notes, lock, claims, policy, promoted, sess>>

ChangeClaims ==
    /\ claims < MaxVersion
    /\ claims' = claims + 1
    /\ UNCHANGED <<appr, rev, notes, project, lock, policy, promoted, sess>>

\* A deployment with another policy pack.
ChangePolicy ==
    /\ policy = 0
    /\ policy' = 1
    /\ UNCHANGED <<appr, rev, notes, project, lock, claims, promoted, sess>>

-----------------------------------------------------------------------------
Next ==
    \/ \E a \in Actors, c \in ActionClasses : bridge_approval_request_create(a, c)
    \/ "promote" \in Calls /\ \E a \in Actors : \E b \in Actors \ {a} : RequestPromotion(a, b)
    \/ \E x \in Sessions, i \in 1..Len(appr), a \in Actors :
          \/ "decide" \in Calls /\ decide_approval(x, i, a)
          \/ "revise" \in Calls /\ request_approval_revision(x, i, a)
          \/ "promote" \in Calls /\ PromoteLoad(x, i, a)
    \/ \E x \in Sessions, r \in 1..Len(rev) : LoadRevision(x, r)
    \/ \E x \in Sessions :
          \/ assert_approval_target_actionable_locked(x) \/ approve(x) \/ reject(x)
          \/ request_revision(x) \/ create_revised_approval(x)
          \/ _fetch_research_bundle(x) \/ _assert_approval_binding(x) \/ promote(x)
    \/ "archive" \in Calls /\ \E s \in {"active", "archived"} : set_archived(s)
    \/ "archive" \in Calls /\ \E d \in BOOLEAN : SetDeleted(d)
    \/ "stale" \in Calls /\ \E i \in 1..Len(appr) : invalidate_if_stale(i)
    \/ ChangeClaims
    \/ "stale" \in Calls /\ ChangePolicy

Spec == Init /\ [][Next]_vars

-----------------------------------------------------------------------------
(* Properties                                                              *)

\* An approval turns approved only while its ticket is there and its project is
\* not archived, however the deletion or the archiving races the decision.
AuthorizesOnlyLiveWork ==
    [][\A i \in DOMAIN appr : appr[i].status # "approved" /\ appr'[i].status = "approved"
                              /\ appr[i].ref = "ticket" => TicketActionable]_vars

\* A decision is made once: an approval that was decided, revised or found stale
\* is never approved or rejected afterwards, whatever a session had loaded.
DecidedOnce ==
    [][\A i \in DOMAIN appr : appr[i].status # "pending" =>
          appr'[i].status \in {appr[i].status, "invalidated"} /\ appr'[i].decider = appr[i].decider]_vars

\* Nobody decides on their own request, and for merge and deploy not through a
\* delegate either, on whichever side the delegate stands (self_approval_guard.py).
IndependentDecision ==
    \A i \in 1..Len(appr) : appr[i].status \in {"approved", "rejected"} =>
        /\ appr[i].decider # appr[i].requester
        /\ appr[i].action \in {"merge", "deploy"} =>
              EffectiveHuman[appr[i].decider] # EffectiveHuman[appr[i].requester]

\* A ticket made from research is the one a human approved: the same claims in
\* both readings, the same creator and the same policy as in the approval.
PromotedAsApproved ==
    \A k \in 1..Len(promoted) :
        LET a == appr[promoted[k].approval] IN
        /\ a.artifact = promoted[k].artifact
        /\ promoted[k].artifact.summary = promoted[k].artifact.evidence
        /\ a.policy = promoted[k].policy
        /\ a.decider \in Humans \ {a.requester}
        /\ a.status \in {"approved", "invalidated"}

\* One research task becomes at most one ticket, also when two sessions promote
\* it with one approval or with two.
PromotedOnce == Len(promoted) <= 1

\* A revision request is answered by at most one revised approval, which exists
\* and replaces the approval the request is about; what is replaced stays invalidated.
OneReplacement ==
    /\ \A i \in 1..Len(appr) : appr[i].replaces # 0 =>
          /\ Cardinality({r \in 1..Len(rev) : rev[r].superseded_by = i}) = 1
          /\ appr[appr[i].replaces].status = "invalidated"
    /\ \A r \in 1..Len(rev) : rev[r].superseded_by # 0 =>
          appr[rev[r].superseded_by].replaces = rev[r].approval

\* An approval is decided once, and granted only while its project and ticket
\* are actionable (decision_service.py, approval_active_scope.py).
DecisionsStand == AuthorizesOnlyLiveWork /\ DecidedOnce

\* One research task becomes one ticket, promoted from the claims and the policy
\* that were approved (research_to_ticket.py), and a revision request is answered by
\* at most one revised approval (revision_request_service.py).
OneApprovalOneOutcome == PromotedAsApproved /\ PromotedOnce /\ OneReplacement

=============================================================================
