--------------------------- MODULE SecretCapability ---------------------------
(***************************************************************************)
(* One-time capability tokens for secrets (services/secrets/broker.py and  *)
(* repositories/secret_capability_token.py).                               *)
(*                                                                         *)
(* A token is issued for one operation: the actor, the run, the secret,    *)
(* the target, the payload and the approval are bound by a fingerprint.    *)
(* Redeeming it is one transaction of the caller: claim the token with a   *)
(* conditional UPDATE, lock the secret's row and look at it again, resolve *)
(* the secret, run the operation, mark the token.  Row locks are held      *)
(* until the caller commits or rolls back, and what a transaction wrote is *)
(* seen by others only after the commit.                                   *)
(***************************************************************************)
EXTENDS Naturals, FiniteSets

CONSTANTS Tokens,        \* the tokens that may be issued
          Sessions,      \* callers of redeem_capability_token
          Secrets,       \* rows of secret_refs
          AllowedOps,    \* [Secrets -> SUBSET Operations]
          Consumers,     \* [Secrets -> SUBSET actors]
          RunMode,       \* the runs that exist, with their run_mode
          Approvals,     \* [id -> [action_class, ref, run, diff]]
          Requests,      \* contexts callers ask with: [actor, run, op, target, payload, approval]
          InitialSecrets,\* [Secrets -> [status, material]]
          MaxEffects,    \* bound: no redemption begins after so many executions
          None

Operations == {"provider.call", "repo.push", "repo.pr_open",
               "secret.verify", "rotation.read_old", "rotation.read_new"}

_SECRET_SELF_TARGET_OPERATIONS == {"secret.verify", "rotation.read_old", "rotation.read_new"}
_ROTATION_PENDING_VERIFY_OPERATIONS == {"rotation.read_new", "secret.verify"}
_SHADOW_FORBIDDEN_OPERATIONS == {"repo.push", "repo.pr_open"}

_operation_requires_approval(op) ==
    op \in {"repo.push", "repo.pr_open", "rotation.read_old", "rotation.read_new"}

_operation_to_action_class(op) ==
    CASE op = "provider.call" -> "provider_call"
      [] op = "repo.push"     -> "repo_write"
      [] op = "repo.pr_open"  -> "pr_open"
      [] OTHER                -> "secret_access"

\* The resource an approval is about.  The three operations on a secret share
\* one form; a pull request's target includes its commits.
_operation_target_to_ref(target, op) ==
    IF op \in _SECRET_SELF_TARGET_OPERATIONS THEN <<"secret_ref", target>>
                                             ELSE <<op, target>>

VARIABLES
    secret,    \* committed rows of secret_refs: [status, material]
    approval,  \* status of each approval request
    approved,  \* history: the approvals that were ever approved
    token,     \* committed rows of secret_capability_tokens
    expired,   \* tokens whose expires_at has passed
    tokenLock, \* [Tokens \cup Secrets -> holder]: row locks of open transactions
    issuing,   \* the issue transaction after its look at the secret, or None
    sess,      \* redeem transactions: [pc, req, tok, fresh, write, out]
    effects    \* history: operations executed, with the session's sequence number

tokenVars == <<secret, approval, approved, token, expired, tokenLock, issuing, sess, effects>>

SecretStatus == {"pending", "active", "deprecated", "revoked"}
MaterialStates == {"present", "purging", "purged"}
TokenStatus == {"unissued", "issued", "redeeming", "used", "revoked"}
IdleSession == [pc |-> "idle", req |-> None, tok |-> None, fresh |-> FALSE,
                write |-> None, out |-> None]
Holding == {"claimed", "validated", "resolved", "operated", "ending"}

\* A token carries the hash of what it was issued for.
Grants == [ctx : Requests, secret_ref_id : Secrets]

Answers == {"not_found", "expired", "token_used", "actor_mismatch", "run_mismatch",
            "fingerprint_mismatch", "secret_ref_revoked", "secret_ref_deprecated",
            "material_not_present", "operation_mismatch", "consumer_mismatch",
            "secret_target_mismatch", "operation_failed", "redeemed"}

TokenConstantsOK ==
    /\ DOMAIN AllowedOps = Secrets /\ DOMAIN Consumers = Secrets
    /\ \A s \in Secrets : AllowedOps[s] \subseteq Operations
    /\ \A r \in Requests : r.op \in Operations
    /\ InitialSecrets \in [Secrets -> [status : SecretStatus, material : MaterialStates]]
    /\ Tokens \cap Secrets = {}
    /\ None \notin DOMAIN RunMode \cup DOMAIN Approvals \cup Tokens \cup Secrets \cup Sessions
    /\ None \notin Requests \cup Grants \cup TokenStatus \cup Answers

Points == {"idle", "begun", "answered"} \cup Holding
Writes == {None, "redeeming", "used", "revoked"}

SessionsTyped ==
    /\ sess \in [Sessions -> [pc : Points, req : Requests \cup {None}, tok : Tokens \cup {None},
                              fresh : BOOLEAN, write : Writes, out : Answers \cup {None}]]
    /\ \A x \in Sessions : sess[x].pc # "idle" => sess[x].tok \in Tokens /\ sess[x].req \in Requests

\* The states of the rows and of the transactions are of their kinds.  A token row that
\* was never issued has no grant; used_at is set with the claim.
TokenTypeOK ==
    /\ secret \in [Secrets -> [status : SecretStatus, material : MaterialStates]]
    /\ approval \in [DOMAIN Approvals -> {"pending", "approved", "invalidated"}]
    /\ approved \subseteq DOMAIN Approvals /\ expired \subseteq Tokens
    /\ token \in [Tokens -> [status : TokenStatus, used_at : BOOLEAN, grant : Grants \cup {None}]]
    /\ \A t \in Tokens : /\ token[t].status = "unissued" <=> token[t].grant = None
                         /\ token[t].used_at <=> token[t].status \in {"redeeming", "used", "revoked"}
    /\ tokenLock \in [Tokens \cup Secrets -> Sessions \cup {None}]
    /\ issuing \in Grants \cup {None}
    /\ SessionsTyped

TokenInit ==
    /\ secret = InitialSecrets
    /\ approval = [a \in DOMAIN Approvals |-> "pending"]
    /\ approved = {}
    /\ token = [t \in Tokens |-> [status |-> "unissued", used_at |-> FALSE, grant |-> None]]
    /\ expired = {}
    /\ tokenLock = [r \in Tokens \cup Secrets |-> None]
    /\ issuing = None
    /\ sess = [x \in Sessions |-> IdleSession]
    /\ effects = {}

-----------------------------------------------------------------------------
(* What the checks of the broker look at.                                  *)

_secret_ref_status_allowed(status, op) ==
    status = "active" \/ (status = "pending" /\ op \in _ROTATION_PENDING_VERIFY_OPERATIONS)

_assert_repo_mutation_run_is_production(run, op) ==
    op \in _SHADOW_FORBIDDEN_OPERATIONS =>
        run \in DOMAIN RunMode /\ RunMode[run] = "production"

_validate_secret_ref_for_issue(s, actor, op) ==
    /\ _secret_ref_status_allowed(secret[s].status, op)
    /\ secret[s].material = "present"
    /\ op \in AllowedOps[s]
    /\ actor \in Consumers[s]

_secret_target_matches(target, s, op) ==
    op \in _SECRET_SELF_TARGET_OPERATIONS => target = s

_validate_approval_AnyPayload(r) ==
    IF r.approval = None THEN ~_operation_requires_approval(r.op)
    ELSE /\ r.approval \in DOMAIN Approvals
         /\ approval[r.approval] = "approved"
         /\ LET a == Approvals[r.approval] IN
            /\ a.action_class = _operation_to_action_class(r.op)
            /\ r.op \in _SHADOW_FORBIDDEN_OPERATIONS => a.run = r.run
            /\ a.ref = _operation_target_to_ref(r.target, r.op)

_validate_approval(r) ==
    IF r.approval = None THEN ~_operation_requires_approval(r.op)
    ELSE /\ r.approval \in DOMAIN Approvals
         /\ approval[r.approval] = "approved"
         /\ LET a == Approvals[r.approval] IN
            /\ a.action_class = _operation_to_action_class(r.op)
            /\ r.op \in _SHADOW_FORBIDDEN_OPERATIONS => a.diff = r.payload /\ a.run = r.run
            /\ r.op = "provider.call" => a.diff = r.payload
            /\ a.ref = _operation_target_to_ref(r.target, r.op)

\* compute_fingerprint: a hash of the whole operation context, so equal only
\* for equal contexts.
Fingerprint(r, s) == [ctx |-> r, secret_ref_id |-> s]

-----------------------------------------------------------------------------
(* issue_capability_token.  The secret's row is read without a lock, then  *)
(* the approval, then the token is inserted and committed.                 *)

IssueLookAtSecret(r, s) ==
    /\ issuing = None
    /\ _assert_repo_mutation_run_is_production(r.run, r.op)
    /\ _validate_secret_ref_for_issue(s, r.actor, r.op)
    /\ _secret_target_matches(r.target, s, r.op)
    /\ issuing' = Fingerprint(r, s)
    /\ UNCHANGED <<secret, approval, approved, token, expired, tokenLock, sess, effects>>

Issue(t) ==
    /\ issuing # None
    /\ token[t].status = "unissued"
    /\ _validate_approval(issuing.ctx)
    /\ token' = [token EXCEPT ![t] = [status |-> "issued", used_at |-> FALSE, grant |-> issuing]]
    /\ issuing' = None
    /\ UNCHANGED <<secret, approval, approved, expired, tokenLock, sess, effects>>

IssueDenied ==
    /\ issuing # None
    /\ ~_validate_approval(issuing.ctx)
    /\ issuing' = None
    /\ UNCHANGED <<secret, approval, approved, token, expired, tokenLock, sess, effects>>

Expire(t) ==
    /\ token[t].status # "unissued" /\ t \notin expired
    /\ expired' = expired \cup {t}
    /\ UNCHANGED <<secret, approval, approved, token, tokenLock, issuing, sess, effects>>

-----------------------------------------------------------------------------
(* redeem_capability_token, one action per point at which it may wait.     *)

Move(x, pc, write, out) ==
    sess' = [sess EXCEPT ![x] = [pc |-> pc, req |-> sess[x].req, tok |-> sess[x].tok,
                                 fresh |-> sess[x].fresh, write |-> write, out |-> out]]

\* The caller's transaction begins: the database's now() is this moment for
\* every statement of it.
Begin(x, r, t) ==
    /\ sess[x].pc = "idle"
    /\ Cardinality(effects) < MaxEffects
    /\ sess' = [sess EXCEPT ![x] = [pc |-> "begun", req |-> r, tok |-> t, fresh |-> t \notin expired,
                                    write |-> None, out |-> None]]
    /\ UNCHANGED <<secret, approval, approved, token, expired, tokenLock, issuing, effects>>

\* The WHERE clause of the claiming UPDATE on the committed row.
Claimable(x) ==
    LET t == sess[x].tok
        r == sess[x].req IN
    /\ token[t].status = "issued"
    /\ ~token[t].used_at
    /\ sess[x].fresh
    /\ token[t].grant = Fingerprint(r, token[t].grant.secret_ref_id)

\* A row that another transaction has updated is waited for.
atomic_claim(x) ==
    /\ sess[x].pc = "begun"
    /\ Claimable(x)
    /\ tokenLock[sess[x].tok] = None
    /\ tokenLock' = [tokenLock EXCEPT ![sess[x].tok] = x]
    /\ Move(x, "claimed", "redeeming", None)
    /\ UNCHANGED <<secret, approval, approved, token, expired, issuing, effects>>

\* Why no row was updated, in the order the repository asks.
_classify_denied_claim(x) ==
    LET t == sess[x].tok
        row == token[t]
        r == sess[x].req IN
    IF row.status = "unissued" THEN "not_found"
    ELSE IF row.status = "issued" /\ ~row.used_at /\ t \in expired THEN "expired"
    ELSE IF row.status # "issued" \/ row.used_at THEN "token_used"
    ELSE IF row.grant.ctx.actor # r.actor THEN "actor_mismatch"
    ELSE IF row.grant.ctx.run # r.run THEN "run_mismatch"
    ELSE "fingerprint_mismatch"

ClaimDenied(x) ==
    /\ sess[x].pc = "begun"
    /\ ~Claimable(x)
    /\ Move(x, "ending", None, _classify_denied_claim(x))
    /\ UNCHANGED <<secret, approval, approved, token, expired, tokenLock, issuing, effects>>

\* The reason the locked row is refused, or None.  Scope, name and version of a
\* row never change, so the comparison with scope_constraint always agrees.
_validate_secret_ref_after_claim(s, r) ==
    IF secret[s].status = "revoked" THEN "secret_ref_revoked"
    ELSE IF secret[s].status = "deprecated" THEN "secret_ref_deprecated"
    ELSE IF ~_secret_ref_status_allowed(secret[s].status, r.op) THEN "secret_ref_revoked"
    ELSE IF secret[s].material # "present" THEN "material_not_present"
    ELSE IF r.op \notin AllowedOps[s] THEN "operation_mismatch"
    ELSE IF r.actor \notin Consumers[s] THEN "consumer_mismatch"
    ELSE IF ~_secret_target_matches(r.target, s, r.op) THEN "secret_target_mismatch"
    ELSE None

\* _get_secret_ref(lock=True) waits for the row, then looks at it.
LockSecret(x) ==
    LET s == token[sess[x].tok].grant.secret_ref_id
        deny == _validate_secret_ref_after_claim(s, sess[x].req) IN
    /\ sess[x].pc = "claimed"
    /\ tokenLock[s] = None
    /\ tokenLock' = [tokenLock EXCEPT ![s] = x]
    /\ IF deny = None THEN Move(x, "validated", "redeeming", None)
       ELSE Move(x, "ending", "revoked", deny)
    /\ UNCHANGED <<secret, approval, approved, token, expired, issuing, effects>>

\* CompositeSecretResolver: the gate on status and material again, pending only
\* when the broker says so; any failure of the store is a custody error.
ResolverAccepts(s, allow_pending_verify) ==
    /\ secret[s].status \in {"active", "deprecated"}
          \cup (IF allow_pending_verify THEN {"pending"} ELSE {})
    /\ secret[s].material = "present"

_deny_after_claim_custody_failure(x) ==
    Move(x, "ending", "revoked", "material_not_present")

_resolve_secret(x) ==
    LET s == token[sess[x].tok].grant.secret_ref_id
        allow_pending_verify == /\ sess[x].req.op \in _ROTATION_PENDING_VERIFY_OPERATIONS
                                /\ secret[s].status = "pending" IN
    /\ sess[x].pc = "validated"
    /\ \/ /\ ResolverAccepts(s, allow_pending_verify)
          /\ Move(x, "resolved", "redeeming", None)
       \/ _deny_after_claim_custody_failure(x)
    /\ UNCHANGED <<secret, approval, approved, token, expired, tokenLock, issuing, effects>>

\* The operation: done, refused by its own look at the secret before anything
\* was sent, or failed with the outside effect made or not.
Operate(x) ==
    LET did == [tok |-> sess[x].tok, ctx |-> sess[x].req, nr |-> Cardinality(effects)] IN
    /\ sess[x].pc = "resolved"
    /\ \/ /\ effects' = effects \cup {did}
          /\ Move(x, "operated", "redeeming", None)
       \/ /\ _deny_after_claim_custody_failure(x)
          /\ UNCHANGED effects
       \/ /\ effects' \in {effects, effects \cup {did}}
          /\ Move(x, "ending", "redeeming", "operation_failed")
    /\ UNCHANGED <<secret, approval, approved, token, expired, tokenLock, issuing>>

_mark_claimed_token_used(x) ==
    /\ sess[x].pc = "operated"
    /\ Move(x, "ending", "used", "redeemed")
    /\ UNCHANGED <<secret, approval, approved, token, expired, tokenLock, issuing, effects>>

Released(x) == [r \in DOMAIN tokenLock |-> IF tokenLock[r] = x THEN None ELSE tokenLock[r]]

\* The caller commits: after an answer, and in some callers after a failure.
Commit(x) ==
    /\ sess[x].pc = "ending"
    /\ token' = IF sess[x].write = None THEN token
                ELSE [token EXCEPT ![sess[x].tok] = [status |-> sess[x].write, used_at |-> TRUE,
                                                     grant |-> token[sess[x].tok].grant]]
    /\ tokenLock' = Released(x)
    /\ Move(x, "answered", None, sess[x].out)
    /\ UNCHANGED <<secret, approval, approved, expired, issuing, effects>>

\* The caller rolls back, or its process or connection dies at any point.
Rollback(x) ==
    /\ sess[x].pc \in Holding
    /\ tokenLock' = Released(x)
    /\ sess' = [sess EXCEPT ![x] = IdleSession]
    /\ UNCHANGED <<secret, approval, approved, token, expired, issuing, effects>>

-----------------------------------------------------------------------------
(* The other side: approvals are decided and invalidated, secrets are      *)
(* promoted, deprecated, revoked and purged (services/secrets/rotation.py, *)
(* under a lock of the row).                                               *)

Decide(a) ==
    /\ approval[a] = "pending"
    /\ approval' = [approval EXCEPT ![a] = "approved"]
    /\ approved' = approved \cup {a}
    /\ UNCHANGED <<secret, token, expired, tokenLock, issuing, sess, effects>>

Invalidate(a) ==
    /\ approval[a] = "approved"
    /\ approval' = [approval EXCEPT ![a] = "invalidated"]
    /\ UNCHANGED <<secret, approved, token, expired, tokenLock, issuing, sess, effects>>

Promote(s) ==
    /\ secret[s] = [status |-> "pending", material |-> "present"]
    /\ \A u \in Secrets : tokenLock[u] = None
    /\ secret' = [u \in Secrets |->
                    [status |-> IF u = s THEN "active"
                                ELSE IF secret[u].status = "active" THEN "deprecated"
                                ELSE secret[u].status,
                     material |-> secret[u].material]]
    /\ UNCHANGED <<approval, approved, token, expired, tokenLock, issuing, sess, effects>>

Revoke(s) ==
    /\ secret[s].status # "revoked" /\ tokenLock[s] = None
    /\ secret' = [secret EXCEPT ![s] = [status |-> "revoked", material |-> "purging"]]
    /\ UNCHANGED <<approval, approved, token, expired, tokenLock, issuing, sess, effects>>

Purge(s) ==
    /\ secret[s].material = "purging" /\ tokenLock[s] = None
    /\ secret' = [secret EXCEPT ![s] = [status |-> secret[s].status, material |-> "purged"]]
    /\ UNCHANGED <<approval, approved, token, expired, tokenLock, issuing, sess, effects>>

-----------------------------------------------------------------------------
Redeem(x) ==
    \/ atomic_claim(x) \/ ClaimDenied(x) \/ LockSecret(x) \/ _resolve_secret(x)
    \/ Operate(x) \/ _mark_claimed_token_used(x) \/ Commit(x)

TokenNext ==
    \/ \E r \in Requests, s \in Secrets : IssueLookAtSecret(r, s)
    \/ \E t \in Tokens : Issue(t) \/ Expire(t)
    \/ IssueDenied
    \/ \E x \in Sessions, r \in Requests, t \in Tokens : Begin(x, r, t)
    \/ \E x \in Sessions : Redeem(x) \/ Rollback(x)
    \/ \E a \in DOMAIN Approvals : Decide(a) \/ Invalidate(a)
    \/ \E s \in Secrets : Promote(s) \/ Revoke(s) \/ Purge(s)

TokenSpec == TokenInit /\ [][TokenNext]_tokenVars

-----------------------------------------------------------------------------
(* Properties                                                              *)

\* Two open transactions never both hold a claim on one token, so concurrent
\* calls of redeem_capability_token with it are linearized by the claim.
OneRedeemer ==
    \A x, y \in Sessions :
        x # y /\ sess[x].write # None /\ sess[y].write # None => sess[x].tok # sess[y].tok

\* Whatever was executed is what was granted at issue: the same actor, run,
\* target and payload, for a repository change in an existing production run.
\* The operations that need an approval had one, and an approval that came with the
\* request had been given by somebody for that action, that resource, for a
\* repository change and a provider call that payload, and for a repository change
\* that run.
EffectsWereGranted ==
    \A e \in effects :
        LET ask == e.ctx
            a == Approvals[ask.approval]
        IN  /\ token[e.tok].grant.ctx = ask
            /\ ask.op \in {"repo.push", "repo.pr_open"} => RunMode[ask.run] = "production"
            /\ ask.op \in {"repo.push", "repo.pr_open", "rotation.read_old", "rotation.read_new"} =>
                  ask.approval # None
            /\ ask.approval # None =>
                  /\ ask.approval \in approved
                  /\ a.action_class = _operation_to_action_class(ask.op)
                  /\ a.ref = _operation_target_to_ref(ask.target, ask.op)
                  /\ ask.op \in {"repo.push", "repo.pr_open", "provider.call"} => a.diff = ask.payload
                  /\ ask.op \in {"repo.push", "repo.pr_open"} => a.run = ask.run

\* From the look at the locked row until the end of the transaction the secret
\* keeps a status and a material that allow the operation: a promotion, a
\* revocation or a purge waits.
SecretStandsWhileUsed ==
    \A x \in Sessions : sess[x].pc \in {"validated", "resolved", "operated"} =>
        LET s == secret[token[sess[x].tok].grant.secret_ref_id] IN
        /\ s.material = "present"
        /\ s.status = "active" \/ (s.status = "pending" /\ sess[x].req.op \in {"rotation.read_new", "secret.verify"})

\* A caller told that its token is used up was told so rightly, and for good:
\* a committed redemption or denial stands behind it.
UsedMeansUsed ==
    \A x \in Sessions : sess[x].out = "token_used" =>
        token[sess[x].tok].status \in {"redeeming", "used", "revoked"}

\* Once a transaction that got as far as resolving the secret has committed, no
\* other claims the token: neither after success nor after a denial by the
\* secret's custody, so a committed answer is the last one.
CommittedAnswerIsLast ==
    \A x \in Sessions :
        sess[x].pc = "answered" /\ sess[x].out \in {"redeemed", "material_not_present", "operation_failed",
                                                   "secret_ref_revoked", "secret_ref_deprecated"} =>
        \A y \in Sessions \ {x} : sess[y].tok = sess[x].tok => sess[y].write = None

\* At most one session is past the claim of a token, and the secret keeps its
\* status and material while that session uses it; a caller told that its token is
\* used up was told so rightly, and after a committed answer nobody claims it again;
\* every operation that was executed was granted: the actor, the run, the target and the
\* payload are those the token was issued for, and the action, the resource, the payload
\* and the run those its approval was given for (broker.py).
RedemptionsSound ==
    OneRedeemer /\ EffectsWereGranted /\ SecretStandsWhileUsed /\ UsedMeansUsed
    /\ CommittedAnswerIsLast

=============================================================================
