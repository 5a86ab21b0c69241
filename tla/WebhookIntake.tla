---------------------------- MODULE WebhookIntake ----------------------------
(***************************************************************************)
(* Webhooks of GitHub (api/github_webhooks.py, services/repoproxy): a      *)
(* request is checked against the current and the previous version of the  *)
(* HMAC secret, its delivery id is claimed in Redis for the replay window, *)
(* the verdict is audited and committed, and what was accepted is recorded *)
(* as an event, at best effort.  Handlers run concurrently, GitHub         *)
(* delivers again what it got no answer to, secrets are rotated, rolled    *)
(* back and revoked meanwhile, keys expire, and the server, Redis and the  *)
(* database may fail between any two steps.                                *)
(***************************************************************************)
EXTENDS Naturals, Sequences, FiniteSets

CONSTANTS
    Handlers,      \* requests being handled at a time
    Deliveries,    \* delivery ids
    Kind,          \* function: delivery id -> its X-GitHub-Event header
    Payloads,      \* bodies: [installation, part, repo]
    MaxSecrets,    \* bound on versions of the secret
    MaxRequests,   \* bound on requests
    MaxFaults,     \* bound on failures
    NoValue

EventKinds == {"pull_request", "check_run", "check_suite", "status", "push"}

\* Rows of github_webhook_events.
QuarantineReasons == {"parse_validation_failed", "payload_shape_mismatch", "unregistered_repo"}
EventRows == [payload : Payloads, status : {"quarantined", "accepted"},
              reason : QuarantineReasons \cup {NoValue}]

Denials == {"installation_id_required", "delivery_id_required", "secret_not_found", "signature_mismatch",
            "signature_algorithm_unsupported", "invalid_signature_format", "replay_detected"}

WebhookConstantsOK ==
    /\ DOMAIN Kind = Deliveries
    /\ \A p \in Payloads : p.installation \in Nat /\ p.part \in EventKinds \cup {"none", "not_object"}
    /\ MaxSecrets \in Nat \ {0} /\ MaxRequests \in Nat /\ MaxFaults \in Nat
    /\ NoValue \notin QuarantineReasons \cup Denials \cup {"accepted"}
    /\ NoValue \notin Deliveries /\ NoValue \notin Payloads /\ NoValue \notin EventRows

VARIABLES
    versions,    \* rows of the secret by created_at: [status, from, listed]
    material,    \* versions whose material is still in the store
    keys,        \* replay keys in Redis: <<installation, delivery>>
    registered,  \* external ids of registered repositories
    events,      \* github_webhook_events: delivery -> row, or NoValue
    anomalies,   \* <<delivery, payload>> of the hash mismatch audits
    handler,     \* handler -> its local state
    sent, failures,
    first,       \* history: delivery -> the payload recorded first
    accepted,    \* history: requests accepted (committed) in the present window of a key
    dropped      \* history: deliveries claimed and then lost to a failure

secretVars == <<versions, material>>
eventVars == <<events, first>>
webhookVars == <<secretVars, keys, registered, eventVars, anomalies, handler, sent, failures, accepted, dropped>>

Versions == [status : {"active", "deprecated", "revoked"}, from : Nat, listed : BOOLEAN]
NoMessage == [delivery |-> NoValue, payload |-> NoValue, form |-> "missing", by |-> 0]
NoRequest == [pc |-> "idle", msg |-> NoMessage, current |-> 0, previous |-> 0, usable |-> {},
              reason |-> NoValue, tries |-> 0, row |-> NoValue]

HandlerPoints == {"idle", "select", "verify", "claim", "commit", "record", "insert", "inserted"}
Sent == [delivery : Deliveries \cup {NoValue}, payload : Payloads,
         form : {"missing", "other_algorithm", "digest"}, by : Nat]
States == [pc : HandlerPoints, msg : Sent \cup {NoMessage}, current : Nat, previous : Nat,
           usable : SUBSET Nat, reason : Denials \cup {"accepted", NoValue}, tries : 0 .. 1,
           row : EventRows \cup {NoValue}]

\* Denied: only the audit is left to commit.
Denied(why) == [NoRequest EXCEPT !.pc = "commit", !.reason = why]

Usable(v) == versions[v].status \in {"active", "deprecated"}

-----------------------------------------------------------------------------
(* The body *)

_parse_body(p) == p.part # "not_object"

_extract_installation_id(p) == IF _parse_body(p) THEN p.installation ELSE 0

_extract_fields(kind, p) == p.part = kind

\* provider and external_id are unique per tenant: never more than one row.
_resolve_repository(p) == IF p.repo \in registered THEN NoValue ELSE "unregistered_repo"

Row(d, p) ==
    LET quarantined(why) == [payload |-> p, status |-> "quarantined", reason |-> why]
    IN  IF ~_parse_body(p) THEN quarantined("parse_validation_failed")
        ELSE IF ~_extract_fields(Kind[d], p) THEN quarantined("payload_shape_mismatch")
        ELSE IF _resolve_repository(p) # NoValue THEN quarantined(_resolve_repository(p))
        ELSE [payload |-> p, status |-> "accepted", reason |-> NoValue]

-----------------------------------------------------------------------------
(* The versions of the secret *)

_matches_allowlist(v) == versions[v].listed

\* The first active row by created_at.
_select_current ==
    LET rows == {v \in DOMAIN versions : versions[v].status = "active" /\ _matches_allowlist(v)}
    IN  IF rows = {} THEN 0 ELSE CHOOSE v \in rows : \A w \in rows : v <= w

\* The row the current one was rotated from, or the last deprecated one.
_select_previous(current) ==
    LET deprecated == {v \in DOMAIN versions :
                          versions[v].status = "deprecated" /\ _matches_allowlist(v)}
    IN  IF current = 0 \/ deprecated = {} THEN 0
        ELSE IF versions[current].from \in deprecated THEN versions[current].from
        ELSE CHOOSE v \in deprecated : \A w \in deprecated : w <= v

-----------------------------------------------------------------------------
(* Signatures: form says how the header looks, by is the version whose     *)
(* material made the digest (0: some other key).                           *)

verify_github_webhook_signature(m, v) ==
    IF m.form = "other_algorithm" THEN "signature_algorithm_unsupported"
    ELSE IF m.form # "digest" THEN "invalid_signature_format"
    ELSE IF m.by = v THEN "valid" ELSE "signature_mismatch"

\* The helper of the HMAC module: the previous secret whatever the current one said.
verify_with_rotation(m, current, previous) ==
    IF verify_github_webhook_signature(m, current) # "valid" /\ previous # 0
    THEN verify_github_webhook_signature(m, previous)
    ELSE verify_github_webhook_signature(m, current)

\* GitHubWebhookVerifier.verify, once the secrets are read: the previous secret only
\* where the digest is another one.
Verdict(m, current, previous) ==
    LET now == verify_github_webhook_signature(m, current)
    IN  IF current = 0 THEN "secret_not_found"
        ELSE IF now # "signature_mismatch" THEN now
        ELSE IF previous # 0 /\ verify_github_webhook_signature(m, previous) = "valid" THEN "valid"
        ELSE now

-----------------------------------------------------------------------------
(* The handler: receive_github_webhook                                     *)

Key(m) == <<_extract_installation_id(m.payload), m.delivery>>

Goto(x, pc) == handler' = [handler EXCEPT ![x].pc = pc]

Fault == failures < MaxFaults /\ failures' = failures + 1

\* The answer 500 of an exception, or the end of the server: what is not committed is gone.
Lose(x) ==
    /\ handler' = [handler EXCEPT ![x] = NoRequest]
    /\ dropped' = IF handler[x].reason = "accepted" THEN dropped \cup {handler[x].msg.delivery} ELSE dropped

\* Without an installation or a delivery id the request is denied, with an audit.
receive_github_webhook(x, m) ==
    /\ handler[x].pc = "idle" /\ sent < MaxRequests /\ sent' = sent + 1
    /\ LET why == IF _extract_installation_id(m.payload) < 1 THEN "installation_id_required"
                  ELSE IF m.delivery = NoValue THEN "delivery_id_required" ELSE NoValue
       IN  handler' = [handler EXCEPT ![x] =
               IF why # NoValue THEN Denied(why) ELSE [NoRequest EXCEPT !.msg = m, !.pc = "select"]]
    /\ UNCHANGED <<secretVars, keys, registered, eventVars, anomalies, failures, accepted, dropped>>

resolve_webhook_secrets(x) ==
    /\ handler[x].pc = "select"
    /\ handler' = [handler EXCEPT ![x] =
           [@ EXCEPT !.pc = "verify", !.current = _select_current,
                     !.previous = _select_previous(_select_current),
                     !.usable = {v \in DOMAIN versions : Usable(v)}]]
    /\ UNCHANGED <<secretVars, keys, registered, eventVars, anomalies, sent, failures, accepted, dropped>>

\* _to_candidate reads both materials; one that is gone meanwhile raises.
_to_candidate(v) == v = 0 \/ v \in material

verify(x) ==
    /\ handler[x].pc = "verify"
    /\ LET h == handler[x]
           verdict == Verdict(h.msg, h.current, h.previous)
       IN  IF ~_to_candidate(h.current) \/ ~_to_candidate(h.previous) THEN Lose(x)
           ELSE /\ handler' = [handler EXCEPT ![x] =
                       IF verdict = "valid" THEN [h EXCEPT !.pc = "claim", !.current = 0, !.previous = 0]
                       ELSE Denied(verdict)]
                /\ UNCHANGED dropped
    /\ UNCHANGED <<secretVars, keys, registered, eventVars, anomalies, sent, failures, accepted>>

_claim_replay_then_accept_GetThenSet(x) ==
    /\ handler[x].pc = "claim"
    /\ handler' = [handler EXCEPT ![x] = [@ EXCEPT !.pc = "commit", !.reason = "accepted"]]
    /\ keys' = keys \cup {Key(handler[x].msg)}
    /\ UNCHANGED <<secretVars, registered, eventVars, anomalies, sent, failures, accepted, dropped>>

\* claim_once: SET NX EX.
_claim_replay_then_accept(x) ==
    /\ handler[x].pc = "claim"
    /\ handler' = [handler EXCEPT ![x] =
           IF Key(handler[x].msg) \in keys THEN Denied("replay_detected")
           ELSE [@ EXCEPT !.pc = "commit", !.reason = "accepted"]]
    /\ keys' = keys \cup {Key(handler[x].msg)}
    /\ UNCHANGED <<secretVars, registered, eventVars, anomalies, sent, failures, accepted, dropped>>

\* Redis does not answer: the key is set, or it is not.
claim_fails(x) ==
    /\ handler[x].pc = "claim" /\ Fault
    /\ handler' = [handler EXCEPT ![x] = NoRequest]
    /\ \/ keys' = keys /\ UNCHANGED dropped
       \/ keys' = keys \cup {Key(handler[x].msg)} /\ dropped' = dropped \cup {handler[x].msg.delivery}
    /\ UNCHANGED <<secretVars, registered, eventVars, anomalies, sent, accepted>>

\* The audit of the verdict is committed; what was not accepted is answered.
commit(x) ==
    /\ handler[x].pc = "commit"
    /\ IF handler[x].reason = "accepted"
       THEN Goto(x, "record") /\ accepted' = [accepted EXCEPT ![Key(handler[x].msg)] = @ + 1]
       ELSE handler' = [handler EXCEPT ![x] = NoRequest] /\ UNCHANGED accepted
    /\ UNCHANGED <<secretVars, keys, registered, eventVars, anomalies, sent, failures, dropped>>

-----------------------------------------------------------------------------
(* record_webhook_event *)

Tracked(d) == Kind[d] \in EventKinds

\* Other kinds of events, and ids longer than the column, are skipped.  A failing
\* lookup of the repository is not tried again: the event is lost, and answered 202.
record_webhook_event(x) ==
    LET m == handler[x].msg
    IN  /\ handler[x].pc = "record"
        /\ \/ /\ ~Tracked(m.delivery) /\ handler' = [handler EXCEPT ![x] = NoRequest]
              /\ UNCHANGED <<failures, dropped>>
           \/ /\ Tracked(m.delivery)
              /\ handler' = [handler EXCEPT ![x] =
                                [@ EXCEPT !.pc = "insert", !.row = Row(m.delivery, m.payload)]]
              /\ UNCHANGED <<failures, dropped>>
           \/ Tracked(m.delivery) /\ Fault /\ Lose(x)
        /\ UNCHANGED <<secretVars, keys, registered, eventVars, anomalies, sent, accepted>>

\* ON CONFLICT DO NOTHING waits for the transaction that holds the delivery.  A row
\* that is there keeps its content: the same hash is no news, another one is audited.
_insert_or_dedup(x) ==
    LET d == handler[x].msg.delivery
        p == handler[x].msg.payload
    IN  /\ handler[x].pc = "insert"
        /\ \A y \in Handlers : ~(handler[y].pc = "inserted" /\ handler[y].msg.delivery = d)
        /\ IF events[d] = NoValue THEN Goto(x, "inserted") /\ UNCHANGED anomalies
           ELSE /\ handler' = [handler EXCEPT ![x] = NoRequest]
                /\ anomalies' = IF events[d].payload = p THEN anomalies ELSE anomalies \cup {<<d, p>>}
        /\ UNCHANGED <<secretVars, keys, registered, eventVars, sent, failures, accepted, dropped>>

Written(x) ==
    LET d == handler[x].msg.delivery
    IN  /\ events' = [events EXCEPT ![d] = handler[x].row]
        /\ first' = IF first[d] = NoValue THEN [first EXCEPT ![d] = handler[x].msg.payload] ELSE first

insert_committed(x) ==
    /\ handler[x].pc = "inserted" /\ Written(x)
    /\ handler' = [handler EXCEPT ![x] = NoRequest]
    /\ UNCHANGED <<secretVars, keys, registered, anomalies, sent, failures, accepted, dropped>>

\* _persist: one more attempt after a database error, which the commit may have
\* reported after it took effect.
_persist(x) ==
    /\ handler[x].pc \in {"insert", "inserted"} /\ Fault
    /\ UNCHANGED eventVars \/ (handler[x].pc = "inserted" /\ Written(x))
    /\ IF handler[x].tries = 0
       THEN /\ handler' = [handler EXCEPT ![x] = [@ EXCEPT !.pc = "insert", !.tries = 1]]
            /\ UNCHANGED dropped
       ELSE Lose(x)
    /\ UNCHANGED <<secretVars, keys, registered, anomalies, sent, accepted>>

\* The server ends, or the database fails before the verdict is committed.
crash(x) ==
    /\ handler[x].pc # "idle" /\ Fault /\ Lose(x)
    /\ UNCHANGED <<secretVars, keys, registered, eventVars, anomalies, sent, accepted>>

-----------------------------------------------------------------------------
(* What happens around the handlers                                        *)

\* A version registered and promoted: in the place of the active one, or without one.
promote_secret(listed) ==
    /\ Len(versions) < MaxSecrets
    /\ LET active == {v \in DOMAIN versions : versions[v].status = "active"}
           old == IF active = {} THEN 0 ELSE CHOOSE v \in active : TRUE
       IN  versions' = Append([v \in DOMAIN versions |->
                                 IF v = old THEN [versions[v] EXCEPT !.status = "deprecated"] ELSE versions[v]],
                              [status |-> "active", from |-> old, listed |-> listed])
    /\ material' = material \cup {Len(versions) + 1}
    /\ UNCHANGED <<keys, registered, eventVars, anomalies, handler, sent, failures, accepted, dropped>>

rollback(v) ==
    /\ versions[v].status = "active" /\ versions[v].from # 0
    /\ versions[versions[v].from].status = "deprecated"
    /\ versions' = [versions EXCEPT ![v].status = "deprecated", ![versions[v].from].status = "active"]
    /\ UNCHANGED <<material, keys, registered, eventVars, anomalies, handler, sent, failures, accepted, dropped>>

revoke(v) ==
    /\ versions[v].status \in {"active", "deprecated"}
    /\ versions' = [versions EXCEPT ![v].status = "revoked"]
    /\ UNCHANGED <<material, keys, registered, eventVars, anomalies, handler, sent, failures, accepted, dropped>>

\* gc_orphans
purge(v) ==
    /\ versions[v].status = "revoked" /\ v \in material /\ material' = material \ {v}
    /\ UNCHANGED <<versions, keys, registered, eventVars, anomalies, handler, sent, failures, accepted, dropped>>

\* After an hour: no request is that long between its claim and its commit.
expire(k) ==
    /\ k \in keys /\ keys' = keys \ {k} /\ accepted' = [accepted EXCEPT ![k] = 0]
    /\ \A x \in Handlers : handler[x].reason = "accepted" => Key(handler[x].msg) # k
    /\ UNCHANGED <<secretVars, registered, eventVars, anomalies, handler, sent, failures, dropped>>

register_repository(r) ==
    /\ r \notin registered /\ registered' = registered \cup {r}
    /\ UNCHANGED <<secretVars, keys, eventVars, anomalies, handler, sent, failures, accepted, dropped>>

-----------------------------------------------------------------------------

Messages ==
    [delivery : Deliveries \cup {NoValue}, payload : Payloads,
     form : {"missing", "other_algorithm"}, by : {0}] \cup
    [delivery : Deliveries \cup {NoValue}, payload : Payloads, form : {"digest"}, by : 0 .. Len(versions)]

Keys == {_extract_installation_id(p) : p \in Payloads} \X (Deliveries \cup {NoValue})

WebhookInit ==
    /\ versions = <<[status |-> "active", from |-> 0, listed |-> TRUE]>> /\ material = {1}
    /\ keys = {} /\ registered = {} /\ events = [d \in Deliveries |-> NoValue]
    /\ first = [d \in Deliveries |-> NoValue] /\ anomalies = {}
    /\ handler = [x \in Handlers |-> NoRequest] /\ sent = 0 /\ failures = 0
    /\ accepted = [k \in Keys |-> 0] /\ dropped = {}

HandlerNext(x) ==
    \/ \E m \in Messages : receive_github_webhook(x, m)
    \/ resolve_webhook_secrets(x) \/ verify(x) \/ _claim_replay_then_accept(x) \/ claim_fails(x)
    \/ commit(x) \/ record_webhook_event(x) \/ _insert_or_dedup(x) \/ insert_committed(x)
    \/ _persist(x) \/ crash(x)

EnvironmentNext ==
    \/ \E listed \in BOOLEAN : promote_secret(listed)
    \/ \E v \in DOMAIN versions : rollback(v) \/ revoke(v) \/ purge(v)
    \/ \E k \in Keys : expire(k)
    \/ \E p \in Payloads : register_repository(p.repo)

WebhookNext == (\E x \in Handlers : HandlerNext(x)) \/ EnvironmentNext

WebhookSpec == WebhookInit /\ [][WebhookNext]_webhookVars

-----------------------------------------------------------------------------
(* Properties *)

WebhookTypeOK ==
    /\ versions \in Seq(Versions) /\ material \subseteq DOMAIN versions
    /\ \A v \in DOMAIN versions : versions[v].from < v
    /\ keys \subseteq Keys /\ accepted \in [Keys -> Nat]
    /\ events \in [Deliveries -> EventRows \cup {NoValue}] /\ first \in [Deliveries -> Payloads \cup {NoValue}]
    /\ anomalies \subseteq Deliveries \X Payloads /\ dropped \subseteq Deliveries
    /\ handler \in [Handlers -> States]
    /\ sent \in Nat /\ failures \in Nat

\* A request is accepted at most once while its replay key lives, whoever else handles
\* the same delivery and whatever fails (claim_once before the commit).
AcceptedOncePerWindow == \A k \in Keys : accepted[k] <= 1

\* What goes on to be claimed was signed with a version that was active or deprecated
\* when the secrets were read, whatever was rotated since; the service and the helper
\* of the HMAC module accept the same requests.
SignedWithLiveVersion ==
    \A x \in Handlers : LET h == handler[x] IN
        /\ h.pc \in {"claim", "record", "insert", "inserted"}
              => h.msg.form = "digest" /\ h.msg.by \in h.usable
        /\ h.pc = "verify" /\ h.current # 0
              => (Verdict(h.msg, h.current, h.previous) = "valid"
                  <=> verify_with_rotation(h.msg, h.current, h.previous) = "valid")

\* A delivery that is claimed and has no row is being handled, or a failure lost it:
\* a redelivery refused as a replay hides no event the code could have kept
\* (record_webhook_event, _persist).
ClaimedIsKept ==
    \A k \in keys : k[2] \in Deliveries /\ Tracked(k[2]) =>
        \/ events[k[2]] # NoValue
        \/ k[2] \in dropped
        \/ \E x \in Handlers : handler[x].reason = "accepted" /\ Key(handler[x].msg) = k

\* The first payload recorded for a delivery stays, and what is called an anomaly
\* differs from it (_insert_or_dedup).
FirstPayloadStays ==
    /\ \A d \in Deliveries : events[d] # NoValue => events[d].payload = first[d]
    /\ \A a \in anomalies : first[a[1]] \notin {NoValue, a[2]}
    /\ \A d \in Deliveries : events[d] # NoValue /\ events[d].status = "accepted" =>
          events[d].payload.repo \in registered

\* A webhook is accepted once per replay window, signed with a live secret, and
\* recorded as it was first delivered, unless a failure lost it (webhook_service.py,
\* webhook_adapters.py, webhook_event_parser.py).
WebhooksSound ==
    AcceptedOncePerWindow /\ SignedWithLiveVersion /\ ClaimedIsKept /\ FirstPayloadStays
=============================================================================
