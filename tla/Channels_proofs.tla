--------------------------- MODULE Channels_proofs ---------------------------
(***************************************************************************)
(* Webhooks, messages and event streams keep their promises for every set  *)
(* of handlers, sessions and clients and every bound.                      *)
(*   Webhooks: a handler relies on little of the rest (HandlerGood), two   *)
(* handlers never hold one key or one delivery (Apart), and each action is *)
(* shown to keep both for its handler and, by one lemma (OthersKeep), for  *)
(* the others.                                                             *)
(*   Streams: what a stream knows is true of the run (FollowInv), and the  *)
(* places are those of the open streams (PlacesInv).                       *)
(*   Messages: rows are numbered without gap, each session has what its    *)
(* point of the call needs (SessionInv), two transactions never hold the   *)
(* same row or the same end of a log (ApartInv), and rows and event logs   *)
(* tell the same story (RowInv, LogInv).                                   *)
(*   A step of the whole is a step of one of the three, or none (Channel-  *)
(* Step), so what holds of each holds of the whole.                        *)
(***************************************************************************)
EXTENDS Channels, TLAPS, FiniteSetTheorems, SequenceTheorems, WellFoundedInduction

-----------------------------------------------------------------------------
(* Webhooks *)

Live(h) == h.pc \in {"select", "verify", "claim", "record", "insert", "inserted"} \/ h.reason = "accepted"

(* What a handler has on its way: its message, its verdict, its row.       *)
StateGood(h) ==
    /\ h.pc \in {"idle", "select", "verify", "claim"} => h.reason = NoValue
    /\ h.pc \in {"record", "insert", "inserted"} => h.reason = "accepted"
    /\ Live(h) => h.msg \in Sent /\ h.msg.delivery \in Deliveries
    /\ h.pc = "verify" => h.current \in h.usable \cup {0} /\ h.previous \in h.usable \cup {0}
    /\ h.pc = "claim" \/ h.reason = "accepted" => h.msg.form = "digest" /\ h.msg.by \in h.usable
    /\ h.pc \in {"insert", "inserted"} => h.row \in EventRows /\ h.row.payload = h.msg.payload

(* What it relies on of the rest.                                          *)
HandlerGood(x) ==
    LET h == handler[x] IN
    /\ StateGood(h)
    /\ h.reason = "accepted" => Key(h.msg) \in keys
    /\ h.reason = "accepted" /\ h.pc = "commit" => accepted[Key(h.msg)] = 0
    /\ h.pc \in {"insert", "inserted"} /\ h.row.status = "accepted" => h.row.payload.repo \in registered
    /\ h.pc = "inserted" => events[h.msg.delivery] = NoValue

(* One handler has claimed a key and not committed, one holds a delivery.  *)
Apart(x, y) ==
    /\ ~(/\ handler[x].reason = "accepted" /\ handler[x].pc = "commit"
         /\ handler[y].reason = "accepted" /\ handler[y].pc = "commit"
         /\ Key(handler[x].msg) = Key(handler[y].msg))
    /\ ~(/\ handler[x].pc = "inserted" /\ handler[y].pc = "inserted"
         /\ handler[x].msg.delivery = handler[y].msg.delivery)

Counted == \A k \in Keys : accepted[k] # 0 => accepted[k] = 1 /\ k \in keys

FirstKnown ==
    \A d \in Deliveries : IF events[d] = NoValue THEN first[d] = NoValue
                          ELSE first[d] = events[d].payload

RegisteredRows ==
    \A d \in Deliveries : events[d] # NoValue /\ events[d].status = "accepted" =>
        events[d].payload.repo \in registered

RealAnomalies == \A a \in anomalies : first[a[1]] \notin {NoValue, a[2]}

WebhookInv ==
    /\ \A x \in Handlers : HandlerGood(x)
    /\ \A x, y \in Handlers : x # y => Apart(x, y)
    /\ Counted /\ FirstKnown /\ RegisteredRows /\ RealAnomalies /\ ClaimedIsKept

-----------------------------------------------------------------------------
(* Numbers: a nonempty set of naturals has a least element, and a bounded   *)
(* one a greatest.                                                         *)
LEMMA LeastExists ==
    ASSUME NEW T, T \subseteq Nat, T # {}
    PROVE  \E x \in T : \A y \in T : x <= y
<1> DEFINE R == {ss \in Nat \X Nat : ss[1] < ss[2]}
<1>1. IsWellFoundedOn(R, Nat)
  BY NatLessThanWellFounded DEF OpToRel
<1>2. \A x, y \in Nat : <<y, x>> \in R <=> y < x
  OBVIOUS
<1> HIDE DEF R
<1>3. PICK x \in T : \A y \in T : ~ (<<y, x>> \in R)
  BY <1>1, WFMin, Zenon
<1>4. \A y \in T : ~(y < x)
  BY <1>2, <1>3
<1> QED
  BY <1>4

LEMMA GreatestExists ==
    ASSUME NEW n \in Nat, NEW T, T \subseteq 1 .. n, T # {}
    PROVE  \E x \in T : \A y \in T : y <= x
<1> DEFINE D == {n - x : x \in T}
<1>1. D \subseteq Nat /\ D # {}
  <2>1. \A x \in T : x \in Int /\ 1 <= x /\ x <= n
    OBVIOUS
  <2>2. \A x \in T : n - x \in Nat
    BY <2>1
  <2> QED
    BY <2>2
<1>2. PICK d \in D : \A e \in D : d <= e
  <2> HIDE DEF D
  <2> QED
    BY <1>1, LeastExists
<1>3. PICK x \in T : d = n - x
  BY <1>2
<1>4. \A y \in T : n - x <= n - y
  BY <1>2, <1>3
<1>5. \A y \in T : y <= x
  BY <1>4
<1> QED
  BY <1>5

(* The versions that resolve_webhook_secrets reads are usable when it reads *)
(* them, or there is none.                                                 *)
LEMMA Selected ==
    ASSUME versions \in Seq(Versions)
    PROVE  LET current == _select_current
               previous == _select_previous(current)
           IN  /\ current \in {v \in DOMAIN versions : Usable(v)} \cup {0}
               /\ previous \in {v \in DOMAIN versions : Usable(v)} \cup {0}
<1>0. DOMAIN versions = 1 .. Len(versions) /\ Len(versions) \in Nat
  OBVIOUS
<1>1. _select_current \in {v \in DOMAIN versions : Usable(v)} \cup {0}
  <2> DEFINE T == {v \in DOMAIN versions : versions[v].status = "active" /\ _matches_allowlist(v)}
  <2>1. CASE T = {}
    BY <2>1 DEF _select_current
  <2>2. CASE T # {}
    <3>1. \E v \in T : \A w \in T : v <= w
      <4>1. T \subseteq Nat
        BY <1>0
      <4> HIDE DEF T
      <4> QED
        BY <2>2, <4>1, LeastExists
    <3>2. _select_current \in T
      BY <2>2, <3>1 DEF _select_current
    <3> QED
      BY <3>2 DEF Usable
  <2> QED
    BY <2>1, <2>2
<1>2. ASSUME NEW c
      PROVE  _select_previous(c) \in {v \in DOMAIN versions : Usable(v)} \cup {0}
  <2> DEFINE T == {v \in DOMAIN versions : versions[v].status = "deprecated" /\ _matches_allowlist(v)}
  <2>1. CASE T = {} \/ c = 0
    BY <2>1 DEF _select_previous
  <2>2. CASE T # {} /\ c # 0
    <3>1. \E v \in T : \A w \in T : w <= v
      <4>1. T \subseteq 1 .. Len(versions)
        BY <1>0
      <4> HIDE DEF T
      <4> QED
        BY <1>0, <2>2, <4>1, GreatestExists
    <3>2. _select_previous(c) \in T
      BY <2>2, <3>1 DEF _select_previous
    <3> QED
      BY <3>2 DEF Usable
  <2> QED
    BY <2>1, <2>2
<1> QED
  BY <1>1, <1>2

(* What a valid verdict rests on.                                          *)
LEMMA ValidVerdict ==
    ASSUME NEW m, NEW c, NEW p
    PROVE  /\ Verdict(m, c, p) \in Denials \cup {"valid"}
           /\ Verdict(m, c, p) = "valid" =>
                m.form = "digest" /\ ((m.by = c /\ c # 0) \/ (m.by = p /\ p # 0))
<1> DEFINE Check(v) == verify_github_webhook_signature(m, v)
<1>1. ASSUME NEW v
      PROVE  /\ Check(v) \in Denials \cup {"valid"}
             /\ Check(v) = "valid" => m.form = "digest" /\ m.by = v
  BY DEF verify_github_webhook_signature, Denials
<1>2. /\ Check(c) \in Denials \cup {"valid"}
      /\ Check(c) = "valid" => m.form = "digest" /\ m.by = c
      /\ Check(p) = "valid" => m.form = "digest" /\ m.by = p
  BY <1>1
<1>3. \/ c = 0 /\ Verdict(m, c, p) = "secret_not_found"
      \/ c # 0 /\ Verdict(m, c, p) = Check(c)
      \/ c # 0 /\ p # 0 /\ Check(p) = "valid" /\ Verdict(m, c, p) = "valid"
  BY DEF Verdict
<1> HIDE DEF Check
<1> QED
  BY <1>2, <1>3 DEF Denials

(* A row holds the payload it was made from, and an accepted one a         *)
(* registered repository.                                                  *)
LEMMA RowIs ==
    ASSUME WebhookConstantsOK, NEW d, NEW p \in Payloads
    PROVE  /\ Row(d, p) \in EventRows /\ Row(d, p).payload = p
           /\ Row(d, p).status = "accepted" => p.repo \in registered
BY DEF WebhookConstantsOK, Row, EventRows, _resolve_repository, QuarantineReasons

LEMMA KeyIs == ASSUME NEW m \in Sent PROVE Key(m) \in Keys /\ Key(m)[2] = m.delivery
BY DEF Key, Keys, Sent

(* The states of a handler.                                                *)
LEMMA IdleIs ==
    /\ NoRequest \in States /\ NoRequest.pc = "idle" /\ NoRequest.reason = NoValue
    /\ \A why \in Denials :
          Denied(why) \in States /\ Denied(why).pc = "commit" /\ Denied(why).reason = why
<1>1. NoRequest \in States /\ NoRequest.pc = "idle" /\ NoRequest.reason = NoValue
  BY DEF NoRequest, States, HandlerPoints
<1>2. ASSUME NEW why \in Denials
      PROVE  Denied(why) \in States /\ Denied(why).pc = "commit" /\ Denied(why).reason = why
  <2> HIDE DEF NoRequest
  <2> QED
    BY <1>1 DEF Denied, States, HandlerPoints
<1> QED
  BY <1>1, <1>2

LEMMA HandlerSet ==
    ASSUME handler \in [Handlers -> States], NEW x \in Handlers, NEW h \in States,
           handler' = [handler EXCEPT ![x] = h]
    PROVE  /\ handler' \in [Handlers -> States] /\ handler'[x] = h
           /\ \A y \in Handlers : y # x => handler'[y] = handler[y]
OBVIOUS

LEMMA StateSet ==
    ASSUME NEW h \in States, NEW p \in HandlerPoints
    PROVE  LET g == [h EXCEPT !.pc = p]
           IN  /\ g \in States /\ g.pc = p /\ g.msg = h.msg /\ g.reason = h.reason /\ g.row = h.row
               /\ g.usable = h.usable /\ g.current = h.current /\ g.previous = h.previous
BY DEF States

-----------------------------------------------------------------------------
(* A step of a handler: the others keep what they rely on, since keys and   *)
(* repositories only grow, a count changes only for the key that x claimed  *)
(* and a row only for the delivery that x holds.                           *)
Claimer(h) == h.reason = "accepted" /\ h.pc = "commit"

LEMMA OthersKeep ==
    ASSUME WebhookTypeOK, WebhookInv, NEW x \in Handlers,
           \A y \in Handlers : y # x => handler'[y] = handler[y],
           keys \subseteq keys', registered \subseteq registered',
           \/ UNCHANGED accepted
           \/ /\ Claimer(handler[x])
              /\ \A k \in Keys : k # Key(handler[x].msg) => accepted'[k] = accepted[k],
           \/ UNCHANGED events
           \/ /\ handler[x].pc = "inserted"
              /\ \A d \in Deliveries : d # handler[x].msg.delivery => events'[d] = events[d]
    PROVE  /\ \A y \in Handlers : y # x => HandlerGood(y)'
           /\ \A y, z \in Handlers : y # x /\ z # x /\ y # z => Apart(y, z)'
<1>1. ASSUME NEW y \in Handlers, y # x
      PROVE  HandlerGood(y)'
  <2>1. HandlerGood(y) /\ Apart(x, y) /\ handler'[y] = handler[y]
    BY <1>1 DEF WebhookInv
  <2>2. Live(handler[y]) => Key(handler[y].msg) \in Keys /\ handler[y].msg.delivery \in Deliveries
    BY <2>1, KeyIs DEF HandlerGood, StateGood
  <2>3. Claimer(handler[y]) => accepted'[Key(handler[y].msg)] = accepted[Key(handler[y].msg)]
    BY <2>1, <2>2 DEF Apart, Claimer, Live
  <2>4. handler[y].pc = "inserted" => events'[handler[y].msg.delivery] = events[handler[y].msg.delivery]
    BY <2>1, <2>2 DEF Apart, Live
  <2> QED
    BY <2>1, <2>3, <2>4 DEF HandlerGood, Claimer
<1>2. ASSUME NEW y \in Handlers, NEW z \in Handlers, y # x, z # x, y # z
      PROVE  Apart(y, z)'
  BY <1>2 DEF WebhookInv, Apart
<1> QED
  BY <1>1, <1>2

(* A handler that is no claimer and holds no delivery is apart from all.    *)
LEMMA ApartKeeps ==
    ASSUME WebhookTypeOK, WebhookInv, NEW x \in Handlers,
           \A y \in Handlers : y # x => handler'[y] = handler[y],
           Claimer(handler'[x]) => \A y \in Handlers : y # x /\ Claimer(handler[y]) =>
                                      Key(handler[y].msg) # Key(handler'[x].msg),
           handler'[x].pc = "inserted" => \A y \in Handlers : y # x /\ handler[y].pc = "inserted" =>
                                      handler[y].msg.delivery # handler'[x].msg.delivery,
           \A y, z \in Handlers : y # x /\ z # x /\ y # z => Apart(y, z)'
    PROVE  \A y, z \in Handlers : y # z => Apart(y, z)'
<1>1. ASSUME NEW y \in Handlers, y # x
      PROVE  Apart(x, y)' /\ Apart(y, x)'
  BY <1>1 DEF Apart, Claimer
<1> QED
  BY <1>1

(* Claims outlive a step of x unless x gives its own up, with a row, as    *)
(* dropped or as one that is not tracked.                                  *)
LEMMA KeptKeeps ==
    ASSUME WebhookTypeOK, WebhookInv, NEW x \in Handlers,
           \A y \in Handlers : y # x => handler'[y] = handler[y],
           dropped \subseteq dropped',
           \A d \in Deliveries : events[d] # NoValue => events'[d] # NoValue,
           \A k \in keys' : \/ k \in keys
                            \/ k[2] \in dropped'
                            \/ handler'[x].reason = "accepted" /\ Key(handler'[x].msg) = k,
           handler[x].reason = "accepted" =>
              \/ handler'[x].reason = "accepted" /\ handler'[x].msg = handler[x].msg
              \/ handler[x].msg.delivery \in dropped'
              \/ events'[handler[x].msg.delivery] # NoValue
              \/ ~Tracked(handler[x].msg.delivery)
    PROVE  ClaimedIsKept'
<1> SUFFICES ASSUME NEW k \in keys', k[2] \in Deliveries, Tracked(k[2])
             PROVE  \/ events'[k[2]] # NoValue
                    \/ k[2] \in dropped'
                    \/ \E y \in Handlers : handler'[y].reason = "accepted" /\ Key(handler'[y].msg) = k
  BY DEF ClaimedIsKept, Tracked
<1>1. CASE k \in keys
  <2>1. CASE \E y \in Handlers : y # x /\ handler[y].reason = "accepted" /\ Key(handler[y].msg) = k
    BY <2>1
  <2>2. CASE handler[x].reason = "accepted" /\ Key(handler[x].msg) = k
    <3>1. k[2] = handler[x].msg.delivery
      BY <2>2 DEF Key
    <3> QED
      BY <2>2, <3>1
  <2>3. CASE events[k[2]] # NoValue \/ k[2] \in dropped
    BY <2>3
  <2> QED
    BY <1>1, <2>1, <2>2, <2>3 DEF WebhookInv, ClaimedIsKept
<1>2. CASE k \notin keys
  BY <1>2
<1> QED
  BY <1>1, <1>2

(* A step of x that changes nothing but x and, perhaps, what was dropped.  *)
LEMMA QuietStep ==
    ASSUME WebhookTypeOK, WebhookInv, NEW x \in Handlers, NEW g \in States,
           handler' = [handler EXCEPT ![x] = g],
           UNCHANGED <<secretVars, keys, registered, eventVars, anomalies, accepted>>,
           dropped \subseteq dropped', dropped' \subseteq Deliveries, sent' \in Nat, failures' \in Nat,
           StateGood(g),
           g.reason = "accepted" => /\ handler[x].reason = "accepted" /\ g.msg = handler[x].msg
                                    /\ g.pc = "commit" => handler[x].pc = "commit",
           g.pc \in {"insert", "inserted"} /\ g.row.status = "accepted" => g.row.payload.repo \in registered,
           g.pc = "inserted" =>
              /\ events[g.msg.delivery] = NoValue
              /\ \A y \in Handlers : y # x /\ handler[y].pc = "inserted" =>
                    handler[y].msg.delivery # g.msg.delivery,
           handler[x].reason = "accepted" =>
              \/ g.reason = "accepted" /\ g.msg = handler[x].msg
              \/ handler[x].msg.delivery \in dropped'
              \/ events[handler[x].msg.delivery] # NoValue
              \/ ~Tracked(handler[x].msg.delivery)
    PROVE  WebhookTypeOK' /\ WebhookInv'
<1> USE DEF secretVars, eventVars
<1>1. /\ handler' \in [Handlers -> States] /\ handler'[x] = g
      /\ \A y \in Handlers : y # x => handler'[y] = handler[y]
  BY HandlerSet DEF WebhookTypeOK
<1>2. WebhookTypeOK'
  BY <1>1 DEF WebhookTypeOK
<1>3. /\ \A y \in Handlers : y # x => HandlerGood(y)'
      /\ \A y, z \in Handlers : y # x /\ z # x /\ y # z => Apart(y, z)'
  BY <1>1, OthersKeep
<1>4. HandlerGood(x) /\ \A y \in Handlers : y # x => Apart(x, y)
  BY DEF WebhookInv
<1>5. HandlerGood(x)'
  BY <1>1, <1>4 DEF HandlerGood
<1>6. Claimer(g) => \A y \in Handlers : y # x /\ Claimer(handler[y]) => Key(handler[y].msg) # Key(g.msg)
  BY <1>4 DEF Claimer, Apart
<1>7. \A y, z \in Handlers : y # z => Apart(y, z)'
  BY <1>1, <1>3, <1>6, ApartKeeps
<1>8. ClaimedIsKept'
  BY <1>1, KeptKeeps
<1>9. Counted' /\ FirstKnown' /\ RegisteredRows' /\ RealAnomalies'
  BY DEF WebhookInv, Counted, FirstKnown, RegisteredRows, RealAnomalies
<1> QED
  BY <1>2, <1>3, <1>5, <1>7, <1>8, <1>9 DEF WebhookInv

LEMMA HandlerIs ==
    ASSUME WebhookTypeOK, WebhookInv, NEW x \in Handlers
    PROVE  /\ handler[x] \in States /\ HandlerGood(x) /\ StateGood(handler[x])
           /\ sent \in Nat /\ failures \in Nat /\ dropped \subseteq Deliveries
BY DEF WebhookTypeOK, WebhookInv, HandlerGood

LEMMA IdleGood ==
    ASSUME WebhookConstantsOK
    PROVE  StateGood(NoRequest) /\ \A why \in Denials : StateGood(Denied(why)) /\ why # "accepted"
<1>1. \A why \in Denials : why # "accepted"
  BY DEF Denials
<1> QED
  BY <1>1, IdleIs DEF StateGood, Live, WebhookConstantsOK

(* Before the claim.                                                       *)
LEMMA ReceiveKeeps ==
    ASSUME WebhookConstantsOK, WebhookTypeOK, WebhookInv, NEW x \in Handlers, NEW m \in Messages,
           receive_github_webhook(x, m)
    PROVE  WebhookTypeOK' /\ WebhookInv'
<1> USE HandlerIs, IdleIs DEF receive_github_webhook
<1>1. m \in Sent
  BY DEF Messages, Sent, WebhookTypeOK
<1>2. handler[x].reason # "accepted"
  BY DEF StateGood, WebhookConstantsOK
<1>s. /\ sent' \in Nat /\ failures' \in Nat /\ dropped' = dropped /\ dropped \subseteq Deliveries
      /\ UNCHANGED <<secretVars, keys, registered, eventVars, anomalies, accepted>>
  OBVIOUS
<1>3. CASE _extract_installation_id(m.payload) < 1
  <2>1. handler' = [handler EXCEPT ![x] = Denied("installation_id_required")]
    BY <1>3 DEF WebhookConstantsOK, Denials
  <2> DEFINE g == Denied("installation_id_required")
  <2>2. "installation_id_required" \in Denials
    BY DEF Denials
  <2>3. g \in States /\ StateGood(g) /\ g.pc = "commit" /\ g.reason # "accepted"
    BY <2>2, IdleGood
  <2> HIDE DEF g
  <2> QED
    BY <1>2, <1>s, <2>1, <2>3, QuietStep DEF g
<1>4. CASE ~(_extract_installation_id(m.payload) < 1) /\ m.delivery = NoValue
  <2>1. handler' = [handler EXCEPT ![x] = Denied("delivery_id_required")]
    BY <1>4 DEF WebhookConstantsOK, Denials
  <2> DEFINE g == Denied("delivery_id_required")
  <2>2. "delivery_id_required" \in Denials
    BY DEF Denials
  <2>3. g \in States /\ StateGood(g) /\ g.pc = "commit" /\ g.reason # "accepted"
    BY <2>2, IdleGood
  <2> HIDE DEF g
  <2> QED
    BY <1>2, <1>s, <2>1, <2>3, QuietStep DEF g
<1>5. CASE ~(_extract_installation_id(m.payload) < 1) /\ m.delivery # NoValue
  <2> DEFINE g == [NoRequest EXCEPT !.msg = m, !.pc = "select"]
  <2>1. handler' = [handler EXCEPT ![x] = g]
    BY <1>5
  <2>2. g \in States /\ g.pc = "select" /\ g.msg = m /\ g.reason = NoValue
    <3> HIDE DEF NoRequest
    <3> QED
      BY <1>1 DEF States, HandlerPoints
  <2> HIDE DEF g
  <2>3. StateGood(g)
    BY <1>1, <1>5, <2>2 DEF StateGood, Live, WebhookConstantsOK, Sent
  <2> QED
    BY <1>2, <1>s, <2>1, <2>2, <2>3, QuietStep DEF WebhookConstantsOK
<1> QED
  BY <1>3, <1>4, <1>5

LEMMA ResolveKeeps ==
    ASSUME WebhookConstantsOK, WebhookTypeOK, WebhookInv, NEW x \in Handlers, resolve_webhook_secrets(x)
    PROVE  WebhookTypeOK' /\ WebhookInv'
<1> USE HandlerIs DEF resolve_webhook_secrets
<1> DEFINE h == handler[x]
           c == _select_current
           p == _select_previous(_select_current)
           U == {v \in DOMAIN versions : Usable(v)}
           g == [h EXCEPT !.pc = "verify", !.current = c, !.previous = p, !.usable = U]
<1>1. h \in States /\ StateGood(h) /\ h.pc = "select" /\ handler' = [handler EXCEPT ![x] = g]
  OBVIOUS
<1>2. c \in U \cup {0} /\ p \in U \cup {0} /\ U \subseteq Nat
  BY Selected DEF WebhookTypeOK
<1> HIDE DEF h, c, p, U
<1>3. /\ g \in States /\ g.pc = "verify" /\ g.msg = h.msg /\ g.reason = h.reason
      /\ g.current = c /\ g.previous = p /\ g.usable = U
  <2>1. c \in Nat /\ p \in Nat
    BY <1>2
  <2> QED
    BY <1>1, <1>2, <2>1 DEF States, HandlerPoints
<1> HIDE DEF g
<1>4. h.reason # "accepted" /\ g.reason # "accepted" /\ StateGood(g)
  BY <1>1, <1>2, <1>3 DEF StateGood, Live, WebhookConstantsOK
<1> QED
  BY <1>1, <1>3, <1>4, QuietStep DEF h

(* A handler that ends without a row: it accepted nothing, or it is dropped.*)
LEMMA LoseKeeps ==
    ASSUME WebhookConstantsOK, WebhookTypeOK, WebhookInv, NEW x \in Handlers, Lose(x),
           UNCHANGED <<secretVars, keys, registered, eventVars, anomalies, accepted>>,
           sent' \in Nat, failures' \in Nat
    PROVE  WebhookTypeOK' /\ WebhookInv'
<1> DEFINE g == NoRequest
<1>1. /\ g \in States /\ StateGood(g) /\ g.pc = "idle" /\ g.reason # "accepted"
      /\ handler' = [handler EXCEPT ![x] = g]
  BY IdleIs, IdleGood DEF WebhookConstantsOK, Lose
<1>2. /\ dropped \subseteq dropped' /\ dropped' \subseteq Deliveries
      /\ handler[x].reason = "accepted" => handler[x].msg.delivery \in dropped'
  BY HandlerIs DEF Lose, StateGood, Live
<1> HIDE DEF g
<1> QED
  BY <1>1, <1>2, QuietStep

LEMMA FaultCounts == ASSUME WebhookTypeOK, Fault PROVE failures' \in Nat
BY DEF WebhookTypeOK, Fault

LEMMA VerifyKeeps ==
    ASSUME WebhookConstantsOK, WebhookTypeOK, WebhookInv, NEW x \in Handlers, verify(x)
    PROVE  WebhookTypeOK' /\ WebhookInv'
<1> DEFINE h == handler[x]
           verdict == Verdict(h.msg, h.current, h.previous)
           gone == ~_to_candidate(h.current) \/ ~_to_candidate(h.previous)
<1>0. /\ sent' \in Nat /\ failures' \in Nat /\ h.pc = "verify" /\ h \in States /\ StateGood(h)
      /\ UNCHANGED <<secretVars, keys, registered, eventVars, anomalies, accepted>>
      /\ dropped \subseteq Deliveries
  BY HandlerIs DEF verify
<1>1. h.reason # "accepted" /\ h.msg \in Sent /\ h.msg.delivery \in Deliveries
      /\ h.current \in h.usable \cup {0} /\ h.previous \in h.usable \cup {0}
  BY <1>0 DEF StateGood, Live, WebhookConstantsOK
<1>2. CASE gone
  BY <1>0, <1>2, LoseKeeps DEF verify
<1>3. CASE ~gone /\ verdict = "valid"
  <2> DEFINE g == [h EXCEPT !.pc = "claim", !.current = 0, !.previous = 0]
  <2>1. handler' = [handler EXCEPT ![x] = g] /\ UNCHANGED dropped
    BY <1>3 DEF verify
  <2>2. h.msg.form = "digest" /\ h.msg.by \in h.usable
    BY <1>1, <1>3, ValidVerdict
  <2>3. g \in States /\ g.pc = "claim" /\ g.msg = h.msg /\ g.reason = h.reason /\ g.usable = h.usable
    BY <1>0 DEF States, HandlerPoints
  <2> HIDE DEF g
  <2>4. StateGood(g)
    BY <1>0, <1>1, <2>2, <2>3 DEF StateGood, Live
  <2> QED
    BY <1>0, <1>1, <2>1, <2>3, <2>4, QuietStep
<1>4. CASE ~gone /\ verdict # "valid"
  <2> DEFINE g == Denied(verdict)
  <2>1. handler' = [handler EXCEPT ![x] = g] /\ UNCHANGED dropped
    BY <1>4 DEF verify
  <2>2. verdict \in Denials
    BY <1>4, ValidVerdict
  <2> HIDE DEF verdict
  <2>3. g \in States /\ g.pc = "commit" /\ g.reason # "accepted" /\ StateGood(g)
    BY <2>2, IdleIs, IdleGood
  <2> HIDE DEF g
  <2> QED
    BY <1>0, <1>1, <2>1, <2>3, QuietStep
<1> QED
  BY <1>2, <1>3, <1>4

(* The claim: of the handlers that ask for a key one gets it.              *)
LEMMA ClaimKeeps ==
    ASSUME WebhookConstantsOK, WebhookTypeOK, WebhookInv, NEW x \in Handlers,
           _claim_replay_then_accept(x) \/ claim_fails(x)
    PROVE  WebhookTypeOK' /\ WebhookInv'
<1> DEFINE h == handler[x]
           k == Key(h.msg)
           g == handler'[x]
<1>0. /\ h.pc = "claim" /\ h \in States /\ StateGood(h) /\ sent' \in Nat /\ failures' \in Nat
      /\ UNCHANGED <<secretVars, registered, eventVars, anomalies, accepted>>
      /\ keys \subseteq keys' /\ keys' \subseteq keys \cup {k}
  BY HandlerIs, FaultCounts DEF _claim_replay_then_accept, claim_fails
<1>1. /\ h.reason # "accepted" /\ h.msg \in Sent /\ h.msg.delivery \in Deliveries
      /\ h.msg.form = "digest" /\ h.msg.by \in h.usable
      /\ k \in Keys /\ k[2] = h.msg.delivery
  BY <1>0, KeyIs DEF StateGood, Live, WebhookConstantsOK
<1>2. /\ \E s \in States : handler' = [handler EXCEPT ![x] = s]
      /\ StateGood(g) /\ g.pc \in {"idle", "commit"}
      /\ g.reason = "accepted" => g.msg = h.msg /\ k \notin keys /\ k \in keys'
      /\ k \in keys' /\ k \notin keys => g.reason = "accepted" \/ h.msg.delivery \in dropped'
      /\ dropped \subseteq dropped' /\ dropped' \subseteq Deliveries
  <2>1. CASE claim_fails(x)
    <3>1. handler' = [handler EXCEPT ![x] = NoRequest] /\ NoRequest \in States
      BY <2>1, IdleIs DEF claim_fails
    <3>2. g = NoRequest
      BY <3>1, HandlerSet DEF WebhookTypeOK
    <3> QED
      BY <1>1, <2>1, <3>1, <3>2, HandlerIs, IdleIs, IdleGood DEF claim_fails, WebhookConstantsOK
  <2>2. CASE _claim_replay_then_accept(x) /\ k \in keys
    <3> DEFINE s == Denied("replay_detected")
    <3>1. handler' = [handler EXCEPT ![x] = s] /\ UNCHANGED dropped
      BY <2>2 DEF _claim_replay_then_accept
    <3>2. "replay_detected" \in Denials
      BY DEF Denials
    <3>3. s \in States /\ s.pc = "commit" /\ s.reason # "accepted" /\ StateGood(s)
      BY <3>2, IdleIs, IdleGood
    <3> HIDE DEF s
    <3>4. g = s
      BY <3>1, <3>3, HandlerSet DEF WebhookTypeOK
    <3> QED
      BY <2>2, <3>1, <3>3, <3>4, HandlerIs
  <2>3. CASE _claim_replay_then_accept(x) /\ k \notin keys
    <3> DEFINE s == [h EXCEPT !.pc = "commit", !.reason = "accepted"]
    <3>1. handler' = [handler EXCEPT ![x] = s] /\ UNCHANGED dropped /\ keys' = keys \cup {k}
      BY <2>3 DEF _claim_replay_then_accept
    <3>2. s \in States /\ s.pc = "commit" /\ s.reason = "accepted" /\ s.msg = h.msg /\ s.usable = h.usable
      BY <1>0 DEF States, HandlerPoints
    <3> HIDE DEF s
    <3>3. g = s /\ StateGood(s)
      BY <1>1, <3>1, <3>2, HandlerSet DEF WebhookTypeOK, StateGood
    <3> QED
      BY <2>3, <3>1, <3>2, <3>3, HandlerIs
  <2> QED
    BY <2>1, <2>2, <2>3
<1>3. handler' \in [Handlers -> States] /\ \A y \in Handlers : y # x => handler'[y] = handler[y]
  BY <1>2, HandlerSet DEF WebhookTypeOK
<1>4. WebhookTypeOK'
  BY <1>0, <1>1, <1>2, <1>3 DEF WebhookTypeOK, secretVars, eventVars
<1>5. /\ \A y \in Handlers : y # x => HandlerGood(y)'
      /\ \A y, z \in Handlers : y # x /\ z # x /\ y # z => Apart(y, z)'
  BY <1>0, <1>3, OthersKeep DEF eventVars
<1>6. k \notin keys => accepted[k] = 0
  BY <1>1 DEF WebhookInv, Counted
<1>7. HandlerGood(x)'
  BY <1>0, <1>2, <1>6 DEF HandlerGood
<1>8. \A y \in Handlers : Claimer(handler[y]) => Key(handler[y].msg) \in keys
  BY DEF WebhookInv, HandlerGood, Claimer
<1>9. \A y, z \in Handlers : y # z => Apart(y, z)'
  BY <1>2, <1>3, <1>5, <1>8, ApartKeeps DEF Claimer
<1>10. ClaimedIsKept'
  BY <1>0, <1>1, <1>2, <1>3, KeptKeeps DEF eventVars
<1>11. Counted' /\ FirstKnown' /\ RegisteredRows' /\ RealAnomalies'
  BY <1>0 DEF WebhookInv, Counted, FirstKnown, RegisteredRows, RealAnomalies, eventVars
<1> QED
  BY <1>4, <1>5, <1>7, <1>9, <1>10, <1>11 DEF WebhookInv

(* The commit counts the request that holds the key, once.                 *)
LEMMA CommitKeeps ==
    ASSUME WebhookConstantsOK, WebhookTypeOK, WebhookInv, NEW x \in Handlers, commit(x)
    PROVE  WebhookTypeOK' /\ WebhookInv'
<1> DEFINE h == handler[x]
           k == Key(h.msg)
<1>0. /\ h.pc = "commit" /\ h \in States /\ StateGood(h) /\ HandlerGood(x) /\ sent' \in Nat /\ failures' \in Nat
      /\ dropped' = dropped /\ dropped \subseteq Deliveries
      /\ UNCHANGED <<secretVars, keys, registered, eventVars, anomalies>>
  BY HandlerIs DEF commit
<1>1. CASE h.reason # "accepted"
  <2> DEFINE g == NoRequest
  <2>1. handler' = [handler EXCEPT ![x] = g] /\ UNCHANGED accepted
    BY <1>1 DEF commit
  <2>2. g \in States /\ StateGood(g) /\ g.pc = "idle" /\ g.reason # "accepted"
    BY IdleIs, IdleGood DEF WebhookConstantsOK
  <2> HIDE DEF g
  <2> QED
    BY <1>0, <1>1, <2>1, <2>2, QuietStep
<1>2. CASE h.reason = "accepted"
  <2> DEFINE g == [h EXCEPT !.pc = "record"]
  <2>1. /\ handler' = [handler EXCEPT ![x] = g]
        /\ accepted' = [accepted EXCEPT ![k] = @ + 1]
    BY <1>2 DEF commit, Goto
  <2>2. g \in States /\ g.pc = "record" /\ g.msg = h.msg /\ g.reason = h.reason /\ g.usable = h.usable
    BY <1>0, StateSet DEF HandlerPoints
  <2> HIDE DEF g
  <2>3. StateGood(g)
    BY <1>0, <1>2, <2>2 DEF StateGood, Live
  <2>4. k \in Keys /\ k \in keys /\ accepted[k] = 0 /\ accepted \in [Keys -> Nat]
    BY <1>0, <1>2, KeyIs DEF HandlerGood, StateGood, Live, WebhookTypeOK
  <2> HIDE DEF k
  <2>5. /\ accepted' \in [Keys -> Nat] /\ accepted'[k] = 1
        /\ \A j \in Keys : j # k => accepted'[j] = accepted[j]
    BY <2>1, <2>4
  <2>6. /\ handler' \in [Handlers -> States] /\ handler'[x] = g
        /\ \A y \in Handlers : y # x => handler'[y] = handler[y]
    BY <2>1, <2>2, HandlerSet DEF WebhookTypeOK
  <2>7. WebhookTypeOK'
    BY <1>0, <2>5, <2>6 DEF WebhookTypeOK, secretVars, eventVars
  <2>8. Claimer(h)
    BY <1>0, <1>2 DEF Claimer
  <2>9. /\ \A y \in Handlers : y # x => HandlerGood(y)'
        /\ \A y, z \in Handlers : y # x /\ z # x /\ y # z => Apart(y, z)'
    BY <1>0, <2>5, <2>6, <2>8, OthersKeep DEF eventVars, k
  <2>10. HandlerGood(x)'
    BY <1>0, <1>2, <2>2, <2>3, <2>6 DEF HandlerGood
  <2>11. \A y, z \in Handlers : y # z => Apart(y, z)'
    BY <2>2, <2>6, <2>9, ApartKeeps DEF Claimer
  <2>12. ClaimedIsKept'
    BY <1>0, <2>2, <2>6, KeptKeeps DEF eventVars
  <2>13. Counted'
    BY <1>0, <2>4, <2>5 DEF WebhookInv, Counted, Keys
  <2>14. FirstKnown' /\ RegisteredRows' /\ RealAnomalies'
    BY <1>0 DEF WebhookInv, FirstKnown, RegisteredRows, RealAnomalies, eventVars
  <2> QED
    BY <2>7, <2>9, <2>10, <2>11, <2>12, <2>13, <2>14 DEF WebhookInv
<1> QED
  BY <1>1, <1>2

(* After the commit: the row of the event.                                 *)
LEMMA RecordKeeps ==
    ASSUME WebhookConstantsOK, WebhookTypeOK, WebhookInv, NEW x \in Handlers, record_webhook_event(x)
    PROVE  WebhookTypeOK' /\ WebhookInv'
<1> DEFINE h == handler[x]
           d == h.msg.delivery
           p == h.msg.payload
<1>0. /\ h.pc = "record" /\ h \in States /\ StateGood(h) /\ HandlerGood(x) /\ sent' \in Nat
      /\ failures \in Nat /\ dropped \subseteq Deliveries
      /\ UNCHANGED <<secretVars, keys, registered, eventVars, anomalies, accepted>>
  BY HandlerIs DEF record_webhook_event
<1>1. h.reason = "accepted" /\ h.msg \in Sent /\ p \in Payloads
  BY <1>0 DEF StateGood, Live, Sent
<1>2. CASE ~Tracked(d) /\ handler' = [handler EXCEPT ![x] = NoRequest] /\ UNCHANGED <<failures, dropped>>
  <2> DEFINE g == NoRequest
  <2>1. handler' = [handler EXCEPT ![x] = g] /\ dropped' = dropped /\ failures' \in Nat
    BY <1>0, <1>2
  <2>2. g \in States /\ StateGood(g) /\ g.pc = "idle" /\ g.reason # "accepted"
    BY IdleIs, IdleGood DEF WebhookConstantsOK
  <2> HIDE DEF g
  <2> QED
    BY <1>0, <1>2, <2>1, <2>2, QuietStep
<1>3. CASE handler' = [handler EXCEPT ![x] = [@ EXCEPT !.pc = "insert", !.row = Row(d, p)]]
           /\ UNCHANGED <<failures, dropped>>
  <2> DEFINE r == Row(d, p)
             g == [h EXCEPT !.pc = "insert", !.row = r]
  <2>1. handler' = [handler EXCEPT ![x] = g] /\ dropped' = dropped /\ failures' \in Nat
    BY <1>0, <1>3
  <2>2. r \in EventRows /\ r.payload = p /\ (r.status = "accepted" => p.repo \in registered)
    BY <1>1, RowIs
  <2> HIDE DEF r
  <2>3. /\ g \in States /\ g.pc = "insert" /\ g.msg = h.msg /\ g.reason = h.reason
        /\ g.usable = h.usable /\ g.row = r
    BY <1>0, <2>2 DEF States, HandlerPoints
  <2> HIDE DEF g
  <2>4. StateGood(g)
    BY <1>0, <1>1, <2>2, <2>3 DEF StateGood, Live
  <2>5. g.row.status = "accepted" => g.row.payload.repo \in registered
    BY <2>2, <2>3
  <2>6. g.reason = "accepted" => /\ h.reason = "accepted" /\ g.msg = h.msg
                                 /\ g.pc = "commit" => h.pc = "commit"
    BY <1>1, <2>3
  <2>7. g.pc # "inserted"
    BY <2>3
  <2> QED
    BY <1>0, <1>1, <2>1, <2>3, <2>4, <2>5, <2>6, <2>7, QuietStep
<1>4. CASE Fault /\ Lose(x)
  BY <1>0, <1>4, FaultCounts, LoseKeeps
<1> QED
  BY <1>2, <1>3, <1>4 DEF record_webhook_event

LEMMA InsertKeeps ==
    ASSUME WebhookConstantsOK, WebhookTypeOK, WebhookInv, NEW x \in Handlers, _insert_or_dedup(x)
    PROVE  WebhookTypeOK' /\ WebhookInv'
<1> DEFINE h == handler[x]
           d == h.msg.delivery
           p == h.msg.payload
<1>0. /\ h.pc = "insert" /\ h \in States /\ StateGood(h) /\ HandlerGood(x)
      /\ sent' \in Nat /\ failures' \in Nat /\ dropped' = dropped /\ dropped \subseteq Deliveries
      /\ UNCHANGED <<secretVars, keys, registered, eventVars, accepted>>
      /\ \A y \in Handlers : ~(handler[y].pc = "inserted" /\ handler[y].msg.delivery = d)
  BY HandlerIs DEF _insert_or_dedup
<1>1. h.reason = "accepted" /\ h.msg \in Sent /\ p \in Payloads /\ d \in Deliveries
  BY <1>0 DEF StateGood, Live, Sent
<1>2. CASE events[d] = NoValue
  <2> DEFINE g == [h EXCEPT !.pc = "inserted"]
  <2>1. handler' = [handler EXCEPT ![x] = g] /\ UNCHANGED anomalies
    BY <1>2 DEF _insert_or_dedup, Goto
  <2>2. /\ g \in States /\ g.pc = "inserted" /\ g.msg = h.msg /\ g.reason = h.reason
        /\ g.usable = h.usable /\ g.row = h.row
    BY <1>0, StateSet DEF HandlerPoints
  <2> HIDE DEF g
  <2>3. StateGood(g)
    BY <1>0, <1>1, <2>2 DEF StateGood, Live
  <2>4. g.row.status = "accepted" => g.row.payload.repo \in registered
    BY <1>0, <2>2 DEF HandlerGood
  <2>5. /\ events[g.msg.delivery] = NoValue
        /\ \A y \in Handlers : y # x /\ handler[y].pc = "inserted" => handler[y].msg.delivery # g.msg.delivery
    BY <1>0, <1>2, <2>2
  <2>6. g.reason = "accepted" /\ g.msg = h.msg /\ g.pc # "commit"
    BY <1>1, <2>2
  <2> QED
    BY <1>0, <1>1, <2>1, <2>2, <2>3, <2>4, <2>5, <2>6, QuietStep
<1>3. CASE events[d] # NoValue
  <2>1. /\ handler' = [handler EXCEPT ![x] = NoRequest]
        /\ anomalies' = IF events[d].payload = p THEN anomalies ELSE anomalies \cup {<<d, p>>}
    BY <1>3 DEF _insert_or_dedup
  <2>2. /\ handler' \in [Handlers -> States] /\ handler'[x] = NoRequest
        /\ \A y \in Handlers : y # x => handler'[y] = handler[y]
    BY <2>1, IdleIs, HandlerSet DEF WebhookTypeOK
  <2>3. WebhookTypeOK'
    BY <1>0, <1>1, <2>1, <2>2 DEF WebhookTypeOK, secretVars, eventVars
  <2>4. /\ \A y \in Handlers : y # x => HandlerGood(y)'
        /\ \A y, z \in Handlers : y # x /\ z # x /\ y # z => Apart(y, z)'
    BY <1>0, <2>2, OthersKeep DEF eventVars
  <2>5. NoRequest.pc = "idle" /\ NoRequest.reason # "accepted" /\ StateGood(NoRequest)
    BY IdleIs, IdleGood DEF WebhookConstantsOK
  <2>6. HandlerGood(x)'
    BY <2>2, <2>5 DEF HandlerGood
  <2>7. \A y, z \in Handlers : y # z => Apart(y, z)'
    BY <2>2, <2>4, <2>5, ApartKeeps DEF Claimer
  <2>8. ClaimedIsKept'
    BY <1>0, <1>3, <2>2, KeptKeeps DEF eventVars
  <2>9. first[d] = events[d].payload /\ events[d] \in EventRows
    BY <1>1, <1>3 DEF WebhookInv, FirstKnown, WebhookTypeOK
  <2>10. first[d] # NoValue
    BY <2>9 DEF WebhookConstantsOK, EventRows
  <2>11. RealAnomalies'
    BY <1>0, <2>1, <2>9, <2>10 DEF WebhookInv, RealAnomalies, eventVars
  <2>12. Counted' /\ FirstKnown' /\ RegisteredRows'
    BY <1>0 DEF WebhookInv, Counted, FirstKnown, RegisteredRows, eventVars
  <2> QED
    BY <2>3, <2>4, <2>6, <2>7, <2>8, <2>11, <2>12 DEF WebhookInv
<1> QED
  BY <1>2, <1>3

(* The row takes effect: the first one of its delivery, since the handler   *)
(* holds the delivery.                                                     *)
LEMMA WrittenKeeps ==
    ASSUME WebhookConstantsOK, WebhookTypeOK, WebhookInv, NEW x \in Handlers, NEW g \in States,
           handler[x].pc = "inserted", Written(x), handler' = [handler EXCEPT ![x] = g],
           UNCHANGED <<secretVars, keys, registered, anomalies, accepted>>,
           dropped \subseteq dropped', dropped' \subseteq Deliveries, sent' \in Nat, failures' \in Nat,
           StateGood(g), g.pc \in {"idle", "insert"},
           g.pc = "insert" => g.msg = handler[x].msg /\ g.row = handler[x].row
    PROVE  WebhookTypeOK' /\ WebhookInv'
<1> DEFINE h == handler[x]
           d == h.msg.delivery
           p == h.msg.payload
<1>0. h \in States /\ StateGood(h) /\ HandlerGood(x)
  BY HandlerIs
<1>1. /\ h.reason = "accepted" /\ h.msg \in Sent /\ p \in Payloads /\ d \in Deliveries
      /\ h.row \in EventRows /\ h.row.payload = p /\ h.row # NoValue /\ p # NoValue
      /\ (h.row.status = "accepted" => p.repo \in registered) /\ events[d] = NoValue
  BY <1>0 DEF StateGood, Live, Sent, HandlerGood, WebhookConstantsOK
<1>2. first[d] = NoValue
  BY <1>1 DEF WebhookInv, FirstKnown
<1>3. /\ events' = [events EXCEPT ![d] = h.row] /\ first' = [first EXCEPT ![d] = p]
      /\ events \in [Deliveries -> EventRows \cup {NoValue}] /\ first \in [Deliveries -> Payloads \cup {NoValue}]
  BY <1>2 DEF Written, WebhookTypeOK
<1>4. /\ events' \in [Deliveries -> EventRows \cup {NoValue}] /\ first' \in [Deliveries -> Payloads \cup {NoValue}]
      /\ events'[d] = h.row /\ first'[d] = p
      /\ \A e \in Deliveries : e # d => events'[e] = events[e] /\ first'[e] = first[e]
  BY <1>1, <1>3
<1>5. /\ handler' \in [Handlers -> States] /\ handler'[x] = g
      /\ \A y \in Handlers : y # x => handler'[y] = handler[y]
  BY HandlerSet DEF WebhookTypeOK
<1>6. WebhookTypeOK'
  BY <1>4, <1>5 DEF WebhookTypeOK, secretVars
<1>7. /\ \A y \in Handlers : y # x => HandlerGood(y)'
      /\ \A y, z \in Handlers : y # x /\ z # x /\ y # z => Apart(y, z)'
  BY <1>4, <1>5, OthersKeep
<1>8. HandlerGood(x)'
  <2>1. g.reason = "accepted" => g.pc = "insert"
    BY DEF StateGood, WebhookConstantsOK
  <2> QED
    BY <1>0, <1>1, <1>5, <2>1 DEF HandlerGood
<1>9. \A y, z \in Handlers : y # z => Apart(y, z)'
  BY <1>5, <1>7, ApartKeeps DEF Claimer
<1>10. ClaimedIsKept'
  <2>1. \A e \in Deliveries : events[e] # NoValue => events'[e] # NoValue
    BY <1>1, <1>4
  <2>2. events'[d] # NoValue
    BY <1>1, <1>4
  <2>3. \A k \in keys' : k \in keys
    OBVIOUS
  <2> QED
    BY <1>5, <2>1, <2>2, <2>3, KeptKeeps
<1>11. Counted'
  BY DEF WebhookInv, Counted
<1>12. FirstKnown' /\ RegisteredRows'
  BY <1>1, <1>4 DEF WebhookInv, FirstKnown, RegisteredRows
<1>13. RealAnomalies'
  BY <1>2, <1>4 DEF WebhookInv, RealAnomalies, WebhookTypeOK
<1> QED
  BY <1>6, <1>7, <1>8, <1>9, <1>10, <1>11, <1>12, <1>13 DEF WebhookInv

LEMMA PersistKeeps ==
    ASSUME WebhookConstantsOK, WebhookTypeOK, WebhookInv, NEW x \in Handlers,
           insert_committed(x) \/ _persist(x) \/ crash(x)
    PROVE  WebhookTypeOK' /\ WebhookInv'
<1> DEFINE h == handler[x]
<1>0. h \in States /\ StateGood(h) /\ HandlerGood(x) /\ sent \in Nat /\ failures \in Nat /\ dropped \subseteq Deliveries
  BY HandlerIs
<1>1. NoRequest \in States /\ StateGood(NoRequest) /\ NoRequest.pc = "idle" /\ NoRequest.reason # "accepted"
  BY IdleIs, IdleGood DEF WebhookConstantsOK
<1>2. CASE insert_committed(x)
  <2>1. /\ h.pc = "inserted" /\ Written(x) /\ handler' = [handler EXCEPT ![x] = NoRequest]
        /\ UNCHANGED <<secretVars, keys, registered, anomalies, accepted>>
        /\ sent' = sent /\ failures' = failures /\ dropped' = dropped
    BY <1>2 DEF insert_committed
  <2> DEFINE g == NoRequest
  <2>2. g \in States /\ StateGood(g) /\ g.pc = "idle" /\ handler' = [handler EXCEPT ![x] = g]
    BY <1>1, <2>1
  <2> HIDE DEF g
  <2> QED
    BY <1>0, <2>1, <2>2, WrittenKeeps
<1>3. CASE crash(x)
  <2>1. /\ Lose(x) /\ UNCHANGED <<secretVars, keys, registered, eventVars, anomalies, accepted>>
        /\ sent' \in Nat /\ failures' \in Nat
    BY <1>0, <1>3, FaultCounts DEF crash
  <2> QED
    BY <2>1, LoseKeeps
<1>4. CASE _persist(x)
  <2>1. /\ h.pc \in {"insert", "inserted"} /\ sent' \in Nat /\ failures' \in Nat
        /\ UNCHANGED <<secretVars, keys, registered, anomalies, accepted>>
        /\ UNCHANGED eventVars \/ (h.pc = "inserted" /\ Written(x))
    BY <1>0, <1>4, FaultCounts DEF _persist
  <2>2. CASE h.tries = 0
    <3> DEFINE g == [h EXCEPT !.pc = "insert", !.tries = 1]
    <3>1. handler' = [handler EXCEPT ![x] = g] /\ dropped' = dropped
      BY <1>4, <2>2 DEF _persist
    <3>2. /\ g \in States /\ g.pc = "insert" /\ g.msg = h.msg /\ g.reason = h.reason
          /\ g.usable = h.usable /\ g.row = h.row
      <4>1. 1 \in 0 .. 1
        OBVIOUS
      <4> QED
        BY <1>0, <4>1 DEF States, HandlerPoints
    <3> HIDE DEF g
    <3>3. h.reason = "accepted" /\ StateGood(g)
      BY <1>0, <2>1, <3>2 DEF StateGood, Live
    <3>4. g.row.status = "accepted" => g.row.payload.repo \in registered
      BY <1>0, <2>1, <3>2 DEF HandlerGood
    <3>5. g.reason = "accepted" /\ g.pc # "commit" /\ g.pc # "inserted"
      BY <3>2, <3>3
    <3>6. CASE UNCHANGED eventVars
      BY <1>0, <2>1, <3>1, <3>2, <3>3, <3>4, <3>5, <3>6, QuietStep
    <3>7. CASE h.pc = "inserted" /\ Written(x)
      BY <1>0, <2>1, <3>1, <3>2, <3>3, <3>7, WrittenKeeps
    <3> QED
      BY <2>1, <3>6, <3>7
  <2>3. CASE h.tries # 0
    <3>1. Lose(x)
      BY <1>4, <2>3 DEF _persist
    <3>2. CASE UNCHANGED eventVars
      BY <2>1, <3>1, <3>2, LoseKeeps
    <3>3. CASE h.pc = "inserted" /\ Written(x)
      <4> DEFINE g == NoRequest
      <4>1. handler' = [handler EXCEPT ![x] = g] /\ g \in States /\ StateGood(g) /\ g.pc = "idle"
        BY <1>1, <3>1 DEF Lose
      <4>2. dropped \subseteq dropped' /\ dropped' \subseteq Deliveries
        BY <1>0, <3>1 DEF Lose, StateGood, Live
      <4> HIDE DEF g
      <4> QED
        BY <2>1, <3>3, <4>1, <4>2, WrittenKeeps
    <3> QED
      BY <2>1, <3>2, <3>3
  <2> QED
    BY <2>2, <2>3
<1> QED
  BY <1>2, <1>3, <1>4

(* Around the handlers.                                                    *)
LEMMA SecretsKeep ==
    ASSUME WebhookConstantsOK, WebhookTypeOK, WebhookInv,
           \/ \E listed \in BOOLEAN : promote_secret(listed)
           \/ \E v \in DOMAIN versions : rollback(v) \/ revoke(v) \/ purge(v)
    PROVE  WebhookTypeOK' /\ WebhookInv'
<1>1. UNCHANGED <<keys, registered, events, first, anomalies, handler, sent, failures, accepted, dropped>>
  BY DEF promote_secret, rollback, revoke, purge, eventVars
<1>2. WebhookInv'
  BY <1>1 DEF WebhookInv, HandlerGood, Apart, Counted, FirstKnown, RegisteredRows, RealAnomalies, ClaimedIsKept
<1>3. /\ versions \in Seq(Versions) /\ material \subseteq DOMAIN versions
      /\ DOMAIN versions = 1 .. Len(versions) /\ Len(versions) \in Nat
      /\ \A v \in DOMAIN versions : versions[v] \in Versions /\ versions[v].from < v
  BY DEF WebhookTypeOK
<1>4. /\ versions' \in Seq(Versions) /\ material' \subseteq DOMAIN versions'
      /\ \A v \in DOMAIN versions' : versions'[v].from < v
  <2>1. ASSUME NEW listed \in BOOLEAN, promote_secret(listed)
        PROVE  <1>4
    <3> DEFINE live == {v \in DOMAIN versions : versions[v].status = "active"}
               old == IF live = {} THEN 0 ELSE CHOOSE v \in live : TRUE
               left == [v \in DOMAIN versions |->
                          IF v = old THEN [versions[v] EXCEPT !.status = "deprecated"] ELSE versions[v]]
               new == [status |-> "active", from |-> old, listed |-> listed]
    <3>1. versions' = Append(left, new) /\ material' = material \cup {Len(versions) + 1}
      BY <2>1 DEF promote_secret
    <3>2. old \in 0 .. Len(versions)
      BY <1>3
    <3> HIDE DEF old
    <3>3. new \in Versions /\ new.from = old
      BY <3>2 DEF Versions
    <3>4. \A v \in DOMAIN versions : left[v] \in Versions /\ left[v].from < v
      BY <1>3 DEF Versions
    <3>5. left \in Seq(Versions) /\ DOMAIN left = 1 .. Len(versions) /\ Len(left) = Len(versions)
      BY <1>3, <3>4
    <3> HIDE DEF left, new
    <3>6. /\ versions' \in Seq(Versions) /\ Len(versions') = Len(versions) + 1
          /\ DOMAIN versions' = 1 .. Len(versions) + 1
          /\ \A v \in 1 .. Len(versions) : versions'[v] = left[v]
          /\ versions'[Len(versions) + 1] = new
      BY <1>3, <3>1, <3>3, <3>5
    <3>7. \A v \in 1 .. Len(versions) + 1 : versions'[v].from < v
      BY <1>3, <3>2, <3>3, <3>4, <3>6
    <3> QED
      BY <1>3, <3>1, <3>6, <3>7
  <2>2. ASSUME NEW v \in DOMAIN versions, NEW mark \in {"active", "deprecated", "revoked"}
        PROVE  LET g == [versions[v] EXCEPT !.status = mark]
               IN  g \in Versions /\ g.from = versions[v].from
    BY <1>3 DEF Versions
  <2>3. ASSUME NEW v \in DOMAIN versions, revoke(v)
        PROVE  <1>4
    <3> DEFINE g == [versions[v] EXCEPT !.status = "revoked"]
    <3>1. versions' = [versions EXCEPT ![v] = g] /\ UNCHANGED material
      BY <2>3 DEF revoke
    <3>2. g \in Versions /\ g.from = versions[v].from
      BY <2>2
    <3> HIDE DEF g
    <3> QED
      BY <1>3, <3>1, <3>2
  <2>4. ASSUME NEW v \in DOMAIN versions, rollback(v)
        PROVE  <1>4
    <3> DEFINE w == versions[v].from
               g == [versions[v] EXCEPT !.status = "deprecated"]
               f == [versions[w] EXCEPT !.status = "active"]
    <3>1. w # 0 /\ w \in Nat /\ w < v /\ w \in DOMAIN versions
      BY <1>3, <2>4 DEF rollback, Versions
    <3>2. versions' = [versions EXCEPT ![v] = g, ![w] = f] /\ UNCHANGED material
      BY <2>4, <3>1 DEF rollback
    <3>3. g \in Versions /\ g.from = versions[v].from /\ f \in Versions /\ f.from = versions[w].from
      BY <2>2, <3>1
    <3> HIDE DEF g, f, w
    <3> QED
      BY <1>3, <3>1, <3>2, <3>3
  <2>5. ASSUME NEW v \in DOMAIN versions, purge(v)
        PROVE  <1>4
    BY <1>3, <2>5 DEF purge
  <2> QED
    BY <2>1, <2>3, <2>4, <2>5
<1> QED
  BY <1>1, <1>2, <1>4 DEF WebhookTypeOK

(* A window ends: no handler still counts on its key.                      *)
LEMMA ExpireKeeps ==
    ASSUME WebhookConstantsOK, WebhookTypeOK, WebhookInv, NEW k \in Keys, expire(k)
    PROVE  WebhookTypeOK' /\ WebhookInv'
<1>1. /\ k \in keys /\ keys' = keys \ {k} /\ accepted' = [accepted EXCEPT ![k] = 0]
      /\ \A x \in Handlers : handler[x].reason = "accepted" => Key(handler[x].msg) # k
      /\ UNCHANGED <<versions, material, registered, events, first, anomalies, handler, sent, failures, dropped>>
  BY DEF expire, secretVars, eventVars
<1>2. /\ accepted \in [Keys -> Nat] /\ accepted' \in [Keys -> Nat] /\ accepted'[k] = 0
      /\ \A j \in Keys : j # k => accepted'[j] = accepted[j]
  BY <1>1 DEF WebhookTypeOK
<1>3. WebhookTypeOK'
  BY <1>1, <1>2 DEF WebhookTypeOK, Keys
<1>4. ASSUME NEW x \in Handlers
      PROVE  HandlerGood(x)'
  <2>1. HandlerGood(x)
    BY DEF WebhookInv
  <2>2. handler[x].reason = "accepted" => Key(handler[x].msg) \in Keys
    BY <2>1, KeyIs DEF HandlerGood, StateGood, Live
  <2> QED
    BY <1>1, <1>2, <2>1, <2>2 DEF HandlerGood
<1>5. \A x, y \in Handlers : x # y => Apart(x, y)'
  BY <1>1 DEF WebhookInv, Apart
<1>6. Counted'
  BY <1>1, <1>2 DEF WebhookInv, Counted, Keys
<1>7. FirstKnown' /\ RegisteredRows' /\ RealAnomalies' /\ ClaimedIsKept'
  BY <1>1 DEF WebhookInv, FirstKnown, RegisteredRows, RealAnomalies, ClaimedIsKept
<1> QED
  BY <1>3, <1>4, <1>5, <1>6, <1>7 DEF WebhookInv

LEMMA RegisterKeeps ==
    ASSUME WebhookConstantsOK, WebhookTypeOK, WebhookInv, NEW r, register_repository(r)
    PROVE  WebhookTypeOK' /\ WebhookInv'
<1>1. /\ registered \subseteq registered'
      /\ UNCHANGED <<versions, material, keys, events, first, anomalies, handler, sent, failures, accepted, dropped>>
  BY DEF register_repository, secretVars, eventVars
<1>2. WebhookTypeOK'
  BY <1>1 DEF WebhookTypeOK
<1>3. WebhookInv'
  BY <1>1 DEF WebhookInv, HandlerGood, Apart, Counted, FirstKnown, RegisteredRows, RealAnomalies, ClaimedIsKept
<1> QED
  BY <1>2, <1>3

-----------------------------------------------------------------------------
LEMMA InitGood == ASSUME WebhookConstantsOK, WebhookInit PROVE WebhookTypeOK /\ WebhookInv
<1>1. WebhookTypeOK
  <2>1. versions \in Seq(Versions) /\ DOMAIN versions = {1} /\ versions[1].from = 0
    BY DEF WebhookInit, Versions
  <2> QED
    BY <2>1, IdleIs DEF WebhookInit, WebhookTypeOK
<1>2. ASSUME NEW x \in Handlers
      PROVE  HandlerGood(x) /\ handler[x].pc = "idle"
  BY IdleIs, IdleGood DEF WebhookInit, HandlerGood, WebhookConstantsOK
<1>3. Counted /\ FirstKnown /\ RegisteredRows /\ RealAnomalies /\ ClaimedIsKept
  BY DEF WebhookInit, Counted, FirstKnown, RegisteredRows, RealAnomalies, ClaimedIsKept
<1>4. \A x, y \in Handlers : Apart(x, y)
  BY <1>2 DEF Apart
<1> QED
  BY <1>1, <1>2, <1>3, <1>4 DEF WebhookInv

LEMMA StepGood ==
    ASSUME WebhookConstantsOK, WebhookTypeOK, WebhookInv, [WebhookNext]_webhookVars
    PROVE  WebhookTypeOK' /\ WebhookInv'
<1>1. ASSUME NEW x \in Handlers, HandlerNext(x)
      PROVE  WebhookTypeOK' /\ WebhookInv'
  BY <1>1, ReceiveKeeps, ResolveKeeps, VerifyKeeps, ClaimKeeps, CommitKeeps, RecordKeeps,
     InsertKeeps, PersistKeeps DEF HandlerNext
<1>2. CASE EnvironmentNext
  BY <1>2, SecretsKeep, ExpireKeeps, RegisterKeeps DEF EnvironmentNext
<1>3. CASE UNCHANGED webhookVars
  BY <1>3 DEF webhookVars, secretVars, eventVars, WebhookTypeOK, WebhookInv, HandlerGood, Apart, Counted,
     FirstKnown, RegisteredRows, RealAnomalies, ClaimedIsKept
<1> QED
  BY <1>1, <1>2, <1>3 DEF WebhookNext

LEMMA AlwaysGood == WebhookConstantsOK /\ WebhookSpec => [](WebhookTypeOK /\ WebhookInv)
<1>1. WebhookConstantsOK /\ WebhookInit => WebhookTypeOK /\ WebhookInv
  BY InitGood
<1>2. WebhookConstantsOK /\ WebhookTypeOK /\ WebhookInv /\ [WebhookNext]_webhookVars => WebhookTypeOK' /\ WebhookInv'
  BY StepGood
<1>3. WebhookConstantsOK => []WebhookConstantsOK
  OBVIOUS
<1> QED
  BY <1>1, <1>2, <1>3, PTL DEF WebhookSpec

(* What the state of the intake is made of, for any number of handlers,    *)
(* deliveries, payloads, versions and failures (api/github_webhooks.py).   *)
THEOREM WebhookTypes == WebhookConstantsOK => (WebhookSpec => []WebhookTypeOK)
BY AlwaysGood, PTL

(* The promises of the intake, for any number of handlers and failures: one *)
(* acceptance of a delivery while its replay key lives (claim_once), only   *)
(* what a live version signed is claimed, a claimed delivery has a row, is  *)
(* handled or was lost to a failure, the first payload of a delivery stays. *)
THEOREM WebhookSafety == WebhookConstantsOK => (WebhookSpec => []WebhooksSound)
<1>1. WebhookTypeOK /\ WebhookInv => WebhooksSound
  <2> SUFFICES ASSUME WebhookTypeOK, WebhookInv
               PROVE  WebhooksSound
    OBVIOUS
  <2>1. AcceptedOncePerWindow
    BY DEF WebhookTypeOK, WebhookInv, Counted, AcceptedOncePerWindow
  <2>2. SignedWithLiveVersion
    <3> SUFFICES ASSUME NEW x \in Handlers
                 PROVE  /\ handler[x].pc \in {"claim", "record", "insert", "inserted"}
                             => handler[x].msg.form = "digest" /\ handler[x].msg.by \in handler[x].usable
                        /\ handler[x].pc = "verify" /\ handler[x].current # 0
                             => (Verdict(handler[x].msg, handler[x].current, handler[x].previous) = "valid"
                                 <=> verify_with_rotation(handler[x].msg, handler[x].current,
                                                          handler[x].previous) = "valid")
      BY DEF SignedWithLiveVersion
    <3>1. StateGood(handler[x])
      BY DEF WebhookInv, HandlerGood
    <3>2. ASSUME NEW m, NEW c, NEW p, c # 0
          PROVE  Verdict(m, c, p) = "valid" <=> verify_with_rotation(m, c, p) = "valid"
      BY <3>2 DEF Verdict, verify_with_rotation, verify_github_webhook_signature
    <3> QED
      BY <3>1, <3>2 DEF StateGood
  <2>3. FirstPayloadStays
    BY DEF WebhookInv, FirstKnown, RegisteredRows, RealAnomalies, FirstPayloadStays
  <2> QED
    BY <2>1, <2>2, <2>3 DEF WebhooksSound, WebhookInv
<1> QED
  BY <1>1, AlwaysGood, PTL

-----------------------------------------------------------------------------
(* Event streams *)

OpenStreams == {s \in Streams : st[s].pc # "closed"}

\* Every open stream holds a place, and there are finitely many.
PlacesInv == IsFiniteSet(OpenStreams) /\ active = Cardinality(OpenStreams) /\ active <= MaxStreams

\* What a stream knows is true of the run; the drain before the end has all the events.
FollowInv(s) ==
    /\ st[s].pc # "closed" => received[s] <= st[s].cursor
    /\ st[s].row => terminal
    /\ st[s].pc = "drain" => st[s].then # "closed" /\ (st[s].then = "end" => terminal)
    /\ st[s].pc = "end" => terminal /\ (st[s].cursor >= finalSeq \/ ~visible)
    /\ ended[s] = "terminal" => st[s].pc = "closed" /\ terminal /\ (received[s] >= finalSeq \/ ~visible)

StreamInv == StreamTypeOK /\ PlacesInv /\ \A s \in Streams : FollowInv(s)

-----------------------------------------------------------------------------

\* What the steps change of a stream, and what they leave.
SetOnly(s) == st' \in [Streams -> StreamStates] /\ \A t \in Streams : t # s => st'[t] = st[t]

LEMMA AfterStatus ==
    ASSUME NEW s \in Streams, st \in [Streams -> StreamStates], NEW h \in {"closed", "announce", "status", "end"}, NEW b \in BOOLEAN,
           st' = [st EXCEPT ![s] = [st[s] EXCEPT !.pc = "drain", !.then = h, !.row = b]]
    PROVE  SetOnly(s) /\ st'[s].pc = "drain" /\ st'[s].then = h /\ st'[s].cursor = st[s].cursor /\ st'[s].row = b
<1> DEFINE C == BOOLEAN
           P == StreamPoints
           H == {"closed", "announce", "status", "end"}
<1>1. /\ StreamStates = [pc : P, then : H, cursor : Nat, row : C, listening : C, gone : C]
      /\ TRUE \in C /\ FALSE \in C /\ {"closed", "status"} \subseteq H
      /\ {"closed", "acquire", "first_status", "drain", "wait"} \subseteq P /\ h \in H /\ b \in C
  BY DEF StreamStates, StreamPoints
<1> HIDE DEF C, P, H
<1>2. st \in [Streams -> [pc : P, then : H, cursor : Nat, row : C, listening : C, gone : C]]
  BY <1>1
<1> QED
  BY <1>1, <1>2 DEF SetOnly, Closed

LEMMA AfterPage ==
    ASSUME NEW s \in Streams, st \in [Streams -> StreamStates], NEW p \in StreamPoints, NEW n \in Nat,
           st' = [st EXCEPT ![s] = [st[s] EXCEPT !.cursor = n, !.pc = p]]
    PROVE  SetOnly(s) /\ st'[s].pc = p /\ st'[s].then = st[s].then /\ st'[s].cursor = n /\ st'[s].row = st[s].row
<1> DEFINE C == BOOLEAN
           P == StreamPoints
           H == {"closed", "announce", "status", "end"}
<1>1. /\ StreamStates = [pc : P, then : H, cursor : Nat, row : C, listening : C, gone : C]
      /\ TRUE \in C /\ FALSE \in C /\ {"closed", "status"} \subseteq H
      /\ {"closed", "acquire", "first_status", "drain", "wait"} \subseteq P /\ p \in P
  BY DEF StreamStates, StreamPoints
<1> HIDE DEF C, P, H
<1>2. st \in [Streams -> [pc : P, then : H, cursor : Nat, row : C, listening : C, gone : C]]
  BY <1>1
<1> QED
  BY <1>1, <1>2 DEF SetOnly, Closed

LEMMA AfterWait ==
    ASSUME NEW s \in Streams, st \in [Streams -> StreamStates], NEW b \in BOOLEAN,
           st' = [st EXCEPT ![s] = [st[s] EXCEPT !.pc = "wait", !.row = b]]
    PROVE  SetOnly(s) /\ st'[s].pc = "wait" /\ st'[s].cursor = st[s].cursor /\ st'[s].row = b
<1> DEFINE C == BOOLEAN
           P == StreamPoints
           H == {"closed", "announce", "status", "end"}
<1>1. /\ StreamStates = [pc : P, then : H, cursor : Nat, row : C, listening : C, gone : C]
      /\ TRUE \in C /\ FALSE \in C /\ {"closed", "status"} \subseteq H
      /\ {"closed", "acquire", "first_status", "drain", "wait"} \subseteq P /\ b \in C
  BY DEF StreamStates, StreamPoints
<1> HIDE DEF C, P, H
<1>2. st \in [Streams -> [pc : P, then : H, cursor : Nat, row : C, listening : C, gone : C]]
  BY <1>1
<1> QED
  BY <1>1, <1>2 DEF SetOnly, Closed

LEMMA AfterWake ==
    ASSUME NEW s \in Streams, st \in [Streams -> StreamStates],
           st' = [st EXCEPT ![s] = [st[s] EXCEPT !.pc = "drain", !.then = "status"]]
    PROVE  SetOnly(s) /\ st'[s].pc = "drain" /\ st'[s].then = "status" /\ st'[s].cursor = st[s].cursor /\ st'[s].row = st[s].row
<1> DEFINE C == BOOLEAN
           P == StreamPoints
           H == {"closed", "announce", "status", "end"}
<1>1. /\ StreamStates = [pc : P, then : H, cursor : Nat, row : C, listening : C, gone : C]
      /\ TRUE \in C /\ FALSE \in C /\ {"closed", "status"} \subseteq H
      /\ {"closed", "acquire", "first_status", "drain", "wait"} \subseteq P
  BY DEF StreamStates, StreamPoints
<1> HIDE DEF C, P, H
<1>2. st \in [Streams -> [pc : P, then : H, cursor : Nat, row : C, listening : C, gone : C]]
  BY <1>1
<1> QED
  BY <1>1, <1>2 DEF SetOnly, Closed

LEMMA AfterListen ==
    ASSUME NEW s \in Streams, st \in [Streams -> StreamStates],
           st' = [st EXCEPT ![s] = [st[s] EXCEPT !.pc = "first_status", !.listening = TRUE]]
    PROVE  SetOnly(s) /\ st'[s].pc = "first_status" /\ st'[s].cursor = st[s].cursor /\ st'[s].row = st[s].row
<1> DEFINE C == BOOLEAN
           P == StreamPoints
           H == {"closed", "announce", "status", "end"}
<1>1. /\ StreamStates = [pc : P, then : H, cursor : Nat, row : C, listening : C, gone : C]
      /\ TRUE \in C /\ FALSE \in C /\ {"closed", "status"} \subseteq H
      /\ {"closed", "acquire", "first_status", "drain", "wait"} \subseteq P
  BY DEF StreamStates, StreamPoints
<1> HIDE DEF C, P, H
<1>2. st \in [Streams -> [pc : P, then : H, cursor : Nat, row : C, listening : C, gone : C]]
  BY <1>1
<1> QED
  BY <1>1, <1>2 DEF SetOnly, Closed

LEMMA AfterGone ==
    ASSUME NEW s \in Streams, st \in [Streams -> StreamStates],
           st' = [st EXCEPT ![s] = [st[s] EXCEPT !.gone = TRUE]]
    PROVE  SetOnly(s) /\ st'[s].pc = st[s].pc /\ st'[s].then = st[s].then /\ st'[s].cursor = st[s].cursor /\ st'[s].row = st[s].row
<1> DEFINE C == BOOLEAN
           P == StreamPoints
           H == {"closed", "announce", "status", "end"}
<1>1. /\ StreamStates = [pc : P, then : H, cursor : Nat, row : C, listening : C, gone : C]
      /\ TRUE \in C /\ FALSE \in C /\ {"closed", "status"} \subseteq H
      /\ {"closed", "acquire", "first_status", "drain", "wait"} \subseteq P
  BY DEF StreamStates, StreamPoints
<1> HIDE DEF C, P, H
<1>2. st \in [Streams -> [pc : P, then : H, cursor : Nat, row : C, listening : C, gone : C]]
  BY <1>1
<1> QED
  BY <1>1, <1>2 DEF SetOnly, Closed

LEMMA AfterOpen ==
    ASSUME NEW s \in Streams, st \in [Streams -> StreamStates], NEW n \in Nat,
           st' = [st EXCEPT ![s] = [Closed EXCEPT !.pc = "acquire", !.cursor = n]]
    PROVE  SetOnly(s) /\ st'[s].pc = "acquire" /\ st'[s].cursor = n /\ st'[s].row = FALSE
<1> DEFINE C == BOOLEAN
           P == StreamPoints
           H == {"closed", "announce", "status", "end"}
<1>1. /\ StreamStates = [pc : P, then : H, cursor : Nat, row : C, listening : C, gone : C]
      /\ TRUE \in C /\ FALSE \in C /\ {"closed", "status"} \subseteq H
      /\ {"closed", "acquire", "first_status", "drain", "wait"} \subseteq P
  BY DEF StreamStates, StreamPoints
<1> HIDE DEF C, P, H
<1>2. st \in [Streams -> [pc : P, then : H, cursor : Nat, row : C, listening : C, gone : C]]
  BY <1>1
<1> QED
  BY <1>1, <1>2 DEF SetOnly, Closed

LEMMA AfterClose ==
    ASSUME NEW s \in Streams, st \in [Streams -> StreamStates],
           st' = [st EXCEPT ![s] = Closed]
    PROVE  SetOnly(s) /\ st'[s].pc = "closed" /\ st'[s].cursor = 0 /\ st'[s].row = FALSE
<1> DEFINE C == BOOLEAN
           P == StreamPoints
           H == {"closed", "announce", "status", "end"}
<1>1. /\ StreamStates = [pc : P, then : H, cursor : Nat, row : C, listening : C, gone : C]
      /\ TRUE \in C /\ FALSE \in C /\ {"closed", "status"} \subseteq H
      /\ {"closed", "acquire", "first_status", "drain", "wait"} \subseteq P
  BY DEF StreamStates, StreamPoints
<1> HIDE DEF C, P, H
<1>2. st \in [Streams -> [pc : P, then : H, cursor : Nat, row : C, listening : C, gone : C]]
  BY <1>1
<1> QED
  BY <1>1, <1>2 DEF SetOnly, Closed

\* Places stay counted when a stream opens, closes or goes on.
LEMMA PlacesKept ==
    ASSUME StreamConstantsOK, PlacesInv, active \in Nat, NEW s \in Streams,
           \A t \in Streams : t # s => st'[t] = st[t]
    PROVE  /\ st[s].pc # "closed" /\ st'[s].pc # "closed" /\ active' = active => PlacesInv' /\ active' \in Nat
           /\ st[s].pc # "closed" /\ st'[s].pc = "closed" /\ active' = active - 1 => PlacesInv' /\ active' \in Nat
           /\ st[s].pc = "closed" /\ st'[s].pc # "closed" /\ active' = active + 1 /\ active < MaxStreams
                 => PlacesInv' /\ active' \in Nat
<1>1. IsFiniteSet(OpenStreams) /\ active = Cardinality(OpenStreams) /\ active <= MaxStreams /\ MaxStreams \in Nat
  BY DEF PlacesInv, StreamConstantsOK
<1>2. ASSUME st[s].pc # "closed", st'[s].pc # "closed", active' = active
      PROVE  PlacesInv' /\ active' \in Nat
  <2>1. OpenStreams' = OpenStreams
    BY <1>2 DEF OpenStreams
  <2> QED
    BY <1>1, <1>2, <2>1 DEF PlacesInv
<1>3. ASSUME st[s].pc # "closed", st'[s].pc = "closed", active' = active - 1
      PROVE  PlacesInv' /\ active' \in Nat
  <2>1. OpenStreams' = OpenStreams \ {s} /\ s \in OpenStreams
    BY <1>3 DEF OpenStreams
  <2>2. IsFiniteSet(OpenStreams') /\ Cardinality(OpenStreams') = active - 1
    BY <1>1, <2>1, FS_RemoveElement
  <2>3. Cardinality(OpenStreams') \in Nat
    BY <2>2, FS_CardinalityType
  <2> QED
    BY <1>1, <1>3, <2>2, <2>3 DEF PlacesInv
<1>4. ASSUME st[s].pc = "closed", st'[s].pc # "closed", active' = active + 1, active < MaxStreams
      PROVE  PlacesInv' /\ active' \in Nat
  <2>1. OpenStreams' = OpenStreams \cup {s} /\ s \notin OpenStreams
    BY <1>4 DEF OpenStreams
  <2>2. IsFiniteSet(OpenStreams') /\ Cardinality(OpenStreams') = active + 1
    BY <1>1, <2>1, FS_AddElement
  <2> QED
    BY <1>1, <1>4, <2>2 DEF PlacesInv
<1> QED
  BY <1>2, <1>3, <1>4

\* The run goes on or the stream of another client does.
LEMMA FollowKept ==
    ASSUME NEW s \in Streams, FollowInv(s), StreamTypeOK, st'[s] = st[s], received'[s] = received[s],
           ended'[s] = ended[s], terminal => terminal', ~visible => ~visible', terminal => finalSeq' = finalSeq
    PROVE  FollowInv(s)'
BY DEF FollowInv

\* A step of one stream keeps the whole when it keeps that stream.
LEMMA StreamKeeps ==
    ASSUME StreamConstantsOK, StreamInv, NEW s \in Streams, UNCHANGED runVars,
           st' \in [Streams -> StreamStates], \A t \in Streams : t # s => st'[t] = st[t],
           received' \in [Streams -> Nat], \A t \in Streams : t # s => received'[t] = received[t],
           ended' \in [Streams -> Endings], \A t \in Streams : t # s => ended'[t] = ended[t],
           notice' \subseteq Streams, queue' \subseteq Streams, breaks' \in 0 .. MaxBreaks,
           PlacesInv', active' \in Nat, st'[s].cursor <= log, received'[s] <= log, FollowInv(s)'
    PROVE  StreamInv'
<1>1. StreamTypeOK /\ \A t \in Streams : FollowInv(t)
  BY DEF StreamInv
<1>2. UNCHANGED <<log, terminal, visible, finalSeq>>
  BY DEF runVars
<1>3. StreamTypeOK'
  <2>1. \A t \in Streams : st'[t].cursor <= log /\ received'[t] <= log
    BY <1>1 DEF StreamTypeOK
  <2> QED
    BY <1>1, <1>2, <2>1 DEF StreamTypeOK
<1>4. \A t \in Streams : FollowInv(t)'
  BY <1>1, <1>2, FollowKept
<1> QED
  BY <1>3, <1>4 DEF StreamInv

\* However a stream ends, it is closed and its place is given back; a client that is
\* told of the end of the run has what the stream sent.
LEMMA EndKeeps ==
    ASSUME StreamConstantsOK, StreamInv, NEW s \in Streams, st[s].pc # "closed", NEW e \in Endings, e # "none",
           e = "terminal" => st[s].pc = "end",
           EndStream(s, e) \/ (Release(s) /\ UNCHANGED clientVars), UNCHANGED runVars, breaks' \in 0 .. MaxBreaks
    PROVE  StreamInv'
<1>t. /\ st \in [Streams -> StreamStates] /\ received \in [Streams -> Nat] /\ ended \in [Streams -> Endings]
      /\ active \in Nat /\ notice \subseteq Streams /\ queue \subseteq Streams /\ log \in Nat
      /\ st[s].cursor <= log /\ received[s] <= log
  BY DEF StreamInv, StreamTypeOK
<1>n. st[s].cursor \in Nat
  BY <1>t DEF StreamStates
<1>f. FollowInv(s) /\ PlacesInv
  BY DEF StreamInv
<1>1. st' = [st EXCEPT ![s] = Closed] /\ active' = active - 1 /\ notice' \subseteq Streams /\ queue' \subseteq Streams
  BY <1>t DEF EndStream, Release, SetStream
<1>2. SetOnly(s) /\ st'[s].pc = "closed" /\ st'[s].cursor = 0 /\ st'[s].row = FALSE
  BY <1>t, <1>1, AfterClose
<1>3. PlacesInv' /\ active' \in Nat
  BY <1>t, <1>f, <1>1, <1>2, PlacesKept DEF SetOnly
<1>4. \/ received' = received /\ ended' = ended
      \/ received' = [received EXCEPT ![s] = st[s].cursor] /\ ended' = [ended EXCEPT ![s] = e]
  BY DEF EndStream, clientVars
<1>5. /\ received' \in [Streams -> Nat] /\ \A t \in Streams : t # s => received'[t] = received[t]
      /\ ended' \in [Streams -> Endings] /\ \A t \in Streams : t # s => ended'[t] = ended[t]
      /\ \/ received'[s] = received[s] /\ ended'[s] = ended[s]
         \/ received'[s] = st[s].cursor /\ ended'[s] = e
  BY <1>t, <1>n, <1>4
<1>6. FollowInv(s)'
  BY <1>t, <1>f, <1>2, <1>5 DEF FollowInv, runVars
<1> QED
  BY <1>t, <1>n, <1>1, <1>2, <1>3, <1>5, <1>6, StreamKeeps DEF SetOnly

\* A stream that goes on: what its new state must know.
LEMMA GoOnKeeps ==
    ASSUME StreamConstantsOK, StreamInv, NEW s \in Streams, st[s].pc # "closed", SetOnly(s), st'[s].pc # "closed",
           st[s].cursor <= st'[s].cursor, st'[s].cursor <= log, st'[s].row => terminal,
           st'[s].pc = "drain" => st'[s].then # "closed" /\ (st'[s].then = "end" => terminal),
           st'[s].pc = "end" => terminal /\ (st'[s].cursor >= finalSeq \/ ~visible),
           UNCHANGED <<runVars, active, clientVars>>, notice' \subseteq Streams, queue' \subseteq Streams,
           breaks' \in 0 .. MaxBreaks
    PROVE  StreamInv'
<1>1. st' \in [Streams -> StreamStates] /\ \A t \in Streams : t # s => st'[t] = st[t]
  BY DEF SetOnly
<1>t. /\ st \in [Streams -> StreamStates] /\ received \in [Streams -> Nat] /\ ended \in [Streams -> Endings]
      /\ active \in Nat /\ received[s] <= log /\ st[s].cursor \in Nat /\ st'[s].cursor \in Nat
  BY <1>1 DEF StreamInv, StreamTypeOK, StreamStates
<1>f. FollowInv(s) /\ PlacesInv
  BY DEF StreamInv
<1>2. PlacesInv' /\ active' \in Nat
  BY <1>t, <1>f, <1>1, PlacesKept
<1>3. FollowInv(s)'
  BY <1>t, <1>f, <1>1 DEF FollowInv, runVars, clientVars
<1> QED
  BY <1>t, <1>1, <1>2, <1>3, StreamKeeps DEF clientVars

LEMMA StreamStepInv ==
    ASSUME StreamConstantsOK, StreamInv, [StreamNext]_streamVars
    PROVE  StreamInv'
<1>t. /\ StreamTypeOK /\ PlacesInv /\ st \in [Streams -> StreamStates] /\ received \in [Streams -> Nat]
      /\ ended \in [Streams -> Endings] /\ active \in Nat /\ notice \subseteq Streams /\ queue \subseteq Streams
      /\ log \in Nat /\ finalSeq \in 0 .. log /\ breaks \in 0 .. MaxBreaks /\ MaxBreaks \in Nat /\ PageSize \in Nat \ {0}
      /\ terminal \in BOOLEAN /\ visible \in BOOLEAN
  BY DEF StreamInv, StreamTypeOK, StreamConstantsOK
<1>f. \A s \in Streams : FollowInv(s)
  BY DEF StreamInv
<1>s. \A s \in Streams : st[s].cursor \in Nat /\ st[s].cursor <= log /\ received[s] <= log
                         /\ st[s].then \in {"closed", "announce", "status", "end"}
  BY <1>t DEF StreamTypeOK, StreamStates
<1>r. \A s \in Streams : st[s].row \in BOOLEAN
  BY <1>t DEF StreamStates
<1>b. StreamFault => breaks' \in 0 .. MaxBreaks
  BY <1>t DEF StreamFault
\* The run, and steps that leave every stream where it is.
<1>0. ASSUME UNCHANGED <<active, st, clientVars>>, notice' \subseteq Streams, queue' \subseteq Streams,
             breaks' \in 0 .. MaxBreaks, log <= log', log' \in 0 .. MaxLog, finalSeq' \in 0 .. log',
             terminal' \in BOOLEAN, visible' \in BOOLEAN, terminal => terminal', ~visible => ~visible',
             terminal => finalSeq' = finalSeq
      PROVE  StreamInv'
  <2>1. UNCHANGED <<active, st, received, ended>>
    BY <1>0 DEF clientVars
  <2>2. StreamTypeOK'
    BY <1>t, <1>0, <1>s, <2>1 DEF StreamTypeOK
  <2>3. PlacesInv'
    BY <1>t, <2>1 DEF PlacesInv, OpenStreams
  <2>4. \A s \in Streams : FollowInv(s)'
    BY <1>t, <1>f, <1>0, <2>1, FollowKept
  <2> QED
    BY <2>2, <2>3, <2>4 DEF StreamInv
<1>1. CASE append
  BY <1>t, <1>0, <1>1 DEF append, Notify, StreamTypeOK, StreamConstantsOK
<1>2. CASE finish
  BY <1>t, <1>0, <1>2 DEF finish, Notify, StreamTypeOK, StreamConstantsOK
<1>3. CASE soft_delete
  <2>1. visible' = FALSE /\ UNCHANGED <<log, terminal, finalSeq, active, st, notice, queue, clientVars, breaks>>
    BY <1>3 DEF soft_delete
  <2>2. visible' \in BOOLEAN /\ ~visible'
    BY <2>1
  <2>3. log' \in 0 .. MaxLog /\ log <= log'
    BY <1>t, <2>1 DEF StreamTypeOK
  <2> QED
    BY <1>t, <1>0, <2>1, <2>2, <2>3
<1>4. CASE UNCHANGED streamVars
  BY <1>t, <1>0, <1>4 DEF streamVars, runVars, StreamTypeOK, StreamConstantsOK
<1>5. ASSUME NEW s \in Streams, _on_notify(s) \/ lost_notice(s) PROVE StreamInv'
  BY <1>t, <1>0, <1>5, <1>b DEF _on_notify, lost_notice, runVars, StreamTypeOK, StreamConstantsOK
<1>6. ASSUME NEW s \in Streams, open(s) PROVE StreamInv'
  <2>1. /\ st[s].pc = "closed" /\ ended[s] \notin {"terminal", "scope_revoked"} /\ active < MaxStreams
        /\ active' = active + 1 /\ st' = [st EXCEPT ![s] = [Closed EXCEPT !.pc = "acquire", !.cursor = received[s]]]
        /\ UNCHANGED <<runVars, notice, queue, received, ended, breaks>>
    BY <1>6 DEF open, clientVars, SetStream
  <2>2. SetOnly(s) /\ st'[s].pc = "acquire" /\ st'[s].cursor = received[s] /\ st'[s].row = FALSE /\ received[s] \in Nat
    BY <1>t, <2>1, AfterOpen
  <2>3. PlacesInv' /\ active' \in Nat
    BY <1>t, <2>1, <2>2, PlacesKept DEF SetOnly
  <2>4. FollowInv(s)'
    BY <1>t, <1>s, <2>1, <2>2 DEF FollowInv
  <2> QED
    BY <1>t, <1>s, <2>1, <2>2, <2>3, <2>4, StreamKeeps DEF SetOnly
<1>7. ASSUME NEW s \in Streams, listen(s) PROVE StreamInv'
  <2>1. /\ st[s].pc = "acquire" /\ UNCHANGED <<runVars, active, notice, queue, clientVars, breaks>>
        /\ st' = [st EXCEPT ![s] = [st[s] EXCEPT !.pc = "first_status", !.listening = TRUE]]
    BY <1>7 DEF listen, SetStream
  <2>2. SetOnly(s) /\ st'[s].pc = "first_status" /\ st'[s].cursor = st[s].cursor /\ st'[s].row = st[s].row
    BY <1>t, <2>1, AfterListen
  <2> QED
    BY <1>t, <1>f, <1>s, <2>1, <2>2, GoOnKeeps DEF FollowInv
<1>8. ASSUME NEW s \in Streams, first_status(s) PROVE StreamInv'
  <2>1. CASE ~visible
    BY <1>t, <1>8, <2>1, EndKeeps DEF first_status, Endings
  <2>2. CASE visible
    <3>1. /\ st[s].pc = "first_status" /\ UNCHANGED <<runVars, active, notice, queue, clientVars, breaks>>
          /\ st' = [st EXCEPT ![s] = [st[s] EXCEPT !.pc = "drain", !.then = "announce", !.row = terminal]]
      BY <1>8, <2>2 DEF first_status, SetStream
    <3>2. /\ SetOnly(s) /\ st'[s].pc = "drain" /\ st'[s].then = "announce" /\ st'[s].cursor = st[s].cursor
          /\ st'[s].row = terminal
      BY <1>t, <3>1, AfterStatus
    <3> QED
      BY <1>t, <1>s, <3>1, <3>2, GoOnKeeps
  <2> QED
    BY <2>1, <2>2
<1>9. ASSUME NEW s \in Streams, error(s) \/ max_lifetime(s) PROVE StreamInv'
  BY <1>t, <1>9, <1>b, EndKeeps DEF error, max_lifetime, Endings
<1>10. ASSUME NEW s \in Streams, _drain_events(s) PROVE StreamInv'
  <2> DEFINE last == IF ~visible THEN st[s].cursor
                     ELSE IF log < st[s].cursor + PageSize THEN log ELSE st[s].cursor + PageSize
             p == IF last < st[s].cursor + PageSize THEN st[s].then ELSE "drain"
  <2>1. /\ last \in Nat /\ st[s].cursor <= last /\ last <= log
        /\ last < st[s].cursor + PageSize => ~visible \/ last = log
    BY <1>t, <1>s
  <2>2. /\ st[s].pc = "drain" /\ st' = [st EXCEPT ![s] = [st[s] EXCEPT !.cursor = last, !.pc = p]]
        /\ UNCHANGED <<runVars, active, notice, queue, clientVars, breaks>>
    BY <1>10 DEF _drain_events, SetStream
  <2>3. st[s].then \in {"announce", "status", "end"} /\ (st[s].then = "end" => terminal)
    BY <1>f, <1>s, <2>2 DEF FollowInv
  <2>4. p = "drain" \/ (p = st[s].then /\ (~visible \/ last = log))
    BY <2>1
  <2> HIDE DEF last, p
  <2>5. p \in StreamPoints
    BY <2>3, <2>4 DEF StreamPoints
  <2>6. SetOnly(s) /\ st'[s].pc = p /\ st'[s].then = st[s].then /\ st'[s].cursor = last /\ st'[s].row = st[s].row
    BY <1>t, <2>1, <2>2, <2>5, AfterPage
  <2>7. p = "end" => terminal /\ (last >= finalSeq \/ ~visible)
    BY <1>t, <2>1, <2>3, <2>4
  <2>8. st[s].row => terminal
    BY <1>f DEF FollowInv
  <2>9. p # "closed"
    BY <2>3, <2>4
  <2> QED
    BY <1>t, <2>1, <2>2, <2>3, <2>6, <2>7, <2>8, <2>9, GoOnKeeps
\* The frames of the status.
<1>11. ASSUME NEW s \in Streams, NEW r \in BOOLEAN, r => terminal, st[s].pc # "closed", SetStream(s, Announce(s, r)),
              UNCHANGED <<runVars, active, notice, queue, clientVars, breaks>>
       PROVE  StreamInv'
  <2>1. CASE r
    <3>1. st' = [st EXCEPT ![s] = [st[s] EXCEPT !.pc = "drain", !.then = "end", !.row = r]]
      BY <1>11, <2>1 DEF Announce, SetStream
    <3>2. SetOnly(s) /\ st'[s].pc = "drain" /\ st'[s].then = "end" /\ st'[s].cursor = st[s].cursor /\ st'[s].row = r
      BY <1>t, <3>1, AfterStatus
    <3> QED
      BY <1>t, <1>s, <1>11, <2>1, <3>2, GoOnKeeps
  <2>2. CASE ~r
    <3>1. st' = [st EXCEPT ![s] = [st[s] EXCEPT !.pc = "wait", !.row = r]]
      BY <1>11, <2>2 DEF Announce, SetStream
    <3>2. SetOnly(s) /\ st'[s].pc = "wait" /\ st'[s].cursor = st[s].cursor /\ st'[s].row = r
      BY <1>t, <3>1, AfterWait
    <3> QED
      BY <1>t, <1>s, <1>11, <2>2, <3>2, GoOnKeeps
  <2> QED
    BY <2>1, <2>2
<1>12. ASSUME NEW s \in Streams, announce(s) PROVE StreamInv'
  BY <1>f, <1>r, <1>11, <1>12 DEF announce, FollowInv
<1>13. ASSUME NEW s \in Streams, wake(s) PROVE StreamInv'
  <2>1. /\ st[s].pc = "wait" /\ st' = [st EXCEPT ![s] = [st[s] EXCEPT !.pc = "drain", !.then = "status"]]
        /\ queue' = queue \ {s} /\ UNCHANGED <<runVars, active, notice, clientVars, breaks>>
    BY <1>13 DEF wake, SetStream
  <2>2. /\ SetOnly(s) /\ st'[s].pc = "drain" /\ st'[s].then = "status" /\ st'[s].cursor = st[s].cursor
        /\ st'[s].row = st[s].row
    BY <1>t, <2>1, AfterWake
  <2>3. st[s].row => terminal
    BY <1>f DEF FollowInv
  <2> QED
    BY <1>t, <1>s, <2>1, <2>2, <2>3, GoOnKeeps
<1>14. ASSUME NEW s \in Streams, status(s) PROVE StreamInv'
  <2>1. CASE ~visible
    BY <1>t, <1>14, <2>1, EndKeeps DEF status, Endings
  <2>2. CASE visible
    BY <1>t, <1>11, <1>14, <2>2 DEF status
  <2> QED
    BY <2>1, <2>2
<1>15. ASSUME NEW s \in Streams, end(s) PROVE StreamInv'
  BY <1>t, <1>15, EndKeeps DEF end, Endings
<1>16. ASSUME NEW s \in Streams, leave(s) PROVE StreamInv'
  BY <1>t, <1>16, EndKeeps DEF leave, Endings
<1>17. ASSUME NEW s \in Streams, _watch_disconnect(s) PROVE StreamInv'
  <2>1. PICK n \in received[s] .. st[s].cursor : received' = [received EXCEPT ![s] = n]
    BY <1>17 DEF _watch_disconnect
  <2>2. /\ st[s].pc \notin {"closed", "acquire", "first_status"} /\ StreamFault
        /\ st' = [st EXCEPT ![s] = [st[s] EXCEPT !.gone = TRUE]]
        /\ queue' = queue \cup {s} /\ UNCHANGED <<runVars, active, notice, ended>>
    BY <1>17 DEF _watch_disconnect, SetStream
  <2>3. /\ received[s] \in Nat /\ n \in Nat /\ n <= st[s].cursor /\ received' \in [Streams -> Nat] /\ received'[s] = n
        /\ \A t \in Streams : t # s => received'[t] = received[t]
    BY <1>t, <1>s, <2>1
  <2>4. /\ SetOnly(s) /\ st'[s].pc = st[s].pc /\ st'[s].then = st[s].then /\ st'[s].cursor = st[s].cursor
        /\ st'[s].row = st[s].row
    BY <1>t, <2>2, AfterGone
  <2>5. PlacesInv' /\ active' \in Nat
    BY <1>t, <2>2, <2>4, PlacesKept DEF SetOnly
  <2>6. FollowInv(s)'
    BY <1>t, <1>f, <1>s, <2>2, <2>3, <2>4 DEF FollowInv, runVars
  <2>7. st'[s].cursor <= log /\ received'[s] <= log
    BY <1>t, <1>s, <2>3, <2>4
  <2>8. /\ ended' \in [Streams -> Endings] /\ \A t \in Streams : t # s => ended'[t] = ended[t]
        /\ notice' \subseteq Streams /\ queue' \subseteq Streams /\ breaks' \in 0 .. MaxBreaks /\ UNCHANGED runVars
    BY <1>t, <1>b, <2>2
  <2>9. st' \in [Streams -> StreamStates] /\ \A t \in Streams : t # s => st'[t] = st[t]
    BY <2>4 DEF SetOnly
  <2> QED
    BY <2>3, <2>5, <2>6, <2>7, <2>8, <2>9, StreamKeeps
<1> QED
  BY <1>1, <1>2, <1>3, <1>4, <1>5, <1>6, <1>7, <1>8, <1>9, <1>10, <1>12, <1>13, <1>14, <1>15, <1>16, <1>17
  DEF StreamNext, Step

LEMMA StreamInitInv ==
    ASSUME StreamConstantsOK, StreamInit
    PROVE  StreamInv
<1>1. \A s \in Streams : st[s] = Closed /\ received[s] = 0 /\ ended[s] = "none"
  BY DEF StreamInit
<1>2. Closed \in StreamStates /\ Closed.pc = "closed" /\ Closed.cursor = 0 /\ Closed.row = FALSE
  BY DEF Closed, StreamStates, StreamPoints
<1>3. StreamTypeOK
  <2>1. terminal \in BOOLEAN /\ visible \in BOOLEAN
    BY DEF StreamInit
  <2>2. st \in [Streams -> StreamStates] /\ received \in [Streams -> Nat] /\ ended \in [Streams -> Endings]
    BY <1>2 DEF StreamInit, Endings
  <2> QED
    BY <1>1, <1>2, <2>1, <2>2 DEF StreamInit, StreamTypeOK, StreamConstantsOK
<1>4. PlacesInv
  <2>1. OpenStreams = {}
    BY <1>1, <1>2 DEF OpenStreams
  <2> QED
    BY <2>1, FS_EmptySet DEF PlacesInv, StreamInit, StreamConstantsOK
<1>5. \A s \in Streams : FollowInv(s)
  BY <1>1, <1>2 DEF FollowInv
<1> QED
  BY <1>3, <1>4, <1>5 DEF StreamInv

LEMMA StreamInvSound ==
    ASSUME StreamInv
    PROVE  StreamTypeOK /\ StreamSound
<1>1. PlacesCounted
  BY DEF StreamInv, PlacesInv, OpenStreams, PlacesCounted
<1>2. TerminalHasAll
  BY DEF StreamInv, FollowInv, TerminalHasAll
<1>3. NeverBehind
  BY DEF StreamInv, FollowInv, NeverBehind, StreamTypeOK, StreamStates
<1> QED
  BY <1>1, <1>2, <1>3 DEF StreamInv, StreamSound

\* Every stream is sound in every reachable state.
LEMMA StreamInvariant == StreamConstantsOK => (StreamSpec => [](StreamTypeOK /\ StreamSound))
<1> SUFFICES ASSUME StreamConstantsOK PROVE StreamSpec => [](StreamTypeOK /\ StreamSound)
  OBVIOUS
<1>1. StreamInit => StreamInv
  BY StreamInitInv
<1>2. StreamInv /\ [StreamNext]_streamVars => StreamInv'
  BY StreamStepInv
<1>3. StreamInv => StreamTypeOK /\ StreamSound
  BY StreamInvSound
<1> QED
  BY <1>1, <1>2, <1>3, PTL DEF StreamSpec

-----------------------------------------------------------------------------
(* Messages between runs *)

\* A stream as a set of rows: finite, numbered 1, 2, ... with each number once.
Numbered(M) ==
    /\ IsFiniteSet(M) /\ {m.seq : m \in M} = 1 .. Cardinality(M)
    /\ \A a, b \in M : a.seq = b.seq => a = b

\* The row names the hash of the row before it.
Linked(M, m) ==
    \/ m.seq = 1 /\ m.previous = Absent
    \/ \E p \in M : m.seq = p.seq + 1 /\ m.previous = p.hash

\* The same message; only its consumer may differ.
Alike(a, b) ==
    /\ a.seq = b.seq /\ a.previous = b.previous /\ a.hash = b.hash /\ a.sender = b.sender
    /\ a.receiver = b.receiver /\ a.expires = b.expires /\ a.trusted = b.trusted /\ a.policy = b.policy

OpenPoints == {"append", "note", "noted"}

\* A session is where its call leads.
CallInv(s) ==
    /\ talk[s].pc \in {"checked", "locked", "insert"} => talk[s].call = "publish"
    /\ talk[s].pc \in {"begun", "denied"} => talk[s].call = "consume"
    /\ talk[s].pc \in OpenPoints => talk[s].call \in {"publish", "consume"}
    /\ talk[s].pc # "idle" => talk[s].run \in Children

\* A publisher writes for its own run, with the stream's lock from its number on, and
\* the number it has read is overtaken by the bridge alone.
PublisherInv(s) ==
    talk[s].call = "publish" /\ talk[s].pc # "idle" =>
        /\ talk[s].row \in MessageRows /\ talk[s].row.sender = talk[s].run /\ talk[s].row.consumer = Absent
        /\ talk[s].row.trusted => approval.decider = "human"
        /\ talk[s].pc # "checked" => talkLock = s
        /\ talk[s].pc = "insert" =>
              /\ talk[s].row.seq \in 1 .. Cardinality(messages) + 1 /\ Linked(messages, talk[s].row)
              /\ \A m \in messages : m.seq >= talk[s].row.seq => Bridged(m)
        /\ talk[s].pc \in OpenPoints => talk[s].row.seq = Cardinality(messages) + 1 /\ Linked(messages, talk[s].row)

\* What the UPDATE of a consumer asks of the row, under the policy it was asked under.
Takable(s) ==
    /\ talk[s].row.consumer = Absent /\ ~Expired(s, talk[s].row) /\ talk[s].row.sender # talk[s].run
    /\ _receiver_eligibility_clause(talk[s].row, talk[s].run)
    /\ Linked(messages, talk[s].row) /\ talk[s].row.policy = talk[s].policy

\* A consumer holds a message nobody has consumed; one that was denied had a reason.
ConsumerInv(s) ==
    talk[s].call = "consume" =>
        /\ talk[s].pc \in OpenPoints =>
              /\ talk[s].row \in MessageRows /\ talk[s].row.consumer = talk[s].run
              /\ \E m \in messages : m.consumer = Absent /\ Alike(m, talk[s].row)
        /\ talk[s].pc = "denied" =>
              /\ talk[s].row \in MessageRows /\ ~Takable(s)
              /\ \E m \in messages : Alike(m, talk[s].row) /\ (m.consumer = Absent => talk[s].row.consumer = Absent)

TailInv(s) == talk[s].pc = "noted" => talk[s].tail = Len(runEvents[talk[s].run])

SessionInv(s) == CallInv(s) /\ PublisherInv(s) /\ ConsumerInv(s) /\ TailInv(s)

\* Two open transactions never hold the same row or the end of the same log.
ApartInv ==
    \A s, t \in Callers : s # t =>
        /\ talk[s].pc \in OpenPoints /\ talk[t].pc \in OpenPoints => talk[s].row.seq # talk[t].row.seq
        /\ talk[s].pc = "noted" /\ talk[t].pc = "noted" => talk[s].run # talk[t].run

\* The logs and the rows tell the same story.
LogInv(r) ==
    \A n \in DOMAIN runEvents[r] :
        /\ runEvents[r][n].at = n
        /\ runEvents[r][n].kind = "publish" => \E m \in messages : m.seq = runEvents[r][n].seq
        /\ runEvents[r][n].kind = "consume" =>
              /\ \E m \in messages : m.seq = runEvents[r][n].seq /\ m.consumer = r
              /\ \A k \in DOMAIN runEvents[r] :
                    runEvents[r][k].kind = "consume" /\ runEvents[r][k].seq = runEvents[r][n].seq => k = n

RowInv(m) ==
    /\ m.trusted => approval.decider = "human"
    /\ ~Bridged(m) =>
          /\ Linked(messages, m) /\ m.sender \in Children
          /\ \E n \in DOMAIN runEvents[m.sender] :
                \A k \in DOMAIN runEvents[m.sender] :
                    (runEvents[m.sender][k].kind = "publish" /\ runEvents[m.sender][k].seq = m.seq) <=> k = n

MessagesInv ==
    /\ MessagesTypeOK /\ Numbered(messages) /\ ApartInv /\ clash = FALSE /\ misled = FALSE
    /\ \A s \in Callers : SessionInv(s)
    /\ \A r \in Children : LogInv(r)
    /\ \A m \in messages : RowInv(m)

-----------------------------------------------------------------------------

\* A row of the next number.
LEMMA GrowNumbered ==
    ASSUME NEW M, Numbered(M), NEW x, x.seq = Cardinality(M) + 1
    PROVE  Numbered(M \cup {x}) /\ Cardinality(M \cup {x}) = Cardinality(M) + 1
<1>1. Cardinality(M) \in Nat /\ IsFiniteSet(M)
  BY FS_CardinalityType DEF Numbered
<1>2. \A m \in M : m.seq \in 1 .. Cardinality(M)
  BY DEF Numbered
<1>3. x \notin M
  BY <1>1, <1>2
<1>4. IsFiniteSet(M \cup {x}) /\ Cardinality(M \cup {x}) = Cardinality(M) + 1
  BY <1>1, <1>3, FS_AddElement
<1>5. {m.seq : m \in M \cup {x}} = {m.seq : m \in M} \cup {x.seq}
  OBVIOUS
<1>6. {m.seq : m \in M \cup {x}} = 1 .. Cardinality(M \cup {x})
  BY <1>1, <1>4, <1>5 DEF Numbered
<1>7. \A a, b \in M \cup {x} : a.seq = b.seq => a = b
  BY <1>1, <1>2 DEF Numbered
<1> QED
  BY <1>4, <1>6, <1>7 DEF Numbered

\* A row in the place of another one.
LEMMA TakeNumbered ==
    ASSUME NEW M, Numbered(M), NEW m \in M, NEW y, y.seq = m.seq
    PROVE  /\ Numbered((M \ {m}) \cup {y}) /\ Cardinality((M \ {m}) \cup {y}) = Cardinality(M)
<1> DEFINE R == M \ {m}
<1>1. Cardinality(M) \in Nat /\ IsFiniteSet(M)
  BY FS_CardinalityType DEF Numbered
<1>2. IsFiniteSet(R) /\ Cardinality(R) = Cardinality(M) - 1
  BY <1>1, FS_RemoveElement
<1>3. \A a \in R : a.seq # m.seq
  BY DEF Numbered
<1>4. y \notin R
  BY <1>3
<1>5. IsFiniteSet(R \cup {y}) /\ Cardinality(R \cup {y}) = Cardinality(M)
  BY <1>1, <1>2, <1>4, FS_AddElement
<1>6. {a.seq : a \in R \cup {y}} = {a.seq : a \in M}
  OBVIOUS
<1>7. \A a, b \in R \cup {y} : a.seq = b.seq => a = b
  BY <1>3 DEF Numbered
<1> QED
  BY <1>5, <1>6, <1>7 DEF Numbered

\* The last number is the number of rows, and a number names its row.
LEMMA LastNumber ==
    ASSUME Numbered(messages)
    PROVE  /\ MaxSeq = Cardinality(messages) /\ Cardinality(messages) \in Nat
           /\ \A m \in messages : m.seq \in 1 .. Cardinality(messages) /\ At(m.seq) = m
           /\ \A n \in 1 .. Cardinality(messages) : \E m \in messages : m.seq = n /\ At(n) = m
<1>1. Cardinality(messages) \in Nat /\ IsFiniteSet(messages)
  BY FS_CardinalityType DEF Numbered
<1>2. \A m \in messages : m.seq \in 1 .. Cardinality(messages)
  BY DEF Numbered
<1>3. \A n \in 1 .. Cardinality(messages) : \E m \in messages : m.seq = n
  BY DEF Numbered
<1>4. \A m \in messages : At(m.seq) = m
  BY DEF Numbered, At
<1>5. MaxSeq = Cardinality(messages)
  <2>1. CASE messages = {}
    BY <2>1, FS_EmptySet DEF MaxSeq
  <2>2. CASE messages # {}
    <3>1. Cardinality(messages) \in 1 .. Cardinality(messages)
      BY <1>1, <1>2, <2>2
    <3>2. Cardinality(messages) \in {m.seq : m \in messages}
      BY <3>1 DEF Numbered
    <3>3. \A m \in messages : m.seq <= Cardinality(messages)
      BY <1>1, <1>2
    <3>4. \A n \in {m.seq : m \in messages} : (\A m \in messages : m.seq <= n) => n = Cardinality(messages)
      BY <1>1, <1>2, <1>3, <3>1
    <3>5. MaxSeq = CHOOSE n \in {m.seq : m \in messages} : \A m \in messages : m.seq <= n
      BY <2>2 DEF MaxSeq
    <3> QED
      BY <3>2, <3>3, <3>4, <3>5
  <2> QED
    BY <2>1, <2>2
<1> QED
  BY <1>1, <1>2, <1>3, <1>4, <1>5

\* The clause of the UPDATE says that a row is linked.
LEMMA ChainIsLink ==
    ASSUME Numbered(messages), NEW m, m.seq \in 1 .. Cardinality(messages) + 1
    PROVE  _previous_hash_chain_clause(m) <=> Linked(messages, m)
<1>1. Cardinality(messages) \in Nat /\ \A p \in messages : p.seq \in 1 .. Cardinality(messages) /\ At(p.seq) = p
  BY LastNumber
<1>2. CASE m.seq = 1
  BY <1>1, <1>2 DEF _previous_hash_chain_clause, Linked
<1>3. CASE m.seq > 1
  <2>1. m.seq - 1 \in 1 .. Cardinality(messages)
    BY <1>1, <1>3
  <2>2. PICK p \in messages : p.seq = m.seq - 1 /\ At(m.seq - 1) = p
    BY <2>1, LastNumber
  <2>3. \A q \in messages : m.seq = q.seq + 1 => q = p
    BY <1>1, <2>2
  <2>4. m.seq = p.seq + 1
    BY <1>1, <2>2
  <2> QED
    BY <1>1, <1>3, <2>2, <2>3, <2>4 DEF _previous_hash_chain_clause, Linked
<1> QED
  BY <1>1, <1>2, <1>3

\* How a step may change the stream: rows stay what they are, save that a free one may
\* be consumed, and at most one row is added.
Evolves(M, N) ==
    /\ Numbered(N) /\ Cardinality(N) \in Cardinality(M) .. Cardinality(M) + 1
    /\ \A a \in M : \E b \in N : Alike(b, a) /\ (a.consumer = Absent \/ b.consumer = a.consumer)
    /\ \A b \in N : b.seq = Cardinality(M) + 1 \/ \E a \in M : Alike(b, a)

LEMMA SameEvolves ==
    ASSUME NEW M, Numbered(M)
    PROVE  Evolves(M, M)
<1>1. Cardinality(M) \in Nat
  BY FS_CardinalityType DEF Numbered
<1> QED
  BY <1>1 DEF Evolves, Alike

LEMMA GrowEvolves ==
    ASSUME NEW M, Numbered(M), NEW x, x.seq = Cardinality(M) + 1
    PROVE  Evolves(M, M \cup {x})
<1>1. Cardinality(M) \in Nat
  BY FS_CardinalityType DEF Numbered
<1> QED
  BY <1>1, GrowNumbered DEF Evolves, Alike

LEMMA TakeEvolves ==
    ASSUME NEW M, Numbered(M), NEW m \in M, NEW y, Alike(m, y), m.consumer = Absent
    PROVE  Evolves(M, (M \ {m}) \cup {y}) /\ Cardinality((M \ {m}) \cup {y}) = Cardinality(M)
<1>1. Cardinality(M) \in Nat
  BY FS_CardinalityType DEF Numbered
<1>2. y.seq = m.seq
  BY DEF Alike
<1>3. Numbered((M \ {m}) \cup {y}) /\ Cardinality((M \ {m}) \cup {y}) = Cardinality(M)
  BY <1>2, TakeNumbered
<1>4. \A a \in M : \E b \in (M \ {m}) \cup {y} : Alike(b, a) /\ (a.consumer = Absent \/ b.consumer = a.consumer)
  BY DEF Alike
<1>5. \A b \in (M \ {m}) \cup {y} : \E a \in M : Alike(b, a)
  BY DEF Alike
<1> QED
  BY <1>1, <1>3, <1>4, <1>5 DEF Evolves

\* Links are never broken, and never made between rows that are there.
LEMMA LinkKept ==
    ASSUME NEW M, NEW N, Numbered(M), Evolves(M, N), NEW m, m.seq \in 1 .. Cardinality(M) + 1
    PROVE  Linked(M, m) <=> Linked(N, m)
<1>1. Cardinality(M) \in Nat /\ \A p \in M : p.seq \in 1 .. Cardinality(M)
  BY FS_CardinalityType DEF Numbered
<1>2. ASSUME NEW p \in M, m.seq = p.seq + 1, m.previous = p.hash
      PROVE  \E q \in N : m.seq = q.seq + 1 /\ m.previous = q.hash
  BY <1>2 DEF Evolves, Alike
<1>3. ASSUME NEW q \in N, m.seq = q.seq + 1, m.previous = q.hash
      PROVE  \E p \in M : m.seq = p.seq + 1 /\ m.previous = p.hash
  <2>1. Cardinality(N) \in Nat /\ q.seq \in 1 .. Cardinality(N)
    BY FS_CardinalityType DEF Evolves, Numbered
  <2>2. q.seq # Cardinality(M) + 1
    BY <1>1, <1>3, <2>1
  <2>3. PICK p \in M : Alike(q, p)
    BY <2>2 DEF Evolves
  <2> QED
    BY <1>3, <2>3 DEF Alike
<1> QED
  BY <1>2, <1>3 DEF Linked

\* What the steps of others leave to a session.
LEMMA OtherSession ==
    ASSUME MessagesInv, NEW t \in Callers, talk'[t] = talk[t], Evolves(messages, messages'),
           approval'.decider = approval.decider, talkLock = t => talkLock' = t,
           talk[t].pc = "insert" => \A b \in messages' : b.seq = Cardinality(messages) + 1 => Bridged(b),
           talk[t].pc \in OpenPoints /\ talk[t].call = "publish" => Cardinality(messages') = Cardinality(messages),
           talk[t].pc \in OpenPoints => \A m \in messages : m.seq = talk[t].row.seq => m \in messages',
           talk[t].pc = "noted" => Len(runEvents'[talk[t].run]) = Len(runEvents[talk[t].run])
    PROVE  SessionInv(t)'
<1>1. SessionInv(t) /\ Numbered(messages)
  BY DEF MessagesInv
<1>2. /\ Cardinality(messages) \in Nat /\ Cardinality(messages') \in Cardinality(messages) .. Cardinality(messages) + 1
      /\ \A m \in messages : m.seq \in 1 .. Cardinality(messages)
  BY <1>1, LastNumber DEF Evolves
<1>3. CallInv(t)'
  BY <1>1 DEF SessionInv, CallInv
<1>4. TailInv(t)'
  BY <1>1 DEF SessionInv, TailInv, OpenPoints
<1>5. PublisherInv(t)'
  <2> SUFFICES ASSUME talk[t].call = "publish", talk[t].pc # "idle"
               PROVE  PublisherInv(t)'
    BY DEF PublisherInv
  <2>1. /\ talk[t].row \in MessageRows /\ talk[t].row.sender = talk[t].run /\ talk[t].row.consumer = Absent
        /\ talk[t].row.trusted => approval'.decider = "human"
        /\ talk[t].pc # "checked" => talkLock' = t
    BY <1>1 DEF SessionInv, PublisherInv
  <2>2. talk[t].pc = "insert" =>
              /\ talk[t].row.seq \in 1 .. Cardinality(messages') + 1 /\ Linked(messages', talk[t].row)
              /\ \A m \in messages' : m.seq >= talk[t].row.seq => Bridged(m)
    <3> SUFFICES ASSUME talk[t].pc = "insert"
                 PROVE  /\ talk[t].row.seq \in 1 .. Cardinality(messages') + 1 /\ Linked(messages', talk[t].row)
                        /\ \A m \in messages' : m.seq >= talk[t].row.seq => Bridged(m)
      OBVIOUS
    <3>1. /\ talk[t].row.seq \in 1 .. Cardinality(messages) + 1 /\ Linked(messages, talk[t].row)
          /\ \A m \in messages : m.seq >= talk[t].row.seq => Bridged(m)
      BY <1>1 DEF SessionInv, PublisherInv
    <3>2. talk[t].row.seq \in 1 .. Cardinality(messages') + 1
      BY <1>2, <3>1
    <3>3. Linked(messages', talk[t].row)
      BY <1>1, <3>1, LinkKept
    <3>4. ASSUME NEW m \in messages', m.seq >= talk[t].row.seq PROVE Bridged(m)
      <4>1. CASE m.seq = Cardinality(messages) + 1
        BY <4>1
      <4>2. CASE m.seq # Cardinality(messages) + 1
        <5>1. PICK a \in messages : Alike(m, a)
          BY <4>2 DEF Evolves
        <5> QED
          BY <3>1, <3>4, <5>1 DEF Alike, Bridged
      <4> QED
        BY <4>1, <4>2
    <3> QED
      BY <3>2, <3>3, <3>4
  <2>3. ASSUME talk[t].pc \in OpenPoints
        PROVE  talk[t].row.seq = Cardinality(messages') + 1 /\ Linked(messages', talk[t].row)
    <3>1. talk[t].row.seq = Cardinality(messages) + 1 /\ Linked(messages, talk[t].row)
      BY <1>1, <2>3 DEF SessionInv, PublisherInv
    <3>2. talk[t].row.seq \in 1 .. Cardinality(messages) + 1
      BY <1>2, <3>1
    <3> QED
      BY <1>1, <2>3, <3>1, <3>2, LinkKept
  <2> QED
    BY <2>1, <2>2, <2>3 DEF PublisherInv
<1>6. ConsumerInv(t)'
  <2> SUFFICES ASSUME talk[t].call = "consume"
               PROVE  ConsumerInv(t)'
    BY DEF ConsumerInv
  <2>1. ASSUME talk[t].pc \in OpenPoints
        PROVE  /\ talk[t].row \in MessageRows /\ talk[t].row.consumer = talk[t].run
               /\ \E m \in messages' : m.consumer = Absent /\ Alike(m, talk[t].row)
    <3>1. /\ talk[t].row \in MessageRows /\ talk[t].row.consumer = talk[t].run
          /\ \E m \in messages : m.consumer = Absent /\ Alike(m, talk[t].row)
      BY <1>1, <2>1 DEF SessionInv, ConsumerInv
    <3>2. PICK m \in messages : m.consumer = Absent /\ Alike(m, talk[t].row)
      BY <3>1
    <3>3. m \in messages'
      BY <2>1, <3>2 DEF Alike
    <3> QED
      BY <3>1, <3>2, <3>3
  <2>2. ASSUME talk[t].pc = "denied"
        PROVE  /\ talk[t].row \in MessageRows /\ ~Takable(t)'
               /\ \E m \in messages' : Alike(m, talk[t].row) /\ (m.consumer = Absent => talk[t].row.consumer = Absent)
    <3>1. /\ talk[t].row \in MessageRows /\ ~Takable(t)
          /\ \E m \in messages : Alike(m, talk[t].row) /\ (m.consumer = Absent => talk[t].row.consumer = Absent)
      BY <1>1, <2>2 DEF SessionInv, ConsumerInv
    <3>2. PICK m \in messages : Alike(m, talk[t].row) /\ (m.consumer = Absent => talk[t].row.consumer = Absent)
      BY <3>1
    <3>3. PICK b \in messages' : Alike(b, m) /\ (m.consumer = Absent \/ b.consumer = m.consumer)
      BY DEF Evolves
    <3>4. Alike(b, talk[t].row) /\ (b.consumer = Absent => talk[t].row.consumer = Absent)
      BY <3>2, <3>3 DEF Alike
    <3>5. talk[t].row.seq \in 1 .. Cardinality(messages) + 1
      BY <1>2, <3>2 DEF Alike
    <3>6. Linked(messages', talk[t].row) => Linked(messages, talk[t].row)
      BY <1>1, <3>5, LinkKept
    <3>7. ~Takable(t)'
      BY <3>1, <3>6 DEF Takable, Expired, _receiver_eligibility_clause
    <3> QED
      BY <3>1, <3>4, <3>7
  <2> QED
    BY <2>1, <2>2 DEF ConsumerInv
<1> QED
  BY <1>3, <1>4, <1>5, <1>6 DEF SessionInv

\* A step of a session on its own transaction.
TalkOnly(s) == talk' \in [Callers -> Transactions] /\ \A t \in Callers : t # s => talk'[t] = talk[t]

LEMMA OwnStepKeeps ==
    ASSUME MessageConstantsOK, MessagesInv, NEW s \in Callers, TalkOnly(s), SessionInv(s)',
           UNCHANGED <<messages, runEvents, settings, history>>, talkLock' \in Callers \cup {Absent},
           \A t \in Callers : t # s /\ talkLock = t => talkLock' = t,
           talk'[s].pc \in OpenPoints => \A t \in Callers \ {s} : ~Holds(t, talk'[s].row.seq),
           talk'[s].pc = "noted" => ~OpenEvent(s, talk'[s].run)
    PROVE  MessagesInv'
<1>1. /\ MessagesTypeOK /\ Numbered(messages) /\ ApartInv /\ clash = FALSE /\ misled = FALSE
      /\ \A t \in Callers : SessionInv(t)
  BY DEF MessagesInv
<1>2. MessagesTypeOK'
  BY <1>1 DEF MessagesTypeOK, settings, history, TalkOnly
<1>3. \A t \in Callers : SessionInv(t)'
  <2>1. ASSUME NEW t \in Callers, t # s PROVE SessionInv(t)'
    <3>1. talk'[t] = talk[t] /\ approval' = approval /\ messages' = messages /\ runEvents' = runEvents
      BY <2>1 DEF TalkOnly, settings
    <3>2. Evolves(messages, messages')
      BY <1>1, <3>1, SameEvolves
    <3>3. \A b \in messages : b.seq # Cardinality(messages) + 1
      BY <1>1, LastNumber
    <3> QED
      BY <2>1, <3>1, <3>2, <3>3, OtherSession
  <2> QED
    BY <2>1
<1>4. ApartInv'
  <2>1. ASSUME NEW t \in Callers, t # s
        PROVE  /\ talk'[s].pc \in OpenPoints /\ talk'[t].pc \in OpenPoints => talk'[s].row.seq # talk'[t].row.seq
               /\ talk'[s].pc = "noted" /\ talk'[t].pc = "noted" => talk'[s].run # talk'[t].run
    BY <2>1 DEF TalkOnly, Holds, OpenPoints, OpenEvent
  <2>2. ASSUME NEW t \in Callers, t # s, NEW u \in Callers, u # s, t # u
        PROVE  /\ talk'[u].pc \in OpenPoints /\ talk'[t].pc \in OpenPoints => talk'[u].row.seq # talk'[t].row.seq
               /\ talk'[u].pc = "noted" /\ talk'[t].pc = "noted" => talk'[u].run # talk'[t].run
    BY <1>1, <2>2 DEF TalkOnly, ApartInv
  <2> QED
    BY <2>1, <2>2 DEF ApartInv
<1>5. \A r \in Children : LogInv(r)'
  BY DEF MessagesInv, LogInv
<1>6. \A m \in messages : RowInv(m)'
  BY DEF MessagesInv, RowInv, settings
<1> QED
  BY <1>1, <1>2, <1>3, <1>4, <1>5, <1>6 DEF MessagesInv, history

\* The end of a transaction.
LEMMA AfterAbort ==
    ASSUME MessageConstantsOK, MessagesTypeOK, NEW s \in Callers, Abort(s)
    PROVE  /\ TalkOnly(s) /\ talk'[s] = NoTransaction /\ talk'[s].pc = "idle" /\ SessionInv(s)'
           /\ talkLock' \in Callers \cup {Absent}
           /\ \A t \in Callers : t # s /\ talkLock = t => talkLock' = t
<1>1. talk \in [Callers -> Transactions] /\ talkLock \in Callers \cup {Absent}
  BY DEF MessagesTypeOK
<1>2. talk' = [talk EXCEPT ![s] = NoTransaction] /\ talkLock' = IF talkLock = s THEN Absent ELSE talkLock
  BY DEF Abort, SetTalk
<1>3. NoTransaction \in Transactions /\ NoTransaction.pc = "idle"
  BY DEF NoTransaction, Transactions
<1>4. TalkOnly(s) /\ talk'[s] = NoTransaction /\ talk'[s].pc = "idle"
  BY <1>1, <1>2, <1>3 DEF TalkOnly
<1>5. SessionInv(s)'
  BY <1>4 DEF SessionInv, CallInv, PublisherInv, ConsumerInv, TailInv, OpenPoints
<1>6. /\ talkLock' \in Callers \cup {Absent}
      /\ \A t \in Callers : t # s /\ talkLock = t => talkLock' = t
  BY <1>1, <1>2
<1> QED
  BY <1>4, <1>5, <1>6

\* A session that goes on to a point.
LEMMA AfterProceed ==
    ASSUME MessagesTypeOK, NEW s \in Callers, NEW p \in {"locked", "append", "noted"}, Proceed(s, p)
    PROVE  /\ TalkOnly(s) /\ talk'[s].pc = p /\ talk'[s].call = talk[s].call /\ talk'[s].run = talk[s].run
           /\ talk'[s].row = talk[s].row /\ talk'[s].tail = talk[s].tail
<1>1. talk \in [Callers -> Transactions] /\ talk' = [talk EXCEPT ![s].pc = p]
  BY DEF MessagesTypeOK, Proceed
<1> QED
  BY <1>1 DEF TalkOnly, Transactions

SetTail(s, n) == talk' = [talk EXCEPT ![s].pc = "note", ![s].tail = n]

LEMMA AfterRead ==
    ASSUME MessagesTypeOK, NEW s \in Callers, NEW n \in Nat, SetTail(s, n)
    PROVE  /\ TalkOnly(s) /\ talk'[s].pc = "note" /\ talk'[s].call = talk[s].call /\ talk'[s].run = talk[s].run
           /\ talk'[s].row = talk[s].row /\ talk'[s].tail = n
<1>1. talk \in [Callers -> Transactions]
  BY DEF MessagesTypeOK
<1>2. talk[s] \in Transactions
  BY <1>1
<1>3. /\ \A t \in Callers : t # s => talk'[t] = talk[t]
      /\ talk'[s] = [[talk[s] EXCEPT !.pc = "note"] EXCEPT !.tail = n] /\ talk' = [t \in Callers |-> talk'[t]]
  BY <1>1 DEF SetTail
<1>4. /\ talk'[s].pc = "note" /\ talk'[s].call = talk[s].call /\ talk'[s].run = talk[s].run
      /\ talk'[s].row = talk[s].row /\ talk'[s].tail = n /\ talk'[s] \in Transactions
  BY <1>2, <1>3 DEF Transactions
<1>5. TalkOnly(s)
  BY <1>1, <1>3, <1>4 DEF TalkOnly
<1> QED
  BY <1>4, <1>5

SetNumber(s, n, h) == talk' = [talk EXCEPT ![s].pc = "insert", ![s].row.seq = n, ![s].row.previous = h]

LEMMA AfterNumber ==
    ASSUME MessagesTypeOK, NEW s \in Callers, talk[s].row \in MessageRows, NEW n \in Nat, NEW h \in Hashes \cup {Absent},
           SetNumber(s, n, h)
    PROVE  /\ TalkOnly(s) /\ talk'[s].pc = "insert" /\ talk'[s].call = talk[s].call /\ talk'[s].run = talk[s].run
           /\ talk'[s].row \in MessageRows /\ talk'[s].row.seq = n /\ talk'[s].row.previous = h
           /\ talk'[s].row.sender = talk[s].row.sender /\ talk'[s].row.consumer = talk[s].row.consumer
           /\ talk'[s].row.trusted = talk[s].row.trusted
<1> DEFINE B == BOOLEAN
           H == Hashes \cup {Absent}
           V == Receivers \cup [kind : {"agent_run"}, ref : Children]
           U == Children \cup {Parent}
           W == Children \cup {Absent}
           P == {0, 1, 2}
           R == [seq : Nat, previous : H, hash : Hashes, sender : U, receiver : V, expires : Nat,
                 trusted : B, policy : P, consumer : W]
           r == [[talk[s].row EXCEPT !.seq = n] EXCEPT !.previous = h]
<1>1. MessageRows = R /\ h \in H /\ talk \in [Callers -> Transactions]
  BY DEF MessageRows, MessagesTypeOK
<1>t. talk[s] \in Transactions
  BY <1>1
<1>2. /\ DOMAIN talk' = Callers /\ \A t \in Callers : t # s => talk'[t] = talk[t]
      /\ talk'[s] = [[[talk[s] EXCEPT !.pc = "insert"] EXCEPT !.row.seq = n] EXCEPT !.row.previous = h]
  BY <1>1 DEF SetNumber
<1>a. /\ talk'[s].row = r /\ talk'[s].pc = "insert" /\ talk'[s].call = talk[s].call /\ talk'[s].run = talk[s].run
      /\ talk'[s].start = talk[s].start /\ talk'[s].tail = talk[s].tail /\ talk'[s].policy = talk[s].policy
      /\ talk'[s] = [pc |-> "insert", call |-> talk[s].call, run |-> talk[s].run, row |-> r, start |-> talk[s].start,
                     tail |-> talk[s].tail, policy |-> talk[s].policy]
  BY <1>t, <1>2 DEF Transactions
<1> HIDE DEF B, H, V, U, W, P
<1>3. talk[s].row \in R
  BY <1>1
<1>4. /\ r \in R /\ r.seq = n /\ r.previous = h /\ r.sender = talk[s].row.sender
      /\ r.consumer = talk[s].row.consumer /\ r.trusted = talk[s].row.trusted
  BY <1>1, <1>3
<1>5. r \in MessageRows
  BY <1>1, <1>4
<1> HIDE DEF r
<1>6. talk'[s] \in Transactions
  BY <1>t, <1>5, <1>a DEF Transactions
<1>7. TalkOnly(s)
  <2>1. talk' = [t \in Callers |-> talk'[t]]
    BY <1>1 DEF SetNumber
  <2> QED
    BY <1>1, <1>2, <1>6, <2>1 DEF TalkOnly
<1> QED
  BY <1>4, <1>5, <1>7, <1>a

-----------------------------------------------------------------------------

SetChecked(s, c, row) ==
    talk' = [talk EXCEPT ![s] = [NoTransaction EXCEPT !.pc = "checked", !.call = "publish", !.run = c, !.row = row]]

LEMMA AfterChecks ==
    ASSUME MessagesTypeOK, NEW s \in Callers, NEW c \in Children, NEW row \in MessageRows, SetChecked(s, c, row)
    PROVE  TalkOnly(s) /\ talk'[s].pc = "checked" /\ talk'[s].call = "publish" /\ talk'[s].run = c /\ talk'[s].row = row
<1>1. talk \in [Callers -> Transactions]
  BY DEF MessagesTypeOK
<1>2. NoTransaction \in Transactions
  BY DEF NoTransaction, Transactions
<1>3. /\ \A t \in Callers : t # s => talk'[t] = talk[t]
      /\ talk'[s] = [NoTransaction EXCEPT !.pc = "checked", !.call = "publish", !.run = c, !.row = row]
      /\ talk' = [t \in Callers |-> talk'[t]]
  BY <1>1 DEF SetChecked
<1>4. /\ talk'[s].pc = "checked" /\ talk'[s].call = "publish" /\ talk'[s].run = c /\ talk'[s].row = row
      /\ talk'[s] \in Transactions
  BY <1>2, <1>3 DEF Transactions
<1> QED
  BY <1>1, <1>3, <1>4 DEF TalkOnly

LEMMA PublishInv ==
    ASSUME MessageConstantsOK, MessagesInv, NEW s \in Callers, NEW c \in Senders, NEW v \in Receivers, NEW p \in Contents,
           NEW g \in BOOLEAN, publish(s, c, v, p, g)
    PROVE  MessagesInv'
<1> DEFINE R == [seq |-> 0, previous |-> Absent, hash |-> <<p, sanitizer>>, sender |-> c, receiver |-> v,
                 expires |-> clock + 1, trusted |-> g, policy |-> sanitizer, consumer |-> Absent]
<1>t. MessagesTypeOK /\ talk \in [Callers -> Transactions] /\ clock \in Nat /\ sanitizer \in {1, 2} /\ c \in Children
  BY DEF MessagesInv, MessagesTypeOK, MessageConstantsOK
<1>1. /\ talk[s].pc = "idle" /\ (g => approval.decider = "human") /\ SetChecked(s, c, R)
      /\ UNCHANGED <<messages, runEvents, talkLock, settings, history>>
  BY DEF publish, _assert_trusted_instruction_grant, SetTalk, sanitize_inter_agent_payload, SetChecked, tables
<1>2. R \in MessageRows
  <2> DEFINE B == BOOLEAN
             A == Receivers \cup [kind : {"agent_run"}, ref : Children]
  <2>1. <<p, sanitizer>> \in Hashes
    BY <1>t DEF Hashes
  <2>2. g \in B /\ v \in A
    OBVIOUS
  <2>3. MessageRows = [seq : Nat, previous : Hashes \cup {Absent}, hash : Hashes, sender : Children \cup {Parent},
     receiver : A, expires : Nat, trusted : B, policy : {0, 1, 2}, consumer : Children \cup {Absent}]
    BY DEF MessageRows
  <2> HIDE DEF B, A
  <2> QED
    BY <1>t, <2>1, <2>2, <2>3
<1>3. /\ R.sender = c /\ R.consumer = Absent /\ (R.trusted => approval.decider = "human")
  BY <1>1
<1> HIDE DEF R
<1>5. TalkOnly(s) /\ talk'[s].pc = "checked" /\ talk'[s].call = "publish" /\ talk'[s].run = c /\ talk'[s].row = R
  BY <1>t, <1>1, <1>2, AfterChecks
<1>6. approval' = approval
  BY <1>1 DEF settings
<1>7. SessionInv(s)'
  <2>1. CallInv(s)' /\ TailInv(s)' /\ ConsumerInv(s)'
    BY <1>t, <1>5 DEF CallInv, TailInv, ConsumerInv, OpenPoints
  <2>2. PublisherInv(s)'
    BY <1>2, <1>3, <1>5, <1>6 DEF PublisherInv, OpenPoints
  <2> QED
    BY <2>1, <2>2 DEF SessionInv
<1>8. talkLock' \in Callers \cup {Absent}
  BY <1>t, <1>1 DEF MessagesTypeOK
<1> QED
  BY <1>1, <1>5, <1>7, <1>8, OwnStepKeeps DEF OpenPoints

LEMMA LockInv ==
    ASSUME MessageConstantsOK, MessagesInv, NEW s \in Callers, _lock_parent_stream(s)
    PROVE  MessagesInv'
<1>t. MessagesTypeOK /\ SessionInv(s)
  BY DEF MessagesInv
<1>1. /\ talk[s].pc = "checked" /\ talkLock = Absent /\ talkLock' = s /\ Proceed(s, "locked")
      /\ UNCHANGED <<messages, runEvents, settings, history>>
  BY DEF _lock_parent_stream, tables
<1>2. /\ TalkOnly(s) /\ talk'[s].pc = "locked" /\ talk'[s].call = talk[s].call /\ talk'[s].run = talk[s].run
      /\ talk'[s].row = talk[s].row
  BY <1>t, <1>1, AfterProceed
<1>3. talk[s].call = "publish" /\ talk[s].run \in Children
  BY <1>t, <1>1 DEF SessionInv, CallInv
<1>4. PublisherInv(s)'
  BY <1>t, <1>1, <1>2, <1>3 DEF SessionInv, PublisherInv, OpenPoints, settings
<1>5. CallInv(s)' /\ TailInv(s)' /\ ConsumerInv(s)'
  BY <1>2, <1>3 DEF CallInv, TailInv, ConsumerInv, OpenPoints
<1>6. \A t \in Callers : t # s /\ talkLock = t => talkLock' = t
  BY <1>1 DEF MessageConstantsOK
<1>7. SessionInv(s)'
  BY <1>4, <1>5 DEF SessionInv
<1> QED
  BY <1>1, <1>2, <1>6, <1>7, OwnStepKeeps DEF OpenPoints

LEMMA NumberInv ==
    ASSUME MessageConstantsOK, MessagesInv, NEW s \in Callers, _current_tail(s)
    PROVE  MessagesInv'
<1>t. MessagesTypeOK /\ SessionInv(s) /\ Numbered(messages) /\ talkLock \in Callers \cup {Absent}
  BY DEF MessagesInv, MessagesTypeOK
<1> DEFINE N == Cardinality(messages)
           h == IF MaxSeq = 0 THEN Absent ELSE At(MaxSeq).hash
<1>n. /\ MaxSeq = N /\ N \in Nat /\ \A m \in messages : m.seq \in 1 .. N
      /\ \A n \in 1 .. N : \E m \in messages : m.seq = n /\ At(n) = m
  BY <1>t, LastNumber
<1>1. /\ talk[s].pc = "locked" /\ SetNumber(s, MaxSeq + 1, h)
      /\ UNCHANGED <<messages, runEvents, talkLock, settings, history>>
  BY DEF _current_tail, SetNumber, tables
<1>2. talk[s].call = "publish" /\ talk[s].run \in Children
  BY <1>t, <1>1 DEF SessionInv, CallInv
<1>3. /\ talk[s].row \in MessageRows /\ talk[s].row.sender = talk[s].run /\ talk[s].row.consumer = Absent
      /\ talk[s].row.trusted => approval.decider = "human"
      /\ talkLock = s
  BY <1>t, <1>1, <1>2 DEF SessionInv, PublisherInv
<1>4. \/ N = 0 /\ h = Absent
      \/ \E m \in messages : m.seq = N /\ h = m.hash
  <2>1. CASE N = 0
    BY <1>n, <2>1
  <2>2. CASE N # 0
    <3>1. N \in 1 .. N
      BY <1>n, <2>2
    <3> QED
      BY <1>n, <2>2, <3>1
  <2> QED
    BY <2>1, <2>2
<1>5. h \in Hashes \cup {Absent}
  <2>1. \A m \in messages : m.hash \in Hashes
    BY <1>t DEF MessagesTypeOK, MessageRows
  <2> QED
    BY <1>4, <2>1
<1> HIDE DEF h
<1>a. N + 1 \in Nat /\ SetNumber(s, N + 1, h)
  BY <1>n, <1>1
<1>6. /\ TalkOnly(s) /\ talk'[s].pc = "insert" /\ talk'[s].call = talk[s].call /\ talk'[s].run = talk[s].run
      /\ talk'[s].row \in MessageRows /\ talk'[s].row.seq = N + 1 /\ talk'[s].row.previous = h
      /\ talk'[s].row.sender = talk[s].row.sender /\ talk'[s].row.consumer = talk[s].row.consumer
      /\ talk'[s].row.trusted = talk[s].row.trusted
  BY <1>t, <1>3, <1>5, <1>a, AfterNumber
<1>7. Linked(messages, talk'[s].row)
  BY <1>n, <1>4, <1>6 DEF Linked
<1>8. SessionInv(s)'
  <2>1. CallInv(s)' /\ TailInv(s)' /\ ConsumerInv(s)'
    BY <1>2, <1>6 DEF CallInv, TailInv, ConsumerInv, OpenPoints
  <2>2. talk'[s].row.seq \in 1 .. N + 1 /\ \A m \in messages : ~(m.seq >= talk'[s].row.seq)
    BY <1>n, <1>6
  <2>3. messages' = messages /\ talkLock' = talkLock /\ approval' = approval
    BY <1>1 DEF settings
  <2>4. PublisherInv(s)'
    BY <1>2, <1>3, <1>6, <1>7, <2>2, <2>3 DEF PublisherInv, OpenPoints
  <2> QED
    BY <2>1, <2>4 DEF SessionInv
<1> QED
  BY <1>t, <1>1, <1>6, <1>8, OwnStepKeeps DEF OpenPoints

LEMMA InsertInv ==
    ASSUME MessageConstantsOK, MessagesInv, NEW s \in Callers, _publish(s)
    PROVE  MessagesInv'
<1>t. /\ MessagesTypeOK /\ SessionInv(s) /\ Numbered(messages) /\ talkLock \in Callers \cup {Absent}
      /\ clash = FALSE /\ misled = FALSE
  BY DEF MessagesInv, MessagesTypeOK
<1>n. /\ Cardinality(messages) \in Nat /\ \A m \in messages : m.seq \in 1 .. Cardinality(messages) /\ At(m.seq) = m
      /\ \A n \in 1 .. Cardinality(messages) : \E m \in messages : m.seq = n
  BY <1>t, LastNumber
<1>1. /\ talk[s].pc = "insert" /\ \A t \in Callers \ {s} : ~Holds(t, talk[s].row.seq)
      /\ UNCHANGED <<messages, runEvents, settings, misled>>
  BY DEF _publish, tables
<1>2. talk[s].call = "publish" /\ talk[s].run \in Children
  BY <1>t, <1>1 DEF SessionInv, CallInv
<1>3. /\ talk[s].row \in MessageRows /\ talk[s].row.sender = talk[s].run /\ talk[s].row.consumer = Absent
      /\ talk[s].row.trusted => approval.decider = "human"
      /\ talkLock = s /\ talk[s].row.seq \in 1 .. Cardinality(messages) + 1 /\ Linked(messages, talk[s].row)
      /\ \A m \in messages : m.seq >= talk[s].row.seq => Bridged(m)
  BY <1>t, <1>1, <1>2 DEF SessionInv, PublisherInv
<1>4. ASSUME NEW m \in messages, m.seq = talk[s].row.seq PROVE MessagesInv'
  <2>1. Abort(s) /\ clash' = (clash \/ ~Bridged(At(talk[s].row.seq)))
    BY <1>4 DEF _publish
  <2>2. Bridged(At(talk[s].row.seq))
    BY <1>n, <1>3, <1>4
  <2>3. UNCHANGED history
    BY <1>t, <1>1, <2>1, <2>2 DEF history
  <2> QED
    BY <1>t, <1>1, <2>1, <2>3, AfterAbort, OwnStepKeeps DEF OpenPoints
<1>5. ASSUME \A m \in messages : m.seq # talk[s].row.seq PROVE MessagesInv'
  <2>1. Proceed(s, "append") /\ UNCHANGED <<talkLock, clash>>
    BY <1>5 DEF _publish
  <2>2. /\ TalkOnly(s) /\ talk'[s].pc = "append" /\ talk'[s].call = talk[s].call /\ talk'[s].run = talk[s].run
        /\ talk'[s].row = talk[s].row
    BY <1>t, <2>1, AfterProceed
  <2>3. talk[s].row.seq = Cardinality(messages) + 1
    BY <1>n, <1>3, <1>5
  <2>4. approval' = approval
    BY <1>1 DEF settings
  <2>5. PublisherInv(s)'
    BY <1>1, <1>2, <1>3, <2>1, <2>2, <2>3, <2>4 DEF PublisherInv, OpenPoints
  <2>6. CallInv(s)' /\ TailInv(s)' /\ ConsumerInv(s)'
    BY <1>2, <2>2 DEF CallInv, TailInv, ConsumerInv, OpenPoints
  <2>7. SessionInv(s)' /\ UNCHANGED history
    BY <1>1, <2>1, <2>5, <2>6 DEF SessionInv, history
  <2> QED
    BY <1>t, <1>1, <2>1, <2>2, <2>7, OwnStepKeeps
<1> QED
  BY <1>4, <1>5

LEMMA ReadInv ==
    ASSUME MessageConstantsOK, MessagesInv, NEW s \in Callers, current_last_seq_no(s)
    PROVE  MessagesInv'
<1>t. MessagesTypeOK /\ SessionInv(s) /\ ApartInv /\ talkLock \in Callers \cup {Absent}
  BY DEF MessagesInv, MessagesTypeOK
<1>1. /\ talk[s].pc = "append" /\ SetTail(s, Len(runEvents[talk[s].run]))
      /\ UNCHANGED <<messages, runEvents, talkLock, settings, history>>
  BY DEF current_last_seq_no, SetTail, tables
<1>2. talk[s].call \in {"publish", "consume"} /\ talk[s].run \in Children
  BY <1>t, <1>1 DEF SessionInv, CallInv, OpenPoints
<1>3. Len(runEvents[talk[s].run]) \in Nat
  BY <1>t, <1>2 DEF MessagesTypeOK
<1>4. /\ TalkOnly(s) /\ talk'[s].pc = "note" /\ talk'[s].call = talk[s].call /\ talk'[s].run = talk[s].run
      /\ talk'[s].row = talk[s].row
  BY <1>t, <1>1, <1>3, AfterRead
<1>5. messages' = messages /\ talkLock' = talkLock /\ approval' = approval
  BY <1>1 DEF settings
<1>6. CallInv(s)' /\ TailInv(s)'
  BY <1>2, <1>4 DEF CallInv, TailInv, OpenPoints
<1>7. PublisherInv(s)'
  BY <1>t, <1>1, <1>4, <1>5 DEF SessionInv, PublisherInv, OpenPoints
<1>8. ConsumerInv(s)'
  BY <1>t, <1>1, <1>4, <1>5 DEF SessionInv, ConsumerInv, OpenPoints
<1>9. SessionInv(s)'
  BY <1>6, <1>7, <1>8 DEF SessionInv
<1>10. \A t \in Callers \ {s} : ~Holds(t, talk'[s].row.seq)
  BY <1>t, <1>1, <1>4 DEF Holds, ApartInv, OpenPoints
<1> QED
  BY <1>t, <1>1, <1>4, <1>9, <1>10, OwnStepKeeps

LEMMA NoteInv ==
    ASSUME MessageConstantsOK, MessagesInv, NEW s \in Callers, append_event(s)
    PROVE  MessagesInv'
<1>t. MessagesTypeOK /\ SessionInv(s) /\ ApartInv /\ talkLock \in Callers \cup {Absent}
  BY DEF MessagesInv, MessagesTypeOK
<1>1. /\ talk[s].pc = "note" /\ ~OpenEvent(s, talk[s].run)
      /\ UNCHANGED <<messages, runEvents, settings, history>>
  BY DEF append_event, tables
<1>2. talk[s].call \in {"publish", "consume"} /\ talk[s].run \in Children
  BY <1>t, <1>1 DEF SessionInv, CallInv, OpenPoints
<1>3. CASE Len(runEvents[talk[s].run]) = talk[s].tail
  <2>1. Proceed(s, "noted") /\ UNCHANGED talkLock
    BY <1>3 DEF append_event
  <2>4. /\ TalkOnly(s) /\ talk'[s].pc = "noted" /\ talk'[s].call = talk[s].call /\ talk'[s].run = talk[s].run
        /\ talk'[s].row = talk[s].row /\ talk'[s].tail = talk[s].tail
    BY <1>t, <2>1, AfterProceed
  <2>5. messages' = messages /\ talkLock' = talkLock /\ approval' = approval /\ runEvents' = runEvents
    BY <1>1, <2>1 DEF settings
  <2>6. CallInv(s)' /\ TailInv(s)'
    BY <1>2, <1>3, <2>4, <2>5 DEF CallInv, TailInv, OpenPoints
  <2>7. PublisherInv(s)'
    BY <1>t, <1>1, <2>4, <2>5 DEF SessionInv, PublisherInv, OpenPoints
  <2>8. ConsumerInv(s)'
    BY <1>t, <1>1, <2>4, <2>5 DEF SessionInv, ConsumerInv, OpenPoints
  <2>9. SessionInv(s)'
    BY <2>6, <2>7, <2>8 DEF SessionInv
  <2>10. \A t \in Callers \ {s} : ~Holds(t, talk'[s].row.seq)
    BY <1>t, <1>1, <2>4 DEF Holds, ApartInv, OpenPoints
  <2>11. ~OpenEvent(s, talk'[s].run)
    BY <1>1, <2>4
  <2> QED
    BY <1>t, <1>1, <2>1, <2>4, <2>9, <2>10, <2>11, OwnStepKeeps
<1>4. CASE Len(runEvents[talk[s].run]) # talk[s].tail
  <2>1. Abort(s)
    BY <1>4 DEF append_event
  <2> QED
    BY <1>t, <1>1, <2>1, AfterAbort, OwnStepKeeps DEF OpenPoints
<1> QED
  BY <1>3, <1>4

LEMMA RollbackInv ==
    ASSUME MessageConstantsOK, MessagesInv, NEW s \in Callers, rollback_message(s)
    PROVE  MessagesInv'
<1>1. MessagesTypeOK /\ Abort(s) /\ UNCHANGED <<messages, runEvents, settings, history>>
  BY DEF MessagesInv, rollback_message, tables
<1> QED
  BY <1>1, AfterAbort, OwnStepKeeps DEF OpenPoints

SetBegun(s, r) ==
    talk' = [talk EXCEPT ![s] = [NoTransaction EXCEPT !.pc = "begun", !.call = "consume", !.run = r, !.start = clock]]

LEMMA BeginInv ==
    ASSUME MessageConstantsOK, MessagesInv, NEW s \in Callers, NEW r \in Children, begin(s, r)
    PROVE  MessagesInv'
<1>t. MessagesTypeOK /\ talk \in [Callers -> Transactions] /\ talkLock \in Callers \cup {Absent} /\ clock \in Nat
  BY DEF MessagesInv, MessagesTypeOK
<1>1. SetBegun(s, r) /\ UNCHANGED <<messages, runEvents, talkLock, settings, history>>
  BY DEF begin, SetTalk, SetBegun, tables
<1>2. NoTransaction \in Transactions
  BY DEF NoTransaction, Transactions
<1>3. /\ \A t \in Callers : t # s => talk'[t] = talk[t]
      /\ talk'[s] = [NoTransaction EXCEPT !.pc = "begun", !.call = "consume", !.run = r, !.start = clock]
      /\ talk' = [t \in Callers |-> talk'[t]]
  BY <1>t, <1>1 DEF SetBegun
<1>4. /\ talk'[s].pc = "begun" /\ talk'[s].call = "consume" /\ talk'[s].run = r /\ talk'[s] \in Transactions
  BY <1>t, <1>2, <1>3 DEF Transactions
<1>5. TalkOnly(s)
  BY <1>t, <1>3, <1>4 DEF TalkOnly
<1>6. SessionInv(s)'
  BY <1>4 DEF SessionInv, CallInv, PublisherInv, ConsumerInv, TailInv, OpenPoints
<1> QED
  BY <1>t, <1>1, <1>4, <1>5, <1>6, OwnStepKeeps DEF OpenPoints

\* A row with its consumer.
LEMMA ConsumedRow ==
    ASSUME NEW m \in MessageRows, NEW r \in Children, NEW y, y = [m EXCEPT !.consumer = r]
    PROVE  y \in MessageRows /\ y.consumer = r /\ Alike(m, y)
<1> DEFINE B == BOOLEAN
           A == Receivers \cup [kind : {"agent_run"}, ref : Children]
<1>1. MessageRows = [seq : Nat, previous : Hashes \cup {Absent}, hash : Hashes, sender : Children \cup {Parent},
     receiver : A, expires : Nat, trusted : B, policy : {0, 1, 2}, consumer : Children \cup {Absent}]
  BY DEF MessageRows
<1> HIDE DEF B, A
<1> QED
  BY <1>1 DEF Alike

SetTaken(s, row) == talk' = [talk EXCEPT ![s] = [talk[s] EXCEPT !.pc = "append", !.row = row]]
SetDenied(s, row, v) == talk' = [talk EXCEPT ![s] = [talk[s] EXCEPT !.pc = "denied", !.row = row, !.policy = v]]

LEMMA AfterUpdate ==
    ASSUME MessagesTypeOK, NEW s \in Callers, NEW row \in MessageRows, NEW v \in {0, 1, 2},
           SetTaken(s, row) \/ SetDenied(s, row, v)
    PROVE  /\ TalkOnly(s) /\ talk'[s].call = talk[s].call /\ talk'[s].run = talk[s].run /\ talk'[s].row = row
           /\ talk'[s].start = talk[s].start
           /\ SetTaken(s, row) => talk'[s].pc = "append"
           /\ SetDenied(s, row, v) => talk'[s].pc = "denied" /\ talk'[s].policy = v
<1>1. talk \in [Callers -> Transactions] /\ talk[s] \in Transactions
  BY DEF MessagesTypeOK
<1>2. ASSUME SetTaken(s, row)
      PROVE  /\ TalkOnly(s) /\ talk'[s].call = talk[s].call /\ talk'[s].run = talk[s].run /\ talk'[s].row = row
             /\ talk'[s].start = talk[s].start /\ talk'[s].pc = "append"
  <2>1. /\ \A t \in Callers : t # s => talk'[t] = talk[t]
        /\ talk'[s] = [talk[s] EXCEPT !.pc = "append", !.row = row] /\ talk' = [t \in Callers |-> talk'[t]]
    BY <1>1, <1>2 DEF SetTaken
  <2>2. /\ talk'[s].call = talk[s].call /\ talk'[s].run = talk[s].run /\ talk'[s].row = row
        /\ talk'[s].start = talk[s].start /\ talk'[s].pc = "append" /\ talk'[s] \in Transactions
    BY <1>1, <2>1 DEF Transactions
  <2> QED
    BY <1>1, <2>1, <2>2 DEF TalkOnly
<1>3. ASSUME SetDenied(s, row, v)
      PROVE  /\ TalkOnly(s) /\ talk'[s].call = talk[s].call /\ talk'[s].run = talk[s].run /\ talk'[s].row = row
             /\ talk'[s].start = talk[s].start /\ talk'[s].pc = "denied" /\ talk'[s].policy = v
  <2>1. /\ \A t \in Callers : t # s => talk'[t] = talk[t]
        /\ talk'[s] = [talk[s] EXCEPT !.pc = "denied", !.row = row, !.policy = v] /\ talk' = [t \in Callers |-> talk'[t]]
    BY <1>1, <1>3 DEF SetDenied
  <2>2. /\ talk'[s].call = talk[s].call /\ talk'[s].run = talk[s].run /\ talk'[s].row = row
        /\ talk'[s].start = talk[s].start /\ talk'[s].pc = "denied" /\ talk'[s].policy = v /\ talk'[s] \in Transactions
    BY <1>1, <2>1 DEF Transactions
  <2> QED
    BY <1>1, <2>1, <2>2 DEF TalkOnly
<1> QED
  BY <1>2, <1>3

LEMMA ConsumeInv ==
    ASSUME MessageConstantsOK, MessagesInv, NEW s \in Callers, NEW m \in messages, consume(s, m)
    PROVE  MessagesInv'
<1>t. /\ MessagesTypeOK /\ SessionInv(s) /\ Numbered(messages) /\ talkLock \in Callers \cup {Absent}
      /\ sanitizer \in {0, 1, 2} /\ m \in MessageRows
  BY DEF MessagesInv, MessagesTypeOK
<1>1. /\ talk[s].pc = "begun" /\ \A t \in Callers \ {s} : ~Holds(t, m.seq)
      /\ UNCHANGED <<messages, runEvents, talkLock, settings, history>>
  BY DEF consume, tables
<1>2. talk[s].call = "consume" /\ talk[s].run \in Children
  BY <1>t, <1>1 DEF SessionInv, CallInv
<1>3. messages' = messages
  BY <1>1
<1>4. CASE Consumable(s, m)
  <2> DEFINE y == [m EXCEPT !.consumer = talk[s].run]
  <2>1. y \in MessageRows /\ y.consumer = talk[s].run /\ Alike(m, y) /\ m.consumer = Absent
    BY <1>t, <1>2, <1>4, ConsumedRow DEF Consumable
  <2>2. SetTaken(s, y)
    BY <1>4 DEF consume, SetTaken
  <2> HIDE DEF y
  <2>3. /\ TalkOnly(s) /\ talk'[s].call = "consume" /\ talk'[s].run = talk[s].run /\ talk'[s].row = y
        /\ talk'[s].pc = "append"
    BY <1>t, <1>2, <2>1, <2>2, AfterUpdate
  <2>4. y.seq = m.seq
    BY <2>1 DEF Alike
  <2>5. ConsumerInv(s)'
    BY <1>3, <2>1, <2>3 DEF ConsumerInv
  <2>6. CallInv(s)' /\ TailInv(s)' /\ PublisherInv(s)'
    BY <1>2, <2>3 DEF CallInv, TailInv, PublisherInv, OpenPoints
  <2>7. SessionInv(s)'
    BY <2>5, <2>6 DEF SessionInv
  <2> QED
    BY <1>t, <1>1, <2>3, <2>4, <2>7, OwnStepKeeps
<1>5. CASE ~Consumable(s, m)
  <2>2. SetDenied(s, m, sanitizer)
    BY <1>5 DEF consume, SetDenied
  <2>3. /\ TalkOnly(s) /\ talk'[s].call = "consume" /\ talk'[s].run = talk[s].run /\ talk'[s].row = m
        /\ talk'[s].pc = "denied" /\ talk'[s].start = talk[s].start /\ talk'[s].policy = sanitizer
    BY <1>t, <1>2, <2>2, AfterUpdate
  <2>4. m.seq \in 1 .. Cardinality(messages) + 1
    BY <1>t, LastNumber
  <2>5. _previous_hash_chain_clause(m) <=> Linked(messages, m)
    BY <1>t, <2>4, ChainIsLink
  <2>6. ~Takable(s)'
    BY <1>3, <1>5, <2>3, <2>5
    DEF Takable, Consumable, Expired, _receiver_eligibility_clause, _sanitizer_policy_fresh_clause
  <2>7. ConsumerInv(s)'
    BY <1>t, <1>3, <2>3, <2>6 DEF ConsumerInv, OpenPoints, Alike
  <2>8. CallInv(s)' /\ TailInv(s)' /\ PublisherInv(s)'
    BY <1>2, <2>3 DEF CallInv, TailInv, PublisherInv, OpenPoints
  <2>9. SessionInv(s)'
    BY <2>7, <2>8 DEF SessionInv
  <2> QED
    BY <1>t, <1>1, <2>3, <2>9, OwnStepKeeps DEF OpenPoints
<1> QED
  BY <1>4, <1>5

LEMMA ClassifyInv ==
    ASSUME MessageConstantsOK, MessagesInv, NEW s \in Callers, _classify_denial(s)
    PROVE  MessagesInv'
<1>t. MessagesTypeOK /\ SessionInv(s) /\ Numbered(messages) /\ misled = FALSE
  BY DEF MessagesInv
<1>1. talk[s].pc = "denied" /\ Abort(s) /\ UNCHANGED <<messages, runEvents, settings, clash>>
  BY DEF _classify_denial, tables
<1>2. talk[s].call = "consume"
  BY <1>t, <1>1 DEF SessionInv, CallInv
<1>3. PICK m \in messages : Alike(m, talk[s].row) /\ (m.consumer = Absent => talk[s].row.consumer = Absent)
  BY <1>t, <1>1, <1>2 DEF SessionInv, ConsumerInv
<1>4. ~Takable(s)
  BY <1>t, <1>1, <1>2 DEF SessionInv, ConsumerInv
<1>5. At(talk[s].row.seq) = m /\ m.seq \in 1 .. Cardinality(messages) + 1
  BY <1>t, <1>3, LastNumber DEF Alike
<1>6. _previous_hash_chain_clause(m) <=> Linked(messages, m)
  BY <1>t, <1>5, ChainIsLink
<1>7. Linked(messages, m) <=> Linked(messages, talk[s].row)
  BY <1>3 DEF Linked, Alike
<1>8. misled' = FALSE
  <2>1. SUFFICES ASSUME m.consumer = Absent, ~Expired(s, m), m.sender # talk[s].run, _previous_hash_chain_clause(m),
                       _sanitizer_policy_fresh_clause(m), talk[s].policy = sanitizer,
                       _receiver_eligibility_clause(m, talk[s].run)
                PROVE  FALSE
    BY <1>t, <1>5 DEF _classify_denial
  <2> QED
    BY <1>3, <1>4, <1>6, <1>7, <2>1
    DEF Takable, Expired, _receiver_eligibility_clause, _sanitizer_policy_fresh_clause, Alike
<1>9. UNCHANGED history
  BY <1>t, <1>1, <1>8 DEF history
<1> QED
  BY <1>t, <1>1, <1>9, AfterAbort, OwnStepKeeps DEF OpenPoints

-----------------------------------------------------------------------------

\* One more event in the log of a run.
GrowLog(q, e) == runEvents' = [runEvents EXCEPT ![q] = Append(runEvents[q], e)]

LEMMA LogGrown ==
    ASSUME runEvents \in [Children -> Seq(RunEvents)], NEW q \in Children, NEW e \in RunEvents, GrowLog(q, e)
    PROVE  /\ runEvents' \in [Children -> Seq(RunEvents)] /\ \A r \in Children : r # q => runEvents'[r] = runEvents[r]
           /\ Len(runEvents[q]) \in Nat /\ DOMAIN runEvents[q] = 1 .. Len(runEvents[q])
           /\ DOMAIN runEvents'[q] = 1 .. Len(runEvents[q]) + 1
           /\ \A n \in 1 .. Len(runEvents[q]) : runEvents'[q][n] = runEvents[q][n]
           /\ runEvents'[q][Len(runEvents[q]) + 1] = e
<1>1. runEvents[q] \in Seq(RunEvents) /\ runEvents'[q] = Append(runEvents[q], e)
  BY DEF GrowLog
<1>2. runEvents'[q] \in Seq(RunEvents)
  BY <1>1
<1>3. runEvents' \in [Children -> Seq(RunEvents)] /\ \A r \in Children : r # q => runEvents'[r] = runEvents[r]
  BY <1>1, <1>2 DEF GrowLog
<1>4. Len(runEvents[q]) \in Nat /\ DOMAIN runEvents[q] = 1 .. Len(runEvents[q])
  BY <1>1
<1>5. DOMAIN runEvents'[q] = 1 .. Len(runEvents[q]) + 1
  BY <1>1
<1>6. \A n \in 1 .. Len(runEvents[q]) : runEvents'[q][n] = runEvents[q][n]
  BY <1>1
<1>7. runEvents'[q][Len(runEvents[q]) + 1] = e
  BY <1>1
<1> QED
  BY <1>3, <1>4, <1>5, <1>6, <1>7

\* A log that is left alone still tells of the rows.
LEMMA LogKept ==
    ASSUME MessageConstantsOK, Evolves(messages, messages'), NEW r \in Children, LogInv(r), runEvents'[r] = runEvents[r]
    PROVE  LogInv(r)'
<1> SUFFICES ASSUME NEW n \in DOMAIN runEvents[r]
             PROVE  /\ runEvents[r][n].at = n
                    /\ runEvents[r][n].kind = "publish" => \E m \in messages' : m.seq = runEvents[r][n].seq
                    /\ runEvents[r][n].kind = "consume" =>
                          /\ \E m \in messages' : m.seq = runEvents[r][n].seq /\ m.consumer = r
                          /\ \A k \in DOMAIN runEvents[r] :
                                runEvents[r][k].kind = "consume" /\ runEvents[r][k].seq = runEvents[r][n].seq => k = n
  BY DEF LogInv
<1>1. runEvents[r][n].at = n
  BY DEF LogInv
<1>2. ASSUME runEvents[r][n].kind = "publish" PROVE \E m \in messages' : m.seq = runEvents[r][n].seq
  BY <1>2 DEF LogInv, Evolves, Alike
<1>3. ASSUME runEvents[r][n].kind = "consume"
      PROVE  \E m \in messages' : m.seq = runEvents[r][n].seq /\ m.consumer = r
  <2>1. PICK m \in messages : m.seq = runEvents[r][n].seq /\ m.consumer = r
    BY <1>3 DEF LogInv
  <2>2. m.consumer # Absent
    BY <2>1 DEF MessageConstantsOK
  <2>3. PICK b \in messages' : Alike(b, m) /\ b.consumer = m.consumer
    BY <2>2 DEF Evolves
  <2> QED
    BY <2>1, <2>3 DEF Alike
<1>4. ASSUME runEvents[r][n].kind = "consume"
      PROVE  \A k \in DOMAIN runEvents[r] :
                runEvents[r][k].kind = "consume" /\ runEvents[r][k].seq = runEvents[r][n].seq => k = n
  BY <1>4 DEF LogInv
<1> QED
  BY <1>1, <1>2, <1>3, <1>4

\* A log that grows: the event tells of a row, and a consumption of one that was free.
LEMMA LogGrows ==
    ASSUME MessageConstantsOK, MessagesInv, Evolves(messages, messages'), NEW q \in Children, NEW e \in RunEvents,
           GrowLog(q, e), e.at = Len(runEvents[q]) + 1,
           e.kind = "publish" => \E m \in messages' : m.seq = e.seq,
           e.kind = "consume" => /\ \E m \in messages' : m.seq = e.seq /\ m.consumer = q
                                 /\ \A m \in messages : m.seq = e.seq => m.consumer = Absent
    PROVE  \A r \in Children : LogInv(r)'
<1>1. runEvents \in [Children -> Seq(RunEvents)] /\ \A r \in Children : LogInv(r)
  BY DEF MessagesInv, MessagesTypeOK
<1> DEFINE L == Len(runEvents[q])
<1>2. /\ \A r \in Children : r # q => runEvents'[r] = runEvents[r]
      /\ L \in Nat /\ DOMAIN runEvents[q] = 1 .. L /\ DOMAIN runEvents'[q] = 1 .. L + 1
      /\ \A n \in 1 .. L : runEvents'[q][n] = runEvents[q][n]
      /\ runEvents'[q][L + 1] = e
  BY <1>1, LogGrown
<1> HIDE DEF L
<1>3. ASSUME NEW r \in Children, r # q PROVE LogInv(r)'
  BY <1>1, <1>2, <1>3, LogKept
<1>o. \A n \in 1 .. L :
        /\ runEvents[q][n].at = n
        /\ runEvents[q][n].kind = "publish" => \E m \in messages : m.seq = runEvents[q][n].seq
        /\ runEvents[q][n].kind = "consume" =>
              /\ \E m \in messages : m.seq = runEvents[q][n].seq /\ m.consumer = q
              /\ \A k \in 1 .. L :
                    runEvents[q][k].kind = "consume" /\ runEvents[q][k].seq = runEvents[q][n].seq => k = n
  BY <1>1, <1>2 DEF LogInv
<1>k. \A n \in 1 .. L : runEvents[q][n].kind = "consume" /\ e.kind = "consume" => runEvents[q][n].seq # e.seq
  BY <1>o DEF MessageConstantsOK
<1>4. LogInv(q)'
  <2>1. ASSUME NEW n \in 1 .. L
        PROVE  /\ runEvents'[q][n].at = n
               /\ runEvents'[q][n].kind = "publish" => \E m \in messages' : m.seq = runEvents'[q][n].seq
               /\ runEvents'[q][n].kind = "consume" =>
                     /\ \E m \in messages' : m.seq = runEvents'[q][n].seq /\ m.consumer = q
                     /\ \A k \in 1 .. L + 1 :
                           runEvents'[q][k].kind = "consume" /\ runEvents'[q][k].seq = runEvents'[q][n].seq => k = n
    <3>1. runEvents'[q][n] = runEvents[q][n]
      BY <1>2
    <3>2. runEvents[q][n].kind = "publish" => \E m \in messages' : m.seq = runEvents[q][n].seq
      BY <1>o DEF Evolves, Alike
    <3>3. ASSUME runEvents[q][n].kind = "consume"
          PROVE  \E m \in messages' : m.seq = runEvents[q][n].seq /\ m.consumer = q
      <4>1. PICK m \in messages : m.seq = runEvents[q][n].seq /\ m.consumer = q
        BY <1>o, <3>3
      <4>2. PICK b \in messages' : Alike(b, m) /\ b.consumer = m.consumer
        BY <4>1 DEF Evolves, MessageConstantsOK
      <4> QED
        BY <4>1, <4>2 DEF Alike
    <3>4. ASSUME runEvents[q][n].kind = "consume", NEW k \in 1 .. L + 1,
                 runEvents'[q][k].kind = "consume", runEvents'[q][k].seq = runEvents[q][n].seq
          PROVE  k = n
      <4>1. CASE k = L + 1
        BY <1>2, <1>k, <3>4, <4>1
      <4>2. CASE k # L + 1
        <5>1. k \in 1 .. L
          BY <1>2, <4>2
        <5> QED
          BY <1>2, <1>o, <3>4, <5>1
      <4> QED
        BY <4>1, <4>2
    <3> QED
      BY <1>o, <3>1, <3>2, <3>3, <3>4
  <2>2. /\ e.at = L + 1
        /\ e.kind = "publish" => \E m \in messages' : m.seq = e.seq
        /\ e.kind = "consume" =>
              /\ \E m \in messages' : m.seq = e.seq /\ m.consumer = q
              /\ \A k \in 1 .. L + 1 : runEvents'[q][k].kind = "consume" /\ runEvents'[q][k].seq = e.seq => k = L + 1
    <3>1. ASSUME e.kind = "consume", NEW k \in 1 .. L + 1, runEvents'[q][k].kind = "consume", runEvents'[q][k].seq = e.seq
          PROVE  k = L + 1
      <4>1. ASSUME k # L + 1 PROVE FALSE
        <5>1. k \in 1 .. L
          BY <1>2, <4>1
        <5> QED
          BY <1>2, <1>k, <3>1, <5>1
      <4> QED
        BY <4>1
    <3> QED
      BY <3>1 DEF L
  <2>3. \A n \in 1 .. L + 1 : n \in 1 .. L \/ n = L + 1
    BY <1>2
  <2> QED
    BY <1>2, <2>1, <2>2, <2>3 DEF LogInv
<1> QED
  BY <1>3, <1>4

\* A row that was there is told of as before, when the log of its sender is left alone
\* or grows by something else.
LEMMA RowKept ==
    ASSUME MessageConstantsOK, MessagesInv, Evolves(messages, messages'), NEW a \in messages, NEW b, Alike(b, a),
           approval'.decider = approval.decider, NEW q \in Children, NEW e \in RunEvents,
           UNCHANGED runEvents \/ GrowLog(q, e), ~(e.kind = "publish" /\ e.seq = a.seq)
    PROVE  RowInv(b)'
<1>1. RowInv(a) /\ runEvents \in [Children -> Seq(RunEvents)] /\ a \in MessageRows /\ Numbered(messages)
  BY DEF MessagesInv, MessagesTypeOK
<1>2. b.trusted => approval'.decider = "human"
  BY <1>1 DEF RowInv, Alike
<1>3. ASSUME ~Bridged(b)
      PROVE  /\ Linked(messages', b) /\ b.sender \in Children
             /\ \E n \in DOMAIN runEvents'[b.sender] :
                   \A k \in DOMAIN runEvents'[b.sender] :
                       (runEvents'[b.sender][k].kind = "publish" /\ runEvents'[b.sender][k].seq = b.seq) <=> k = n
  <2>1. b.sender = a.sender /\ ~Bridged(a) /\ b.seq = a.seq
    BY <1>3 DEF Alike, Bridged
  <2>2. a.sender \in Children
    BY <1>1, <2>1 DEF RowInv
  <2>3. PICK n \in DOMAIN runEvents[a.sender] : \A k \in DOMAIN runEvents[a.sender] :
           (runEvents[a.sender][k].kind = "publish" /\ runEvents[a.sender][k].seq = a.seq) <=> k = n
    BY <1>1, <2>1 DEF RowInv
  <2>4. Linked(messages', b)
    <3>1. a.seq \in 1 .. Cardinality(messages) + 1 /\ Linked(messages, a)
      BY <1>1, <2>1, LastNumber DEF RowInv
    <3>2. Linked(messages', a)
      BY <1>1, <3>1, LinkKept
    <3> QED
      BY <3>2 DEF Linked, Alike
  <2>5. CASE runEvents'[a.sender] = runEvents[a.sender]
    BY <2>1, <2>2, <2>3, <2>4, <2>5
  <2>6. CASE GrowLog(q, e) /\ q = a.sender
    <3> DEFINE L == Len(runEvents[q])
    <3>1. /\ L \in Nat /\ DOMAIN runEvents[q] = 1 .. L /\ DOMAIN runEvents'[q] = 1 .. L + 1
          /\ \A k \in 1 .. L : runEvents'[q][k] = runEvents[q][k]
          /\ runEvents'[q][L + 1] = e
      BY <1>1, <2>6, LogGrown
    <3> HIDE DEF L
    <3>2. n \in 1 .. L /\ n \in 1 .. L + 1
      BY <2>3, <2>6, <3>1
    <3>3. ASSUME NEW k \in 1 .. L + 1
          PROVE  (runEvents'[q][k].kind = "publish" /\ runEvents'[q][k].seq = a.seq) <=> k = n
      <4>1. CASE k = L + 1
        BY <3>1, <3>2, <4>1
      <4>2. CASE k # L + 1
        <5>1. k \in 1 .. L
          BY <3>1, <4>2
        <5> QED
          BY <2>3, <2>6, <3>1, <5>1
      <4> QED
        BY <4>1, <4>2
    <3>4. \A k \in DOMAIN runEvents'[q] : (runEvents'[q][k].kind = "publish" /\ runEvents'[q][k].seq = b.seq) <=> k = n
      BY <2>1, <3>1, <3>3
    <3>5. n \in DOMAIN runEvents'[q] /\ b.sender = q
      BY <2>1, <2>6, <3>1, <3>2
    <3> QED
      BY <2>1, <2>2, <2>4, <3>4, <3>5
  <2>7. GrowLog(q, e) /\ q # a.sender => runEvents'[a.sender] = runEvents[a.sender]
    BY <1>1, <2>2, LogGrown
  <2> QED
    BY <2>5, <2>6, <2>7
<1> QED
  BY <1>2, <1>3 DEF RowInv

\* The bridge, which writes rows in one step.
LEMMA BridgeKeeps ==
    ASSUME MessageConstantsOK, MessagesInv, Evolves(messages, messages'), messages' \subseteq MessageRows,
           UNCHANGED <<runEvents, talkLock, settings, talk, history>>, NEW r \in Children,
           \A b \in messages' : b.seq = Cardinality(messages) + 1 => Bridged(b) /\ ~b.trusted,
           \A t \in Callers : Holds(t, Cardinality(messages) + 1) => Cardinality(messages') = Cardinality(messages),
           \A t \in Callers : \A m \in messages : Holds(t, m.seq) => m \in messages'
    PROVE  MessagesInv'
<1>1. /\ MessagesTypeOK /\ Numbered(messages) /\ ApartInv /\ clash = FALSE /\ misled = FALSE
      /\ \A t \in Callers : SessionInv(t)
  BY DEF MessagesInv
<1>2. approval' = approval
  BY DEF settings
<1>3. MessagesTypeOK'
  BY <1>1 DEF MessagesTypeOK, settings, history
<1>4. ASSUME NEW t \in Callers PROVE SessionInv(t)'
  <2>1. talk[t].pc \in OpenPoints => \A m \in messages : m.seq = talk[t].row.seq => m \in messages'
    BY DEF Holds, OpenPoints
  <2>2. talk[t].pc \in OpenPoints /\ talk[t].call = "publish" => Cardinality(messages') = Cardinality(messages)
    <3>1. talk[t].pc \in OpenPoints /\ talk[t].call = "publish" => Holds(t, Cardinality(messages) + 1)
      BY <1>1 DEF SessionInv, PublisherInv, Holds, OpenPoints
    <3> QED
      BY <3>1
  <2> QED
    BY <1>2, <2>1, <2>2, OtherSession
<1>5. ApartInv'
  BY <1>1 DEF ApartInv
<1>6. \A q \in Children : LogInv(q)'
  BY LogKept DEF MessagesInv
<1>7. ASSUME NEW b \in messages' PROVE RowInv(b)'
  <2>1. CASE b.seq = Cardinality(messages) + 1
    BY <2>1 DEF RowInv
  <2>2. CASE b.seq # Cardinality(messages) + 1
    <3> DEFINE e == [kind |-> "other", seq |-> 0, at |-> 0]
    <3>1. PICK a \in messages : Alike(b, a)
      BY <2>2 DEF Evolves
    <3>2. e \in RunEvents /\ e.kind # "publish"
      BY DEF RunEvents
    <3> HIDE DEF e
    <3> QED
      BY <1>2, <3>1, <3>2, RowKept
  <2> QED
    BY <2>1, <2>2
<1> QED
  BY <1>1, <1>3, <1>4, <1>5, <1>6, <1>7 DEF MessagesInv, Evolves, history

LEMMA BridgeInsertInv ==
    ASSUME MessageConstantsOK, MessagesInv, NEW u \in Children \cup {Parent}, NEW c \in Children, NEW p \in Contents,
           BridgeInserts(u, c, p)
    PROVE  MessagesInv'
<1> DEFINE N == Cardinality(messages)
           v == [kind |-> "agent_run", ref |-> c]
           x == [seq |-> N + 1, previous |-> Absent, hash |-> <<p, 0>>, sender |-> u, receiver |-> v, expires |-> clock + 2,
                 trusted |-> FALSE, policy |-> 0, consumer |-> Absent]
<1>t. MessagesTypeOK /\ Numbered(messages) /\ clock \in Nat /\ messages \subseteq MessageRows
  BY DEF MessagesInv, MessagesTypeOK
<1>n. MaxSeq = N /\ N \in Nat /\ \A m \in messages : m.seq \in 1 .. N
  BY <1>t, LastNumber
<1>1. /\ \A t \in Callers : ~Holds(t, N + 1)
      /\ messages' = messages \cup {x}
      /\ UNCHANGED <<runEvents, talkLock, settings, talk, history>>
  BY <1>n DEF BridgeInserts
<1>2. x \in MessageRows
  <2> DEFINE B == BOOLEAN
             A == Receivers \cup [kind : {"agent_run"}, ref : Children]
  <2>1. <<p, 0>> \in Hashes
    BY DEF Hashes
  <2>2. FALSE \in B /\ v \in A /\ N + 1 \in Nat /\ clock + 2 \in Nat
    BY <1>t, <1>n
  <2>3. MessageRows = [seq : Nat, previous : Hashes \cup {Absent}, hash : Hashes, sender : Children \cup {Parent},
     receiver : A, expires : Nat, trusted : B, policy : {0, 1, 2}, consumer : Children \cup {Absent}]
    BY DEF MessageRows
  <2> HIDE DEF B, A, v, N
  <2> QED
    BY <2>1, <2>2, <2>3
<1>3. x.seq = N + 1 /\ Bridged(x) /\ ~x.trusted
  BY DEF Bridged
<1> HIDE DEF x
<1>4. Evolves(messages, messages') /\ messages' \subseteq MessageRows
  BY <1>t, <1>1, <1>2, <1>3, GrowEvolves
<1>5. \A b \in messages' : b.seq = N + 1 => Bridged(b) /\ ~b.trusted
  BY <1>n, <1>1, <1>3
<1> QED
  BY <1>1, <1>4, <1>5, BridgeKeeps

LEMMA AcceptInv ==
    ASSUME MessageConstantsOK, MessagesInv, NEW m \in messages, NEW c \in Children, bridge_delegation_accept(m, c)
    PROVE  MessagesInv'
<1> DEFINE y == [m EXCEPT !.consumer = c]
<1>t. MessagesTypeOK /\ Numbered(messages) /\ messages \subseteq MessageRows
  BY DEF MessagesInv, MessagesTypeOK
<1>n. Cardinality(messages) \in Nat /\ \A a \in messages : a.seq \in 1 .. Cardinality(messages)
  BY <1>t, LastNumber
<1>1. /\ m.consumer = Absent /\ messages' = (messages \ {m}) \cup {y}
      /\ \A t \in Callers : ~Holds(t, m.seq)
      /\ UNCHANGED <<runEvents, talkLock, settings, talk, history>>
  BY DEF bridge_delegation_accept
<1>2. y \in MessageRows /\ Alike(m, y)
  BY <1>t, ConsumedRow
<1> HIDE DEF y
<1>3. Evolves(messages, messages') /\ Cardinality(messages') = Cardinality(messages) /\ messages' \subseteq MessageRows
  BY <1>t, <1>1, <1>2, TakeEvolves
<1>4. \A b \in messages' : b.seq # Cardinality(messages) + 1
  BY <1>n, <1>1, <1>2 DEF Alike
<1>5. \A t \in Callers : \A a \in messages : Holds(t, a.seq) => a \in messages'
  BY <1>1
<1> QED
  BY <1>1, <1>3, <1>4, <1>5, BridgeKeeps

LEMMA OtherEventInv ==
    ASSUME MessageConstantsOK, MessagesInv, NEW q \in Children, other_event(q)
    PROVE  MessagesInv'
<1> DEFINE e == [kind |-> "other", seq |-> 0, at |-> Len(runEvents[q]) + 1]
<1>t. /\ MessagesTypeOK /\ Numbered(messages) /\ ApartInv /\ runEvents \in [Children -> Seq(RunEvents)]
      /\ \A t \in Callers : SessionInv(t)
  BY DEF MessagesInv, MessagesTypeOK
<1>1. /\ ~OpenEvent(Absent, q) /\ GrowLog(q, e) /\ UNCHANGED <<messages, talkLock, settings, talk, history>>
  BY <1>t DEF other_event, GrowLog
<1>2. e \in RunEvents /\ e.kind = "other" /\ e.at = Len(runEvents[q]) + 1
  BY <1>t DEF RunEvents
<1> HIDE DEF e
<1>3. Evolves(messages, messages') /\ approval' = approval
  BY <1>t, <1>1, SameEvolves DEF settings
<1>4. runEvents' \in [Children -> Seq(RunEvents)] /\ \A r \in Children : r # q => runEvents'[r] = runEvents[r]
  BY <1>t, <1>1, <1>2, LogGrown
<1>5. MessagesTypeOK'
  BY <1>t, <1>1, <1>4 DEF MessagesTypeOK, settings, history
<1>6. ASSUME NEW t \in Callers PROVE SessionInv(t)'
  <2>1. talk[t].pc = "noted" => talk[t].run \in Children /\ talk[t].run # q
    BY <1>t, <1>1 DEF OpenEvent, MessageConstantsOK, SessionInv, CallInv
  <2>2. talk[t].pc = "noted" => Len(runEvents'[talk[t].run]) = Len(runEvents[talk[t].run])
    BY <1>4, <2>1
  <2>3. \A b \in messages : b.seq # Cardinality(messages) + 1
    BY <1>t, LastNumber
  <2> QED
    BY <1>1, <1>3, <2>2, <2>3, OtherSession
<1>7. ApartInv'
  BY <1>t, <1>1 DEF ApartInv
<1>8. \A r \in Children : LogInv(r)'
  BY <1>1, <1>2, <1>3, LogGrows
<1>9. \A b \in messages' : RowInv(b)'
  BY <1>1, <1>2, <1>3, RowKept DEF Alike
<1> QED
  BY <1>1, <1>3, <1>5, <1>6, <1>7, <1>8, <1>9 DEF MessagesInv, Evolves, history

LEMMA SettingsInv ==
    ASSUME MessageConstantsOK, MessagesInv, SettingsNext
    PROVE  MessagesInv'
<1>t. /\ MessagesTypeOK /\ Numbered(messages) /\ ApartInv /\ \A t \in Callers : SessionInv(t)
      /\ approval \in [status : {"approved", "expired"}, decider : {"human", "service"}] /\ changes \in 0 .. MaxChanges
      /\ MaxChanges \in Nat /\ clock \in Nat
  BY DEF MessagesInv, MessagesTypeOK, MessageConstantsOK
<1>1. UNCHANGED <<messages, runEvents, talkLock, talk, history>>
  BY DEF SettingsNext, tables
<1>2. /\ sanitizer' \in {1, 2} /\ clock' \in Nat /\ changes' \in 0 .. MaxChanges
      /\ approval' \in [status : {"approved", "expired"}, decider : {"human", "service"}]
      /\ approval'.decider = approval.decider
  <2>1. changes' \in 0 .. MaxChanges
    BY <1>t DEF SettingsNext, Change
  <2>2. sanitizer' \in {1, 2} /\ clock' \in Nat
    BY <1>t DEF SettingsNext, MessagesTypeOK
  <2>3. \/ approval' = approval
        \/ approval' = [approval EXCEPT !.status = "expired"]
    BY DEF SettingsNext
  <2>4. /\ approval' \in [status : {"approved", "expired"}, decider : {"human", "service"}]
        /\ approval'.decider = approval.decider
    BY <1>t, <2>3
  <2> QED
    BY <2>1, <2>2, <2>4
<1>3. MessagesTypeOK'
  BY <1>t, <1>1, <1>2 DEF MessagesTypeOK, history
<1>4. ASSUME NEW t \in Callers PROVE SessionInv(t)'
  <2>1. Evolves(messages, messages')
    BY <1>t, <1>1, SameEvolves
  <2>2. \A b \in messages : b.seq # Cardinality(messages) + 1
    BY <1>t, LastNumber
  <2> QED
    BY <1>1, <1>2, <2>1, <2>2, OtherSession
<1>5. ApartInv'
  BY <1>t, <1>1 DEF ApartInv
<1>6. \A r \in Children : LogInv(r)'
  BY <1>1 DEF MessagesInv, LogInv
<1>7. ASSUME NEW m \in messages' PROVE RowInv(m)'
  <2>1. RowInv(m)
    BY <1>1 DEF MessagesInv
  <2> QED
    BY <1>1, <1>2, <2>1 DEF RowInv
<1> QED
  BY <1>1, <1>3, <1>4, <1>5, <1>6, <1>7 DEF MessagesInv, history

\* The commit of a message or of a consumption, with the event that tells of it.
LEMMA CommitInv ==
    ASSUME MessageConstantsOK, MessagesInv, NEW s \in Callers, commit_message(s)
    PROVE  MessagesInv'
<1> DEFINE N == Cardinality(messages)
           q == talk[s].run
           w == talk[s].row
           e == Event(s)
<1>t. /\ MessagesTypeOK /\ Numbered(messages) /\ ApartInv /\ runEvents \in [Children -> Seq(RunEvents)]
      /\ messages \subseteq MessageRows /\ \A t \in Callers : SessionInv(t)
      /\ talk[s] \in Transactions
  BY DEF MessagesInv, MessagesTypeOK
<1>n. N \in Nat /\ \A m \in messages : m.seq \in 1 .. N
  BY <1>t, LastNumber
<1>1. /\ talk[s].pc = "noted" /\ messages' = {m \in messages : m.seq # w.seq} \cup {w} /\ GrowLog(q, e) /\ Abort(s)
      /\ UNCHANGED <<settings, history>>
  BY <1>t DEF commit_message, GrowLog
<1>2. talk[s].call \in {"publish", "consume"} /\ q \in Children /\ talk[s].tail = Len(runEvents[q])
  BY <1>t, <1>1 DEF SessionInv, CallInv, TailInv, OpenPoints
<1>w. w \in MessageRows
  BY <1>t, <1>1, <1>2 DEF SessionInv, PublisherInv, ConsumerInv, OpenPoints
<1>e. e \in RunEvents /\ e.kind = talk[s].call /\ e.seq = w.seq /\ e.at = Len(runEvents[q]) + 1
  <2>1. w.seq \in Nat
    BY <1>w DEF MessageRows
  <2>2. Len(runEvents[q]) \in Nat
    BY <1>t, <1>2
  <2> HIDE DEF q, w
  <2> QED
    BY <1>2, <2>1, <2>2 DEF Event, RunEvents, w
<1> HIDE DEF q, w, e
<1>a. /\ TalkOnly(s) /\ talk'[s].pc = "idle" /\ SessionInv(s)' /\ talkLock' \in Callers \cup {Absent}
      /\ \A t \in Callers : t # s /\ talkLock = t => talkLock' = t
  BY <1>t, <1>1, AfterAbort
<1>b. approval' = approval
  BY <1>1 DEF settings
\* The two commits, by what they do to the rows.
<1>3. ASSUME talk[s].call = "publish"
      PROVE  /\ w.seq = N + 1 /\ messages' = messages \cup {w} /\ Evolves(messages, messages') /\ Linked(messages, w)
             /\ w.sender = q /\ (w.trusted => approval.decider = "human") /\ talkLock = s
  <2>1. /\ w.seq = N + 1 /\ Linked(messages, w) /\ w.sender = q /\ (w.trusted => approval.decider = "human")
        /\ talkLock = s
    BY <1>t, <1>1, <1>3 DEF SessionInv, PublisherInv, OpenPoints, w, q
  <2>2. messages' = messages \cup {w}
    BY <1>n, <1>1, <2>1
  <2> QED
    BY <1>t, <2>1, <2>2, GrowEvolves
<1>4. ASSUME talk[s].call = "consume"
      PROVE  /\ Evolves(messages, messages') /\ Cardinality(messages') = N /\ w.consumer = q
             /\ \A m \in messages : m.seq = w.seq => m.consumer = Absent
             /\ \A b \in messages' : b.seq # N + 1
             /\ \A a \in messages : a.seq # w.seq => a \in messages'
  <2>1. PICK m \in messages : m.consumer = Absent /\ Alike(m, w)
    BY <1>t, <1>1, <1>4 DEF SessionInv, ConsumerInv, OpenPoints, w
  <2>2. w.consumer = q
    BY <1>t, <1>1, <1>4 DEF SessionInv, ConsumerInv, OpenPoints, w, q
  <2>3. m.seq = w.seq /\ \A a \in messages : a.seq = w.seq => a = m
    BY <1>t, <2>1 DEF Alike, Numbered
  <2>4. messages' = (messages \ {m}) \cup {w}
    BY <1>1, <2>3
  <2>5. Evolves(messages, messages') /\ Cardinality(messages') = N
    BY <1>t, <2>1, <2>4, TakeEvolves
  <2>6. \A b \in messages' : b.seq # N + 1
    BY <1>n, <2>3, <2>4
  <2>7. \A a \in messages : a.seq # w.seq => a \in messages'
    BY <2>3, <2>4
  <2> QED
    BY <2>1, <2>2, <2>3, <2>5, <2>6, <2>7
<1>5. Evolves(messages, messages') /\ messages' \subseteq MessageRows /\ w \in messages'
  BY <1>t, <1>1, <1>2, <1>3, <1>4, <1>w
<1>6. runEvents' \in [Children -> Seq(RunEvents)] /\ \A r \in Children : r # q => runEvents'[r] = runEvents[r]
  BY <1>t, <1>1, <1>2, <1>e, LogGrown
<1>7. MessagesTypeOK'
  BY <1>t, <1>1, <1>5, <1>6, <1>a DEF MessagesTypeOK, settings, history, TalkOnly
<1>8. ASSUME NEW t \in Callers, t # s PROVE SessionInv(t)'
  <2>1. talk'[t] = talk[t] /\ (talkLock = t => talkLock' = t)
    BY <1>a, <1>8 DEF TalkOnly
  <2>2. talk[t].pc = "noted" => talk[t].run \in Children /\ talk[t].run # q
    BY <1>t, <1>1, <1>8 DEF ApartInv, SessionInv, CallInv, q
  <2>3. talk[t].pc = "noted" => Len(runEvents'[talk[t].run]) = Len(runEvents[talk[t].run])
    BY <1>6, <2>2
  <2>4. talk[t].pc \in OpenPoints => talk[t].row.seq # w.seq
    BY <1>t, <1>1, <1>8 DEF ApartInv, OpenPoints, w
  <2>5. talk[t].pc \in OpenPoints => \A m \in messages : m.seq = talk[t].row.seq => m \in messages'
    BY <1>1, <2>4
  <2>6. talkLock = s => ~(talk[t].pc = "insert") /\ ~(talk[t].pc \in OpenPoints /\ talk[t].call = "publish")
    BY <1>t, <1>8 DEF SessionInv, PublisherInv, CallInv, OpenPoints
  <2>7. talk[t].pc = "insert" => \A b \in messages' : b.seq = N + 1 => Bridged(b)
    BY <1>2, <1>3, <1>4, <2>6
  <2>8. talk[t].pc \in OpenPoints /\ talk[t].call = "publish" => Cardinality(messages') = N
    BY <1>2, <1>3, <1>4, <2>6
  <2> QED
    BY <1>5, <1>b, <2>1, <2>3, <2>5, <2>7, <2>8, OtherSession
<1>9. ApartInv'
  BY <1>t, <1>a DEF ApartInv, TalkOnly, OpenPoints
<1>10. \A r \in Children : LogInv(r)'
  <2>1. e.kind = "consume" => /\ \E m \in messages' : m.seq = e.seq /\ m.consumer = q
                              /\ \A m \in messages : m.seq = e.seq => m.consumer = Absent
    BY <1>4, <1>5, <1>e
  <2>2. e.kind = "publish" => \E m \in messages' : m.seq = e.seq
    BY <1>5, <1>e
  <2> QED
    BY <1>1, <1>2, <1>5, <1>e, <2>1, <2>2, LogGrows
<1>11. ASSUME NEW b \in messages' PROVE RowInv(b)'
  <2>1. CASE b.seq # N + 1
    <3>1. PICK a \in messages : Alike(b, a)
      BY <1>5, <2>1 DEF Evolves
    <3>2. ~(e.kind = "publish" /\ e.seq = a.seq)
      BY <1>3, <1>e, <2>1, <3>1 DEF Alike
    <3> QED
      BY <1>1, <1>2, <1>5, <1>b, <1>e, <3>1, <3>2, RowKept
  <2>2. CASE b.seq = N + 1
    <3> DEFINE L == Len(runEvents[q])
    <3>1. talk[s].call = "publish" /\ b = w
      BY <1>2, <1>3, <1>4, <1>n, <2>2
    <3>2. Linked(messages', b)
      <4>1. w.seq \in 1 .. N + 1
        BY <1>n, <2>2, <3>1
      <4> QED
        BY <1>3, <1>5, <1>t, <3>1, <4>1, LinkKept
    <3>3. /\ L \in Nat /\ DOMAIN runEvents[q] = 1 .. L /\ DOMAIN runEvents'[q] = 1 .. L + 1
          /\ \A k \in 1 .. L : runEvents'[q][k] = runEvents[q][k]
          /\ runEvents'[q][L + 1] = e
      BY <1>t, <1>1, <1>2, <1>e, LogGrown
    <3> HIDE DEF L
    <3>4. \A k \in 1 .. L : runEvents[q][k].kind = "publish" => runEvents[q][k].seq # N + 1
      <4>1. LogInv(q)
        BY <1>2 DEF MessagesInv
      <4>2. \A k \in 1 .. L : runEvents[q][k].kind = "publish" => \E m \in messages : m.seq = runEvents[q][k].seq
        BY <3>3, <4>1 DEF LogInv
      <4> QED
        BY <1>n, <4>2
    <3>5. ASSUME NEW k \in 1 .. L + 1
          PROVE  (runEvents'[q][k].kind = "publish" /\ runEvents'[q][k].seq = b.seq) <=> k = L + 1
      <4>1. CASE k = L + 1
        BY <1>e, <3>1, <3>3, <4>1
      <4>2. CASE k # L + 1
        <5>1. k \in 1 .. L
          BY <3>3, <4>2
        <5> QED
          BY <2>2, <3>3, <3>4, <4>2, <5>1
      <4> QED
        BY <4>1, <4>2
    <3>6. L + 1 \in DOMAIN runEvents'[q] /\ b.sender = q
      BY <1>3, <3>1, <3>3
    <3>7. \E n \in DOMAIN runEvents'[b.sender] : \A k \in DOMAIN runEvents'[b.sender] :
             (runEvents'[b.sender][k].kind = "publish" /\ runEvents'[b.sender][k].seq = b.seq) <=> k = n
      BY <3>3, <3>5, <3>6
    <3>8. b.trusted => approval'.decider = "human"
      BY <1>3, <1>b, <3>1
    <3>9. b.sender \in Children
      BY <1>2, <3>6
    <3> QED
      BY <3>2, <3>7, <3>8, <3>9 DEF RowInv
  <2> QED
    BY <2>1, <2>2
<1>12. \A t \in Callers : SessionInv(t)'
  BY <1>8, <1>a
<1>13. clash' = FALSE /\ misled' = FALSE /\ Numbered(messages')
  BY <1>1, <1>5 DEF MessagesInv, history, Evolves
<1> QED
  BY <1>7, <1>9, <1>10, <1>11, <1>12, <1>13 DEF MessagesInv

LEMMA MessagesInitInv ==
    ASSUME MessageConstantsOK, MessagesInit
    PROVE  MessagesInv
<1>1. /\ messages = {} /\ runEvents = [r \in Children |-> <<>>] /\ talkLock = Absent
      /\ sanitizer = 1 /\ clock = 0 /\ changes = 0 /\ talk = [s \in Callers |-> NoTransaction]
      /\ clash = FALSE /\ misled = FALSE
      /\ approval \in [status : {"approved"}, decider : {"human", "service"}]
  BY DEF MessagesInit
<1>2. NoTransaction \in Transactions /\ NoTransaction.pc = "idle"
  BY DEF NoTransaction, Transactions
<1>3. approval \in [status : {"approved", "expired"}, decider : {"human", "service"}]
  BY <1>1
<1>4. runEvents \in [Children -> Seq(RunEvents)] /\ talk \in [Callers -> Transactions]
  BY <1>1, <1>2
<1>5. MessagesTypeOK
  <2>1. clash \in BOOLEAN /\ misled \in BOOLEAN
    BY <1>1
  <2>2. /\ messages \subseteq MessageRows /\ talkLock \in Callers \cup {Absent} /\ sanitizer \in {1, 2}
        /\ clock \in Nat /\ changes \in 0 .. MaxChanges
    BY <1>1 DEF MessageConstantsOK
  <2> QED
    BY <1>3, <1>4, <2>1, <2>2 DEF MessagesTypeOK
<1>6. Numbered(messages)
  BY <1>1, FS_EmptySet DEF Numbered
<1>7. \A s \in Callers : SessionInv(s)
  BY <1>1, <1>2 DEF SessionInv, CallInv, PublisherInv, ConsumerInv, TailInv, OpenPoints
<1>8. ApartInv
  BY <1>1, <1>2 DEF ApartInv, OpenPoints
<1>9. \A r \in Children : LogInv(r)
  BY <1>1 DEF LogInv
<1> QED
  BY <1>1, <1>5, <1>6, <1>7, <1>8, <1>9 DEF MessagesInv

LEMMA MessagesStepInv ==
    ASSUME MessageConstantsOK, MessagesInv, [MessagesNext]_messageVars
    PROVE  MessagesInv'
<1>1. ASSUME NEW s \in Callers, SessionNext(s) PROVE MessagesInv'
  <2>1. ASSUME NEW c \in Senders, NEW v \in Receivers, NEW p \in Contents, NEW g \in BOOLEAN, publish(s, c, v, p, g)
        PROVE  MessagesInv'
    BY <2>1, PublishInv
  <2>2. ASSUME NEW c \in Children, begin(s, c) PROVE MessagesInv'
    BY <2>2, BeginInv
  <2>3. ASSUME NEW m \in messages, consume(s, m) PROVE MessagesInv'
    BY <2>3, ConsumeInv
  <2>4. CASE _lock_parent_stream(s)
    BY <2>4, LockInv
  <2>5. CASE _current_tail(s)
    BY <2>5, NumberInv
  <2>6. CASE _publish(s)
    BY <2>6, InsertInv
  <2>7. CASE current_last_seq_no(s)
    BY <2>7, ReadInv
  <2>8. CASE append_event(s)
    BY <2>8, NoteInv
  <2>9. CASE commit_message(s)
    BY <2>9, CommitInv
  <2>10. CASE rollback_message(s)
    BY <2>10, RollbackInv
  <2>11. CASE _classify_denial(s)
    BY <2>11, ClassifyInv
  <2> QED
    BY <1>1, <2>1, <2>2, <2>3, <2>4, <2>5, <2>6, <2>7, <2>8, <2>9, <2>10, <2>11 DEF SessionNext
<1>2. ASSUME NEW c \in Children, other_event(c) PROVE MessagesInv'
  BY <1>2, OtherEventInv
<1>3. ASSUME NEW c \in Children, NEW p \in Contents, bridge_delegation_create(c, p) \/ bridge_delegation_submit(c, p)
      PROVE  MessagesInv'
  <2>1. BridgeInserts(Parent, c, p) \/ BridgeInserts(c, c, p)
    BY <1>3 DEF bridge_delegation_create, bridge_delegation_submit
  <2>2. Parent \in Children \cup {Parent} /\ c \in Children \cup {Parent}
    OBVIOUS
  <2> QED
    BY <2>1, <2>2, BridgeInsertInv
<1>4. ASSUME NEW m \in messages, NEW c \in Children, bridge_delegation_accept(m, c) PROVE MessagesInv'
  BY <1>4, AcceptInv
<1>5. CASE SettingsNext
  BY <1>5, SettingsInv
<1>6. CASE UNCHANGED messageVars
  <2>1. UNCHANGED <<messages, runEvents, talkLock, sanitizer, approval, clock, changes, talk, clash, misled>>
    BY <1>6 DEF messageVars, tables, settings, history
  <2>2. MessagesTypeOK'
    BY <2>1 DEF MessagesInv, MessagesTypeOK
  <2>3. \A s \in Callers : SessionInv(s)'
    BY <2>1 DEF MessagesInv, SessionInv, CallInv, PublisherInv, ConsumerInv, TailInv, Takable, Expired,
                _receiver_eligibility_clause
  <2>4. ApartInv' /\ \A r \in Children : LogInv(r)'
    BY <2>1 DEF MessagesInv, ApartInv, LogInv
  <2>5. \A m \in messages' : RowInv(m)'
    BY <2>1 DEF MessagesInv, RowInv
  <2> QED
    BY <2>1, <2>2, <2>3, <2>4, <2>5 DEF MessagesInv
<1> QED
  BY <1>1, <1>2, <1>3, <1>4, <1>5, <1>6 DEF MessagesNext

LEMMA MessagesInvSound ==
    ASSUME MessageConstantsOK, MessagesInv
    PROVE  MessagesTypeOK /\ MessagesSound
<1>t. Numbered(messages) /\ messages \subseteq MessageRows /\ runEvents \in [Children -> Seq(RunEvents)]
  BY DEF MessagesInv, MessagesTypeOK
<1>n. /\ Cardinality(messages) \in Nat
      /\ \A m \in messages : m.seq \in 1 .. Cardinality(messages) + 1 /\ At(m.seq) = m
  BY <1>t, LastNumber
<1>1. StreamChained
  <2>1. {m.seq : m \in messages} = 1 .. Cardinality(messages)
    BY <1>t DEF Numbered
  <2>2. ASSUME NEW m \in messages, ~Bridged(m) PROVE _previous_hash_chain_clause(m)
    BY <1>t, <1>n, <2>2, ChainIsLink DEF MessagesInv, RowInv
  <2> QED
    BY <2>1, <2>2 DEF StreamChained
<1>2. PublishersTakeTurns /\ DenialExplained
  BY DEF PublishersTakeTurns, DenialExplained, MessagesInv
<1>3. TrustedByHuman
  BY DEF TrustedByHuman, MessagesInv, RowInv
<1>4. NotedOnce
  <2>1. ASSUME NEW r \in Children, NEW n \in DOMAIN runEvents[r]
        PROVE  /\ runEvents[r][n].at = n
               /\ runEvents[r][n].kind = "consume" =>
                     /\ At(runEvents[r][n].seq).consumer = r
                     /\ \A k \in DOMAIN runEvents[r] \ {n} : runEvents[r][k] # [runEvents[r][n] EXCEPT !.at = k]
    <3>1. LogInv(r)
      BY DEF MessagesInv
    <3>2. ASSUME runEvents[r][n].kind = "consume" PROVE At(runEvents[r][n].seq).consumer = r
      BY <1>n, <3>1, <3>2 DEF LogInv
    <3>3. ASSUME runEvents[r][n].kind = "consume", NEW k \in DOMAIN runEvents[r] \ {n},
                 runEvents[r][k] = [runEvents[r][n] EXCEPT !.at = k]
          PROVE  FALSE
      <4>1. runEvents[r][n] \in RunEvents
        BY <1>t
      <4>2. runEvents[r][k].kind = "consume" /\ runEvents[r][k].seq = runEvents[r][n].seq
        BY <3>3, <4>1 DEF RunEvents
      <4> QED
        BY <3>1, <3>3, <4>2 DEF LogInv
    <3> QED
      BY <3>1, <3>2, <3>3 DEF LogInv
  <2>2. ASSUME NEW m \in messages, ~Bridged(m)
        PROVE  Cardinality({n \in DOMAIN runEvents[m.sender] :
                   runEvents[m.sender][n].kind = "publish" /\ runEvents[m.sender][n].seq = m.seq}) = 1
    <3>1. PICK n \in DOMAIN runEvents[m.sender] : \A k \in DOMAIN runEvents[m.sender] :
             (runEvents[m.sender][k].kind = "publish" /\ runEvents[m.sender][k].seq = m.seq) <=> k = n
      BY <2>2 DEF MessagesInv, RowInv
    <3>2. {k \in DOMAIN runEvents[m.sender] :
              runEvents[m.sender][k].kind = "publish" /\ runEvents[m.sender][k].seq = m.seq} = {n}
      BY <3>1
    <3> QED
      BY <3>2, FS_Singleton
  <2> QED
    BY <2>1, <2>2 DEF NotedOnce
<1> QED
  BY <1>1, <1>2, <1>3, <1>4 DEF MessagesInv, MessagesSound

\* The messages are sound in every reachable state.
LEMMA MessagesInvariant == MessageConstantsOK => (MessagesSpec => [](MessagesTypeOK /\ MessagesSound))
<1> SUFFICES ASSUME MessageConstantsOK PROVE MessagesSpec => [](MessagesTypeOK /\ MessagesSound)
  OBVIOUS
<1>1. MessagesInit => MessagesInv
  BY MessagesInitInv
<1>2. MessagesInv /\ [MessagesNext]_messageVars => MessagesInv'
  BY MessagesStepInv
<1>3. MessagesInv => MessagesTypeOK /\ MessagesSound
  BY MessagesInvSound
<1> QED
  BY <1>1, <1>2, <1>3, PTL DEF MessagesSpec

-----------------------------------------------------------------------------
(* The channels together *)

LEMMA ChannelStep ==
    ASSUME [ChannelsNext]_channelVars
    PROVE  [WebhookNext]_webhookVars /\ [MessagesNext]_messageVars /\ [StreamNext]_streamVars
BY DEF ChannelsNext, channelVars

LEMMA ChannelParts == ChannelsSpec => WebhookSpec /\ MessagesSpec /\ StreamSpec
<1>1. ChannelsInit => WebhookInit /\ MessagesInit /\ StreamInit
  BY DEF ChannelsInit
<1>2. [ChannelsNext]_channelVars => [WebhookNext]_webhookVars /\ [MessagesNext]_messageVars /\ [StreamNext]_streamVars
  BY ChannelStep
<1> QED
  BY <1>1, <1>2, PTL DEF ChannelsSpec, WebhookSpec, MessagesSpec, StreamSpec

\* Webhooks, messages and streams are well typed whatever the interleaving of handlers,
\* sessions, the bridge, the run and its clients.
THEOREM ChannelTypes ==
    WebhookConstantsOK /\ MessageConstantsOK /\ StreamConstantsOK =>
        (ChannelsSpec => [](WebhookTypeOK /\ MessagesTypeOK /\ StreamTypeOK))
BY ChannelParts, WebhookTypes, MessagesInvariant, StreamInvariant, PTL

\* Messages between runs form one chain of hashes, are consumed once and noted once,
\* publishers never fail each other, a denial says why, an instruction has a human's
\* approval; a client told that its run is over has all its events and places are
\* counted right: for any number of sessions, runs, messages, events and clients
\* (publisher.py, consumer.py, agent_run_event.py, api_bridge.py, agent_run_stream.py).
THEOREM ChannelSafety ==
    MessageConstantsOK /\ StreamConstantsOK => (ChannelsSpec => []ChannelsSound)
<1>1. (MessagesTypeOK /\ MessagesSound) /\ (StreamTypeOK /\ StreamSound) => ChannelsSound
  BY DEF ChannelsSound
<1> QED
  BY <1>1, ChannelParts, MessagesInvariant, StreamInvariant, PTL
=============================================================================
