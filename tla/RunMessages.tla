----------------------------- MODULE RunMessages -----------------------------
(***************************************************************************)
(* Messages between the runs of one parent (services/inter_agent), and the *)
(* event log of the runs they are noted in (repositories/agent_run_event). *)
(* Publishers lock the parent's stream, take the next number and chain the *)
(* message to the hash of the last one; consumers take a message with one  *)
(* conditional UPDATE.  The MCP bridge writes delegations, and the results *)
(* of delegations, into the same stream, without that lock, the chain or   *)
(* an event, and consumes them in its own way.  Every call is a            *)
(* transaction of a session: a statement that inserts or updates a row     *)
(* another transaction holds waits for its end.                            *)
(***************************************************************************)
EXTENDS Naturals, FiniteSets, Sequences

CONSTANTS
    Callers,      \* database sessions
    Children,     \* child runs of the parent
    Role,         \* function: child -> its role
    Parent,       \* the parent run
    Senders,      \* children that publish
    Receivers,    \* receivers: [kind, ref]
    Contents,     \* payloads the sanitizer passes
    MessageCalls, \* what sessions do: "publish", "trusted", "consume"
    MaxMessages,  \* bound on rows of the stream
    MaxRunEvents, \* bound on events of a run
    MaxChanges,   \* bound on changes of the policy, the approval and the clock
    Absent

MessageConstantsOK ==
    /\ DOMAIN Role = Children /\ Parent \notin Children /\ Senders \subseteq Children
    /\ \A v \in Receivers :
          \/ v.kind = "agent_run" /\ v.ref \in Children
          \/ v.kind = "role" /\ v.ref \in {Role[c] : c \in Children}
          \/ v.kind = "broadcast" /\ v.ref = Absent
    /\ Absent \notin Children /\ Absent \notin Callers
    /\ MaxMessages \in Nat /\ MaxRunEvents \in Nat /\ MaxChanges \in Nat

VARIABLES
    messages,   \* rows of inter_agent_messages, committed
    runEvents,  \* run -> its committed agent_run_events, by seq_no
    talkLock,   \* session that holds the advisory lock of the parent's stream
    sanitizer,  \* the active sanitizer policy version
    approval,   \* [status, decider] of the approval trusted instructions refer to
    clock, changes,
    talk,       \* session -> its transaction
    clash,      \* history: a publication failed because of another publisher
    misled      \* history: an eligible receiver was told that it is not, under one policy

tables == <<messages, runEvents>>
settings == <<sanitizer, approval, clock, changes>>
history == <<clash, misled>>
messageVars == <<tables, talkLock, settings, talk, history>>

NoTransaction == [pc |-> "idle", call |-> Absent, run |-> Absent, row |-> Absent, start |-> 0, tail |-> 0, policy |-> 0]

MaxSeq == IF messages = {} THEN 0 ELSE CHOOSE n \in {m.seq : m \in messages} : \A m \in messages : m.seq <= n
At(n) == CHOOSE m \in messages : m.seq = n

\* Rows of the MCP bridge were written under no sanitizer policy.
Bridged(m) == m.policy = 0

SetTalk(s, state) == talk' = [talk EXCEPT ![s] = state]
Proceed(s, pc) == talk' = [talk EXCEPT ![s].pc = pc]

\* The transaction ends: what it holds is free again.
Abort(s) == SetTalk(s, NoTransaction) /\ talkLock' = IF talkLock = s THEN Absent ELSE talkLock

\* Rows inserted or updated by a transaction that is still open.
Holds(s, n) == talk[s].pc \in {"append", "note", "noted"} /\ talk[s].row.seq = n

-----------------------------------------------------------------------------
(* InterAgentPublisherService *)

_assert_run_boundary(sender, receiver) ==
    sender \in Children /\ (receiver.kind = "agent_run" => receiver.ref # sender)

\* The approval of the sender's run for exactly this artifact, policy version,
\* fingerprint and action class: approved, by a human.
_assert_trusted_instruction_grant == approval.status = "approved" /\ approval.decider = "human"

\* Content and policy version make the hash.
sanitize_inter_agent_payload(payload) == <<payload, sanitizer>>

\* The checks: a request that fails one raises and leaves nothing, a payload that the
\* sanitizer rejects leaves an audit.
publish(s, sender, receiver, payload, trusted) ==
    /\ "publish" \in MessageCalls /\ talk[s].pc = "idle" /\ Cardinality(messages) < MaxMessages
    /\ _assert_run_boundary(sender, receiver)
    /\ trusted => "trusted" \in MessageCalls /\ _assert_trusted_instruction_grant
    /\ SetTalk(s, [NoTransaction EXCEPT !.pc = "checked", !.call = "publish", !.run = sender,
                 !.row = [seq |-> 0, previous |-> Absent, hash |-> sanitize_inter_agent_payload(payload),
                          sender |-> sender, receiver |-> receiver, expires |-> clock + 1,
                          trusted |-> trusted, policy |-> sanitizer, consumer |-> Absent]])
    /\ UNCHANGED <<tables, talkLock, settings, history>>

_lock_parent_stream_None(s) ==
    /\ talk[s].pc = "checked"
    /\ Proceed(s, "locked")
    /\ UNCHANGED <<tables, talkLock, settings, history>>

_lock_parent_stream(s) ==
    /\ talk[s].pc = "checked" /\ talkLock = Absent /\ talkLock' = s
    /\ Proceed(s, "locked")
    /\ UNCHANGED <<tables, settings, history>>

_current_tail(s) ==
    /\ talk[s].pc = "locked"
    /\ talk' = [talk EXCEPT ![s].pc = "insert", ![s].row.seq = MaxSeq + 1,
                            ![s].row.previous = IF MaxSeq = 0 THEN Absent ELSE At(MaxSeq).hash]
    /\ UNCHANGED <<tables, talkLock, settings, history>>

\* The unique number: waits for an open insert of it, fails on a committed one.
_publish(s) ==
    /\ talk[s].pc = "insert"
    /\ \A t \in Callers \ {s} : ~Holds(t, talk[s].row.seq)
    /\ IF \E m \in messages : m.seq = talk[s].row.seq
       THEN Abort(s) /\ clash' = (clash \/ ~Bridged(At(talk[s].row.seq)))
       ELSE Proceed(s, "append") /\ UNCHANGED <<talkLock, clash>>
    /\ UNCHANGED <<tables, settings, misled>>

-----------------------------------------------------------------------------
(* AgentRunEventRepository.append_event *)

current_last_seq_no(s) ==
    /\ talk[s].pc = "append"
    /\ talk' = [talk EXCEPT ![s].pc = "note", ![s].tail = Len(runEvents[talk[s].run])]
    /\ UNCHANGED <<tables, talkLock, settings, history>>

\* An open insert of the same number on the same run.
OpenEvent(s, r) == \E t \in Callers \ {s} : talk[t].pc = "noted" /\ talk[t].run = r

\* INSERT ... SELECT ... HAVING max(seq_no) = the number read before.
append_event(s) ==
    LET r == talk[s].run
    IN  /\ talk[s].pc = "note" /\ ~OpenEvent(s, r)
        /\ IF Len(runEvents[r]) = talk[s].tail THEN Proceed(s, "noted") /\ UNCHANGED talkLock ELSE Abort(s)
        /\ UNCHANGED <<tables, settings, history>>

Event(s) == [kind |-> talk[s].call, seq |-> talk[s].row.seq, at |-> talk[s].tail + 1]

\* The caller commits message or consumption, artifact, audit and event together.
commit_message(s) ==
    /\ talk[s].pc = "noted"
    /\ messages' = {m \in messages : m.seq # talk[s].row.seq} \cup {talk[s].row}
    /\ runEvents' = [runEvents EXCEPT ![talk[s].run] = Append(@, Event(s))]
    /\ Abort(s)
    /\ UNCHANGED <<settings, history>>

\* The caller fails after the call, or the server ends.
rollback_message(s) ==
    /\ talk[s].pc # "idle" /\ Abort(s)
    /\ UNCHANGED <<tables, settings, history>>

\* Another service appends to the log of a run.
other_event(r) ==
    /\ Len(runEvents[r]) < MaxRunEvents /\ ~OpenEvent(Absent, r)
    /\ runEvents' = [runEvents EXCEPT ![r] = Append(@, [kind |-> "other", seq |-> 0, at |-> Len(@) + 1])]
    /\ UNCHANGED <<messages, talkLock, settings, talk, history>>

-----------------------------------------------------------------------------
(* InterAgentConsumerService *)

_receiver_eligibility_clause(m, r) ==
    \/ m.receiver.kind = "agent_run" /\ m.receiver.ref = r
    \/ m.receiver.kind = "role" /\ m.receiver.ref = Role[r]
    \/ m.receiver.kind = "broadcast"

_previous_hash_chain_clause(m) ==
    \/ m.seq = 1 /\ m.previous = Absent
    \/ m.seq > 1 /\ At(m.seq - 1).hash = m.previous

\* An artifact of the sender with this hash under the active policy version.
_sanitizer_policy_fresh_clause(m) == m.policy = sanitizer

\* now() is the time the transaction began.
Expired(s, m) == m.expires <= talk[s].start

Consumable(s, m) ==
    /\ m.consumer = Absent /\ ~Expired(s, m) /\ m.sender # talk[s].run
    /\ _receiver_eligibility_clause(m, talk[s].run)
    /\ _previous_hash_chain_clause(m) /\ _sanitizer_policy_fresh_clause(m)

begin(s, r) ==
    /\ "consume" \in MessageCalls /\ talk[s].pc = "idle" /\ messages # {}
    /\ SetTalk(s, [NoTransaction EXCEPT !.pc = "begun", !.call = "consume", !.run = r, !.start = clock])
    /\ UNCHANGED <<tables, talkLock, settings, history>>

\* The UPDATE waits for the row; no row updated leads to the classification.
consume(s, m) ==
    /\ talk[s].pc = "begun" /\ m \in messages
    /\ \A t \in Callers \ {s} : ~Holds(t, m.seq)
    /\ talk' = [talk EXCEPT ![s] =
           IF Consumable(s, m) THEN [@ EXCEPT !.pc = "append", !.row = [m EXCEPT !.consumer = talk[s].run]]
           ELSE [@ EXCEPT !.pc = "denied", !.row = m, !.policy = sanitizer]]
    /\ UNCHANGED <<tables, talkLock, settings, history>>

\* In statements of its own, on the row as it is now.
_classify_denial(s) ==
    LET m == At(talk[s].row.seq)
        reason == IF m.consumer # Absent THEN "already_consumed"
                  ELSE IF Expired(s, m) THEN "expired"
                  ELSE IF m.sender = talk[s].run THEN "sender_self_consume"
                  ELSE IF ~_previous_hash_chain_clause(m) THEN "previous_hash_mismatch"
                  ELSE IF ~_sanitizer_policy_fresh_clause(m) THEN "sanitizer_policy_stale"
                  ELSE "receiver_ineligible"
    IN  /\ talk[s].pc = "denied"
        /\ misled' = (misled \/ (/\ reason = "receiver_ineligible" /\ talk[s].policy = sanitizer
                                 /\ _receiver_eligibility_clause(m, talk[s].run)))
        /\ Abort(s)
        /\ UNCHANGED <<tables, settings, clash>>

-----------------------------------------------------------------------------
(* The MCP bridge: one transaction under the project's lock each *)

\* Number and insert in one transaction, without the stream's lock: it waits for an
\* open insert of its number and then fails.  No previous hash, no artifact, no event.
BridgeInserts(sender, child, payload) ==
    /\ Cardinality(messages) < MaxMessages
    /\ \A t \in Callers : ~Holds(t, MaxSeq + 1)
    /\ messages' = messages \cup
           {[seq |-> MaxSeq + 1, previous |-> Absent, hash |-> <<payload, 0>>, sender |-> sender,
             receiver |-> [kind |-> "agent_run", ref |-> child], expires |-> clock + 2,
             trusted |-> FALSE, policy |-> 0, consumer |-> Absent]}
    /\ UNCHANGED <<runEvents, talkLock, settings, talk, history>>

\* The parent delegates to a child.
bridge_delegation_create(child, payload) == BridgeInserts(Parent, child, payload)

\* The child hands its result in, in its own name, and is itself the child of the row.
bridge_delegation_submit(child, payload) == BridgeInserts(child, child, payload)

\* By child run alone, whatever its expiry or its place in the chain.
bridge_delegation_accept(m, r) ==
    /\ m \in messages /\ m.receiver = [kind |-> "agent_run", ref |-> r] /\ m.consumer = Absent
    /\ \A t \in Callers : ~Holds(t, m.seq)
    /\ messages' = (messages \ {m}) \cup {[m EXCEPT !.consumer = r]}
    /\ UNCHANGED <<runEvents, talkLock, settings, talk, history>>

-----------------------------------------------------------------------------

Change == changes < MaxChanges /\ changes' = changes + 1

SettingsNext ==
    /\ Change /\ UNCHANGED <<tables, talkLock, talk, history>>
    /\ \/ sanitizer' \in {1, 2} \ {sanitizer} /\ UNCHANGED <<approval, clock>>
       \/ approval' = [approval EXCEPT !.status = "expired"] /\ UNCHANGED <<sanitizer, clock>>
       \/ clock' = clock + 1 /\ UNCHANGED <<sanitizer, approval>>

MessagesInit ==
    /\ messages = {} /\ runEvents = [r \in Children |-> <<>>] /\ talkLock = Absent
    /\ sanitizer = 1 /\ clock = 0 /\ changes = 0
    /\ approval \in [status : {"approved"}, decider : {"human", "service"}]
    /\ talk = [s \in Callers |-> NoTransaction] /\ clash = FALSE /\ misled = FALSE

SessionNext(s) ==
    \/ \E c \in Senders, v \in Receivers, p \in Contents, t \in BOOLEAN : publish(s, c, v, p, t)
    \/ _lock_parent_stream(s) \/ _current_tail(s) \/ _publish(s)
    \/ current_last_seq_no(s) \/ append_event(s) \/ commit_message(s) \/ rollback_message(s)
    \/ \E c \in Children : begin(s, c)
    \/ \E m \in messages : consume(s, m)
    \/ _classify_denial(s)

MessagesNext ==
    \/ \E s \in Callers : SessionNext(s)
    \/ \E c \in Children : other_event(c)
    \/ \E c \in Children, p \in Contents : bridge_delegation_create(c, p) \/ bridge_delegation_submit(c, p)
    \/ \E m \in messages, c \in Children : bridge_delegation_accept(m, c)
    \/ SettingsNext

MessagesSpec == MessagesInit /\ [][MessagesNext]_messageVars

-----------------------------------------------------------------------------
(* Properties *)

Hashes == Contents \X {0, 1, 2}
MessageRows ==
    [seq : Nat, previous : Hashes \cup {Absent}, hash : Hashes, sender : Children \cup {Parent},
     receiver : Receivers \cup [kind : {"agent_run"}, ref : Children], expires : Nat,
     trusted : BOOLEAN, policy : {0, 1, 2}, consumer : Children \cup {Absent}]
RunEvents == [kind : {"publish", "consume", "other"}, seq : Nat, at : Nat]
Transactions ==
    [pc : {"idle", "checked", "locked", "insert", "append", "note", "noted", "begun", "denied"},
     call : {"publish", "consume", Absent}, run : Children \cup {Absent},
     row : MessageRows \cup {Absent}, start : Nat, tail : Nat, policy : {0, 1, 2}]

MessagesTypeOK ==
    /\ messages \subseteq MessageRows /\ runEvents \in [Children -> Seq(RunEvents)]
    /\ talkLock \in Callers \cup {Absent} /\ talk \in [Callers -> Transactions]
    /\ sanitizer \in {1, 2} /\ clock \in Nat /\ changes \in 0 .. MaxChanges
    /\ approval \in [status : {"approved", "expired"}, decider : {"human", "service"}]
    /\ clash \in BOOLEAN /\ misled \in BOOLEAN

\* The stream of a parent is numbered 1, 2, ... and every message the publisher wrote
\* names the hash of the one before it, whoever publishes, delegates or submits at the
\* same time; the bridge's own rows, which leave the hash out, are not in the chain.
StreamChained ==
    /\ {m.seq : m \in messages} = 1 .. Cardinality(messages)
    /\ \A m \in messages : ~Bridged(m) => _previous_hash_chain_clause(m)

\* Publishers never make each other fail: only the bridge, which does not take the
\* stream's lock, and another event in the sender's log do (_lock_parent_stream).
PublishersTakeTurns == ~clash

\* Every event log is numbered without a gap, and says of each message the publisher
\* wrote that it was published once by its sender, and of every message that it was
\* consumed at most once, by the run the row names (append_event, consume).  The
\* bridge's rows are in no log.
NotedOnce ==
    /\ \A r \in Children : \A n \in DOMAIN runEvents[r] : runEvents[r][n].at = n
    /\ \A m \in messages : ~Bridged(m) =>
          Cardinality({n \in DOMAIN runEvents[m.sender] :
                          runEvents[m.sender][n].kind = "publish" /\ runEvents[m.sender][n].seq = m.seq}) = 1
    /\ \A r \in Children : \A n \in DOMAIN runEvents[r] : runEvents[r][n].kind = "consume" =>
          /\ At(runEvents[r][n].seq).consumer = r
          /\ \A k \in DOMAIN runEvents[r] \ {n} : runEvents[r][k] # [runEvents[r][n] EXCEPT !.at = k]

\* An eligible receiver is told that it is not only where the policy version changed
\* between the UPDATE and the classification.
DenialExplained == ~misled

\* A message counts as an instruction only with a human's approval.
TrustedByHuman == \A m \in messages : m.trusted => approval.decider = "human"

MessagesSound ==
    StreamChained /\ PublishersTakeTurns /\ NotedOnce /\ DenialExplained /\ TrustedByHuman
=============================================================================
