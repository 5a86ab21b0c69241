----------------------------- MODULE EventStream -----------------------------
(***************************************************************************)
(* The server-sent events of a run (services/realtime/agent_run_stream).   *)
(* A stream takes one of the counted places, LISTENs on a connection of    *)
(* its own, reads the status, drains the event log in pages, and then      *)
(* waits for a notification, which the triggers of migration 0041 send at  *)
(* commit, or for its heartbeat, to drain and read the status again.  The  *)
(* run goes on, notifications are merged, late or lost, the ticket is      *)
(* deleted, queries fail, and clients leave and come back with the last    *)
(* event they saw, at any point in between.                                *)
(***************************************************************************)
EXTENDS Naturals, FiniteSets

CONSTANTS
    Streams,     \* clients, each with one stream at a time
    MaxStreams,  \* agentrun_sse_listen_pool_max
    PageSize,    \* _EVENT_TAIL_LIMIT
    MaxLog,      \* bound on events of the run
    MaxBreaks    \* bound on failures, disconnects and expired lifetimes

StreamConstantsOK == MaxStreams \in Nat \ {0} /\ PageSize \in Nat \ {0} /\ MaxLog \in Nat /\ MaxBreaks \in Nat

VARIABLES
    log,        \* number of committed events: seq_no 1 .. log
    terminal,   \* status in TERMINAL_STATUSES
    visible,    \* the run's ticket is not soft-deleted
    active,     \* _active_streams
    st,         \* stream -> [pc, then, cursor, row, listening, gone]
    notice,     \* streams a notification is under way to
    queue,      \* streams whose queue of one holds a signal
    received,   \* client -> events received
    ended,      \* client -> how its last stream ended
    finalSeq,   \* history: the event that came with the terminal status
    breaks

runVars == <<log, terminal, visible, finalSeq>>
clientVars == <<received, ended>>
streamVars == <<runVars, active, st, notice, queue, clientVars, breaks>>

Closed == [pc |-> "closed", then |-> "closed", cursor |-> 0, row |-> FALSE,
           listening |-> FALSE, gone |-> FALSE]

StreamFault == breaks < MaxBreaks /\ breaks' = breaks + 1

-----------------------------------------------------------------------------
(* The run *)

\* Both triggers notify at commit.
Notify == notice' = notice \cup {s \in Streams : st[s].listening}

append ==
    /\ log < MaxLog /\ log' = log + 1 /\ Notify
    /\ UNCHANGED <<terminal, visible, finalSeq, active, st, queue, clientVars, breaks>>

\* The status and its event in one transaction.  Events may follow.
finish ==
    /\ ~terminal /\ log < MaxLog /\ log' = log + 1 /\ finalSeq' = log + 1 /\ terminal' = TRUE /\ Notify
    /\ UNCHANGED <<visible, active, st, queue, clientVars, breaks>>

\* No trigger fires on tickets.
soft_delete ==
    /\ visible /\ visible' = FALSE
    /\ UNCHANGED <<log, terminal, finalSeq, active, st, notice, queue, clientVars, breaks>>

_on_notify(s) ==
    /\ s \in notice /\ notice' = notice \ {s} /\ queue' = queue \cup {s}
    /\ UNCHANGED <<runVars, active, st, clientVars, breaks>>

lost_notice(s) ==
    /\ s \in notice /\ StreamFault /\ notice' = notice \ {s}
    /\ UNCHANGED <<runVars, active, st, queue, clientVars>>

-----------------------------------------------------------------------------
(* AgentRunStreamResponse.__call__ *)

SetStream(s, state) == st' = [st EXCEPT ![s] = state]

\* The finally blocks: listener, connection and place are given back.
Release(s) ==
    /\ SetStream(s, Closed) /\ active' = active - 1
    /\ notice' = notice \ {s} /\ queue' = queue \ {s}

\* What was sent arrives before the end does, unless the client is gone.
EndStream(s, reason) ==
    /\ Release(s)
    /\ IF st[s].gone THEN UNCHANGED clientVars
       ELSE received' = [received EXCEPT ![s] = st[s].cursor] /\ ended' = [ended EXCEPT ![s] = reason]

\* No place: 503 with Retry-After, and nothing changes.  The client names the last
\* event it has.
open(s) ==
    /\ st[s].pc = "closed" /\ ended[s] \notin {"terminal", "scope_revoked"}
    /\ active < MaxStreams /\ active' = active + 1
    /\ SetStream(s, [Closed EXCEPT !.pc = "acquire", !.cursor = received[s]])
    /\ UNCHANGED <<runVars, notice, queue, clientVars, breaks>>

\* LISTEN before the first read.
listen(s) ==
    /\ st[s].pc = "acquire"
    /\ SetStream(s, [st[s] EXCEPT !.pc = "first_status", !.listening = TRUE])
    /\ UNCHANGED <<runVars, active, notice, queue, clientVars, breaks>>

first_status(s) ==
    /\ st[s].pc = "first_status"
    /\ IF ~visible THEN EndStream(s, "scope_revoked")
       ELSE /\ SetStream(s, [st[s] EXCEPT !.pc = "drain", !.then = "announce", !.row = terminal])
            /\ UNCHANGED <<active, notice, queue, clientVars>>
    /\ UNCHANGED <<runVars, breaks>>

\* An exception: before the stream began 503, later an error and the end.
error(s) ==
    /\ st[s].pc \in {"acquire", "first_status", "drain", "status"} /\ StreamFault
    /\ EndStream(s, "server_shutdown")
    /\ UNCHANGED runVars

-----------------------------------------------------------------------------
(* _run_stream *)

\* A page; a short one is the last.
_drain_events(s) ==
    LET last == IF ~visible THEN st[s].cursor
                ELSE IF log < st[s].cursor + PageSize THEN log ELSE st[s].cursor + PageSize
    IN  /\ st[s].pc = "drain"
        /\ SetStream(s, [st[s] EXCEPT !.cursor = last,
                                !.pc = IF last < st[s].cursor + PageSize THEN st[s].then ELSE "drain"])
        /\ UNCHANGED <<runVars, active, notice, queue, clientVars, breaks>>

\* Frames of the status; a terminal one drains once more before the end.
Announce(s, row) ==
    IF row THEN [st[s] EXCEPT !.pc = "drain", !.then = "end", !.row = row]
    ELSE [st[s] EXCEPT !.pc = "wait", !.row = row]

\* The status read before the first drain.
announce(s) ==
    /\ st[s].pc = "announce" /\ SetStream(s, Announce(s, st[s].row))
    /\ UNCHANGED <<runVars, active, notice, queue, clientVars, breaks>>

wake_SignalOnly(s) ==
    /\ st[s].pc = "wait" /\ ~st[s].gone /\ s \in queue
    /\ SetStream(s, [st[s] EXCEPT !.pc = "drain", !.then = "status"])
    /\ queue' = queue \ {s}
    /\ UNCHANGED <<runVars, active, notice, clientVars, breaks>>

\* By the queue or by the heartbeat.
wake(s) ==
    /\ st[s].pc = "wait" /\ ~st[s].gone
    /\ SetStream(s, [st[s] EXCEPT !.pc = "drain", !.then = "status"])
    /\ queue' = queue \ {s}
    /\ UNCHANGED <<runVars, active, notice, clientVars, breaks>>

status(s) ==
    /\ st[s].pc = "status"
    /\ IF ~visible THEN EndStream(s, "scope_revoked")
       ELSE SetStream(s, Announce(s, terminal)) /\ UNCHANGED <<active, notice, queue, clientVars>>
    /\ UNCHANGED <<runVars, breaks>>

end(s) == st[s].pc = "end" /\ EndStream(s, "terminal") /\ UNCHANGED <<runVars, breaks>>

max_lifetime(s) ==
    /\ st[s].pc = "wait" /\ ~st[s].gone /\ StreamFault /\ EndStream(s, "max_lifetime")
    /\ UNCHANGED runVars

\* The client leaves: some of what was sent is lost.  _watch_disconnect wakes the loop.
_watch_disconnect(s) ==
    /\ st[s].pc \notin {"closed", "acquire", "first_status"} /\ ~st[s].gone /\ StreamFault
    /\ \E n \in received[s] .. st[s].cursor : received' = [received EXCEPT ![s] = n]
    /\ SetStream(s, [st[s] EXCEPT !.gone = TRUE]) /\ queue' = queue \cup {s}
    /\ UNCHANGED <<runVars, active, notice, ended>>

\* Found at the top of the loop or after the wait.
leave(s) ==
    /\ st[s].pc = "wait" /\ st[s].gone /\ Release(s)
    /\ UNCHANGED <<runVars, clientVars, breaks>>

-----------------------------------------------------------------------------

StreamInit ==
    /\ log = 0 /\ terminal = FALSE /\ visible = TRUE /\ finalSeq = 0 /\ active = 0 /\ breaks = 0
    /\ st = [s \in Streams |-> Closed] /\ notice = {} /\ queue = {}
    /\ received = [s \in Streams |-> 0] /\ ended = [s \in Streams |-> "none"]

Step(s) ==
    \/ listen(s) \/ first_status(s) \/ _drain_events(s) \/ announce(s) \/ wake(s) \/ status(s)
    \/ end(s) \/ leave(s)

StreamNext ==
    \/ append \/ finish \/ soft_delete
    \/ \E s \in Streams : \/ open(s) \/ Step(s) \/ error(s) \/ max_lifetime(s) \/ _watch_disconnect(s)
                          \/ _on_notify(s) \/ lost_notice(s)

StreamSpec == StreamInit /\ [][StreamNext]_streamVars

-----------------------------------------------------------------------------
(* Properties *)

StreamPoints == {"closed", "acquire", "first_status", "drain", "announce", "wait", "status", "end"}
StreamStates == [pc : StreamPoints, then : {"closed", "announce", "status", "end"}, cursor : Nat,
                 row : BOOLEAN, listening : BOOLEAN, gone : BOOLEAN]
Endings == {"none", "terminal", "scope_revoked", "server_shutdown", "max_lifetime"}

StreamTypeOK ==
    /\ log \in 0 .. MaxLog /\ finalSeq \in 0 .. log /\ terminal \in BOOLEAN /\ visible \in BOOLEAN
    /\ active \in Nat /\ notice \subseteq Streams /\ queue \subseteq Streams /\ breaks \in 0 .. MaxBreaks
    /\ st \in [Streams -> StreamStates] /\ received \in [Streams -> Nat] /\ ended \in [Streams -> Endings]
    /\ \A s \in Streams : st[s].cursor <= log /\ received[s] <= log

\* A place is taken by every open stream and by nothing else, however it ends.
PlacesCounted ==
    active = Cardinality({s \in Streams : st[s].pc # "closed"}) /\ active <= MaxStreams

\* A client told that the run is over has every event up to the one that ended it,
\* whatever was committed while the stream drained, unless the ticket was deleted
\* after the status was read (_run_stream).
TerminalHasAll ==
    \A s \in Streams : ended[s] = "terminal" => terminal /\ (received[s] >= finalSeq \/ ~visible)

\* A stream never goes back behind what its client has.
NeverBehind == \A s \in Streams : st[s].pc # "closed" => st[s].cursor >= received[s]

StreamSound == PlacesCounted /\ TerminalHasAll /\ NeverBehind

\* A stream that stays open has sent every event, again and again: a lost notification
\* is made up for by the heartbeat.
EventsArrive ==
    \A s \in Streams : []<>(st[s].pc = "closed" \/ ~visible \/ st[s].cursor = log)
=============================================================================
