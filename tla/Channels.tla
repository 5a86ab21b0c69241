------------------------------ MODULE Channels ------------------------------
(***************************************************************************)
(* What comes in and goes out: webhooks of GitHub, messages between runs   *)
(* and the server-sent events of a run, together.  Each has its own tables *)
(* and connections, so a step of the whole is a step of one of them.       *)
(***************************************************************************)
EXTENDS WebhookIntake, RunMessages, EventStream

channelVars == <<webhookVars, messageVars, streamVars>>

ChannelsInit == WebhookInit /\ MessagesInit /\ StreamInit

ChannelsNext ==
    \/ WebhookNext /\ UNCHANGED <<messageVars, streamVars>>
    \/ MessagesNext /\ UNCHANGED <<webhookVars, streamVars>>
    \/ StreamNext /\ UNCHANGED <<webhookVars, messageVars>>

ChannelsSpec == ChannelsInit /\ [][ChannelsNext]_channelVars

-----------------------------------------------------------------------------
(* Properties *)

\* Messages between runs form one chain, are consumed once and noted once in the
\* event logs, publishers take turns (publisher.py, consumer.py); a client of a run's
\* stream has every event when it is told that the run is over, and places are
\* neither lost nor given twice (agent_run_stream.py).
ChannelsSound == MessagesSound /\ StreamSound
=============================================================================
