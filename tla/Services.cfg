SPECIFICATION ServicesSpec
CONSTANTS
    None = None  NoValue = NoValue  Absent = Absent  x1 = x1  x2 = x2
    hana = hana  kenji = kenji  agent = agent
    d1 = d1  d2 = d2  parent = parent  c1 = c1  c2 = c2
    Sessions = {x1, x2}  Actors = {hana, kenji, agent}  Humans = {hana, kenji}
    EffectiveHuman <- MCEffectiveHuman  ActionClasses = {"merge", "task_write"}
    Calls = {"decide", "revise", "promote", "archive", "stale"}
    MaxApprovals = 3  MaxVersion = 1
    Handlers = {x1, x2}  Deliveries = {d1, d2}  Kind <- MCKind  Payloads <- MCPayloads
    MaxSecrets = 3  MaxRequests = 3  MaxFaults = 1
    Callers = {x1, x2}  Children = {c1, c2}  Role <- MCRole  Parent = parent  Senders = {c1, c2}
    Receivers <- MCReceivers  Contents = {1}  MessageCalls = {"publish", "trusted", "consume"}
    MaxMessages = 2  MaxRunEvents = 1  MaxChanges = 1
    Streams = {x1, x2}  MaxStreams = 1  PageSize = 2  MaxLog = 3  MaxBreaks = 2
INVARIANTS
    ServicesTypeOK IndependentDecision OneApprovalOneOutcome CorpusSound VerdictsEarned
    WebhooksSound ChannelsSound
PROPERTIES DecisionsStand
SYMMETRY Symmetry
CHECK_DEADLOCK FALSE
