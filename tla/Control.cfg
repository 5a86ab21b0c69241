SPECIFICATION MCSpec
CONSTANTS
    None = None  Nothing = Nothing
    a1 = a1  h1 = h1  p1 = p1  p2 = p2  v1 = v1  v2 = v2
    x1 = x1  x2 = x2  s1 = s1  s2 = s2  alice = alice  bob = bob
    prod = prod  prod2 = prod2  shadow = shadow  ap1 = ap1  ap2 = ap2
    tgt = tgt  d1 = d1  d2 = d2  c1 = c1  c2 = c2
    Spawns = {p1, p2}  Agents = {a1}  AgentOf <- MCAgentOf  Unkillable = {p2}
    Servers = {v1, v2}  Hosts = {h1}  HostOf <- MCHostOf  Pgids = {1, 2}
    BootIdKnown = TRUE  PsutilInstalled = TRUE
    MaxEngage = 1  MaxCrash = 1  MaxReboot = 1
    Tokens = {t1}  Sessions = {x1, x2}  Secrets = {s1, s2}  MaxEffects = 1
    AllowedOps <- MCAllowedOps  Consumers <- MCConsumers  RunMode <- MCRunMode
    Approvals <- MCApprovals  Requests <- MCRequests  InitialSecrets <- MCSecrets
    Runs = {prod, prod2}  Invocations = {c1, c2}  RunOf <- MCRunOf  MaxPending = 1  MaxSignals = 2
    Argvs <- MCArgvs  Caps <- MCCaps  MaxOut = 2
INVARIANTS
    ControlTypeOK KillsSound RedemptionsSound ProcessesSound
PROPERTIES LatchRulesAgents
SYMMETRY Symmetry
CHECK_DEADLOCK FALSE
