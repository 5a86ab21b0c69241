SPECIFICATION MCSpec
CONSTANTS
    p1 = p1  p2 = p2  s1 = s1
    NoRun = NoRun
    Parts = {"bridge"}
    Runs = {p1, p2, s1}
    RunMode <- MCRunMode
    Parent <- MCParent
    Orchestrators = {p1, p2, s1}
    Driven = {p1, s1}
    BridgeOps <- AllBridgeOps
    MaxGen = 2
    Sessions = {p1, p2}  Requests <- AllRequests  Levels = {"global", "agent_run"}
    Limits = {Nil, 1}  UsdCap = 4  TokenCap = 3  UsdPerToken = 1
    MaxCalls = 2  MaxChanges = 1  MaxResumes = 1  Nil = Nil
CONSTRAINT Focus
PROPERTY ResumeRestoresBlockedStatus
