SPECIFICATION HostSpec
CONSTANTS
    NoInode = NoInode  NoProc = NoProc  None = None  Torn = Torn
    Procs = {q1, q2, q3, q4}  Legacy = {q4}  Inodes = {1, 2, 3}
    AofOn = FALSE  MaxGen = 2  MaxCommands = 3  MaxFaults = 2  MaxCrash = 1
    ApprovalIds = {i1, i2}  Keys = {k1, k2}  Kinds = {"host_migration_mac_vps"}
    Subcommands = {"restore-rollback", "migrate", "status"}
    MaxTtl = 1  Skew = 1  MaxTime = 1  MaxIssues = 1  MaxEdits = 1
    Sessions = {s1}  MaxChanges = 2  MaxCommits = 2
    MaxTries = 2  MaxStarts = 2  MaxRedisFaults = 2
    Writers = {q1, q2}  NoWriter = NoWriter  MaxEpoch = 5  MaxDeaths = 3
    Parts = {"stale"}
INVARIANT AtMostOneInside
