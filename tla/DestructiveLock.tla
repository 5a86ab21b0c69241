--------------------------- MODULE DestructiveLock ---------------------------
(***************************************************************************)
(* The host-level lock file of the taskhub commands                        *)
(* (scripts/taskhub_destructive_lock.py).  The lock is the flock of an     *)
(* INODE; commands find the inode by its PATH.  A command first removes a  *)
(* lock file that is an hour old and names a dead process, then opens the  *)
(* path, creating the file when it is missing, and takes the flock without *)
(* waiting.  The file stays behind when the command ends.                  *)
(*                                                                         *)
(* Every system call is a step of its own.  The kernel drops the flock of  *)
(* a process that dies.  A process id is not used again.                   *)
(***************************************************************************)
EXTENDS Naturals, FiniteSets

CONSTANTS
    Procs,     \* commands, each a process
    Legacy,    \* those that are a backup without phase 5: they take no lock
    Inodes,    \* lock files that may be created
    NoInode,   \* the path does not exist, the descriptor is closed
    NoProc     \* no holder, no payload

LockConstantsOK ==
    /\ Legacy \subseteq Procs
    /\ NoInode \notin Inodes /\ NoProc \notin Procs

VARIABLES
    path,     \* the inode the lock path names
    flock,    \* inode -> the process that holds its flock
    payload,  \* inode -> the pid its contents name
    old,      \* inodes whose mtime is an hour ago or more
    pc,       \* where the command stands
    fd,       \* the inode it has open
    blocker,  \* the blocker payload it was given
    used,     \* inodes created so far
    overlap,  \* history: two commands were between their start and their flock
    aged      \* history: some lock file has been an hour old

lockVars == <<path, flock, payload, old, pc, fd, blocker, used, overlap, aged>>

\* Before the flock of acquire_destructive_lock.
Starting == {"open_stale", "lock_stale", "read_stale", "unlock_stale", "open", "lock"}

Points == Starting \cup {"idle", "write", "operate", "refused", "busy", "ended", "dead"}

LockTypeOK ==
    /\ path \in Inodes \cup {NoInode}
    /\ flock \in [Inodes -> Procs \cup {NoProc}]
    /\ payload \in [Inodes -> Procs \cup {NoProc}]
    /\ old \subseteq Inodes /\ used \subseteq Inodes
    /\ pc \in [Procs -> Points]
    /\ fd \in [Procs -> Inodes \cup {NoInode}]
    /\ blocker \in [Procs -> Procs \cup {NoProc}]
    /\ overlap \in BOOLEAN /\ aged \in BOOLEAN

LockInit ==
    /\ path = NoInode
    /\ flock = [i \in Inodes |-> NoProc]
    /\ payload = [i \in Inodes |-> NoProc]
    /\ old = {} /\ used = {}
    /\ pc = [p \in Procs |-> "idle"]
    /\ fd = [p \in Procs |-> NoInode]
    /\ blocker = [p \in Procs |-> NoProc]
    /\ overlap = FALSE /\ aged = FALSE

MoveTo(p, point) ==
    /\ pc' = [pc EXCEPT ![p] = point]
    /\ overlap' = (overlap \/ \E q \in Procs \ {p} : point \in Starting /\ pc[q] \in Starting)
    /\ UNCHANGED aged

Free(p) == [i \in Inodes |-> IF flock[i] = p THEN NoProc ELSE flock[i]]

-----------------------------------------------------------------------------
(* cleanup_stale_destructive_lock *)

\* A process that ended or died is absent; another may be there.
_pid_exists(q) == pc[q] \notin {"ended", "busy", "refused", "dead"}

\* A payload that cannot be read (an empty file) names nobody.
_payload_process_absent(i) == payload[i] # NoProc /\ ~_pid_exists(payload[i])

Start_AnyAge(p) ==
    /\ pc[p] = "idle" /\ p \notin Legacy
    /\ \/ MoveTo(p, IF path # NoInode THEN "open_stale" ELSE "open")
       \/ MoveTo(p, "refused")
    /\ UNCHANGED <<path, flock, payload, old, fd, blocker, used>>

\* mkdir, the mode of the directory and the lstat of the path.
Start(p) ==
    /\ pc[p] = "idle" /\ p \notin Legacy
    /\ \/ MoveTo(p, IF path \in old THEN "open_stale" ELSE "open")
       \/ MoveTo(p, "refused")
    /\ UNCHANGED <<path, flock, payload, old, fd, blocker, used>>

OpenStale(p) ==
    /\ pc[p] = "open_stale"
    /\ fd' = [fd EXCEPT ![p] = path]
    /\ MoveTo(p, IF path = NoInode THEN "open" ELSE "lock_stale")
    /\ UNCHANGED <<path, flock, payload, old, blocker, used>>

LockStale_Anyway(p) ==
    /\ pc[p] = "lock_stale"
    /\ MoveTo(p, "read_stale")
    /\ UNCHANGED <<path, flock, payload, old, fd, blocker, used>>

LockStale(p) ==
    /\ pc[p] = "lock_stale"
    /\ \/ /\ flock[fd[p]] = NoProc
          /\ flock' = [flock EXCEPT ![fd[p]] = p]
          /\ MoveTo(p, "read_stale")
       \/ /\ flock[fd[p]] # NoProc
          /\ MoveTo(p, "open")
          /\ UNCHANGED flock
    /\ UNCHANGED <<path, payload, old, fd, blocker, used>>

\* os.unlink removes what the path names now.
cleanup_stale_destructive_lock(p) ==
    /\ pc[p] = "read_stale"
    /\ \/ /\ _payload_process_absent(fd[p])
          /\ path' = NoInode
       \/ /\ ~_payload_process_absent(fd[p])
          /\ UNCHANGED <<path>>
    /\ MoveTo(p, "unlock_stale")
    /\ UNCHANGED <<flock, payload, old, fd, blocker, used>>

UnlockStale(p) ==
    /\ pc[p] = "unlock_stale"
    /\ flock' = Free(p)
    /\ fd' = [fd EXCEPT ![p] = NoInode]
    /\ MoveTo(p, "open")
    /\ UNCHANGED <<path, payload, old, blocker, used>>

-----------------------------------------------------------------------------
(* acquire_destructive_lock *)

NextInode == CHOOSE i \in Inodes : i \notin used

\* os.open with O_CREAT, then fchmod.
Open(p) ==
    /\ pc[p] = "open"
    /\ \/ /\ path # NoInode
          /\ fd' = [fd EXCEPT ![p] = path]
          /\ UNCHANGED <<path, used>>
          /\ MoveTo(p, "lock")
       \/ /\ path = NoInode /\ used # Inodes
          /\ path' = NextInode
          /\ used' = used \cup {NextInode}
          /\ fd' = [fd EXCEPT ![p] = NextInode]
          /\ MoveTo(p, "lock")
       \/ /\ MoveTo(p, "refused")
          /\ UNCHANGED <<path, used, fd>>
    /\ UNCHANGED <<flock, payload, old, blocker>>

Flock_NamesFile(p) ==
    /\ pc[p] = "lock"
    /\ IF flock[fd[p]] = NoProc
       THEN flock' = [flock EXCEPT ![fd[p]] = p] /\ MoveTo(p, "write") /\ UNCHANGED blocker
       ELSE blocker' = [blocker EXCEPT ![p] = fd[p]] /\ MoveTo(p, "busy") /\ UNCHANGED flock
    /\ UNCHANGED <<path, payload, old, fd, used>>

Flock(p) ==
    /\ pc[p] = "lock"
    /\ \/ /\ flock[fd[p]] = NoProc
          /\ flock' = [flock EXCEPT ![fd[p]] = p]
          /\ MoveTo(p, "write")
          /\ UNCHANGED <<fd, blocker>>
       \/ /\ flock[fd[p]] # NoProc
          /\ blocker' = [blocker EXCEPT ![p] = payload[fd[p]]]
          /\ MoveTo(p, "busy")
          /\ fd' = [fd EXCEPT ![p] = NoInode]
          /\ UNCHANGED flock
    /\ UNCHANGED <<path, payload, old, used>>

\* A write that fails (the file is truncated already) gives the lock back.
WritePayload(p) ==
    /\ pc[p] = "write"
    /\ \/ /\ payload' = [payload EXCEPT ![fd[p]] = p]
          /\ old' = old \ {fd[p]}
          /\ MoveTo(p, "operate")
          /\ UNCHANGED <<flock, fd>>
       \/ /\ payload' \in {payload, [payload EXCEPT ![fd[p]] = NoProc]}
          /\ old' = IF payload' = payload THEN old ELSE old \ {fd[p]}
          /\ flock' = Free(p)
          /\ fd' = [fd EXCEPT ![p] = NoInode]
          /\ MoveTo(p, "refused")
    /\ UNCHANGED <<path, blocker, used>>

\* The with block ends.
Release(p) ==
    /\ pc[p] = "operate"
    /\ flock' = Free(p)
    /\ fd' = [fd EXCEPT ![p] = NoInode]
    /\ MoveTo(p, "ended")
    /\ UNCHANGED <<path, payload, old, blocker, used>>

\* _cmd_backup without phase 5 goes to work without the lock.
LegacyBackup(p) ==
    /\ pc[p] = "idle" /\ p \in Legacy
    /\ MoveTo(p, "operate")
    /\ UNCHANGED <<path, flock, payload, old, fd, blocker, used>>

-----------------------------------------------------------------------------
(* The host *)

\* A process is killed; it may be at any point.
Dies(p) ==
    /\ pc[p] \notin {"idle", "refused", "busy", "ended", "dead"}
    /\ MoveTo(p, "dead")
    /\ flock' = Free(p)
    /\ fd' = [fd EXCEPT ![p] = NoInode]
    /\ UNCHANGED <<path, payload, old, blocker, used>>

\* The file that is there has not been written to for an hour.
Age ==
    /\ path # NoInode /\ path \notin old
    /\ old' = old \cup {path} /\ aged' = TRUE
    /\ UNCHANGED <<path, flock, payload, pc, fd, blocker, used, overlap>>

\* Every command has come to its end.
AllEnded ==
    /\ \A p \in Procs : pc[p] \in {"refused", "busy", "ended", "dead"}
    /\ UNCHANGED lockVars

Step(p) ==
    \/ Start(p) \/ OpenStale(p) \/ LockStale(p)
    \/ cleanup_stale_destructive_lock(p) \/ UnlockStale(p)
    \/ Open(p) \/ Flock(p) \/ WritePayload(p) \/ Release(p)
    \/ LegacyBackup(p)

LockNext == (\E p \in Procs : Step(p) \/ Dies(p)) \/ Age \/ AllEnded

LockSpec == LockInit /\ [][LockNext]_lockVars

-----------------------------------------------------------------------------
(* Properties *)

\* The commands that were told they have the lock.
Inside == {p \in Procs \ Legacy : pc[p] = "operate"}

\* Stale files are harmless to commands that do not start together: unless two
\* commands were between their start and their flock at one moment, at most
\* one of those that take the lock is at work, whatever crashed before and
\* however old the file is.
ExclusiveUnlessOverlap == ~overlap => Cardinality(Inside) <= 1

\* No two commands that take the lock are at work together.
AtMostOneInside == Cardinality(Inside) <= 1

Mutex == INSTANCE HostMutex WITH inside <- IF aged THEN {} ELSE Inside

\* Until a lock file grows an hour old, the lock implements the mutual exclusion it
\* is for, through crashes, failed payload writes and commands that start together.
LockImplementsMutex == Mutex!Spec
=============================================================================
