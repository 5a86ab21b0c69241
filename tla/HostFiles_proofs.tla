------------------------- MODULE HostFiles_proofs -------------------------
(***************************************************************************)
(* Proofs for what the host's commands share through files, each for any   *)
(* constants: the lock file (DestructiveLock), the journal of epochs       *)
(* (EpochJournal), approvals (SignedApproval) and the configuration        *)
(* directory that the write gates read (WriteGate).                        *)
(***************************************************************************)
EXTENDS DestructiveLock, EpochJournal, SignedApproval, WriteGate, FiniteSetTheorems,
        SequenceTheorems, WellFoundedInduction, TLAPS

-----------------------------------------------------------------------------
(* The destructive lock *)

\* The commands that hold, or believe to hold, the lock.
Holder(p) == p \notin Legacy /\ pc[p] \in {"write", "operate"}

\* A command has a file open wherever its next call uses the descriptor.
HasFile ==
    \A p \in Procs : pc[p] \in {"lock_stale", "read_stale", "unlock_stale", "lock", "write"} =>
        fd[p] # NoInode

FilesTyped ==
    /\ path \in Inodes \cup {NoInode}
    /\ flock \in [Inodes -> Procs \cup {NoProc}]
    /\ payload \in [Inodes -> Procs \cup {NoProc}]
    /\ old \subseteq Inodes /\ used \subseteq Inodes
    /\ pc \in [Procs -> Points]
    /\ fd \in [Procs -> Inodes \cup {NoInode}]
    /\ blocker \in [Procs -> Procs \cup {NoProc}]

Typed == FilesTyped /\ HasFile

-----------------------------------------------------------------------------

LEMMA NextInodeFree ==
    ASSUME used \subseteq Inodes, used # Inodes
    PROVE  NextInode \in Inodes /\ NextInode \notin used
BY DEF NextInode

\* What is remembered of the past is a truth value.
HistoryTyped == overlap \in BOOLEAN /\ aged \in BOOLEAN

LEMMA InitTyped == LockConstantsOK /\ LockInit => Typed /\ HistoryTyped
<1> SUFFICES ASSUME LockConstantsOK, LockInit PROVE Typed /\ HistoryTyped
  OBVIOUS
<1>1. HistoryTyped
  BY DEF LockInit, HistoryTyped
<1>2. Typed
  BY DEF LockInit, Typed, FilesTyped, HasFile, Points
<1> QED
  BY <1>1, <1>2

LEMMA NextTyped ==
    ASSUME LockConstantsOK, Typed, [LockNext]_lockVars
    PROVE  Typed'
<1> USE DEF LockConstantsOK, Typed, FilesTyped, HasFile, Points, Starting, MoveTo, Free
<1>1. ASSUME NEW p \in Procs, Start(p) \/ OpenStale(p) \/ LockStale(p) PROVE Typed'
  BY <1>1 DEF Start, OpenStale, LockStale
<1>2. ASSUME NEW p \in Procs, cleanup_stale_destructive_lock(p) \/ UnlockStale(p) PROVE Typed'
  BY <1>2 DEF cleanup_stale_destructive_lock, UnlockStale
<1>3. ASSUME NEW p \in Procs, Open(p) PROVE Typed'
  BY <1>3, NextInodeFree DEF Open
<1>4. ASSUME NEW p \in Procs, Flock(p) PROVE Typed'
  BY <1>4 DEF Flock
<1>5. ASSUME NEW p \in Procs, WritePayload(p) PROVE Typed'
  BY <1>5 DEF WritePayload
<1>6. ASSUME NEW p \in Procs, Release(p) \/ LegacyBackup(p) \/ Dies(p) PROVE Typed'
  BY <1>6 DEF Release, LegacyBackup, Dies
<1>7. CASE Age
  BY <1>7 DEF Age
<1>8. CASE UNCHANGED lockVars
  BY <1>8 DEF lockVars
<1> QED
  BY <1>1, <1>2, <1>3, <1>4, <1>5, <1>6, <1>7, <1>8 DEF LockNext, Step, AllEnded

LEMMA NextHistoryTyped ==
    ASSUME HistoryTyped, [LockNext]_lockVars
    PROVE  HistoryTyped'
BY Zenon DEF HistoryTyped, LockNext, lockVars, Step, MoveTo, Start, OpenStale, LockStale,
   cleanup_stale_destructive_lock, UnlockStale, Open, Flock, WritePayload, Release,
   LegacyBackup, Dies, Age, AllEnded

(* Every variable of the lock keeps its type: a process that holds the     *)
(* descriptor of a lock file holds one that was created                    *)
(* (destructive_operation_lock).                                           *)
THEOREM LockTypes == LockConstantsOK => (LockSpec => []LockTypeOK)
<1> SUFFICES ASSUME LockConstantsOK PROVE LockSpec => []LockTypeOK
  OBVIOUS
<1>1. LockInit => Typed /\ HistoryTyped
  BY InitTyped
<1>2. Typed /\ HistoryTyped /\ [LockNext]_lockVars => (Typed /\ HistoryTyped)'
  BY NextTyped, NextHistoryTyped
<1>3. Typed /\ HistoryTyped => LockTypeOK
  BY DEF Typed, FilesTyped, HistoryTyped, LockTypeOK
<1> QED
  BY <1>1, <1>2, <1>3, PTL DEF LockSpec

-----------------------------------------------------------------------------
(* Commands that do not start together.  The path is only changed by a     *)
(* command that is starting: while one is alone at that, the file it has   *)
(* open is the one the path names, and a command at work keeps that file   *)
(* locked.                                                                 *)

OneStarts == \A p, q \in Procs : pc[p] \in Starting /\ pc[q] \in Starting => p = q

StarterFile ==
    \A p \in Procs :
        /\ pc[p] \in {"lock_stale", "read_stale", "lock"} => fd[p] = path
        /\ pc[p] \in {"read_stale", "unlock_stale"} => flock[fd[p]] = p

HolderFile ==
    \A p \in Procs : Holder(p) => path # NoInode /\ fd[p] = path /\ flock[path] = p

LegacyAway == \A p \in Legacy : pc[p] \in {"idle", "operate", "ended", "dead"}

NoOverlapInv == OneStarts /\ StarterFile /\ HolderFile /\ LegacyAway

LEMMA MovesAlone ==
    ASSUME NEW p \in Procs, NEW point, MoveTo(p, point), ~overlap'
    PROVE  /\ ~overlap
           /\ pc' = [pc EXCEPT ![p] = point]
           /\ point \in Starting => \A q \in Procs \ {p} : pc[q] \notin Starting
BY Zenon DEF MoveTo

LEMMA NextNoOverlap ==
    ASSUME LockConstantsOK, Typed, ~overlap => NoOverlapInv, [LockNext]_lockVars
    PROVE  ~overlap' => NoOverlapInv'
<1> SUFFICES ASSUME ~overlap' PROVE NoOverlapInv'
  OBVIOUS
<1> USE DEF LockConstantsOK, Typed, FilesTyped, HasFile, Points, Starting, Free,
        NoOverlapInv, OneStarts, StarterFile, HolderFile, LegacyAway, Holder
<1>1. ASSUME NEW p \in Procs, Start(p) PROVE NoOverlapInv'
  BY <1>1, MovesAlone DEF Start
<1>2. ASSUME NEW p \in Procs, OpenStale(p) PROVE NoOverlapInv'
  BY <1>2, MovesAlone DEF OpenStale
<1>3. ASSUME NEW p \in Procs, LockStale(p) PROVE NoOverlapInv'
  BY <1>3, MovesAlone DEF LockStale
<1>4. ASSUME NEW p \in Procs, cleanup_stale_destructive_lock(p) PROVE NoOverlapInv'
  BY <1>4, MovesAlone DEF cleanup_stale_destructive_lock
<1>5. ASSUME NEW p \in Procs, UnlockStale(p) PROVE NoOverlapInv'
  BY <1>5, MovesAlone DEF UnlockStale
<1>6. ASSUME NEW p \in Procs, Open(p) PROVE NoOverlapInv'
  BY <1>6, MovesAlone, NextInodeFree DEF Open
<1>7. ASSUME NEW p \in Procs, Flock(p) PROVE NoOverlapInv'
  BY <1>7, MovesAlone DEF Flock
<1>8. ASSUME NEW p \in Procs, WritePayload(p) PROVE NoOverlapInv'
  BY <1>8, MovesAlone DEF WritePayload
<1>9. ASSUME NEW p \in Procs, Release(p) \/ Dies(p) PROVE NoOverlapInv'
  BY <1>9, MovesAlone DEF Release, Dies
<1>10. ASSUME NEW p \in Procs, LegacyBackup(p) PROVE NoOverlapInv'
  BY <1>10, MovesAlone DEF LegacyBackup
<1>11. CASE Age \/ UNCHANGED lockVars
  BY <1>11 DEF Age, lockVars
<1> QED
  BY <1>1, <1>2, <1>3, <1>4, <1>5, <1>6, <1>7, <1>8, <1>9, <1>10, <1>11 DEF LockNext, Step, AllEnded

LEMMA AtMostOne ==
    ASSUME NEW S, \A p, q \in S : p = q
    PROVE  Cardinality(S) <= 1
<1>1. CASE S = {}
  BY <1>1, FS_EmptySet
<1>2. ASSUME NEW p \in S PROVE Cardinality(S) <= 1
  <2>1. S = {p}
    BY <1>2
  <2>2. Cardinality({p}) = 1
    BY FS_Singleton
  <2> QED
    BY <2>1, <2>2
<1> QED
  BY <1>1, <1>2

\* taskhub_destructive_lock.py: whatever crashed and however old the lock file is,
\* commands that do not start together exclude each other.
THEOREM StaleSafety == LockConstantsOK => (LockSpec => []ExclusiveUnlessOverlap)
<1> SUFFICES ASSUME LockConstantsOK PROVE LockSpec => []ExclusiveUnlessOverlap
  OBVIOUS
<1> DEFINE Inv == Typed /\ (~overlap => NoOverlapInv)
<1>1. LockInit => Inv
  <2> SUFFICES ASSUME LockInit PROVE Inv
    OBVIOUS
  <2>1. Typed
    BY InitTyped
  <2>2. NoOverlapInv
    BY DEF LockInit, LockConstantsOK, NoOverlapInv, OneStarts, StarterFile, HolderFile, LegacyAway,
       Holder, Starting
  <2> QED
    BY <2>1, <2>2
<1>2. Inv /\ [LockNext]_lockVars => Inv'
  BY NextTyped, NextNoOverlap
<1>3. Inv => ExclusiveUnlessOverlap
  <2> SUFFICES ASSUME Inv, ~overlap PROVE Cardinality(Inside) <= 1
    BY DEF ExclusiveUnlessOverlap
  <2>1. \A p, q \in Inside : p = q
    BY DEF Inside, NoOverlapInv, HolderFile, Holder
  <2> QED
    BY <2>1, AtMostOne
<1> QED
  BY <1>1, <1>2, <1>3, PTL DEF LockSpec

-----------------------------------------------------------------------------
(* Until a file is an hour old.  The first file is the only one: everybody *)
(* opens it and whoever goes on from its flock has it.                     *)

OneFile ==
    /\ old = {}
    /\ \A p \in Procs : pc[p] \notin {"open_stale", "lock_stale", "read_stale", "unlock_stale"}
    /\ \A p \in Procs : fd[p] \in {NoInode, path}
    /\ HolderFile
    /\ LegacyAway

LEMMA NextOneFile ==
    ASSUME LockConstantsOK, Typed, OneFile, [LockNext]_lockVars, ~Age
    PROVE  OneFile'
<1> USE DEF LockConstantsOK, Typed, FilesTyped, HasFile, Points, Starting, MoveTo, Free,
        OneFile, HolderFile, LegacyAway, Holder
<1>1. ASSUME NEW p \in Procs, Start(p) \/ OpenStale(p) \/ LockStale(p) PROVE OneFile'
  BY <1>1 DEF Start, OpenStale, LockStale
<1>2. ASSUME NEW p \in Procs, cleanup_stale_destructive_lock(p) \/ UnlockStale(p) PROVE OneFile'
  BY <1>2 DEF cleanup_stale_destructive_lock, UnlockStale
<1>3. ASSUME NEW p \in Procs, Open(p) PROVE OneFile'
  BY <1>3, NextInodeFree DEF Open
<1>4. ASSUME NEW p \in Procs, Flock(p) PROVE OneFile'
  BY <1>4 DEF Flock
<1>5. ASSUME NEW p \in Procs, WritePayload(p) PROVE OneFile'
  BY <1>5 DEF WritePayload
<1>6. ASSUME NEW p \in Procs, Release(p) \/ LegacyBackup(p) \/ Dies(p) PROVE OneFile'
  BY <1>6 DEF Release, LegacyBackup, Dies
<1>7. CASE UNCHANGED lockVars
  BY <1>7 DEF lockVars
<1> QED
  BY <1>1, <1>2, <1>3, <1>4, <1>5, <1>6, <1>7 DEF LockNext, Step, AllEnded

\* A file that has been old is remembered, and only Age makes one old.
LEMMA AgedByAge ==
    ASSUME [LockNext]_lockVars
    PROVE  (aged => aged') /\ (Age => aged') /\ (~Age => aged' = aged)
<1>1. ASSUME NEW p \in Procs, Step(p) \/ Dies(p) PROVE aged' = aged
  BY <1>1, Zenon DEF Step, MoveTo, Start, OpenStale, LockStale, cleanup_stale_destructive_lock,
     UnlockStale, Open, Flock, WritePayload, Release, LegacyBackup, Dies
<1>2. AllEnded \/ UNCHANGED lockVars => aged' = aged
  BY DEF AllEnded, lockVars
<1>3. Age => aged'
  BY DEF Age
<1>4. Age \/ aged' = aged
  BY <1>1, <1>2 DEF LockNext
<1> QED
  BY <1>3, <1>4

\* What the abstract lock sees of this one.
Seen == IF aged THEN {} ELSE Inside

\* Every step is one of the abstract lock, or leaves it alone.
LEMMA InsideStep ==
    ASSUME LockConstantsOK, Typed, OneFile, [LockNext]_lockVars
    PROVE  \/ \E p \in Procs : Inside = {} /\ Inside' = {p}
           \/ \E p \in Inside : Inside' = Inside \ {p}
           \/ Inside' = Inside
<1> USE DEF LockConstantsOK, Typed, FilesTyped, Points, MoveTo, Inside
<1>1. ASSUME NEW p \in Procs,
             Start(p) \/ OpenStale(p) \/ LockStale(p) \/ cleanup_stale_destructive_lock(p)
             \/ UnlockStale(p) \/ Open(p) \/ Flock(p) \/ LegacyBackup(p)
      PROVE  Inside' = Inside
  BY <1>1 DEF Start, OpenStale, LockStale, cleanup_stale_destructive_lock, UnlockStale, Open,
     Flock, LegacyBackup
<1>2. ASSUME NEW p \in Procs, WritePayload(p), pc'[p] = "operate"
      PROVE  Inside = {} /\ Inside' = {p}
  <2>1. p \notin Legacy /\ Holder(p)
    BY <1>2 DEF WritePayload, OneFile, LegacyAway, Holder
  <2>2. Inside = {}
    BY <2>1, <1>2 DEF WritePayload, OneFile, HolderFile, Holder
  <2>3. Inside' = {p}
    BY <1>2, <2>1, <2>2 DEF WritePayload
  <2> QED
    BY <2>2, <2>3
<1>3. ASSUME NEW p \in Procs, WritePayload(p), pc'[p] # "operate" PROVE Inside' = Inside
  BY <1>3 DEF WritePayload
<1>4. ASSUME NEW p \in Procs, Release(p) \/ Dies(p)
      PROVE  (p \in Inside /\ Inside' = Inside \ {p}) \/ Inside' = Inside
  BY <1>4 DEF Release, Dies
<1>5. CASE Age \/ UNCHANGED lockVars
  BY <1>5 DEF Age, lockVars
<1> QED
  BY <1>1, <1>2, <1>3, <1>4, <1>5 DEF LockNext, Step, AllEnded

LEMMA MutexStep ==
    ASSUME LockConstantsOK, Typed, ~aged => OneFile, [LockNext]_lockVars
    PROVE  [Mutex!Next]_Seen
<1>1. CASE aged
  <2>1. aged'
    BY <1>1, AgedByAge
  <2> QED
    BY <1>1, <2>1 DEF Seen
<1>2. CASE ~aged /\ aged'
  <2>1. Seen = Inside /\ Seen' = {}
    BY <1>2 DEF Seen
  <2>2. \A p, q \in Inside : p = q
    BY <1>2 DEF OneFile, HolderFile, Holder, Inside
  <2>3. ASSUME NEW p \in Inside PROVE Mutex!Leave(p)
    BY <1>2, <2>1, <2>2, <2>3 DEF Mutex!Leave, Seen
  <2>4. CASE Inside = {}
    BY <2>1, <2>4
  <2> QED
    BY <2>3, <2>4 DEF Mutex!Next, Inside
<1>3. CASE ~aged /\ ~aged'
  <2>1. Seen = Inside /\ Seen' = Inside'
    BY <1>3 DEF Seen
  <2>2. \/ \E p \in Procs : Inside = {} /\ Inside' = {p}
        \/ \E p \in Inside : Inside' = Inside \ {p}
        \/ Inside' = Inside
    BY <1>3, InsideStep
  <2>3. Inside \subseteq Procs
    BY DEF Inside
  <2>4. ASSUME NEW p \in Procs, Inside = {}, Inside' = {p} PROVE Mutex!Next
    BY <1>3, <2>4 DEF Mutex!Next, Mutex!Enter
  <2>5. ASSUME NEW p \in Inside, Inside' = Inside \ {p} PROVE Mutex!Next
    BY <1>3, <2>3, <2>5 DEF Mutex!Next, Mutex!Leave
  <2> QED
    BY <2>1, <2>2, <2>4, <2>5
<1> QED
  BY <1>1, <1>2, <1>3

\* taskhub_destructive_lock.py: until a lock file grows an hour old, one command at a
\* time is at work, through crashes, failed payload writes and commands that start
\* together.
THEOREM LockRefinesMutex == LockConstantsOK => (LockSpec => LockImplementsMutex)
<1> SUFFICES ASSUME LockConstantsOK PROVE LockSpec => Mutex!Spec
  BY DEF LockImplementsMutex
<1> DEFINE Inv == Typed /\ (~aged => OneFile)
<1>1. LockInit => Inv
  <2> SUFFICES ASSUME LockInit PROVE OneFile
    BY InitTyped
  <2> QED
    BY DEF LockInit, LockConstantsOK, OneFile, HolderFile, LegacyAway, Holder
<1>2. Inv /\ [LockNext]_lockVars => Inv'
  BY NextTyped, NextOneFile, AgedByAge
<1>3. LockInit => Mutex!Init
  BY DEF LockInit, Mutex!Init, Inside
<1>4. Inv /\ [LockNext]_lockVars => [Mutex!Next]_Seen
  BY MutexStep
<1> QED
  BY <1>1, <1>2, <1>3, <1>4, PTL DEF LockSpec, Mutex!Spec, Seen

-----------------------------------------------------------------------------
(* The epoch journal *)

\* A set of natural numbers has a least element, and a bounded one a greatest.
LEMMA LeastExists ==
    ASSUME NEW T, T \subseteq Nat, T # {}
    PROVE  \E x \in T : \A y \in T : x <= y
<1> DEFINE R == {ss \in Nat \X Nat : ss[1] < ss[2]}
<1>1. IsWellFoundedOn(R, Nat)
  BY NatLessThanWellFounded DEF OpToRel
<1>2. \A x, y \in Nat : <<y, x>> \in R <=> y < x
  OBVIOUS
<1> HIDE DEF R
<1>3. PICK x \in T : \A y \in T : ~ (<<y, x>> \in R)
  BY <1>1, WFMin, Zenon
<1>4. \A y \in T : ~(y < x)
  BY <1>2, <1>3
<1> QED
  BY <1>4

LEMMA GreatestExists ==
    ASSUME NEW n \in Nat, NEW T, T \subseteq 1 .. n, T # {}
    PROVE  \E x \in T : \A y \in T : y <= x
<1> DEFINE D == {n - x : x \in T}
<1>1. D \subseteq Nat /\ D # {}
  <2>1. \A x \in T : x \in Int /\ 1 <= x /\ x <= n
    OBVIOUS
  <2>2. \A x \in T : n - x \in Nat
    BY <2>1
  <2> QED
    BY <2>2
<1>2. PICK d \in D : \A e \in D : d <= e
  <2> HIDE DEF D
  <2> QED
    BY <1>1, LeastExists
<1>3. PICK x \in T : d = n - x
  BY <1>2
<1>4. \A y \in T : n - x <= n - y
  BY <1>2, <1>3
<1>5. \A y \in T : y <= x
  BY <1>4
<1> QED
  BY <1>5

\* A process that is not idle holds the flock.
OneAllocates == \A w \in Writers : at[w] # "idle" => lock = w

\* The epochs of the lines a reader can verify increase.
LinesIncrease ==
    \A i, j \in DOMAIN journal : journal[i].valid /\ journal[j].valid /\ i < j =>
        journal[i].epoch < journal[j].epoch

\* What the counter file or a verifiable line says.
Known(e) == e <= counter \/ \E i \in DOMAIN journal : journal[i].valid /\ e <= journal[i].epoch

\* Whatever was issued is known to the next reader, unless the counter was lost when a
\* line could not be read.
IssuedKnown == ~blind => \A i \in DOMAIN issued : Known(issued[i])

\* The epoch a process has chosen is beyond all that was there when it chose.
Beyond(w) ==
    /\ ~blind => \A i \in DOMAIN issued : issued[i] < entry[w].epoch
    /\ at[w] = "append" => /\ entry[w].prev = LastOf(ValidAt).epoch
                           /\ \A i \in DOMAIN journal : journal[i].valid =>
                                  journal[i].epoch < entry[w].epoch
    /\ at[w] \in {"append", "count"} => counter < entry[w].epoch
    /\ at[w] \in {"count", "return"} =>
          \E j \in DOMAIN journal : journal[j].epoch = entry[w].epoch
    /\ at[w] = "return" => counter = entry[w].epoch

ChosenBeyond == \A w \in Writers : at[w] # "idle" => Beyond(w)

\* The inductive invariant.
EpochInv ==
    /\ EpochTypeOK /\ OneAllocates /\ LinesIncrease /\ IssuedKnown /\ ChosenBeyond
    /\ IssuedIncrease /\ JournalIsChain /\ IssuedIsJournaled

LEMMA EpochInitInv == EpochConstantsOK /\ EpochInit => EpochInv
<1> SUFFICES ASSUME EpochConstantsOK, EpochInit PROVE EpochInv
  OBVIOUS
<1>1. NoEntry \in Lines /\ 0 \in Epochs
  <2>1. 0 \in Epochs
    BY DEF EpochConstantsOK, Epochs
  <2> QED
    BY <2>1 DEF NoEntry, Lines
<1>2. EpochTypeOK
  <2>1. blind \in BOOLEAN /\ torn \in BOOLEAN
    BY DEF EpochInit
  <2>2. journal \in Seq(Lines) /\ issued \in Seq(Epochs)
    BY DEF EpochInit
  <2> QED
    BY <1>1, <2>1, <2>2 DEF EpochInit, EpochTypeOK
<1>3. DOMAIN journal = {} /\ DOMAIN issued = {} /\ \A w \in Writers : at[w] = "idle"
  BY DEF EpochInit
<1> QED
  BY <1>2, <1>3 DEF EpochInv, OneAllocates, LinesIncrease, IssuedKnown, ChosenBeyond,
     IssuedIncrease, JournalIsChain, IssuedIsJournaled, ValidAt

\* LastOf is defined: some lines that verify have a last one.
LEMMA LastIsLast ==
    ASSUME EpochTypeOK, NEW S, S \subseteq ValidAt, S # {}
    PROVE  \E i \in S : LastOf(S) = journal[i] /\ \A j \in S : j <= i
<1>1. S \subseteq 1 .. Len(journal) /\ Len(journal) \in Nat
  BY DEF ValidAt, EpochTypeOK
<1>2. \E i \in S : \A j \in S : j <= i
  BY <1>1, GreatestExists
<1> QED
  BY <1>2 DEF LastOf

\* The line the scan finds is the newest of those that verify.
LEMMA TailIsNewest ==
    ASSUME EpochTypeOK, LinesIncrease
    PROVE  /\ LastOf(ValidAt) \in Lines \cup {NoEntry}
           /\ LastOf(ValidAt).epoch \in Nat
           /\ \A i \in ValidAt : journal[i].epoch <= LastOf(ValidAt).epoch
<1>1. CASE ValidAt = {}
  BY <1>1 DEF LastOf, NoEntry
<1>2. CASE ValidAt # {}
  <2>1. PICK i \in ValidAt : LastOf(ValidAt) = journal[i] /\ \A j \in ValidAt : j <= i
    BY <1>2, LastIsLast
  <2>2. journal[i] \in Lines /\ \A j \in ValidAt : journal[j] \in Lines
    BY <2>1 DEF EpochTypeOK, ValidAt
  <2>3. \A j \in ValidAt : j < i => journal[j].epoch < journal[i].epoch
    BY <2>1 DEF LinesIncrease, ValidAt
  <2>4. ValidAt \subseteq Nat
    BY DEF ValidAt, EpochTypeOK
  <2>5. \A j \in ValidAt : j < i \/ j = i
    BY <2>1, <2>4
  <2> QED
    BY <2>1, <2>2, <2>3, <2>5 DEF Lines, Epochs
<1> QED
  BY <1>1, <1>2

\* The epoch a reader chooses is beyond the counter and all lines that verify.
LEMMA NewEpoch ==
    ASSUME EpochConstantsOK, EpochTypeOK, LinesIncrease
    PROVE  LET tail == _find_valid_journal_tail_entry
           IN  /\ NextEpoch(tail) \in Nat
               /\ counter < NextEpoch(tail) /\ tail.epoch < NextEpoch(tail)
               /\ tail.epoch \in Nat
               /\ \A i \in ValidAt : journal[i].epoch < NextEpoch(tail)
<1>1. /\ LastOf(ValidAt).epoch \in Nat /\ counter \in Nat
      /\ \A i \in ValidAt : journal[i].epoch \in Nat /\ journal[i].epoch <= LastOf(ValidAt).epoch
  <2>1. counter \in Nat /\ \A i \in ValidAt : journal[i].epoch \in Nat
    <3>1. \A i \in ValidAt : journal[i] \in Lines
      BY DEF EpochTypeOK, ValidAt
    <3> QED
      BY <3>1 DEF EpochConstantsOK, EpochTypeOK, Lines, Epochs
  <2> QED
    BY <2>1, TailIsNewest
<1> QED
  BY <1>1 DEF _find_valid_journal_tail_entry, NextEpoch

-----------------------------------------------------------------------------

LEMMA SameJournal ==
    ASSUME journal' = journal
    PROVE  /\ ValidAt' = ValidAt /\ LastOf(ValidAt)' = LastOf(ValidAt)
           /\ JournalIsChain' <=> JournalIsChain
           /\ LinesIncrease' <=> LinesIncrease
BY DEF ValidAt, LastOf, JournalIsChain, LinesIncrease

\* A line appended leaves the others where they are.
LEMMA AppendedLine ==
    ASSUME EpochTypeOK, NEW l \in Lines, journal' = Append(journal, l)
    PROVE  /\ Len(journal) \in Nat /\ DOMAIN journal = 1 .. Len(journal)
           /\ DOMAIN journal' = DOMAIN journal \cup {Len(journal) + 1}
           /\ \A i \in DOMAIN journal :
                 journal'[i] = journal[i] /\ i \in Nat /\ i < Len(journal) + 1
           /\ journal'[Len(journal) + 1] = l
           /\ journal' \in Seq(Lines)
<1>1. journal \in Seq(Lines)
  BY DEF EpochTypeOK
<1> QED
  BY <1>1

\* A line that names the tail and goes beyond it prolongs the chain; one that does not
\* verify leaves it as it is.
LEMMA AppendKeepsChain ==
    ASSUME EpochTypeOK, JournalIsChain, LinesIncrease, NEW l \in Lines,
           journal' = Append(journal, l),
           l.valid => /\ l.prev = LastOf(ValidAt).epoch /\ LastOf(ValidAt).epoch < l.epoch
                      /\ \A i \in DOMAIN journal : journal[i].valid => journal[i].epoch < l.epoch
    PROVE  JournalIsChain' /\ LinesIncrease'
<1> DEFINE n == Len(journal) + 1
<1>1. /\ DOMAIN journal' = DOMAIN journal \cup {n} /\ n \notin DOMAIN journal
      /\ \A i \in DOMAIN journal : journal'[i] = journal[i] /\ i \in Nat /\ i < n
      /\ journal'[n] = l /\ n \in Nat
  BY AppendedLine
<1> HIDE DEF n
<1>2. ValidAt' = IF l.valid THEN ValidAt \cup {n} ELSE ValidAt
  BY <1>1 DEF ValidAt
<1>3. ValidAt \subseteq DOMAIN journal
  BY DEF ValidAt
<1> DEFINE NewLast(S) ==
      IF S = {} THEN NoEntry ELSE journal'[CHOOSE i \in S : \A j \in S : j <= i]
<1>4. ASSUME NEW S, S \subseteq ValidAt PROVE NewLast(S) = LastOf(S)
  <2>1. CASE S = {}
    BY <2>1 DEF LastOf
  <2>2. CASE S # {}
    <3>1. (CHOOSE i \in S : \A j \in S : j <= i) \in DOMAIN journal
      <4>1. \E i \in S : \A j \in S : j <= i
        BY <1>4, <2>2, LastIsLast
      <4> QED
        BY <4>1, <1>3, <1>4
    <3> QED
      BY <3>1, <1>1, <2>2 DEF LastOf
  <2> QED
    BY <2>1, <2>2
<1>5. LinesIncrease'
  BY <1>1 DEF LinesIncrease
<1>6. ASSUME NEW i \in ValidAt'
      PROVE  LET before == NewLast({j \in ValidAt' : j < i}).epoch
             IN  journal'[i].prev = before /\ before < journal'[i].epoch
  <2> DEFINE S == {j \in ValidAt : j < i}
  <2> DEFINE T == {j \in ValidAt' : j < i}
  <2> HIDE DEF NewLast
  <2>1. CASE i \in ValidAt
    <3>1. i # n /\ i \in DOMAIN journal /\ journal'[i] = journal[i] /\ i < n /\ i \in Nat
      BY <1>1, <1>3, <2>1
    <3>2. T = S
      BY <1>2, <3>1, <1>1
    <3>3. S \subseteq ValidAt
      OBVIOUS
    <3>4. journal[i].prev = LastOf(S).epoch /\ LastOf(S).epoch < journal[i].epoch
      BY <2>1 DEF JournalIsChain
    <3>5. NewLast(T) = LastOf(S)
      <4> HIDE DEF S, T
      <4> QED
        BY <1>4, <3>2, <3>3
    <3> QED
      BY <3>1, <3>4, <3>5
  <2>2. CASE i = n /\ l.valid
    <3>1. T = ValidAt
      BY <1>1, <1>2, <1>3, <2>2
    <3>2. NewLast(T) = LastOf(ValidAt)
      <4> HIDE DEF T
      <4> QED
        BY <1>4, <3>1
    <3> QED
      BY <1>1, <2>2, <3>2
  <2> QED
    BY <1>2, <2>1, <2>2
<1>7. JournalIsChain'
  BY <1>6, Zenon DEF JournalIsChain, LastOf
<1> QED
  BY <1>5, <1>7

-----------------------------------------------------------------------------

\* What the values of an allocation are.
LEMMA EntryIsLine ==
    ASSUME EpochConstantsOK, EpochTypeOK, NEW w \in Writers
    PROVE  /\ entry[w] \in Lines /\ entry[w].epoch \in Nat /\ counter \in Nat
           /\ entry[w].epoch \in Epochs /\ NoEntry \in Lines
           /\ \A i \in DOMAIN issued : issued[i] \in Nat
           /\ \A i \in DOMAIN journal : journal[i] \in Lines /\ journal[i].epoch \in Nat
<1>1. Epochs \subseteq Nat /\ 0 \in Epochs
  BY DEF EpochConstantsOK, Epochs
<1>2. NoEntry \in Lines /\ \A l \in Lines : l.epoch \in Epochs
  BY <1>1 DEF NoEntry, Lines
<1>3. entry[w] \in Lines /\ counter \in Epochs
  BY DEF EpochTypeOK
<1>4. \A i \in DOMAIN issued : issued[i] \in Epochs
  BY DEF EpochTypeOK
<1>5. \A i \in DOMAIN journal : journal[i] \in Lines
  BY DEF EpochTypeOK
<1> QED
  BY <1>1, <1>2, <1>3, <1>4, <1>5

\* Under the flock the others are idle.
LEMMA OthersIdle ==
    ASSUME EpochConstantsOK, OneAllocates, NEW w \in Writers, at[w] # "idle" \/ lock = NoWriter
    PROVE  \A v \in Writers \ {w} : at[v] = "idle"
BY DEF EpochConstantsOK, OneAllocates

\* One lemma for each step of an allocation, for its death and for the loss of the file.
LEMMA AcquireKeepsInv ==
    ASSUME EpochConstantsOK, EpochInv, NEW w \in Writers, AcquireAndRead(w)
    PROVE  EpochInv'
<1> USE DEF EpochInv
<1> DEFINE tail == _find_valid_journal_tail_entry
           e == NextEpoch(tail)
<1>1. /\ e \in Nat /\ counter < e /\ tail.epoch < e /\ tail.epoch \in Nat
      /\ \A i \in ValidAt : journal[i].epoch < e
  BY NewEpoch
<1>2. /\ entry' = [entry EXCEPT ![w] = [epoch |-> e, prev |-> tail.epoch, valid |-> TRUE]]
      /\ e <= MaxEpoch /\ at[w] = "idle" /\ lock = NoWriter /\ lock' = w
      /\ at' = [at EXCEPT ![w] = "append"]
      /\ UNCHANGED <<counter, journal, torn, issued, blind, deaths>>
  BY DEF AcquireAndRead
<1>3. tail = LastOf(ValidAt)
  BY DEF _find_valid_journal_tail_entry
<1> HIDE DEF tail, e
<1>4. [epoch |-> e, prev |-> tail.epoch, valid |-> TRUE] \in Lines
  BY <1>1, <1>2 DEF Lines, Epochs, EpochConstantsOK
<1>5. EpochTypeOK'
  <2>1. entry' \in [Writers -> Lines] /\ at' \in [Writers -> {"idle", "append", "count", "return"}]
    BY <1>2, <1>4 DEF EpochTypeOK
  <2> QED
    BY <2>1, <1>2 DEF EpochTypeOK, epochVars
<1>6. \A v \in Writers \ {w} : at'[v] = "idle"
  BY <1>2, OthersIdle DEF EpochTypeOK
<1>7. at'[w] = "append" /\ entry'[w].epoch = e /\ entry'[w].prev = tail.epoch
  BY <1>2 DEF EpochTypeOK
<1>8. OneAllocates'
  BY <1>2, <1>6 DEF OneAllocates
<1>9. ValidAt' = ValidAt /\ LastOf(ValidAt)' = LastOf(ValidAt) /\ JournalIsChain' /\ LinesIncrease'
  BY <1>2, SameJournal
<1>10. IssuedKnown' /\ IssuedIncrease' /\ IssuedIsJournaled'
  BY <1>2 DEF IssuedKnown, Known, IssuedIncrease, IssuedIsJournaled
<1>11. Beyond(w)'
  <2>1. ASSUME ~blind, NEW i \in DOMAIN issued PROVE issued[i] < e
    <3>1. Known(issued[i])
      BY <2>1 DEF IssuedKnown
    <3>2. issued[i] \in Nat /\ counter \in Nat /\ \A j \in DOMAIN journal : journal[j].epoch \in Nat
      BY EntryIsLine
    <3> QED
      BY <1>1, <3>1, <3>2 DEF Known, ValidAt
  <2>2. \A i \in DOMAIN journal : journal[i].valid => journal[i].epoch < e
    BY <1>1 DEF ValidAt
  <2> QED
    BY <1>1, <1>2, <1>3, <1>7, <1>9, <2>1, <2>2 DEF Beyond
<1>12. ChosenBeyond'
  BY <1>6, <1>11 DEF ChosenBeyond
<1> QED
  BY <1>5, <1>8, <1>9, <1>10, <1>12

LEMMA AppendKeepsInv ==
    ASSUME EpochConstantsOK, EpochInv, NEW w \in Writers, AppendEntry(w)
    PROVE  EpochInv'
<1> USE DEF EpochInv
<1> DEFINE l == [entry[w] EXCEPT !.valid = ~torn]
<1>1. /\ at[w] = "append" /\ journal' = Append(journal, l) /\ torn' = FALSE
      /\ at' = [at EXCEPT ![w] = "count"]
      /\ UNCHANGED <<counter, lock, entry, issued, blind, deaths>>
  BY DEF AppendEntry
<1>2. entry[w] \in Lines /\ torn \in BOOLEAN
  BY EntryIsLine DEF EpochTypeOK
<1>3. l \in Lines /\ l.epoch = entry[w].epoch /\ l.prev = entry[w].prev
  BY <1>2 DEF Lines
<1> HIDE DEF l
<1>4. Beyond(w)
  BY <1>1 DEF ChosenBeyond
<1>5. \A i \in DOMAIN journal : journal[i].valid => journal[i].epoch < l.epoch
  BY <1>1, <1>3, <1>4 DEF Beyond
<1>6. l.prev = LastOf(ValidAt).epoch /\ LastOf(ValidAt).epoch < l.epoch
  <2>1. l.prev = LastOf(ValidAt).epoch
    BY <1>1, <1>3, <1>4 DEF Beyond
  <2>2. counter < l.epoch /\ counter \in Nat /\ l.epoch \in Nat
    BY <1>1, <1>3, <1>4, EntryIsLine DEF Beyond
  <2>3. CASE ValidAt = {}
    BY <2>1, <2>2, <2>3 DEF LastOf, NoEntry
  <2>4. CASE ValidAt # {}
    <3>1. PICK i \in ValidAt : LastOf(ValidAt) = journal[i]
      BY <2>4, LastIsLast
    <3> QED
      BY <1>5, <2>1, <3>1 DEF ValidAt
  <2> QED
    BY <2>1, <2>3, <2>4
<1>7. JournalIsChain' /\ LinesIncrease'
  BY <1>1, <1>3, <1>5, <1>6, AppendKeepsChain
<1>8. /\ DOMAIN journal' = DOMAIN journal \cup {Len(journal) + 1}
      /\ \A i \in DOMAIN journal : journal'[i] = journal[i]
      /\ journal'[Len(journal) + 1] = l /\ journal' \in Seq(Lines)
  BY <1>1, <1>3, AppendedLine
<1>9. EpochTypeOK'
  <2>1. at' \in [Writers -> {"idle", "append", "count", "return"}]
    BY <1>1 DEF EpochTypeOK
  <2> QED
    BY <1>1, <1>8, <2>1 DEF EpochTypeOK
<1>10. at'[w] = "count" /\ \A v \in Writers \ {w} : at'[v] = "idle"
  BY <1>1, OthersIdle DEF EpochTypeOK
<1>11. OneAllocates'
  BY <1>1, <1>10 DEF OneAllocates
<1>12. IssuedKnown' /\ IssuedIncrease' /\ IssuedIsJournaled'
  BY <1>1, <1>8 DEF IssuedKnown, Known, IssuedIncrease, IssuedIsJournaled
<1>13. Beyond(w)'
  <2>1. \E j \in DOMAIN journal' : journal'[j].epoch = entry[w].epoch
    BY <1>3, <1>8
  <2> QED
    BY <1>1, <1>4, <1>10, <2>1 DEF Beyond
<1>14. ChosenBeyond'
  BY <1>10, <1>13 DEF ChosenBeyond
<1> QED
  BY <1>7, <1>9, <1>11, <1>12, <1>14

LEMMA CountKeepsInv ==
    ASSUME EpochConstantsOK, EpochInv, NEW w \in Writers, WriteCounter(w)
    PROVE  EpochInv'
<1> USE DEF EpochInv
<1>1. /\ at[w] = "count" /\ counter' = entry[w].epoch
      /\ at' = [at EXCEPT ![w] = "return"]
      /\ UNCHANGED <<journal, torn, lock, entry, issued, blind, deaths>>
  BY DEF WriteCounter
<1>2. Beyond(w)
  BY <1>1 DEF ChosenBeyond
<1>3. /\ counter < counter' /\ counter \in Nat /\ counter' \in Epochs /\ counter' \in Nat
      /\ \A i \in DOMAIN issued : issued[i] \in Nat
  BY <1>1, <1>2, EntryIsLine DEF Beyond
<1>4. at'[w] = "return" /\ \A v \in Writers \ {w} : at'[v] = "idle"
  BY <1>1, OthersIdle DEF EpochTypeOK
<1>5. EpochTypeOK'
  <2>1. at' \in [Writers -> {"idle", "append", "count", "return"}]
    BY <1>1 DEF EpochTypeOK
  <2> QED
    BY <1>1, <1>3, <2>1 DEF EpochTypeOK
<1>6. OneAllocates'
  BY <1>1, <1>4 DEF OneAllocates
<1>7. JournalIsChain' /\ LinesIncrease'
  BY <1>1, SameJournal
<1>8. IssuedKnown'
  BY <1>1, <1>3 DEF IssuedKnown, Known
<1>9. IssuedIncrease' /\ IssuedIsJournaled'
  BY <1>1 DEF IssuedIncrease, IssuedIsJournaled
<1>10. Beyond(w)'
  BY <1>1, <1>2, <1>4 DEF Beyond
<1>11. ChosenBeyond'
  BY <1>4, <1>10 DEF ChosenBeyond
<1> QED
  BY <1>5, <1>6, <1>7, <1>8, <1>9, <1>11

LEMMA ReturnKeepsInv ==
    ASSUME EpochConstantsOK, EpochInv, NEW w \in Writers, Return(w)
    PROVE  EpochInv'
<1> USE DEF EpochInv
<1> DEFINE e == entry[w].epoch
<1>1. /\ at[w] = "return" /\ issued' = Append(issued, e)
      /\ at' = [at EXCEPT ![w] = "idle"] /\ entry' = [entry EXCEPT ![w] = NoEntry]
      /\ lock' = IF lock = w THEN NoWriter ELSE lock
      /\ UNCHANGED <<counter, journal, torn, blind, deaths>>
  BY DEF Return
<1>2. Beyond(w)
  BY <1>1 DEF ChosenBeyond
<1>3. /\ counter = e /\ e \in Epochs /\ e \in Nat /\ NoEntry \in Lines
      /\ \E j \in DOMAIN journal : journal[j].epoch = e
      /\ ~blind => \A i \in DOMAIN issued : issued[i] < e
  BY <1>1, <1>2, EntryIsLine DEF Beyond
<1> HIDE DEF e
<1>4. \A v \in Writers : at'[v] = "idle"
  BY <1>1, OthersIdle DEF EpochTypeOK
<1>5. /\ issued' \in Seq(Epochs) /\ DOMAIN issued' = DOMAIN issued \cup {Len(issued) + 1}
      /\ \A i \in DOMAIN issued : issued'[i] = issued[i] /\ i \in Nat /\ i < Len(issued) + 1
      /\ issued'[Len(issued) + 1] = e /\ Len(issued) \in Nat
  <2>1. issued \in Seq(Epochs)
    BY DEF EpochTypeOK
  <2> QED
    BY <1>1, <1>3, <2>1
<1>6. EpochTypeOK'
  <2>1. /\ at' \in [Writers -> {"idle", "append", "count", "return"}]
        /\ entry' \in [Writers -> Lines] /\ lock' \in Writers \cup {NoWriter}
    BY <1>1, <1>3 DEF EpochTypeOK
  <2> QED
    BY <1>1, <1>5, <2>1 DEF EpochTypeOK
<1>7. OneAllocates' /\ ChosenBeyond'
  BY <1>4 DEF OneAllocates, ChosenBeyond
<1>8. JournalIsChain' /\ LinesIncrease'
  BY <1>1, SameJournal
<1>9. IssuedKnown'
  BY <1>1, <1>3, <1>5 DEF IssuedKnown, Known
<1>10. IssuedIncrease'
  BY <1>1, <1>3, <1>5 DEF IssuedIncrease
<1>11. IssuedIsJournaled'
  BY <1>1, <1>3, <1>5 DEF IssuedIsJournaled
<1> QED
  BY <1>6, <1>7, <1>8, <1>9, <1>10, <1>11

LEMMA DeathKeepsInv ==
    ASSUME EpochConstantsOK, EpochInv, NEW w \in Writers, AllocationDies(w)
    PROVE  EpochInv'
<1> USE DEF EpochInv
<1>1. /\ at[w] # "idle" /\ deaths' = deaths + 1
      /\ torn' \in (IF at[w] = "append" THEN {torn, TRUE} ELSE {torn})
      /\ at' = [at EXCEPT ![w] = "idle"] /\ entry' = [entry EXCEPT ![w] = NoEntry]
      /\ lock' = IF lock = w THEN NoWriter ELSE lock
      /\ UNCHANGED <<counter, journal, issued, blind>>
  BY DEF AllocationDies
<1>2. \A v \in Writers : at'[v] = "idle"
  BY <1>1, OthersIdle DEF EpochTypeOK
<1>3. EpochTypeOK'
  <2>1. torn' \in BOOLEAN
    BY <1>1, Zenon DEF EpochTypeOK
  <2>2. /\ at' \in [Writers -> {"idle", "append", "count", "return"}]
        /\ entry' \in [Writers -> Lines] /\ lock' \in Writers \cup {NoWriter}
    BY <1>1, EntryIsLine DEF EpochTypeOK
  <2> QED
    BY <1>1, <2>1, <2>2 DEF EpochTypeOK
<1>4. OneAllocates' /\ ChosenBeyond'
  BY <1>2 DEF OneAllocates, ChosenBeyond
<1>5. JournalIsChain' /\ LinesIncrease'
  BY <1>1, SameJournal
<1>6. IssuedKnown' /\ IssuedIncrease' /\ IssuedIsJournaled'
  BY <1>1 DEF IssuedKnown, Known, IssuedIncrease, IssuedIsJournaled
<1> QED
  BY <1>3, <1>4, <1>5, <1>6

\* Without the counter file every issued epoch is still on a line, and one that is read
\* unless the loss was blind.
LEMMA LossKeepsInv ==
    ASSUME EpochConstantsOK, EpochInv, LoseCounter
    PROVE  EpochInv'
<1> USE DEF EpochInv
<1>1. /\ lock = NoWriter /\ counter' = 0 /\ deaths' = deaths + 1
      /\ blind' = (blind \/ \E i \in DOMAIN journal : ~journal[i].valid)
      /\ UNCHANGED <<journal, torn, lock, at, entry, issued>>
  BY DEF LoseCounter
<1>2. \A v \in Writers : at'[v] = "idle"
  BY <1>1 DEF OneAllocates, EpochConstantsOK
<1>3. EpochTypeOK'
  <2>1. counter' \in Epochs /\ deaths' \in Nat
    BY <1>1 DEF EpochTypeOK, Epochs, EpochConstantsOK
  <2>2. blind' \in BOOLEAN
    BY <1>1, Zenon
  <2> QED
    BY <1>1, <2>1, <2>2 DEF EpochTypeOK
<1>4. OneAllocates' /\ ChosenBeyond'
  BY <1>2 DEF OneAllocates, ChosenBeyond
<1>5. JournalIsChain' /\ LinesIncrease'
  BY <1>1, SameJournal
<1>6. IssuedIncrease' /\ IssuedIsJournaled'
  <2>1. ~blind' => ~blind
    BY <1>1, Zenon
  <2> QED
    BY <1>1, <2>1 DEF IssuedIncrease, IssuedIsJournaled
<1>7. IssuedKnown'
  <2> SUFFICES ASSUME ~blind', NEW i \in DOMAIN issued' PROVE Known(issued[i])'
    BY DEF IssuedKnown
  <2>1. \A j \in DOMAIN journal : journal[j].valid
    BY <1>1, Zenon
  <2>2. PICK j \in DOMAIN journal : journal[j].epoch = issued[i]
    BY <1>1 DEF IssuedIsJournaled
  <2>3. journal[j].epoch \in Nat
    <3>1. journal[j] \in Lines
      BY DEF EpochTypeOK
    <3> QED
      BY <3>1 DEF Lines, Epochs, EpochConstantsOK
  <2> QED
    BY <1>1, <2>1, <2>2, <2>3 DEF Known
<1> QED
  BY <1>3, <1>4, <1>5, <1>6, <1>7

LEMMA EpochNextInv == EpochConstantsOK /\ EpochInv /\ [EpochNext]_epochVars => EpochInv'
<1> SUFFICES ASSUME EpochConstantsOK, EpochInv, [EpochNext]_epochVars PROVE EpochInv'
  OBVIOUS
<1>1. ASSUME NEW w \in Writers, allocate_next_epoch(w) PROVE EpochInv'
  BY <1>1, AcquireKeepsInv, AppendKeepsInv, CountKeepsInv, ReturnKeepsInv DEF allocate_next_epoch
<1>2. ASSUME NEW w \in Writers, AllocationDies(w) PROVE EpochInv'
  BY <1>2, DeathKeepsInv
<1>3. CASE LoseCounter
  BY <1>3, LossKeepsInv
<1>4. CASE UNCHANGED epochVars
  <2> USE <1>4 DEF epochVars, EpochInv
  <2>1. JournalIsChain' /\ LinesIncrease' /\ ValidAt' = ValidAt
        /\ LastOf(ValidAt)' = LastOf(ValidAt)
    BY SameJournal
  <2>2. EpochTypeOK' /\ OneAllocates'
    BY DEF EpochTypeOK, OneAllocates
  <2>3. IssuedKnown' /\ IssuedIncrease' /\ IssuedIsJournaled'
    BY DEF IssuedKnown, Known, IssuedIncrease, IssuedIsJournaled
  <2>4. ChosenBeyond'
    BY <2>1 DEF ChosenBeyond, Beyond
  <2> QED
    BY <2>1, <2>2, <2>3, <2>4
<1> QED
  BY <1>1, <1>2, <1>3, <1>4 DEF EpochNext

\* The files and the processes of allocate_next_epoch keep their types.
THEOREM EpochTypes == EpochConstantsOK => (EpochSpec => []EpochTypeOK)
<1> SUFFICES ASSUME EpochConstantsOK PROVE EpochSpec => []EpochTypeOK
  OBVIOUS
<1>1. EpochInit => EpochInv
  BY EpochInitInv
<1>2. EpochInv /\ [EpochNext]_epochVars => EpochInv'
  BY EpochNextInv
<1>3. EpochInv => EpochTypeOK
  BY DEF EpochInv
<1> QED
  BY <1>1, <1>2, <1>3, PTL DEF EpochSpec

\* Whoever dies where: no epoch is handed out twice or after a larger one (unless the
\* counter was lost while a line could not be read), the lines that verify are one chain,
\* and what was handed out is on a line (allocate_next_epoch).
THEOREM EpochSafety == EpochConstantsOK => (EpochSpec => []EpochsSound)
<1> SUFFICES ASSUME EpochConstantsOK PROVE EpochSpec => []EpochsSound
  OBVIOUS
<1>1. EpochInit => EpochInv
  BY EpochInitInv
<1>2. EpochInv /\ [EpochNext]_epochVars => EpochInv'
  BY EpochNextInv
<1>3. EpochInv => EpochsSound
  BY DEF EpochInv, EpochsSound
<1> QED
  BY <1>1, <1>2, <1>3, PTL DEF EpochSpec

-----------------------------------------------------------------------------
(* Signed approvals *)

\* What was signed had passed the checks of the issuer, for one subcommand.
SignedGood ==
    \A s \in signed :
        /\ Issuable(s.payload) /\ s.payload.signedAt <= now
        /\ \E sub \in Subcommands : s.payload.allowed = {sub}

\* No signature is anywhere that was not made.
NoForgery ==
    /\ \A i \in ApprovalIds : file[i] \notin {None, Torn} => file[i].signature \in signed
    /\ issuer # None => issuer.signature \in signed
    /\ command # None => command.record.signature \in signed

\* A command that waits for its verdict has passed all checks but that of the signature.
Checked ==
    command # None =>
        /\ allowlist \subseteq listed
        /\ RecordAllows(command.request, command.record.payload, command.at)
        /\ command.record # None
        /\ command.request.host # None <=> command.request.sub = "migrate"

\* The inductive invariant.
ApprovalInv ==
    /\ ApprovalTypeOK /\ SignedGood /\ NoForgery /\ Checked /\ GrantedAsSigned /\ UnsignedIsHarmless

-----------------------------------------------------------------------------

LEMMA ApprovalInitInv == ApprovalConstantsOK /\ ApprovalInit => ApprovalInv
<1> SUFFICES ASSUME ApprovalConstantsOK, ApprovalInit PROVE ApprovalInv
  OBVIOUS
<1>1. ApprovalTypeOK
  <2>1. 0 \in 0 .. MaxTime /\ 0 \in 0 .. MaxEdits
    BY DEF ApprovalConstantsOK
  <2>2. TRUE \in BOOLEAN
    OBVIOUS
  <2> QED
    BY <2>1, <2>2 DEF ApprovalInit, ApprovalTypeOK
<1> QED
  BY <1>1 DEF ApprovalInit, ApprovalInv, SignedGood, NoForgery, Checked, GrantedAsSigned,
     UnsignedIsHarmless

LEMMA Bounds ==
    ASSUME ApprovalConstantsOK
    PROVE  MaxTtl \in Nat /\ Skew \in Nat /\ MaxTime \in Nat /\ MaxEdits \in Nat
BY DEF ApprovalConstantsOK

\* The parts of a payload.
LEMMA PayloadParts ==
    ASSUME ApprovalConstantsOK, NEW p \in Payloads
    PROVE  /\ p.signedAt \in Nat /\ p.expiresAt \in Nat
           /\ p.allowed \subseteq DESTRUCTIVE_SUBCOMMANDS \cup Subcommands
           /\ p.kind \in DOMAIN DRILL_KIND_ALLOWED_SUBCOMMANDS
           /\ p.host \in Hosts \cup {None} /\ p.id \in ApprovalIds
<1>1. MaxTime \in Nat /\ MaxTtl \in Nat
  BY DEF ApprovalConstantsOK
<1> QED
  BY <1>1 DEF Payloads

\* More signatures and a later clock take nothing away.
LEMMA SignedStays ==
    ASSUME SignedGood, GrantedAsSigned, UnsignedIsHarmless, signed' = signed, granted' = granted,
           now \in Nat, now' \in Nat, now <= now', \A s \in signed : s.payload.signedAt \in Nat
    PROVE  SignedGood' /\ GrantedAsSigned' /\ UnsignedIsHarmless'
<1>1. SignedGood'
  BY DEF SignedGood, Issuable
<1> QED
  BY <1>1 DEF GrantedAsSigned, UnsignedIsHarmless

LEMMA IssueTyped ==
    ASSUME ApprovalConstantsOK, ApprovalTypeOK, NEW i \in ApprovalIds, NEW kind \in Kinds,
           NEW sub \in Subcommands, NEW host \in Hosts \cup {None}, NEW decider \in BOOLEAN,
           NEW ttl \in {0, MaxTtl, MaxTtl + 1}, NEW claims \in _build_claims
    PROVE  cmd_approval_issue(i, kind, sub, host, decider, ttl, claims) \in Payloads
<1>1. MaxTime \in Nat /\ MaxTtl \in Nat /\ now \in 0 .. MaxTime
  BY DEF ApprovalConstantsOK, ApprovalTypeOK
<1>2. now + ttl \in 0..MaxTime + MaxTtl + 1
  BY <1>1
<1>3. claims \in [Claimed -> Claims \cup {None}]
  BY DEF _build_claims
<1>4. kind \in DOMAIN DRILL_KIND_ALLOWED_SUBCOMMANDS
  BY DEF ApprovalConstantsOK
<1>5. {sub} \in SUBSET (DESTRUCTIVE_SUBCOMMANDS \cup Subcommands)
  OBVIOUS
<1> HIDE DEF Claimed, Claims
<1> QED
  BY <1>1, <1>2, <1>3, <1>4, <1>5, Zenon DEF cmd_approval_issue, Payloads

LEMMA ClockTyped ==
    ASSUME ApprovalConstantsOK, ApprovalTypeOK
    PROVE  now \in 0 .. MaxTime /\ now \in Nat /\ now + 1 \in 0..MaxTime + MaxTtl + 1
<1>1. now \in 0 .. MaxTime
  BY DEF ApprovalTypeOK
<1> QED
  BY <1>1, Bounds

\* One lemma for each group of actions.
LEMMA TickKeeps ==
    ASSUME ApprovalConstantsOK, ApprovalInv, Tick
    PROVE  ApprovalInv'
<1> USE DEF ApprovalInv
<1>1. /\ now \in Nat /\ now' = now + 1 /\ now' \in 0 .. MaxTime
      /\ UNCHANGED <<file, issuer, verifyKey, keySafe, allowlist, command, reads, loaded, listed, signed, granted, edits>>
  BY DEF Tick, verifier, ApprovalTypeOK, ApprovalConstantsOK
<1>2. \A s \in signed : s.payload.signedAt \in Nat
  BY PayloadParts DEF ApprovalTypeOK, Signatures
<1>3. SignedGood' /\ GrantedAsSigned' /\ UnsignedIsHarmless'
  BY <1>1, <1>2, SignedStays
<1>4. ApprovalTypeOK'
  BY <1>1 DEF ApprovalTypeOK
<1>5. NoForgery' /\ Checked'
  BY <1>1 DEF NoForgery, Checked, RecordAllows
<1> QED
  BY <1>3, <1>4, <1>5

LEMMA OpenKeeps ==
    ASSUME ApprovalConstantsOK, ApprovalInv, NEW i \in ApprovalIds, NEW k \in Keys, NEW p \in Payloads,
           NEW sub \in Subcommands, p.allowed = {sub}, p.signedAt = now, IssueOpen(i, k, p)
    PROVE  ApprovalInv'
<1> USE DEF ApprovalInv
<1> DEFINE g == [key |-> k, payload |-> p]
           r == [payload |-> p, signature |-> g]
<1>1. /\ Issuable(p) /\ signed' = signed \cup {g} /\ issuer' = r
      /\ file' = [file EXCEPT ![i] = Torn]
      /\ UNCHANGED <<now, verifyKey, keySafe, allowlist, command, reads, loaded, listed, granted, edits>>
  BY DEF IssueOpen, verifier, _rfc8785_canonical_payload_bytes
<1>2. g \in Signatures /\ r \in Records
  BY DEF Signatures, Records
<1>3. ApprovalTypeOK'
  BY <1>1, <1>2 DEF ApprovalTypeOK
<1>4. SignedGood'
  <2>1. now \in Nat /\ g.payload = p
    BY Bounds DEF ApprovalTypeOK
  <2> HIDE DEF g
  <2>2. g.payload.signedAt <= now /\ Issuable(g.payload) /\ g.payload.allowed = {sub}
    BY <1>1, <2>1
  <2>3. \A q : Issuable(q)' <=> Issuable(q)
    BY DEF Issuable
  <2> QED
    BY <1>1, <2>2, <2>3 DEF SignedGood, Issuable
<1>5. NoForgery'
  <2>1. r.signature = g
    OBVIOUS
  <2> HIDE DEF r, g
  <2> QED
    BY <1>1, <2>1 DEF NoForgery, ApprovalTypeOK
<1>6. Checked' /\ UnsignedIsHarmless'
  BY <1>1 DEF Checked, RecordAllows, UnsignedIsHarmless
<1>7. GrantedAsSigned'
  BY <1>1 DEF GrantedAsSigned
<1> QED
  BY <1>3, <1>4, <1>5, <1>6, <1>7

LEMMA CloseKeeps ==
    ASSUME ApprovalConstantsOK, ApprovalInv, IssueWrite \/ IssueFails \/ IssuerDies
    PROVE  ApprovalInv'
<1> USE DEF ApprovalInv
<1>1. /\ issuer # None /\ issuer' = None
      /\ UNCHANGED <<now, verifyKey, keySafe, allowlist, command, reads, loaded, listed, signed, granted>>
      /\ edits' = edits \/ (edits < MaxEdits /\ edits' = edits + 1)
  BY DEF IssueWrite, IssueFails, IssuerDies, verifier
<1>2. issuer \in Records /\ issuer.signature \in signed /\ issuer.payload.id \in ApprovalIds
  <2>1. issuer \in Records
    BY <1>1 DEF ApprovalTypeOK
  <2> QED
    BY <1>1, <2>1, PayloadParts DEF NoForgery, Records
<1>3. /\ file' \in [ApprovalIds -> Records \cup {None, Torn}]
      /\ \A j \in ApprovalIds : file'[j] = file[j] \/ file'[j] \in {None, Torn} \/ file'[j] = issuer
  BY <1>2 DEF IssueWrite, IssueFails, IssuerDies, ApprovalTypeOK
<1>4. edits' \in 0 .. MaxEdits
  BY <1>1 DEF ApprovalTypeOK, ApprovalConstantsOK
<1>5. ApprovalTypeOK'
  BY <1>1, <1>3, <1>4 DEF ApprovalTypeOK
<1>6. NoForgery' /\ Checked'
  BY <1>1, <1>2, <1>3 DEF NoForgery, Checked, RecordAllows
<1>7. SignedGood' /\ GrantedAsSigned' /\ UnsignedIsHarmless'
  BY <1>1 DEF SignedGood, Issuable, GrantedAsSigned, UnsignedIsHarmless
<1> QED
  BY <1>5, <1>6, <1>7

\* An edit changes what a file says, never which signature it carries.
LEMMA OthersKeep ==
    ASSUME ApprovalConstantsOK, ApprovalInv, Others
    PROVE  ApprovalInv'
<1> USE DEF ApprovalInv
<1>1. /\ edits' = edits + 1 /\ edits < MaxEdits
      /\ listed' = IF command = None THEN {} ELSE listed \cup allowlist'
      /\ UNCHANGED <<now, issuer, command, reads, loaded, signed, granted>>
  BY DEF Others
<1>2. /\ file' \in [ApprovalIds -> Records \cup {None, Torn}]
      /\ \A j \in ApprovalIds : file'[j] \in {None, Torn} \/ file'[j].signature \in signed
      /\ verifyKey' \in Keys /\ keySafe' \in BOOLEAN /\ allowlist' \subseteq Keys
  <2>1. ASSUME NEW i \in ApprovalIds, EditFile(i)
        PROVE  /\ UNCHANGED <<verifyKey, keySafe, allowlist>>
               /\ \E q \in Payloads : file' = [file EXCEPT ![i].payload = q]
    <3>1. PICK p \in {[file[i].payload EXCEPT !.allowed = {sub}] : sub \in Subcommands}
              \cup {[file[i].payload EXCEPT !.expiresAt = now + 1],
                    [file[i].payload EXCEPT !.host = "vps"],
                    [file[i].payload EXCEPT !.claim =
                        [s \in Claimed |-> IF s \in Subcommands THEN [what |-> "as asked", wellFormed |-> TRUE]
                                           ELSE None]]} :
             file' = [file EXCEPT ![i].payload = p]
      BY <2>1 DEF EditFile
    <3>2. file[i].payload \in Payloads
      BY <2>1 DEF EditFile, ApprovalTypeOK, Records
    <3>3. \A sub \in Subcommands : [file[i].payload EXCEPT !.allowed = {sub}] \in Payloads
      BY <3>2 DEF Payloads
    <3>4. [file[i].payload EXCEPT !.expiresAt = now + 1] \in Payloads
      <4>1. now + 1 \in 0..MaxTime + MaxTtl + 1
        BY ClockTyped
      <4> QED
        BY <3>2, <4>1 DEF Payloads
    <3>5. [file[i].payload EXCEPT !.host = "vps"] \in Payloads
      BY <3>2 DEF Payloads, Hosts
    <3>6. [file[i].payload EXCEPT !.claim =
              [s \in Claimed |-> IF s \in Subcommands THEN [what |-> "as asked", wellFormed |-> TRUE]
                                 ELSE None]] \in Payloads
      <4> DEFINE c == [s \in Claimed |-> IF s \in Subcommands
                                         THEN [what |-> "as asked", wellFormed |-> TRUE] ELSE None]
      <4>1. [what |-> "as asked", wellFormed |-> TRUE] \in Claims
        BY Zenon DEF Claims
      <4>2. c \in [Claimed -> Claims \cup {None}]
        BY <4>1
      <4> HIDE DEF c
      <4>3. [file[i].payload EXCEPT !.claim = c] \in Payloads
        BY <3>2, <4>2 DEF Payloads
      <4> QED
        BY <4>3 DEF c
    <3>7. p \in Payloads
      BY <3>1, <3>3, <3>4, <3>5, <3>6, Zenon
    <3> QED
      BY <2>1, <3>1, <3>7 DEF EditFile
  <2>2. ASSUME NEW i \in ApprovalIds, EditFile(i)
        PROVE  /\ file' \in [ApprovalIds -> Records \cup {None, Torn}]
               /\ \A j \in ApprovalIds : file'[j] \in {None, Torn} \/ file'[j].signature \in signed
    <3>1. PICK q \in Payloads : file' = [file EXCEPT ![i].payload = q]
      BY <2>1, <2>2
    <3>2. file[i] \in Records /\ file[i].signature \in signed
      BY <2>2 DEF EditFile, ApprovalTypeOK, NoForgery
    <3>3. /\ [file[i] EXCEPT !.payload = q] \in Records
          /\ [file[i] EXCEPT !.payload = q].signature = file[i].signature
      BY <3>2 DEF Records
    <3> QED
      BY <3>1, <3>2, <3>3 DEF ApprovalTypeOK, NoForgery
  <2>3. ASSUME NEW i \in ApprovalIds, DeleteFile(i) \/ \E j \in ApprovalIds : CopyFile(i, j)
        PROVE  /\ UNCHANGED <<verifyKey, keySafe, allowlist>>
               /\ file' \in [ApprovalIds -> Records \cup {None, Torn}]
               /\ \A j \in ApprovalIds : file'[j] \in {None, Torn} \/ file'[j].signature \in signed
    BY <2>3 DEF DeleteFile, CopyFile, ApprovalTypeOK, NoForgery
  <2>4. CASE ChangeKey
    <3>1. verifyKey' \in Keys /\ allowlist' \subseteq Keys /\ file' = file
      BY <2>4 DEF ChangeKey, ApprovalTypeOK
    <3>2. keySafe' \in BOOLEAN
      BY <2>4, Zenon DEF ChangeKey, ApprovalTypeOK
    <3> QED
      BY <3>1, <3>2 DEF ApprovalTypeOK, NoForgery
  <2>5. ASSUME UNCHANGED <<verifyKey, keySafe, allowlist>>
        PROVE  verifyKey' \in Keys /\ keySafe' \in BOOLEAN /\ allowlist' \subseteq Keys
    BY <2>5 DEF ApprovalTypeOK
  <2> QED
    BY <2>1, <2>2, <2>3, <2>4, <2>5 DEF Others, ApprovalTypeOK
<1>3. ApprovalTypeOK'
  <2>1. edits' \in 0 .. MaxEdits
    BY <1>1 DEF ApprovalTypeOK, ApprovalConstantsOK
  <2> QED
    BY <1>1, <1>2, <2>1 DEF ApprovalTypeOK
<1>4. NoForgery' /\ Checked'
  BY <1>1, <1>2 DEF NoForgery, Checked, RecordAllows
<1>5. SignedGood' /\ GrantedAsSigned' /\ UnsignedIsHarmless'
  BY <1>1 DEF SignedGood, Issuable, GrantedAsSigned, UnsignedIsHarmless
<1> QED
  BY <1>3, <1>4, <1>5

LEMMA AskKeeps ==
    ASSUME ApprovalConstantsOK, ApprovalInv, NEW r \in Requests,
           r.host # None <=> r.sub = "migrate", require_approval_for_destructive(r)
    PROVE  ApprovalInv'
<1> USE DEF ApprovalInv
<1>1. UNCHANGED <<now, file, issuer, verifyKey, keySafe, allowlist, signed, edits>> /\ command = None
  BY DEF require_approval_for_destructive
<1>2. SignedGood'
  BY <1>1 DEF SignedGood, Issuable
<1>3. CASE LetThrough(r) /\ Grant(r, None, now, {}) /\ UNCHANGED verifier
  <2> DEFINE g == [sub |-> r.sub, host |-> r.host, automation |-> r.automationEnv, record |-> None,
                   at |-> now, listed |-> {}]
  <2>1. /\ r.sub \in Subcommands /\ r.host \in Hosts \cup {None} /\ r.automationEnv \in BOOLEAN
        /\ now \in 0 .. MaxTime
    BY DEF Requests, ApprovalTypeOK
  <2>2. g \in [sub : Subcommands, host : Hosts \cup {None}, automation : BOOLEAN,
               record : Records \cup {None}, at : 0..MaxTime, listed : SUBSET Keys]
    BY <2>1, Zenon
  <2>3. granted' = g
    BY <1>3 DEF Grant
  <2>4. g.record = None /\ g.sub = r.sub /\ g.automation = r.automationEnv
    BY Zenon
  <2> HIDE DEF g
  <2>5. ApprovalTypeOK'
    BY <1>1, <1>3, <2>2, <2>3 DEF ApprovalTypeOK, verifier
  <2>6. NoForgery' /\ Checked'
    BY <1>1, <1>3 DEF NoForgery, Checked, verifier
  <2>7. GrantedAsSigned'
    BY <2>3, <2>4 DEF GrantedAsSigned
  <2>8. UnsignedIsHarmless'
    BY <1>3, <2>3, <2>4, Zenon DEF UnsignedIsHarmless, LetThrough
  <2> QED
    BY <1>2, <2>5, <2>6, <2>7, <2>8
<1>4. CASE /\ NeedsRecord(r) /\ _load_approval_record(r.id)
           /\ RecordAllows(r, file[r.id].payload, now)
           /\ command' = [request |-> r, record |-> file[r.id], at |-> now]
           /\ listed' = allowlist /\ UNCHANGED <<reads, loaded, granted>>
  <2>1. r.id \in ApprovalIds
    BY <1>4 DEF NeedsRecord, Requests
  <2>2. /\ file[r.id] \in Records /\ file[r.id] # None /\ file[r.id].signature \in signed
        /\ now \in 0 .. MaxTime
    BY <1>4, <2>1 DEF _load_approval_record, ApprovalTypeOK, NoForgery
  <2>3. command' \in [request : Requests, record : Records, at : 0..MaxTime]
    BY <1>4, <2>2
  <2>4. command'.request = r /\ command'.record = file[r.id] /\ command'.at = now
    BY <1>4
  <2>5. ApprovalTypeOK'
    BY <1>1, <1>4, <2>3 DEF ApprovalTypeOK
  <2>6. NoForgery'
    BY <1>1, <2>2, <2>4 DEF NoForgery
  <2>7. Checked'
    BY <1>1, <1>4, <2>2, <2>4 DEF Checked, RecordAllows
  <2>8. GrantedAsSigned' /\ UnsignedIsHarmless'
    BY <1>1, <1>4 DEF GrantedAsSigned, UnsignedIsHarmless
  <2> QED
    BY <1>2, <2>5, <2>6, <2>7, <2>8
<1> QED
  BY <1>3, <1>4 DEF require_approval_for_destructive

\* A step of the verifier that answers nothing, or answers no.
LEMMA ReadKeeps ==
    ASSUME ApprovalConstantsOK, ApprovalInv, _verify_key_permissions \/ _load_verify_key_and_fingerprint
    PROVE  ApprovalInv'
<1> USE DEF ApprovalInv
<1>1. UNCHANGED <<now, file, issuer, verifyKey, keySafe, allowlist, signed, granted, edits>>
  BY DEF _verify_key_permissions, _load_verify_key_and_fingerprint
<1>2. /\ (command' = None /\ listed' = {}) \/ UNCHANGED <<command, listed>>
      /\ reads' \in {"permissions", "key", "allowlist"} /\ loaded' \in Keys \cup {None}
  BY DEF _verify_key_permissions, _load_verify_key_and_fingerprint, Answered, ApprovalTypeOK
<1>3. ApprovalTypeOK'
  BY <1>1, <1>2 DEF ApprovalTypeOK
<1>4. NoForgery' /\ Checked'
  BY <1>1, <1>2 DEF NoForgery, Checked, RecordAllows
<1>5. SignedGood' /\ GrantedAsSigned' /\ UnsignedIsHarmless'
  BY <1>1 DEF SignedGood, Issuable, GrantedAsSigned, UnsignedIsHarmless
<1> QED
  BY <1>3, <1>4, <1>5

LEMMA VerdictKeeps ==
    ASSUME ApprovalConstantsOK, ApprovalInv, verify_signed_approval
    PROVE  ApprovalInv'
<1> USE DEF ApprovalInv
<1>1. /\ command # None /\ command' = None
      /\ reads' = "permissions" /\ loaded' = None /\ listed' = {}
      /\ UNCHANGED <<now, file, issuer, verifyKey, keySafe, allowlist, signed, edits>>
  BY DEF verify_signed_approval, Answered
<1>2. SignedGood' /\ NoForgery' /\ Checked'
  BY <1>1 DEF SignedGood, Issuable, NoForgery, Checked
<1>3. CASE UNCHANGED granted
  BY <1>1, <1>2, <1>3 DEF ApprovalTypeOK, GrantedAsSigned, UnsignedIsHarmless
<1>4. CASE /\ loaded \in allowlist /\ SignatureVerifies(loaded, command.record)
           /\ Grant(command.request, command.record, command.at, listed)
  <2> DEFINE r == command.request
             rec == command.record
             t == command.at
  <2>1. /\ r \in Requests /\ rec \in Records /\ t \in 0 .. MaxTime
    BY <1>1 DEF ApprovalTypeOK
  <2>2. /\ RecordAllows(r, rec.payload, t) /\ rec # None /\ (r.host # None <=> r.sub = "migrate")
    BY <1>1 DEF Checked
  <2>3. rec.signature \in signed /\ rec.signature.payload = rec.payload /\ rec.signature.key \in listed
    BY <1>1, <1>4 DEF NoForgery, Checked, SignatureVerifies, _rfc8785_canonical_payload_bytes
  <2>4. granted' = [sub |-> r.sub, host |-> r.host, automation |-> r.automationEnv, record |-> rec,
                    at |-> t, listed |-> listed]
    BY <1>4 DEF Grant
  <2> HIDE DEF r, rec, t
  <2>5. r.sub \in Subcommands /\ r.host \in Hosts \cup {None} /\ r.automationEnv \in BOOLEAN
    BY <2>1 DEF Requests
  <2>6. granted' \in [sub : Subcommands, host : Hosts \cup {None}, automation : BOOLEAN,
                      record : Records \cup {None}, at : 0..MaxTime, listed : SUBSET Keys]
    BY <2>1, <2>4, <2>5, Zenon DEF ApprovalTypeOK
  <2>7. /\ granted'.sub = r.sub /\ granted'.host = r.host /\ granted'.record = rec /\ granted'.at = t
        /\ granted'.listed = listed
    BY <2>4
  <2>8. ApprovalTypeOK'
    BY <1>1, <2>6 DEF ApprovalTypeOK
  <2>9. UnsignedIsHarmless'
    BY <2>2, <2>7 DEF UnsignedIsHarmless
  <2>10. GrantedAsSigned'
    <3> DEFINE p == rec.payload
    <3>1. p \in Payloads /\ p.signedAt \in Nat /\ p.expiresAt \in Nat
      BY <2>1, PayloadParts DEF Records
    <3>2. Issuable(p) /\ \E sub \in Subcommands : p.allowed = {sub}
      BY <2>3 DEF SignedGood
    <3>3. p.expiresAt <= p.signedAt + MaxTtl
      BY <3>1, <3>2 DEF Issuable, ApprovalConstantsOK
    <3>4. p.allowed = {r.sub} /\ t < p.expiresAt
      BY <2>2, <3>2 DEF RecordAllows
    <3>5. r.sub = "migrate" => p.host = r.host
      BY <2>2 DEF RecordAllows
    <3>6. r.sub \in Claimed => p.claim[r.sub].what = "as asked"
      BY <2>2 DEF RecordAllows, _claims_match
    <3> HIDE DEF p
    <3>7. rec.signature.payload = p
      BY <2>3 DEF p
    <3> QED
      BY <1>1, <2>3, <2>7, <3>3, <3>4, <3>5, <3>6, <3>7 DEF GrantedAsSigned
  <2> QED
    BY <1>2, <2>8, <2>9, <2>10
<1> QED
  BY <1>3, <1>4 DEF verify_signed_approval

LEMMA ApprovalNextInv ==
    ApprovalConstantsOK /\ ApprovalInv /\ [ApprovalNext]_approvalVars => ApprovalInv'
<1> SUFFICES ASSUME ApprovalConstantsOK, ApprovalInv, [ApprovalNext]_approvalVars
             PROVE  ApprovalInv'
  OBVIOUS
<1>1. CASE Tick
  BY <1>1, TickKeeps
<1>2. CASE Issue
  <2>1. ASSUME NEW i \in ApprovalIds, NEW k \in Keys, NEW kind \in Kinds, NEW sub \in Subcommands,
               NEW host \in Hosts \cup {None}, NEW decider \in BOOLEAN,
               NEW ttl \in {0, MaxTtl, MaxTtl + 1}, NEW claims \in _build_claims,
               IssueOpen(i, k, cmd_approval_issue(i, kind, sub, host, decider, ttl, claims))
        PROVE  ApprovalInv'
    <3> DEFINE p == cmd_approval_issue(i, kind, sub, host, decider, ttl, claims)
    <3>1. p.allowed = {sub} /\ p.signedAt = now
      BY DEF cmd_approval_issue
    <3>2. p \in Payloads
      BY IssueTyped DEF ApprovalInv
    <3>3. IssueOpen(i, k, p)
      BY <2>1
    <3> HIDE DEF p
    <3> QED
      BY <3>1, <3>2, <3>3, OpenKeeps
  <2> QED
    BY <1>2, <2>1, CloseKeeps DEF Issue
<1>3. CASE Others
  BY <1>3, OthersKeep
<1>4. CASE Gate
  BY <1>4, AskKeeps, ReadKeeps, VerdictKeeps DEF Gate
<1>5. CASE UNCHANGED approvalVars
  <2> USE <1>5 DEF approvalVars, verifier, ApprovalInv
  <2>1. ApprovalTypeOK'
    BY DEF ApprovalTypeOK
  <2>2. SignedGood' /\ NoForgery' /\ Checked'
    BY DEF SignedGood, Issuable, NoForgery, Checked, RecordAllows
  <2>3. GrantedAsSigned' /\ UnsignedIsHarmless'
    BY DEF GrantedAsSigned, UnsignedIsHarmless
  <2> QED
    BY <2>1, <2>2, <2>3
<1> QED
  BY <1>1, <1>2, <1>3, <1>4, <1>5 DEF ApprovalNext

\* What was issued passes the gate as long as it is as it was signed.
LEMMA IssuedUsable ==
    ASSUME ApprovalConstantsOK, ApprovalInv
    PROVE  IssuedIsUsable
<1>skew. \A a, b \in Nat : a <= b => a <= b + Skew
  BY Bounds
<1> SUFFICES ASSUME NEW i \in ApprovalIds,
                    file[i] \notin {None, Torn}, file[i].signature \in signed,
                    file[i].payload = file[i].signature.payload, file[i].payload.id = i,
                    file[i].payload.decider, _parse_claims(file[i].payload),
                    now < file[i].payload.expiresAt, file[i].signature.key = verifyKey,
                    NEW sub \in file[i].payload.allowed, NEW host \in Hosts \cup {None},
                    sub = "migrate" => host = file[i].payload.host /\ host # "blank",
                    sub # "migrate" => host = None,
                    sub \in Claimed => file[i].payload.claim[sub].what = "as asked"
             PROVE  /\ _load_approval_record(i)
                    /\ RecordAllows([sub |-> sub, host |-> host], file[i].payload, now)
                    /\ SignatureVerifies(verifyKey, file[i])
  BY DEF IssuedIsUsable
<1> DEFINE p == file[i].payload
<1>1. Issuable(p) /\ p.signedAt <= now
  BY DEF ApprovalInv, SignedGood
<1>2. file[i] \in Records /\ p.signedAt \in Nat /\ p.expiresAt \in Nat /\ now \in Nat
  <2>1. file[i] \in Records /\ now \in Nat
    <3>1. file[i] \in Records
      BY DEF ApprovalInv, ApprovalTypeOK
    <3> QED
      BY <3>1, ClockTyped DEF ApprovalInv
  <2> QED
    BY <2>1, PayloadParts DEF Records
<1>3. _load_approval_record(i)
  BY Zenon DEF _load_approval_record
<1>4. SignatureVerifies(verifyKey, file[i])
  BY <1>2 DEF SignatureVerifies, _rfc8785_canonical_payload_bytes, Records, Signatures
<1>5. p.signedAt <= now + Skew /\ p.expiresAt - p.signedAt <= MaxTtl
  <2>1. p.expiresAt - p.signedAt <= MaxTtl
    BY <1>1 DEF Issuable
  <2> HIDE DEF p
  <2> QED
    BY <1>1, <1>2, <1>skew, <2>1, Zenon
<1>6. /\ p.allowed \subseteq DRILL_KIND_ALLOWED_SUBCOMMANDS[p.kind]
      /\ sub \in Claimed => p.claim[sub] # None
  BY <1>1 DEF Issuable
<1> DEFINE r == [sub |-> sub, host |-> host]
<1>7. r.sub = sub /\ r.host = host
  OBVIOUS
<1> HIDE DEF r
<1>8. RecordAllows(r, file[i].payload, now)
  BY <1>5, <1>6, <1>7 DEF RecordAllows, _claims_match
<1> QED
  BY <1>3, <1>4, <1>8 DEF r

\* Approvals, files, keys and commands keep their types.
THEOREM SignedApprovalTypes == ApprovalConstantsOK => (ApprovalSpec => []ApprovalTypeOK)
<1> SUFFICES ASSUME ApprovalConstantsOK PROVE ApprovalSpec => []ApprovalTypeOK
  OBVIOUS
<1>1. ApprovalInit => ApprovalInv
  BY ApprovalInitInv
<1>2. ApprovalInv /\ [ApprovalNext]_approvalVars => ApprovalInv'
  BY ApprovalNextInv
<1>3. ApprovalInv => ApprovalTypeOK
  BY DEF ApprovalInv
<1> QED
  BY <1>1, <1>2, <1>3, PTL DEF ApprovalSpec

\* A command that passes with a record was signed for, as it is run and in time; without
\* one only what does nothing yet passes; and what was issued can be used, whatever is
\* done to the files and the keys (taskhub_signed_approval.py).
THEOREM SignedApprovalSafety == ApprovalConstantsOK => (ApprovalSpec => []ApprovalsSound)
<1> SUFFICES ASSUME ApprovalConstantsOK PROVE ApprovalSpec => []ApprovalsSound
  OBVIOUS
<1>1. ApprovalInit => ApprovalInv
  BY ApprovalInitInv
<1>2. ApprovalInv /\ [ApprovalNext]_approvalVars => ApprovalInv'
  BY ApprovalNextInv
<1>3. ApprovalInv => ApprovalsSound
  BY IssuedUsable DEF ApprovalInv, ApprovalsSound
<1> QED
  BY <1>1, <1>2, <1>3, PTL DEF ApprovalSpec

-----------------------------------------------------------------------------
(* The write gates *)

\* A file that has forbidden writing ever since an evaluation began was found so, if it
\* was read.
Faithful(v, h) ==
    /\ v.n >= 1 /\ "fleet" \in h => v.fleet # "active"
    /\ v.n >= 2 /\ "active" \in h => v.active # "ours"
    /\ v.n >= 3 /\ "freeze" \in h => v.freeze
    /\ v.n >= 4 /\ "decommission" \in h => v.decommission
    /\ v.n >= 5 /\ "key" \in h => ~v.key

\* What has forbidden writing up to now still does.
Watched(v, h) == h \subseteq Reasons(disk) /\ Faithful(v, h)

\* A session's mark and flag are those of the transaction it is in, and a marked
\* transaction has written the stop's models only.
Clean(s) ==
    /\ doing[s] \in {"idle", "ingress"} => ~bypass[s] /\ ~dml[s] /\ pending[s] = {} /\ written[s] = {}
    /\ bypass[s] => handler[s] = "stop"
    /\ handler[s] = "stop" => pending[s] \cup written[s] \subseteq {"stop"}
    /\ written[s] # {} => dml[s]

\* Its last commit was as the gate wants it.
LastGood(s) == ("ordinary" \in last[s].models => last[s].gated) /\ last[s].held = {}

SessionsTyped ==
    /\ doing \in [Sessions -> {"idle", "ingress", "handler", "gate"}]
    /\ handler \in [Sessions -> Models]
    /\ seen \in [Sessions -> Views] /\ held \in [Sessions -> SUBSET Files]
    /\ pending \in [Sessions -> SUBSET Models] /\ written \in [Sessions -> SUBSET Models]
    /\ dml \in [Sessions -> BOOLEAN] /\ bypass \in [Sessions -> BOOLEAN]
    /\ last \in [Sessions -> [models : SUBSET Models, gated : BOOLEAN, held : SUBSET Files]]

SessionsInv ==
    SessionsTyped /\ \A s \in Sessions : Watched(seen[s], held[s]) /\ Clean(s) /\ LastGood(s)

WorkerTyped ==
    /\ worker \in {"down", "starting", "up", "dequeue"} /\ job \in 0..MaxTries
    /\ queue \in [1..MaxTries + 1 -> Nat]
    /\ jobSeen \in Views /\ jobHeld \in SUBSET Files
    /\ ran \in [done : BOOLEAN, held : SUBSET Files]
    /\ lost \in Nat /\ redisFaults \in Nat

\* Every try of a job but its first followed a failing call of Redis.
TriesPaid ==
    /\ \A n \in DOMAIN queue : queue[n] > 0 => redisFaults >= n - 1
    /\ job # 0 => redisFaults >= job - 1

\* A worker that checks a job has one.
JobAtHand == worker = "dequeue" <=> job # 0

WorkerInv ==
    /\ WorkerTyped /\ Watched(jobSeen, jobHeld) /\ TriesPaid /\ JobAtHand
    /\ ran.held = {} /\ FreezeLosesNoJob /\ JobSomewhere

\* The inductive invariant.
GateInv == disk \in Disks /\ SessionsInv /\ WorkerInv

-----------------------------------------------------------------------------
(* The evaluation *)

\* The five reads, each of one file.
LEMMA ReadsOne ==
    ASSUME NEW v \in Views
    PROVE  /\ v.n = 0 => ReadNext(v) = [v EXCEPT !.n = 1, !.fleet = disk.fleet]
           /\ v.n = 1 => ReadNext(v) = [v EXCEPT !.n = 2, !.active = disk.active]
           /\ v.n = 2 => ReadNext(v) = [v EXCEPT !.n = 3, !.freeze = disk.freeze]
           /\ v.n = 3 => ReadNext(v) = [v EXCEPT !.n = 4, !.decommission = disk.decommission]
           /\ v.n \in {4, 5} => ReadNext(v) = [v EXCEPT !.n = 5, !.key = disk.key]
           /\ v.n \in 0 .. 5
<1>1. v.n \in 0 .. 5
  BY DEF Views
<1>2. /\ ~(0 = 1) /\ ~(0 \in {2, 3}) /\ ~(1 = 0) /\ ~(1 \in {2, 3}) /\ ~(2 = 0) /\ ~(2 = 1)
      /\ ~(3 = 0) /\ ~(3 = 1) /\ ~(3 = 2) /\ ~(4 = 0) /\ ~(4 = 1) /\ ~(4 \in {2, 3})
      /\ ~(5 = 0) /\ ~(5 = 1) /\ ~(5 \in {2, 3})
  OBVIOUS
<1>3. CASE v.n = 0
  BY <1>1, <1>2, <1>3 DEF ReadNext, load_fleet_membership_from_disk
<1>4. CASE v.n = 1
  BY <1>1, <1>2, <1>4 DEF ReadNext, _load_active_marker
<1>5. CASE v.n = 2
  BY <1>1, <1>2, <1>5 DEF ReadNext, _marker_file_exists
<1>6. CASE v.n = 3
  BY <1>1, <1>2, <1>6 DEF ReadNext, _marker_file_exists
<1>7. CASE v.n \in {4, 5}
  BY <1>1, <1>2, <1>7 DEF ReadNext, public_key_resolver
<1> QED
  BY <1>1, <1>3, <1>4, <1>5, <1>6, <1>7

\* Two fields of a record are given values of their sets.
LEMMA UpdateTyped ==
    ASSUME NEW N, NEW A, NEW B, NEW C, NEW D, NEW E, NEW m \in N,
           NEW v \in [n : N, fleet : A, active : B, freeze : C, decommission : D, key : E]
    PROVE  LET R == [n : N, fleet : A, active : B, freeze : C, decommission : D, key : E]
           IN  /\ \A x \in A : [v EXCEPT !.n = m, !.fleet = x] \in R
               /\ \A x \in B : [v EXCEPT !.n = m, !.active = x] \in R
               /\ \A x \in C : [v EXCEPT !.n = m, !.freeze = x] \in R
               /\ \A x \in D : [v EXCEPT !.n = m, !.decommission = x] \in R
               /\ \A x \in E : [v EXCEPT !.n = m, !.key = x] \in R
OBVIOUS

LEMMA ReadsTyped ==
    ASSUME NEW v \in Views, disk \in Disks
    PROVE  ReadNext(v) \in Views
<1>1. /\ disk.fleet \in Fleets /\ disk.active \in Actives /\ disk.freeze \in BOOLEAN
      /\ disk.decommission \in BOOLEAN /\ disk.key \in BOOLEAN
  BY DEF Disks
<1>2. CASE v.n = 0
  <2>1. ReadNext(v) = [v EXCEPT !.n = 1, !.fleet = disk.fleet]
    BY <1>2, ReadsOne
  <2>2. \A x \in Fleets : [v EXCEPT !.n = 1, !.fleet = x] \in Views
    BY 1 \in 0 .. 5, UpdateTyped, Zenon DEF Views
  <2> QED
    BY <1>1, <2>1, <2>2
<1>3. CASE v.n = 1
  <2>1. ReadNext(v) = [v EXCEPT !.n = 2, !.active = disk.active]
    BY <1>3, ReadsOne
  <2>2. \A x \in Actives : [v EXCEPT !.n = 2, !.active = x] \in Views
    BY 2 \in 0 .. 5, UpdateTyped, Zenon DEF Views
  <2> QED
    BY <1>1, <2>1, <2>2
<1>4. CASE v.n = 2
  <2>1. ReadNext(v) = [v EXCEPT !.n = 3, !.freeze = disk.freeze]
    BY <1>4, ReadsOne
  <2>2. \A x \in BOOLEAN : [v EXCEPT !.n = 3, !.freeze = x] \in Views
    BY 3 \in 0 .. 5, UpdateTyped, Zenon DEF Views
  <2> QED
    BY <1>1, <2>1, <2>2
<1>5. CASE v.n = 3
  <2>1. ReadNext(v) = [v EXCEPT !.n = 4, !.decommission = disk.decommission]
    BY <1>5, ReadsOne
  <2>2. \A x \in BOOLEAN : [v EXCEPT !.n = 4, !.decommission = x] \in Views
    BY 4 \in 0 .. 5, UpdateTyped, Zenon DEF Views
  <2> QED
    BY <1>1, <2>1, <2>2
<1>6. CASE v.n \in {4, 5}
  <2>1. ReadNext(v) = [v EXCEPT !.n = 5, !.key = disk.key]
    BY <1>6, ReadsOne
  <2>2. \A x \in BOOLEAN : [v EXCEPT !.n = 5, !.key = x] \in Views
    BY 5 \in 0 .. 5, UpdateTyped, Zenon DEF Views
  <2> QED
    BY <1>1, <2>1, <2>2
<1>7. v.n \in 0 .. 5
  BY ReadsOne
<1> QED
  BY <1>2, <1>3, <1>4, <1>5, <1>6, <1>7

LEMMA BeginTyped == NothingSeen \in Views /\ \A d : Reasons(d) \in SUBSET Files
<1>1. NothingSeen \in Views
  BY DEF NothingSeen, Views, Fleets, Actives
<1> QED
  BY <1>1 DEF Reasons

LEMMA ReadIsFaithful ==
    ASSUME NEW v \in Views, NEW h, h \subseteq Reasons(disk), disk \in Disks, Faithful(v, h),
           evaluate_gate(v) = "reading"
    PROVE  Faithful(ReadNext(v), h)
<1>1. v.n \in 0 .. 4
  BY DEF evaluate_gate, Views
<1>2. /\ "fleet" \in h => disk.fleet # "active"
      /\ "active" \in h => disk.active # "ours"
      /\ "freeze" \in h => disk.freeze
      /\ "decommission" \in h => disk.decommission
      /\ "key" \in h => ~disk.key
  BY DEF Reasons
<1>3. CASE v.n = 0
  <2>1. ReadNext(v).n = 1 /\ ReadNext(v).fleet = disk.fleet
    BY <1>3, ReadsOne DEF Views
  <2> QED
    BY <1>2, <2>1 DEF Faithful
<1>4. CASE v.n = 1
  <2>1. ReadNext(v).n = 2 /\ ReadNext(v).fleet = v.fleet /\ ReadNext(v).active = disk.active
    BY <1>4, ReadsOne DEF Views
  <2> QED
    BY <1>2, <1>4, <2>1 DEF Faithful
<1>5. CASE v.n = 2
  <2>1. /\ ReadNext(v).n = 3 /\ ReadNext(v).fleet = v.fleet /\ ReadNext(v).active = v.active
        /\ ReadNext(v).freeze = disk.freeze
    BY <1>5, ReadsOne DEF Views
  <2> QED
    BY <1>2, <1>5, <2>1 DEF Faithful
<1>6. CASE v.n = 3
  <2>1. /\ ReadNext(v).n = 4 /\ ReadNext(v).fleet = v.fleet /\ ReadNext(v).active = v.active
        /\ ReadNext(v).freeze = v.freeze /\ ReadNext(v).decommission = disk.decommission
    BY <1>6, ReadsOne DEF Views
  <2> QED
    BY <1>2, <1>6, <2>1 DEF Faithful
<1>7. CASE v.n = 4
  <2>1. /\ ReadNext(v).n = 5 /\ ReadNext(v).fleet = v.fleet /\ ReadNext(v).active = v.active
        /\ ReadNext(v).freeze = v.freeze /\ ReadNext(v).decommission = v.decommission
        /\ ReadNext(v).key = disk.key
    <3>1. ReadNext(v) = [v EXCEPT !.n = 5, !.key = disk.key]
      BY <1>7, ReadsOne
    <3> QED
      BY <3>1 DEF Views
  <2> QED
    BY <1>2, <1>7, <2>1 DEF Faithful
<1> QED
  BY <1>1, <1>3, <1>4, <1>5, <1>6, <1>7

\* An evaluation that passes has read five files that allow writing.
LEMMA PassedMeansClear ==
    ASSUME NEW v \in Views, NEW h \in SUBSET Files, Faithful(v, h), evaluate_gate(v) = "passed"
    PROVE  h = {}
<1>1. v.n = 5 /\ ~Refuses(v)
  BY DEF evaluate_gate
<1>2. v.fleet = "active" /\ ~v.freeze /\ ~v.decommission /\ v.key /\ v.active = "ours"
  <2>1. v.active \in Actives
    BY DEF Views
  <2>2. v.active # "none" /\ v.active # "other host" /\ ~v.freeze /\ ~v.decommission
        /\ v.fleet = "active" /\ v.key /\ v.active # "bad signature"
    <3>1. v.n >= 1 /\ v.n >= 2 /\ v.n >= 4
      BY <1>1
    <3> QED
      BY <1>1, <3>1, Zenon DEF Refuses, verify_signer_host_ownership
  <2> QED
    BY <2>1, <2>2 DEF Actives
<1> QED
  BY <1>1, <1>2 DEF Faithful, Files

LEMMA NothingIsFaithful ==
    ASSUME NEW h
    PROVE  Faithful(NothingSeen, h)
BY DEF Faithful, NothingSeen

-----------------------------------------------------------------------------

LEMMA GateInitInv == GateConstantsOK /\ GateInit => GateInv
<1> SUFFICES ASSUME GateConstantsOK, GateInit PROVE GateInv
  OBVIOUS
<1> USE DEF GateInit
<1>1. NothingSeen \in Views /\ \A h : Faithful(NothingSeen, h)
  BY BeginTyped, NothingIsFaithful
<1>2. MaxTries \in Nat \ {0}
  BY DEF GateConstantsOK
<1>3. disk \in Disks
  BY DEF Disks, Fleets, Actives
<1>4. SessionsTyped
  <2>1. /\ dml \in [Sessions -> BOOLEAN] /\ bypass \in [Sessions -> BOOLEAN]
    BY Zenon
  <2>2. FALSE \in BOOLEAN
    OBVIOUS
  <2>3. last \in [Sessions -> [models : SUBSET Models, gated : BOOLEAN, held : SUBSET Files]]
    BY <2>2
  <2>4. /\ doing \in [Sessions -> {"idle", "ingress", "handler", "gate"}]
        /\ handler \in [Sessions -> Models]
        /\ seen \in [Sessions -> Views] /\ held \in [Sessions -> SUBSET Files]
        /\ pending \in [Sessions -> SUBSET Models] /\ written \in [Sessions -> SUBSET Models]
    BY <1>1 DEF Models
  <2> QED
    BY <2>1, <2>3, <2>4 DEF SessionsTyped
<1>5. SessionsInv
  BY <1>1, <1>4 DEF SessionsInv, Watched, Clean, LastGood
<1>6. WorkerTyped
  <2>1. queue \in [1..MaxTries + 1 -> Nat] /\ job \in 0 .. MaxTries
    BY <1>2
  <2>2. FALSE \in BOOLEAN
    OBVIOUS
  <2> QED
    BY <1>1, <2>1, <2>2 DEF WorkerTyped
<1>7. WorkerInv
  <2>1. 1 \in DOMAIN queue /\ queue[1] > 0
    BY <1>2
  <2>2. TriesPaid
    BY <1>2 DEF TriesPaid
  <2>3. FreezeLosesNoJob /\ JobSomewhere /\ JobAtHand
    BY <2>1 DEF FreezeLosesNoJob, JobSomewhere, JobAtHand
  <2> QED
    BY <1>1, <1>6, <2>2, <2>3 DEF WorkerInv, Watched
<1> QED
  BY <1>3, <1>5, <1>7 DEF GateInv

-----------------------------------------------------------------------------
(* Sessions *)

\* What a session does leaves the other sessions alone.
LEMMA BeginsAndReads ==
    ASSUME disk \in Disks, SessionsInv, NEW s \in Sessions,
           dispatch(s) \/ EvaluateStep(s) \/ Ingress(s), UNCHANGED disk
    PROVE  SessionsInv'
<1> USE DEF SessionsInv, SessionsTyped
<1>1. NothingSeen \in Views /\ Reasons(disk) \in SUBSET Files /\ \A h : Faithful(NothingSeen, h)
  BY BeginTyped, NothingIsFaithful
<1>2. Reasons(disk)' = Reasons(disk)
  BY DEF Reasons
<1>3. CASE dispatch(s)
  <2>1. /\ doing[s] = "idle" /\ doing'[s] \in {"ingress", "handler"}
        /\ \E m \in Models : handler' = [handler EXCEPT ![s] = m]
        /\ \/ /\ doing' = [doing EXCEPT ![s] = "ingress"]
              /\ seen' = [seen EXCEPT ![s] = NothingSeen]
              /\ held' = [held EXCEPT ![s] = Reasons(disk)]
           \/ doing' = [doing EXCEPT ![s] = "handler"] /\ UNCHANGED <<seen, held>>
        /\ UNCHANGED <<pending, written, dml, bypass, last>>
    BY <1>3 DEF dispatch, BeginCheck
  <2>2. SessionsTyped'
    <3>1. seen' \in [Sessions -> Views] /\ held' \in [Sessions -> SUBSET Files]
      <4>1. \A v \in Views : [seen EXCEPT ![s] = v] \in [Sessions -> Views]
        OBVIOUS
      <4>2. \A h \in SUBSET Files : [held EXCEPT ![s] = h] \in [Sessions -> SUBSET Files]
        OBVIOUS
      <4>3. seen \in [Sessions -> Views] /\ held \in [Sessions -> SUBSET Files]
        OBVIOUS
      <4> HIDE DEF SessionsInv, SessionsTyped
      <4> QED
        BY <1>1, <2>1, <4>1, <4>2, <4>3, Zenon
    <3>2. doing' \in [Sessions -> {"idle", "ingress", "handler", "gate"}]
      BY <2>1
    <3>3. handler' \in [Sessions -> Models]
      BY <2>1
    <3> QED
      BY <2>1, <3>1, <3>2, <3>3
  <2>3. \A t \in Sessions : Watched(seen[t], held[t])'
    BY <1>1, <1>2, <2>1 DEF Watched
  <2>4. \A t \in Sessions : Clean(t)' /\ LastGood(t)'
    BY <2>1 DEF Clean, LastGood
  <2> QED
    BY <2>2, <2>3, <2>4
<1>4. CASE EvaluateStep(s)
  <2>1. ReadNext(seen[s]) \in Views /\ Faithful(ReadNext(seen[s]), held[s])
    BY <1>4, ReadsTyped, ReadIsFaithful DEF EvaluateStep, Watched
  <2> QED
    BY <1>2, <1>4, <2>1 DEF EvaluateStep, Watched, Clean, LastGood
<1>5. CASE Ingress(s)
  BY <1>1, <1>2, <1>5 DEF Ingress, Watched, Clean, LastGood
<1> QED
  BY <1>3, <1>4, <1>5

LEMMA Works ==
    ASSUME disk \in Disks, SessionsInv, NEW s \in Sessions,
           Touch(s) \/ _on_before_flush(s) \/ _on_orm_execute(s) \/ mark_emergency_stop_bypass(s),
           UNCHANGED disk
    PROVE  SessionsInv'
<1> USE DEF SessionsInv, SessionsTyped
<1>1. Reasons(disk)' = Reasons(disk)
  BY DEF Reasons
<1>2. CASE Touch(s)
  BY <1>1, <1>2 DEF Touch, Ready, Watched, Clean, LastGood, Models
<1>3. CASE _on_before_flush(s)
  BY <1>1, <1>3 DEF _on_before_flush, Watched, Clean, LastGood, Models
<1>4. CASE _on_orm_execute(s)
  BY <1>1, <1>4 DEF _on_orm_execute, Ready, Watched, Clean, LastGood, Models
<1>5. CASE mark_emergency_stop_bypass(s)
  BY <1>1, <1>5 DEF mark_emergency_stop_bypass, Watched, Clean, LastGood, Models
<1> QED
  BY <1>2, <1>3, <1>4, <1>5

\* A transaction that ends leaves neither its mark nor its flag to the next.
LEMMA Ends ==
    ASSUME disk \in Disks, SessionsInv, NEW s \in Sessions, UNCHANGED <<disk, handler>>,
           \/ TransactionRolledBack(s)
           \/ \E g \in BOOLEAN :
                 /\ Committed(s, g)
                 /\ ~g => "ordinary" \notin pending[s] \cup written[s]
                 /\ g => held[s] = {}
    PROVE  SessionsInv'
<1> USE DEF SessionsInv, SessionsTyped
<1>1. NothingSeen \in Views /\ \A h : Faithful(NothingSeen, h)
  BY BeginTyped, NothingIsFaithful
<1>2. Reasons(disk)' = Reasons(disk)
  BY DEF Reasons
<1>3. CASE TransactionRolledBack(s)
  BY <1>1, <1>2, <1>3 DEF TransactionRolledBack, _on_after_commit_or_rollback, EndTransaction,
     Watched, Clean, LastGood
<1>4. ASSUME NEW g \in BOOLEAN, Committed(s, g),
             ~g => "ordinary" \notin pending[s] \cup written[s], g => held[s] = {}
      PROVE  SessionsInv'
  <2> DEFINE c == [models |-> pending[s] \cup written[s], gated |-> g,
                   held |-> IF g THEN held[s] ELSE {}]
  <2>1. c \in [models : SUBSET Models, gated : BOOLEAN, held : SUBSET Files]
    <3>1. (IF g THEN held[s] ELSE {}) \in SUBSET Files /\ pending[s] \cup written[s] \in SUBSET Models
      OBVIOUS
    <3> QED
      BY <1>4, <3>1, Zenon
  <2>2. c.held = {} /\ ("ordinary" \in c.models => c.gated)
    BY <1>4, Zenon
  <2>3. /\ last' = [last EXCEPT ![s] = c]
        /\ _on_after_commit_or_rollback(s) /\ EndTransaction(s)
    BY <1>4 DEF Committed
  <2> HIDE DEF c
  <2> QED
    BY <1>1, <1>2, <2>1, <2>2, <2>3 DEF _on_after_commit_or_rollback, EndTransaction,
       Watched, Clean, LastGood
<1> QED
  BY <1>3, <1>4

LEMMA CommitStep ==
    ASSUME disk \in Disks, SessionsInv, NEW s \in Sessions,
           _on_before_commit(s) \/ GateVerdict(s) \/ Abandon(s), UNCHANGED disk
    PROVE  SessionsInv'
<1>1. CASE Abandon(s)
  BY <1>1, Ends DEF Abandon
<1>2. CASE GateVerdict(s)
  <2>1. CASE evaluate_gate(seen[s]) = "passed"
    <3>1. held[s] = {}
      BY <2>1, PassedMeansClear DEF SessionsInv, SessionsTyped, Watched
    <3>2. Committed(s, TRUE) /\ UNCHANGED handler
      BY <1>2, <2>1 DEF GateVerdict
    <3> QED
      BY <3>1, <3>2, Ends
  <2>2. CASE evaluate_gate(seen[s]) # "passed"
    BY <1>2, <2>2, Ends DEF GateVerdict
  <2> QED
    BY <2>1, <2>2
<1>3. CASE _on_before_commit(s)
  <2>1. UNCHANGED handler /\ doing[s] = "handler"
    BY <1>3 DEF _on_before_commit
  <2>2. Clean(s)
    BY DEF SessionsInv
  <2>3. CASE bypass[s] /\ pending[s] \subseteq {"stop"}
    <3>1. Committed(s, FALSE)
      BY <1>3, <2>3 DEF _on_before_commit
    <3>2. "ordinary" \notin pending[s] \cup written[s]
      BY <2>2, <2>3 DEF Clean
    <3> QED
      BY <2>1, <3>1, <3>2, Ends
  <2>4. CASE bypass[s] /\ ~(pending[s] \subseteq {"stop"})
    BY <1>3, <2>1, <2>4, Ends DEF _on_before_commit
  <2>5. CASE ~bypass[s] /\ ~_session_has_mutations(s)
    <3>1. Committed(s, FALSE)
      BY <1>3, <2>5 DEF _on_before_commit
    <3>2. "ordinary" \notin pending[s] \cup written[s]
      BY <2>2, <2>5 DEF Clean, _session_has_mutations
    <3> QED
      BY <2>1, <3>1, <3>2, Ends
  <2>6. CASE ~bypass[s] /\ _session_has_mutations(s)
    <3>1. BeginCheck(s, "gate") /\ UNCHANGED <<pending, written, dml, bypass, last, commits>>
      BY <1>3, <2>6 DEF _on_before_commit
    <3>2. NothingSeen \in Views /\ Reasons(disk) \in SUBSET Files /\ \A h : Faithful(NothingSeen, h)
      BY BeginTyped, NothingIsFaithful
    <3>3. Reasons(disk)' = Reasons(disk)
      BY DEF Reasons
    <3> QED
      BY <2>1, <3>1, <3>2, <3>3 DEF SessionsInv, SessionsTyped, BeginCheck, Watched, Clean, LastGood
  <2> QED
    BY <2>3, <2>4, <2>5, <2>6
<1> QED
  BY <1>1, <1>2, <1>3

-----------------------------------------------------------------------------
(* The worker *)

LEMMA WorkerChecks ==
    ASSUME disk \in Disks, WorkerInv, UNCHANGED disk,
           configure_worker_gate_from_settings \/ WorkerRead \/ verify_worker_startup
    PROVE  WorkerInv'
<1> USE DEF WorkerInv, WorkerTyped
<1>1. NothingSeen \in Views /\ Reasons(disk) \in SUBSET Files /\ \A h : Faithful(NothingSeen, h)
  BY BeginTyped, NothingIsFaithful
<1>2. Reasons(disk)' = Reasons(disk)
  BY DEF Reasons
<1>3. UNCHANGED <<queue, job, ran, lost, redisFaults>>
  BY DEF configure_worker_gate_from_settings, WorkerRead, verify_worker_startup
<1>4. TriesPaid' /\ FreezeLosesNoJob' /\ JobSomewhere' /\ ran'.held = {}
  BY <1>3 DEF TriesPaid, FreezeLosesNoJob, JobSomewhere
<1>5. CASE configure_worker_gate_from_settings
  <2>1. /\ worker = "down" /\ worker' = "starting" /\ jobSeen' = NothingSeen
        /\ jobHeld' = Reasons(disk)
    BY <1>5 DEF configure_worker_gate_from_settings, StartCheck
  <2> QED
    BY <1>1, <1>2, <1>3, <1>4, <2>1 DEF Watched, JobAtHand
<1>6. CASE WorkerRead
  <2>1. ReadNext(jobSeen) \in Views /\ Faithful(ReadNext(jobSeen), jobHeld)
    BY <1>6, ReadsTyped, ReadIsFaithful DEF WorkerRead, Watched
  <2> QED
    BY <1>2, <1>3, <1>4, <1>6, <2>1 DEF WorkerRead, Watched, JobAtHand
<1>7. CASE verify_worker_startup
  BY <1>1, <1>2, <1>3, <1>4, <1>7 DEF verify_worker_startup, EndCheck, Watched, JobAtHand
<1> QED
  BY <1>5, <1>6, <1>7

LEMMA DequeueStep ==
    ASSUME GateConstantsOK, disk \in Disks, WorkerInv, UNCHANGED disk, Dequeue
    PROVE  WorkerInv'
<1> USE DEF WorkerInv, WorkerTyped
<1>1. NothingSeen \in Views /\ Reasons(disk) \in SUBSET Files /\ \A h : Faithful(NothingSeen, h)
  BY BeginTyped, NothingIsFaithful
<1>2. Reasons(disk)' = Reasons(disk)
  BY DEF Reasons
<1>3. MaxTries \in Nat \ {0} /\ worker = "up" /\ job = 0 /\ UNCHANGED <<ran, redisFaults>>
  BY DEF GateConstantsOK, Dequeue, JobAtHand
<1>4. PICK n \in DOMAIN queue :
          /\ queue[n] > 0 /\ queue' = [queue EXCEPT ![n] = @ - 1]
          /\ IF n > MaxTries
             THEN lost' = lost + 1 /\ UNCHANGED <<worker, job, jobSeen, jobHeld>>
             ELSE job' = n /\ StartCheck("dequeue") /\ UNCHANGED lost
  BY DEF Dequeue
<1>5. /\ n \in 1 .. MaxTries + 1 /\ queue' \in [1..MaxTries + 1 -> Nat]
      /\ \A m \in DOMAIN queue' : queue'[m] > 0 => queue[m] > 0 /\ m \in DOMAIN queue
  BY <1>4
<1>6. redisFaults >= n - 1
  BY <1>4 DEF TriesPaid
<1>7. CASE n > MaxTries
  <2>1. TriesPaid'
    BY <1>3, <1>4, <1>5, <1>7 DEF TriesPaid
  <2>2. FreezeLosesNoJob' /\ JobSomewhere'
    BY <1>3, <1>4, <1>5, <1>6, <1>7 DEF FreezeLosesNoJob, JobSomewhere
  <2> QED
    BY <1>2, <1>3, <1>4, <1>5, <1>7, <2>1, <2>2 DEF Watched, JobAtHand
<1>8. CASE ~(n > MaxTries)
  <2>1. /\ job' = n /\ n \in 1 .. MaxTries /\ lost' = lost /\ worker' = "dequeue"
        /\ jobSeen' = NothingSeen /\ jobHeld' = Reasons(disk)
    BY <1>3, <1>4, <1>5, <1>8 DEF StartCheck
  <2>2. TriesPaid'
    BY <1>3, <1>5, <1>6, <2>1 DEF TriesPaid
  <2>3. FreezeLosesNoJob' /\ JobSomewhere' /\ JobAtHand'
    BY <1>3, <2>1 DEF FreezeLosesNoJob, JobSomewhere, JobAtHand
  <2> QED
    BY <1>1, <1>2, <1>3, <1>5, <2>1, <2>2, <2>3 DEF Watched
<1> QED
  BY <1>7, <1>8

LEMMA GatedJob ==
    ASSUME GateConstantsOK, disk \in Disks, WorkerInv, UNCHANGED disk, with_active_registry_gate
    PROVE  WorkerInv'
<1> USE DEF WorkerInv, WorkerTyped
<1>1. NothingSeen \in Views /\ \A h : Faithful(NothingSeen, h)
  BY BeginTyped, NothingIsFaithful
<1>2. MaxTries \in Nat \ {0} /\ job \in 1 .. MaxTries
  BY DEF GateConstantsOK, with_active_registry_gate, JobAtHand
<1>3. /\ worker' = "up" /\ job' = 0 /\ jobSeen' = NothingSeen /\ jobHeld' = {}
      /\ lost' = lost
  BY DEF with_active_registry_gate, EndCheck
<1>4. Watched(jobSeen, jobHeld)' /\ JobAtHand'
  BY <1>1, <1>3 DEF Watched, JobAtHand
<1>5. ASSUME ran' \in [done : BOOLEAN, held : SUBSET Files], queue' \in [1..MaxTries + 1 -> Nat],
             redisFaults' \in Nat
      PROVE  WorkerTyped'
  BY <1>1, <1>2, <1>3, <1>5
<1>6. CASE evaluate_gate(jobSeen) = "passed"
  <2>1. jobHeld = {}
    BY <1>6, PassedMeansClear DEF Watched
  <2>2. ran' = [done |-> TRUE, held |-> jobHeld] /\ UNCHANGED <<queue, redisFaults>>
    BY <1>6 DEF with_active_registry_gate
  <2>3. TRUE \in BOOLEAN
    OBVIOUS
  <2>4. ran' \in [done : BOOLEAN, held : SUBSET Files] /\ ran'.held = {} /\ ran'.done
    BY <2>1, <2>2, <2>3
  <2>5. TriesPaid' /\ FreezeLosesNoJob' /\ JobSomewhere'
    BY <1>3, <2>2, <2>4 DEF TriesPaid, FreezeLosesNoJob, JobSomewhere
  <2> QED
    BY <1>4, <1>5, <2>2, <2>4, <2>5
<1>7. CASE evaluate_gate(jobSeen) # "passed"
  <2>1. /\ ran' = ran
        /\ \/ Put(1) /\ redisFaults' = redisFaults
           \/ /\ redisFaults' = redisFaults + 1
              /\ \/ Put(job + 1)
                 \/ queue' = [n \in DOMAIN queue |->
                      queue[n] + (IF n = 1 THEN 1 ELSE 0) + (IF n = job + 1 THEN 1 ELSE 0)]
    BY <1>7 DEF with_active_registry_gate
  <2>2. /\ queue' \in [1..MaxTries + 1 -> Nat] /\ redisFaults' \in Nat /\ redisFaults' >= redisFaults
        /\ \A n \in DOMAIN queue' : queue'[n] > 0 =>
              queue[n] > 0 \/ n = 1 \/ (n = job + 1 /\ redisFaults' = redisFaults + 1)
        /\ queue'[1] > 0 \/ queue'[job + 1] > 0
    <3>1. queue \in [1..MaxTries + 1 -> Nat] /\ redisFaults \in Nat /\ job + 1 \in 2 .. MaxTries + 1
      BY <1>2
    <3>2. CASE Put(1) /\ redisFaults' = redisFaults
      BY <1>2, <3>1, <3>2 DEF Put
    <3>3. CASE Put(job + 1) /\ redisFaults' = redisFaults + 1
      BY <1>2, <3>1, <3>3 DEF Put
    <3>4. CASE /\ redisFaults' = redisFaults + 1
               /\ queue' = [n \in DOMAIN queue |->
                    queue[n] + (IF n = 1 THEN 1 ELSE 0) + (IF n = job + 1 THEN 1 ELSE 0)]
      BY <1>2, <3>1, <3>4
    <3> QED
      BY <2>1, <3>2, <3>3, <3>4
  <2>3. TriesPaid'
    <3>1. /\ \A n \in 1 .. MaxTries + 1 : queue[n] > 0 => redisFaults >= n - 1
          /\ redisFaults >= job - 1 /\ redisFaults \in Nat
      BY <1>2 DEF TriesPaid
    <3>2. DOMAIN queue' = 1 .. MaxTries + 1 /\ MaxTries \in Nat
      BY <1>2, <2>2
    <3>3. ASSUME NEW n \in 1 .. MaxTries + 1, queue'[n] > 0 PROVE redisFaults' >= n - 1
      <4>1. queue[n] > 0 \/ n = 1 \/ (n = job + 1 /\ redisFaults' = redisFaults + 1)
        BY <2>2, <3>2, <3>3
      <4> QED
        BY <1>2, <2>2, <3>1, <4>1
    <3> QED
      BY <1>3, <3>2, <3>3 DEF TriesPaid
  <2>4. FreezeLosesNoJob' /\ JobSomewhere'
    BY <1>2, <1>3, <2>2 DEF FreezeLosesNoJob, JobSomewhere
  <2> QED
    BY <1>4, <1>5, <2>1, <2>2, <2>3, <2>4
<1> QED
  BY <1>6, <1>7

-----------------------------------------------------------------------------

\* An operator's change ends what it ends; what still forbids writing did so before.
LEMMA DiskChanges ==
    ASSUME GateInv, ChangeDisk
    PROVE  GateInv'
<1>1. disk' \in Disks
  <2>1. \A b \in BOOLEAN : (~b) \in BOOLEAN
    BY Zenon
  <2>2. /\ \A f \in Fleets : [disk EXCEPT !.fleet = f] \in Disks
        /\ \A a \in Actives : [disk EXCEPT !.active = a] \in Disks
    BY DEF GateInv, Disks
  <2>3. \A b \in BOOLEAN : /\ [disk EXCEPT !.freeze = b] \in Disks
                           /\ [disk EXCEPT !.decommission = b] \in Disks
                           /\ [disk EXCEPT !.key = b] \in Disks
    BY DEF GateInv, Disks
  <2>4. disk.freeze \in BOOLEAN /\ disk.decommission \in BOOLEAN /\ disk.key \in BOOLEAN
    BY DEF GateInv, Disks
  <2>5. \/ \E f \in Fleets : disk' = [disk EXCEPT !.fleet = f]
        \/ \E a \in Actives : disk' = [disk EXCEPT !.active = a]
        \/ \E b \in BOOLEAN : \/ disk' = [disk EXCEPT !.freeze = b]
                              \/ disk' = [disk EXCEPT !.decommission = b]
                              \/ disk' = [disk EXCEPT !.key = b]
    BY <2>1, <2>4, Zenon DEF ChangeDisk
  <2> QED
    BY <2>2, <2>3, <2>5
<1>2. /\ held' = [s \in Sessions |-> held[s] \cap Reasons(disk')]
      /\ jobHeld' = jobHeld \cap Reasons(disk')
      /\ UNCHANGED <<doing, handler, seen, pending, written, dml, bypass, last, commits,
                     worker, queue, job, jobSeen, ran, lost, starts, redisFaults>>
  BY DEF ChangeDisk
<1>3. Reasons(disk)' = Reasons(disk')
  BY DEF Reasons
<1>4. ASSUME NEW v, NEW h, NEW k, k \subseteq h, Faithful(v, h) PROVE Faithful(v, k)
  BY <1>4 DEF Faithful
<1>5. SessionsInv'
  <2>1. ASSUME NEW s \in Sessions PROVE Watched(seen[s], held[s])'
    BY <1>2, <1>3, <1>4 DEF GateInv, SessionsInv, Watched
  <2>2. ASSUME NEW s \in Sessions PROVE Clean(s)' /\ LastGood(s)'
    BY <1>2 DEF GateInv, SessionsInv, Clean, LastGood
  <2>3. SessionsTyped'
    BY <1>2 DEF GateInv, SessionsInv, SessionsTyped
  <2> QED
    BY <2>1, <2>2, <2>3 DEF SessionsInv
<1>6. WorkerInv'
  <2>1. Watched(jobSeen, jobHeld)'
    BY <1>2, <1>3, <1>4 DEF GateInv, WorkerInv, Watched
  <2>2. WorkerTyped'
    BY <1>2 DEF GateInv, WorkerInv, WorkerTyped
  <2>3. /\ TriesPaid' /\ JobAtHand' /\ ran'.held = {} /\ FreezeLosesNoJob' /\ JobSomewhere'
    BY <1>2 DEF GateInv, WorkerInv, TriesPaid, JobAtHand, FreezeLosesNoJob, JobSomewhere
  <2> QED
    BY <2>1, <2>2, <2>3 DEF WorkerInv
<1> QED
  BY <1>1, <1>5, <1>6 DEF GateInv

LEMMA GateNextInv == GateConstantsOK /\ GateInv /\ [GateNext]_gateVars => GateInv'
<1> SUFFICES ASSUME GateConstantsOK, GateInv, [GateNext]_gateVars PROVE GateInv'
  OBVIOUS
<1>1. ASSUME UNCHANGED <<diskVars, sessionVars>> PROVE SessionsInv'
  BY <1>1 DEF GateInv, SessionsInv, SessionsTyped, Watched, Clean, LastGood, diskVars, sessionVars,
     Reasons
<1>2. ASSUME UNCHANGED <<diskVars, workerVars>> PROVE WorkerInv'
  BY <1>2 DEF GateInv, WorkerInv, WorkerTyped, Watched, TriesPaid, JobAtHand, FreezeLosesNoJob,
     JobSomewhere, diskVars, workerVars, Reasons
<1>3. CASE ChangeDisk
  BY <1>3, DiskChanges
<1>4. CASE SessionNext
  <2>1. UNCHANGED <<diskVars, workerVars>> /\ disk' = disk
    BY <1>4 DEF SessionNext, diskVars
  <2>2. PICK s \in Sessions :
          \/ dispatch(s) \/ EvaluateStep(s) \/ Ingress(s) \/ Touch(s) \/ _on_before_flush(s)
          \/ _on_orm_execute(s) \/ mark_emergency_stop_bypass(s) \/ _on_before_commit(s)
          \/ GateVerdict(s) \/ Abandon(s)
    BY <1>4 DEF SessionNext
  <2>3. SessionsInv'
    BY <2>1, <2>2, BeginsAndReads, Works, CommitStep DEF GateInv
  <2> QED
    BY <1>2, <2>1, <2>3 DEF GateInv
<1>5. CASE WorkerNext
  <2>1. UNCHANGED <<diskVars, sessionVars>> /\ disk' = disk
    BY <1>5 DEF WorkerNext, diskVars
  <2>2. WorkerInv'
    BY <1>5, <2>1, WorkerChecks, DequeueStep, GatedJob DEF WorkerNext, GateInv
  <2> QED
    BY <1>1, <2>1, <2>2 DEF GateInv
<1>6. CASE UNCHANGED gateVars
  <2>1. UNCHANGED <<diskVars, sessionVars>> /\ UNCHANGED <<diskVars, workerVars>> /\ disk' = disk
    BY <1>6 DEF gateVars, diskVars
  <2> QED
    BY <1>1, <1>2, <2>1 DEF GateInv
<1> QED
  BY <1>3, <1>4, <1>5, <1>6 DEF GateNext

\* Sessions, worker and the configuration directory keep their types.
THEOREM GateTypes == GateConstantsOK => (GateSpec => []GateTypeOK)
<1> SUFFICES ASSUME GateConstantsOK PROVE GateSpec => []GateTypeOK
  OBVIOUS
<1>1. GateInit => GateInv
  BY GateInitInv
<1>2. GateInv /\ [GateNext]_gateVars => GateInv'
  BY GateNextInv
<1>3. GateInv => GateTypeOK
  BY DEF GateInv, SessionsInv, SessionsTyped, WorkerInv, WorkerTyped, GateTypeOK
<1> QED
  BY <1>1, <1>2, <1>3, PTL DEF GateSpec

\* A host that may not write commits nothing but the stop's own rows and starts no job,
\* however its files change between the reads of the gate, and a freeze loses no job
\* (active_registry_mutation_gate.py, active_registry_worker_gate.py).
THEOREM GateSafety == GateConstantsOK => (GateSpec => []WritesGated)
<1> SUFFICES ASSUME GateConstantsOK PROVE GateSpec => []WritesGated
  OBVIOUS
<1>1. GateInit => GateInv
  BY GateInitInv
<1>2. GateInv /\ [GateNext]_gateVars => GateInv'
  BY GateNextInv
<1>3. GateInv => WritesGated
  BY DEF GateInv, SessionsInv, LastGood, WorkerInv, WritesGated, OrdinaryIsGated, NothingOverlooked
<1> QED
  BY <1>1, <1>2, <1>3, PTL DEF GateSpec
=============================================================================
