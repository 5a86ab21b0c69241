----------------------------- MODULE EpochJournal -----------------------------
(***************************************************************************)
(* Migration epochs: allocate_next_epoch of scripts/taskhub_active_registry *)
(* .py.  Under an flock a process reads the counter file and the last      *)
(* valid line of the journal, appends a signed line for the next epoch and *)
(* replaces the counter file.  It may die, or its disk fill up, between    *)
(* any two of these and in the middle of the line it appends.              *)
(***************************************************************************)
EXTENDS Naturals, Sequences

CONSTANTS
    Writers,    \* processes that allocate
    NoWriter,
    MaxEpoch,   \* bound on epochs
    MaxDeaths   \* bound on allocations that do not finish

EpochConstantsOK == NoWriter \notin Writers /\ MaxEpoch \in Nat /\ MaxDeaths \in Nat

VARIABLES
    counter,  \* epoch in the counter file, 0 when there is none
    journal,  \* lines: [epoch, prev, valid]; a line that holds two is not valid
    torn,     \* the journal ends in a part of a line
    lock,     \* holder of the flock
    at,       \* writer -> "idle", "append", "count", "return"
    entry,    \* writer -> the line it writes
    issued,   \* history: epochs in the order allocate_next_epoch returned them
    blind,    \* history: the counter was lost while a line of the journal was unreadable
    deaths

epochVars == <<counter, journal, torn, lock, at, entry, issued, blind, deaths>>

Epochs == 0..MaxEpoch
NoEntry == [epoch |-> 0, prev |-> 0, valid |-> TRUE]
Lines == [epoch : Epochs, prev : Epochs, valid : BOOLEAN]

EpochTypeOK ==
    /\ counter \in Epochs /\ torn \in BOOLEAN
    /\ journal \in Seq(Lines) /\ issued \in Seq(Epochs)
    /\ lock \in Writers \cup {NoWriter}
    /\ at \in [Writers -> {"idle", "append", "count", "return"}]
    /\ entry \in [Writers -> Lines]
    /\ blind \in BOOLEAN /\ deaths \in Nat

EpochInit ==
    /\ counter = 0 /\ journal = <<>> /\ torn = FALSE /\ lock = NoWriter
    /\ at = [w \in Writers |-> "idle"] /\ entry = [w \in Writers |-> NoEntry]
    /\ issued = <<>> /\ blind = FALSE /\ deaths = 0

-----------------------------------------------------------------------------

\* The lines that parse, have every field and verify.
ValidAt == {i \in DOMAIN journal : journal[i].valid}

\* The last of some lines; NoEntry stands for none.
LastOf(S) == IF S = {} THEN NoEntry ELSE journal[CHOOSE i \in S : \A j \in S : j <= i]

\* The scan from the end skips lines that are not valid, however many they are.
_find_valid_journal_tail_entry == LastOf(ValidAt)

NextEpoch(tail) == (IF counter > tail.epoch THEN counter ELSE tail.epoch) + 1

AcquireAndRead_Unlocked(w) ==
    /\ at[w] = "idle"
    /\ LET tail == _find_valid_journal_tail_entry IN
         /\ NextEpoch(tail) <= MaxEpoch
         /\ entry' = [entry EXCEPT ![w] = [epoch |-> NextEpoch(tail), prev |-> tail.epoch,
                                           valid |-> TRUE]]
    /\ lock' = w
    /\ at' = [at EXCEPT ![w] = "append"]
    /\ UNCHANGED <<counter, journal, torn, issued, blind, deaths>>

\* A process that finds the lock taken gives up (LOCK_NB), and so does one that
\* finds a journal without a valid line.
AcquireAndRead(w) ==
    /\ at[w] = "idle" /\ lock = NoWriter
    /\ journal # <<>> \/ torn => ValidAt # {}
    /\ LET tail == _find_valid_journal_tail_entry IN
         /\ NextEpoch(tail) <= MaxEpoch
         /\ entry' = [entry EXCEPT ![w] = [epoch |-> NextEpoch(tail), prev |-> tail.epoch,
                                           valid |-> TRUE]]
    /\ lock' = w
    /\ at' = [at EXCEPT ![w] = "append"]
    /\ UNCHANGED <<counter, journal, torn, issued, blind, deaths>>

\* O_APPEND and fsync: after a torn line the text joins it, and the joined line
\* parses as nothing.
AppendEntry(w) ==
    /\ at[w] = "append"
    /\ journal' = Append(journal, [entry[w] EXCEPT !.valid = ~torn])
    /\ torn' = FALSE
    /\ at' = [at EXCEPT ![w] = "count"]
    /\ UNCHANGED <<counter, lock, entry, issued, blind, deaths>>

\* A temporary file renamed over the counter.
WriteCounter(w) ==
    /\ at[w] = "count"
    /\ counter' = entry[w].epoch
    /\ at' = [at EXCEPT ![w] = "return"]
    /\ UNCHANGED <<journal, torn, lock, entry, issued, blind, deaths>>

Return(w) ==
    /\ at[w] = "return"
    /\ issued' = Append(issued, entry[w].epoch)
    /\ lock' = IF lock = w THEN NoWriter ELSE lock
    /\ at' = [at EXCEPT ![w] = "idle"] /\ entry' = [entry EXCEPT ![w] = NoEntry]
    /\ UNCHANGED <<counter, journal, torn, blind, deaths>>

allocate_next_epoch(w) == AcquireAndRead(w) \/ AppendEntry(w) \/ WriteCounter(w) \/ Return(w)

\* The process dies or the disk is full: the flock goes with its descriptor, and
\* an append may have left the beginning of its line.
AllocationDies(w) ==
    /\ at[w] # "idle" /\ deaths < MaxDeaths
    /\ deaths' = deaths + 1
    /\ torn' \in (IF at[w] = "append" THEN {torn, TRUE} ELSE {torn})
    /\ lock' = IF lock = w THEN NoWriter ELSE lock
    /\ at' = [at EXCEPT ![w] = "idle"] /\ entry' = [entry EXCEPT ![w] = NoEntry]
    /\ UNCHANGED <<counter, journal, issued, blind>>

\* The counter file is lost; the code then goes by the journal alone.
LoseCounter ==
    /\ counter # 0 /\ deaths < MaxDeaths /\ lock = NoWriter
    /\ counter' = 0 /\ deaths' = deaths + 1
    /\ blind' = (blind \/ \E i \in DOMAIN journal : ~journal[i].valid)
    /\ UNCHANGED <<journal, torn, lock, at, entry, issued>>

EpochNext ==
    \/ \E w \in Writers : allocate_next_epoch(w) \/ AllocationDies(w)
    \/ LoseCounter

EpochSpec == EpochInit /\ [][EpochNext]_epochVars

-----------------------------------------------------------------------------
(* Properties *)

\* No epoch is handed out twice or after a larger one, whoever died where.  (One
\* whose line is joined to a torn one is known to the counter file only: it is
\* handed out again when that file is lost then.)
IssuedIncrease == blind \/ \A i, j \in DOMAIN issued : i < j => issued[i] < issued[j]

\* The lines a reader can verify are one chain: each names the one before it, and
\* the epochs on them increase.
JournalIsChain ==
    \A i \in ValidAt :
        LET before == LastOf({j \in ValidAt : j < i}).epoch IN
        journal[i].prev = before /\ before < journal[i].epoch

\* A returned epoch is on a line of the journal, though maybe on a joined one.
IssuedIsJournaled ==
    \A i \in DOMAIN issued : \E j \in DOMAIN journal : journal[j].epoch = issued[i]

\* Epochs increase, on a journal that verifies, whoever died where
\* (allocate_next_epoch).
EpochsSound == IssuedIncrease /\ JournalIsChain /\ IssuedIsJournaled
=============================================================================
