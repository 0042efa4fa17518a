---------------------------- MODULE MCOrderJournal ----------------------------
(***************************************************************************)
(* OrderJournal under a client that appends entries numbered 1, 2, 3, ...  *)
(* (in the leg field), with failing writes, crashes and clean shutdowns.   *)
(***************************************************************************)
EXTENDS OrderJournal

CONSTANTS
    MaxEntries,    \* bound on the entries appended
    MaxRestarts    \* bound on crashes and shutdowns together

ASSUME ClientAssumption == MaxEntries \in Nat /\ MaxRestarts \in Nat

VARIABLES
    count,         \* entries appended since the file was created
    first,         \* number of the first entry of this session
    orphaned,      \* the file ended with an orphan when the session began
    up,            \* the log is open
    restarts

mcVars == <<journalVars, count, first, orphaned, up, restarts>>

MCInit ==
    /\ JournalInit
    /\ count = 0
    /\ first = 1
    /\ orphaned = FALSE
    /\ up = TRUE
    /\ restarts = 0

Write ==
    /\ up /\ count < MaxEntries
    /\ \E id \in Ids : AppendEntry(Fill(id, count + 1))
    /\ count' = count + 1
    /\ UNCHANGED <<first, orphaned, up, restarts>>

GoDown ==
    /\ up /\ restarts < MaxRestarts
    /\ up' = FALSE
    /\ restarts' = restarts + 1
    /\ UNCHANGED <<count, first, orphaned>>

Crash == GoDown /\ LoseBuffer

Shutdown == GoDown /\ DropLog

Reopen ==
    /\ ~up
    /\ Open
    /\ up' = TRUE
    /\ first' = count + 1
    /\ orphaned' = (piece = "orphan")
    /\ UNCHANGED <<count, restarts>>

MCNext == Write \/ Crash \/ Shutdown \/ Reopen

MCSpec == MCInit /\ [][MCNext]_mcVars

Entries == [kind : {"Fill"}, id : Ids, leg : 1 .. count]

JournalTypeOK ==
    /\ entries \in Seq(Entries) /\ unwritten \in Seq(Entries)
    /\ disk \in Seq(Entries \cup {Malformed})
    /\ piece \in Pieces
    /\ count \in 0 .. MaxEntries /\ restarts \in 0 .. MaxRestarts
    /\ first \in 1 .. count + 1
    /\ orphaned \in BOOLEAN /\ up \in BOOLEAN
    /\ (piece = "head") => unwritten # <<>>
    /\ ~up => (entries = <<>> /\ unwritten = <<>>)

Readable == ReadAll(disk)

\* Failed flushes, crashes and restarts never reorder or duplicate entries:
\* the readable lines of the file carry increasing numbers.
ReadableInOrder ==
    \A i, j \in DOMAIN Readable : i < j => Readable[i].leg < Readable[j].leg

\* A flush that succeeds makes up for the failed ones before it: once nothing
\* is left in the BufWriter every entry of the session is readable, except
\* the first one when it was glued to an orphan.
FlushHeals ==
    (up /\ unwritten = <<>>) =>
        \A n \in first .. count :
            \/ \E i \in DOMAIN Readable : Readable[i].leg = n
            \/ orphaned /\ n = first

===============================================================================
