----------------------------- MODULE OrderJournal -----------------------------
(***************************************************************************)
(* The FileOrderLog of ta-exec/src/journal.rs: an in-memory list of        *)
(* entries and a JSONL file behind a BufWriter.  append() pushes to the    *)
(* list whatever happens to the file, because it ignores the errors of     *)
(* writeln! and flush().                                                   *)
(*                                                                         *)
(* A flush writes the buffered lines in order.  One that fails (IoFaults)  *)
(* may have written some of them, and a piece of the next; the rest stays  *)
(* in the BufWriter and the next flush starts with it.  A crash loses what *)
(* the BufWriter holds, so the piece becomes an orphan: the file is opened *)
(* in append mode and the next line is glued to it, which makes a line     *)
(* that read_all skips.                                                    *)
(*                                                                         *)
(* Abstracted: the JSON text (a line is its entry or Malformed; a piece of *)
(* a line stops inside the JSON), the timestamps, the 8 KiB limit of the   *)
(* BufWriter, and a loss of the operating system's cache (no fsync).       *)
(***************************************************************************)
EXTENDS Integers, Sequences

CONSTANTS
    Ids,
    IoFaults     \* whether writes to the file may fail

VARIABLES
    entries,     \* FileOrderLog::entries
    disk,        \* the lines of the file
    piece,       \* what follows the last newline of the file
    unwritten    \* the lines whose newline is still in the BufWriter

journalVars == <<entries, disk, piece, unwritten>>

Malformed == [kind |-> "Malformed"]
Intent(id, sym, side) == [kind |-> "Intent", id |-> id, symbol |-> sym, side |-> side]
Fill(id, leg) == [kind |-> "Fill", id |-> id, leg |-> leg]
Fail(id, leg) == [kind |-> "Fail", id |-> id, leg |-> leg]
Hedge(id, leg) == [kind |-> "Hedge", id |-> id, leg |-> leg]

\* "head": the start of unwritten[1], whose remainder is still buffered.
\* "orphan": the start of a line whose remainder is lost.
Pieces == {"none", "head", "orphan"}

JournalInit ==
    /\ entries = <<>>
    /\ disk = <<>>
    /\ piece = "none"
    /\ unwritten = <<>>

\* The file after the first k of the buffered lines reached it.
Lines(buffered, k) ==
    [i \in 1 .. k |-> IF i = 1 /\ piece = "orphan" THEN Malformed ELSE buffered[i]]

FlushAll(buffered) ==
    /\ disk' = disk \o Lines(buffered, Len(buffered))
    /\ piece' = IF buffered = <<>> THEN piece ELSE "none"
    /\ unwritten' = <<>>

FlushFails(buffered) ==
    /\ IoFaults
    /\ \E k \in 0 .. Len(buffered) - 1 :
         /\ disk' = disk \o Lines(buffered, k)
         /\ unwritten' = SubSeq(buffered, k + 1, Len(buffered))
         /\ IF k = 0 /\ piece # "none"
            THEN piece' = piece
            ELSE piece' \in {"none", "head"}

\* Mutant: an error of the file makes append write the line again.
WrongRetry(entry) ==
    /\ entries' = Append(entries, entry)
    /\ LET buffered == Append(unwritten, entry)
       IN  FlushAll(buffered) \/ FlushFails(Append(buffered, entry))

\* Mutant: append opens the file anew, without what is still buffered.
WrongReopen(entry) ==
    /\ entries' = Append(entries, entry)
    /\ FlushAll(<<entry>>) \/ FlushFails(<<entry>>)

\* Mutant: after an error the buffer is discarded and the rest never written.
WrongDiscard(entry) ==
    /\ entries' = Append(entries, entry)
    /\ LET buffered == Append(unwritten, entry)
       IN  \/ FlushAll(buffered)
           \/ /\ IoFaults
              /\ \E k \in 0 .. Len(buffered) - 1 : disk' = disk \o Lines(buffered, k)
              /\ unwritten' = <<>>
              /\ piece' = "head"

\* append(entry)
AppendEntry(entry) ==
    /\ entries' = Append(entries, entry)
    /\ LET buffered == Append(unwritten, entry)
       IN  FlushAll(buffered) \/ FlushFails(buffered)

\* The process dies: memory and the BufWriter are gone.
LoseBuffer ==
    /\ entries' = <<>>
    /\ unwritten' = <<>>
    /\ piece' = IF piece = "none" THEN "none" ELSE "orphan"
    /\ UNCHANGED disk

\* The log is dropped: the BufWriter flushes once more and ignores an error.
DropLog ==
    /\ entries' = <<>>
    /\ unwritten' = <<>>
    /\ \/ /\ disk' = disk \o Lines(unwritten, Len(unwritten))
          /\ piece' = IF unwritten = <<>> THEN piece ELSE "none"
       \/ /\ IoFaults
          /\ \E k \in 0 .. Len(unwritten) - 1 :
               /\ disk' = disk \o Lines(unwritten, k)
               /\ IF k = 0 /\ piece # "none"
                  THEN piece' = "orphan"
                  ELSE piece' \in {"none", "orphan"}

\* A line that read_all keeps; a trailing piece is malformed.
WellFormed(line) == line # Malformed

\* read_all: the well-formed lines, in order.
ReadAll(lines) ==
    LET read[k \in 0 .. Len(lines)] ==
          IF k = 0 THEN <<>>
          ELSE IF WellFormed(lines[k]) THEN Append(read[k - 1], lines[k]) ELSE read[k - 1]
    IN  read[Len(lines)]

\* Mutant: earlier entries are not read back.
WrongOpen ==
    /\ entries' = <<>>
    /\ UNCHANGED <<disk, piece, unwritten>>

\* FileOrderLog::open
Open ==
    /\ entries' = ReadAll(disk)
    /\ UNCHANGED <<disk, piece, unwritten>>

\* find_unacknowledged: an intent counts as confirmed when ANY Fill or Fail
\* of its opportunity is in the log, whatever the leg.
Confirmed(log, id) ==
    \E i \in DOMAIN log : log[i].kind \in {"Fill", "Fail"} /\ log[i].id = id

FindUnacknowledged(log) ==
    {log[i] : i \in {j \in DOMAIN log :
        log[j].kind = "Intent" /\ ~Confirmed(log, log[j].id)}}
===============================================================================
