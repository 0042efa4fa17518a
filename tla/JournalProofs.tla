---------------------------- MODULE JournalProofs -----------------------------
(***************************************************************************)
(* Theorems about the journal under any client that appends numbered       *)
(* entries: whatever flushes fail and whenever the process dies, the file  *)
(* reads back in order, and a flush that succeeds makes up for the others. *)
(***************************************************************************)
EXTENDS MCOrderJournal, SequenceTheorems, Induction, TLAPS

-------------------------------------------------------------------------------
\* read_all returns the well-formed lines and nothing else, in the order of the file.
LEMMA ReadAllKeepsOrder ==
    ASSUME NEW S, NEW lines \in Seq(S)
    PROVE  /\ ReadAll(lines) \in Seq(S)
           /\ \A i \in DOMAIN ReadAll(lines) :
                \E j \in DOMAIN lines : WellFormed(lines[j]) /\ lines[j] = ReadAll(lines)[i]
           /\ \A j \in DOMAIN lines :
                WellFormed(lines[j]) => \E i \in DOMAIN ReadAll(lines) : lines[j] = ReadAll(lines)[i]
           /\ (\A i, j \in DOMAIN lines :
                 i < j /\ WellFormed(lines[i]) /\ WellFormed(lines[j])
                   => lines[i].leg < lines[j].leg)
              => \A i, j \in DOMAIN ReadAll(lines) :
                   i < j => ReadAll(lines)[i].leg < ReadAll(lines)[j].leg
<1> DEFINE read == CHOOSE r : Collects(lines, Malformed, Len(lines), r)
<1>1. ReadAll(lines) = read[Len(lines)]
    BY Zenon DEF ReadAll, Collects, WellFormed
<1> HIDE DEF read
<1>2. OthersInOrder(read[Len(lines)], lines, Malformed, S)
  <2>1. Collects(lines, Malformed, Len(lines), read)
    <3>1. Len(lines) \in 0 .. Len(lines)
        OBVIOUS
    <3> QED
        BY <3>1, CollectsExists DEF read
  <2> QED
      BY <2>1, CollectedKeepsOrder
<1>3. DOMAIN lines = 1 .. Len(lines)
    OBVIOUS
<1> DEFINE out == ReadAll(lines)
<1>4. OthersInOrder(out, lines, Malformed, S)
    BY <1>1, <1>2
<1> HIDE DEF out
<1>5. /\ out \in Seq(S)
      /\ \A i \in DOMAIN out : \E k \in DOMAIN lines : WellFormed(lines[k]) /\ lines[k] = out[i]
      /\ \A k \in DOMAIN lines : WellFormed(lines[k]) => \E i \in DOMAIN out : lines[k] = out[i]
    BY <1>3, <1>4 DEF OthersInOrder, WellFormed
<1>6. ASSUME \A i, j \in DOMAIN lines :
               i < j /\ WellFormed(lines[i]) /\ WellFormed(lines[j]) => lines[i].leg < lines[j].leg,
             NEW i \in DOMAIN out, NEW j \in DOMAIN out, i < j
      PROVE  out[i].leg < out[j].leg
  <2>1. PICK k \in DOMAIN lines, m \in DOMAIN lines :
          /\ k < m /\ lines[k] # Malformed /\ lines[m] # Malformed
          /\ lines[k] = out[i] /\ lines[m] = out[j]
    <3>1. InOrder(out, lines, Malformed, DOMAIN lines)
        BY <1>3, <1>4 DEF OthersInOrder
    <3> QED
        BY <1>6, <3>1, Zenon DEF InOrder
  <2> QED
      BY <1>6, <2>1 DEF WellFormed
<1> QED
    BY <1>5, <1>6, Zenon DEF out

-------------------------------------------------------------------------------
\* The numbers written so far: those whose newline has left the BufWriter.
Written == count - Len(unwritten)

\* What is buffered are the last entries of the session, in order.
BufferIsTail ==
    /\ first - 1 <= Written
    /\ \A i \in 1 .. Len(unwritten) : unwritten[i].leg = Written + i

\* The lines of the file carry increasing numbers, none of a buffered entry.
DiskInOrder ==
    /\ \A i \in DOMAIN disk : WellFormed(disk[i]) => disk[i].leg <= Written
    /\ \A i, j \in DOMAIN disk :
         i < j /\ WellFormed(disk[i]) /\ WellFormed(disk[j]) => disk[i].leg < disk[j].leg

OnDisk(number) == \E i \in DOMAIN disk : WellFormed(disk[i]) /\ disk[i].leg = number

\* Each number written in this session is on the disk, but for a first one that
\* was glued to an orphan; an orphan is there only while nothing was written.
SessionOnDisk ==
    /\ up => \A n \in first .. Written : OnDisk(n) \/ (orphaned /\ n = first)
    /\ up /\ piece = "orphan" => orphaned /\ Written < first

JournalInv == JournalTypeOK /\ BufferIsTail /\ DiskInOrder /\ SessionOnDisk

\* A flush, whether it fails or not, moves the first k buffered lines to the file;
\* the first of them is lost if it was glued to an orphan.
FlushMoves(buffered, k) ==
    /\ disk' = disk \o Lines(buffered, k)
    /\ unwritten' = SubSeq(buffered, k + 1, Len(buffered))
    /\ piece' \in Pieces
    /\ piece' = "head" => k < Len(buffered)
    /\ piece' = "orphan" => k = 0 /\ piece = "orphan"

LEMMA FlushIsMove ==
    ASSUME NEW S, NEW buffered \in Seq(S), buffered # <<>>, piece \in Pieces,
           FlushAll(buffered) \/ FlushFails(buffered)
    PROVE  \E k \in 0 .. Len(buffered) : FlushMoves(buffered, k)
<1>1. Len(buffered) \in Nat
    OBVIOUS
<1>2. CASE FlushAll(buffered)
  <2>1. SubSeq(buffered, Len(buffered) + 1, Len(buffered)) = <<>>
      BY <1>1, SubSeqEmpty
  <2>2. FlushMoves(buffered, Len(buffered))
      BY <1>2, <2>1 DEF FlushAll, FlushMoves, Pieces
  <2> QED
      BY <1>1, <2>2
<1>3. CASE FlushFails(buffered)
  <2>1. PICK k \in 0 .. Len(buffered) - 1 :
          /\ disk' = disk \o Lines(buffered, k)
          /\ unwritten' = SubSeq(buffered, k + 1, Len(buffered))
          /\ IF k = 0 /\ piece # "none"
             THEN piece' = piece
             ELSE piece' \in {"none", "head"}
      BY <1>3 DEF FlushFails
  <2>2. FlushMoves(buffered, k)
      BY <1>1, <2>1 DEF FlushMoves, Pieces
  <2> QED
      BY <1>1, <2>2
<1> QED
    BY <1>2, <1>3

\* The file after such a move, line by line.
LEMMA LinesMoved ==
    ASSUME NEW S, NEW buffered \in Seq(S), NEW k \in 0 .. Len(buffered),
           NEW old \in Seq(S \cup {Malformed})
    PROVE  /\ old \o Lines(buffered, k) \in Seq(S \cup {Malformed})
           /\ Len(old \o Lines(buffered, k)) = Len(old) + k
           /\ \A i \in 1 .. Len(old) : (old \o Lines(buffered, k))[i] = old[i]
           /\ \A i \in 1 .. k :
                (old \o Lines(buffered, k))[Len(old) + i] =
                  IF i = 1 /\ piece = "orphan" THEN Malformed ELSE buffered[i]
<1> DEFINE new == Lines(buffered, k)
<1>1. k \in Nat /\ \A i \in 1 .. k : buffered[i] \in S
    OBVIOUS
<1>2. /\ new \in [1 .. k -> S \cup {Malformed}]
      /\ \A i \in 1 .. k :
           new[i] = IF i = 1 /\ piece = "orphan" THEN Malformed ELSE buffered[i]
    BY <1>1 DEF Lines
<1> HIDE DEF new
<1>3. new \in Seq(S \cup {Malformed}) /\ Len(new) = k
    BY <1>1, <1>2
<1>4. /\ old \o new \in Seq(S \cup {Malformed}) /\ Len(old \o new) = Len(old) + k
      /\ \A i \in 1 .. Len(old) + k :
           (old \o new)[i] = IF i <= Len(old) THEN old[i] ELSE new[i - Len(old)]
    BY <1>3, ConcatProperties
<1>5. Len(old) \in Nat
    OBVIOUS
<1> QED
    BY <1>1, <1>2, <1>4, <1>5 DEF new

LEMMA MalformedIsNoEntry ==
    ASSUME NEW m, NEW e \in [kind : {"Fill"}, id : Ids, leg : 1 .. m]
    PROVE  WellFormed(e) /\ e # Malformed
<1>1. e.kind = "Fill" /\ Malformed.kind = "Malformed"
    BY DEF Malformed
<1> QED
    BY <1>1 DEF WellFormed

LEMMA WriteKeepsInv ==
    ASSUME JournalInv, Write
    PROVE  JournalInv'
<1>1. /\ up /\ count \in Nat /\ count < MaxEntries /\ count' = count + 1
      /\ UNCHANGED <<first, orphaned, up, restarts>>
    BY ClientAssumption DEF Write, JournalInv, JournalTypeOK
<1>2. PICK id \in Ids : AppendEntry(Fill(id, count + 1))
    BY DEF Write
<1> DEFINE E == [kind : {"Fill"}, id : Ids, leg : 1 .. count + 1]
           entry == Fill(id, count + 1)
           buffered == Append(unwritten, entry)
<1>3. entry \in E /\ entry.leg = count + 1 /\ Entries \subseteq E /\ Entries' = E
    BY <1>1 DEF Fill, Entries
<1>4. /\ entries \in Seq(E) /\ unwritten \in Seq(E) /\ disk \in Seq(E \cup {Malformed})
      /\ piece \in Pieces
  <2>1. Entries \cup {Malformed} \subseteq E \cup {Malformed}
      BY <1>3
  <2>2. Seq(Entries) \subseteq Seq(E) /\ Seq(Entries \cup {Malformed}) \subseteq Seq(E \cup {Malformed})
      BY <1>3, <2>1, SeqMonotonic, Zenon
  <2> QED
      BY <2>2 DEF JournalInv, JournalTypeOK
<1> HIDE DEF entry, E
<1>5. /\ buffered \in Seq(E) /\ Len(buffered) = Len(unwritten) + 1 /\ buffered # <<>>
      /\ \A i \in 1 .. Len(unwritten) : buffered[i] = unwritten[i]
      /\ buffered[Len(unwritten) + 1] = entry
      /\ entries' \in Seq(E)
    BY <1>2, <1>3, <1>4, AppendProperties DEF AppendEntry, entry
<1>6. Len(unwritten) \in Nat /\ Written \in Int /\ first \in Nat /\ first - 1 <= Written
    BY <1>1, <1>4 DEF Written, JournalInv, JournalTypeOK, BufferIsTail
<1>7. \A i \in 1 .. Len(buffered) : buffered[i].leg = Written + i /\ buffered[i] \in E
  <2> SUFFICES ASSUME NEW i \in 1 .. Len(buffered)
               PROVE  buffered[i].leg = Written + i
      BY <1>5
  <2> HIDE DEF buffered
  <2>1. CASE i = Len(unwritten) + 1
      BY <1>1, <1>3, <1>5, <1>6, <2>1 DEF Written
  <2>2. CASE i # Len(unwritten) + 1
    <3>1. i \in 1 .. Len(unwritten)
        BY <1>5, <1>6, <2>2
    <3> QED
        BY <1>5, <3>1 DEF JournalInv, BufferIsTail
  <2> QED
      BY <2>1, <2>2
<1>8. PICK k \in 0 .. Len(buffered) : FlushMoves(buffered, k)
  <2>1. FlushAll(buffered) \/ FlushFails(buffered)
      BY <1>2 DEF AppendEntry, entry
  <2> QED
      BY <1>4, <1>5, <2>1, FlushIsMove
<1> HIDE DEF buffered
<1>9. /\ disk' \in Seq(E \cup {Malformed}) /\ Len(disk') = Len(disk) + k
      /\ \A i \in 1 .. Len(disk) : disk'[i] = disk[i]
      /\ \A i \in 1 .. k : disk'[Len(disk) + i] =
           IF i = 1 /\ piece = "orphan" THEN Malformed ELSE buffered[i]
  <2>1. disk' = disk \o Lines(buffered, k)
      BY <1>8 DEF FlushMoves
  <2> QED
    <3>1. disk \in Seq(E \cup {Malformed}) /\ buffered \in Seq(E) /\ k \in 0 .. Len(buffered)
        BY <1>4, <1>5, <1>8
    <3>2. /\ (disk \o Lines(buffered, k)) \in Seq(E \cup {Malformed})
          /\ Len(disk \o Lines(buffered, k)) = Len(disk) + k
          /\ \A i \in 1 .. Len(disk) : (disk \o Lines(buffered, k))[i] = disk[i]
          /\ \A i \in 1 .. k :
               (disk \o Lines(buffered, k))[Len(disk) + i] =
                 IF i = 1 /\ piece = "orphan" THEN Malformed ELSE buffered[i]
        BY <3>1, LinesMoved
    <3> QED
        BY <2>1, <3>2, Zenon
<1>10. /\ unwritten' \in Seq(E) /\ Len(unwritten') = Len(buffered) - k
       /\ \A i \in 1 .. Len(buffered) - k : unwritten'[i] = buffered[k + i]
  <2>1. \A i \in k + 1 .. Len(buffered) : buffered[i] \in E
      BY <1>5, <1>6, <1>7
  <2>2. k + 1 \in Int /\ Len(buffered) \in Int
      BY <1>5, <1>6
  <2> QED
      BY <1>5, <1>6, <1>8, <2>1, <2>2, SubSeqProperties DEF FlushMoves
<1>11. Written' = Written + k /\ k \in Nat /\ Len(disk) \in Nat
    BY <1>1, <1>4, <1>5, <1>6, <1>10 DEF Written
<1>12. /\ DOMAIN disk = 1 .. Len(disk) /\ DOMAIN disk' = 1 .. Len(disk) + k
    BY <1>4, <1>9
<1>13. \A e \in E : WellFormed(e) /\ e # Malformed /\ e.leg \in Int
    BY <1>1, MalformedIsNoEntry DEF E
<1>14. \A i \in 1 .. k :
         WellFormed(disk'[Len(disk) + i]) =>
           disk'[Len(disk) + i] = buffered[i] /\ disk'[Len(disk) + i].leg = Written + i
  <2> SUFFICES ASSUME NEW i \in 1 .. k, WellFormed(disk'[Len(disk) + i])
               PROVE  disk'[Len(disk) + i] = buffered[i] /\ buffered[i].leg = Written + i
      OBVIOUS
  <2>1. i \in 1 .. Len(buffered)
      BY <1>5, <1>6, <1>11
  <2> QED
      BY <1>7, <1>9, <2>1 DEF WellFormed
<1>15. JournalTypeOK'
  <2>1. piece' \in Pieces /\ (piece' = "head" => unwritten' # <<>>)
    <3>1. piece' \in Pieces /\ (piece' = "head" => Len(unwritten') # 0)
        BY <1>5, <1>6, <1>8, <1>10 DEF FlushMoves
    <3> QED
        BY <3>1
  <2>2. /\ count' \in 0 .. MaxEntries /\ first' \in 1 .. count' + 1
        /\ restarts' \in 0 .. MaxRestarts /\ orphaned' \in BOOLEAN /\ up' /\ up' \in BOOLEAN
      BY <1>1, ClientAssumption DEF JournalInv, JournalTypeOK
  <2> QED
      BY <1>3, <1>5, <1>9, <1>10, <2>1, <2>2 DEF JournalTypeOK
<1>16. BufferIsTail'
  <2>1. first' - 1 <= Written'
      BY <1>1, <1>6, <1>11
  <2>2. ASSUME NEW i \in 1 .. Len(unwritten')
        PROVE  unwritten'[i].leg = Written' + i
    <3>1. k + i \in 1 .. Len(buffered) /\ i \in 1 .. Len(buffered) - k
        BY <1>5, <1>6, <1>10, <1>11
    <3>2. unwritten'[i].leg = Written + (k + i)
        BY <1>7, <1>10, <3>1
    <3> QED
        BY <1>6, <1>11, <3>2
  <2> QED
      BY <2>1, <2>2 DEF BufferIsTail
<1>17. DiskInOrder'
  <2>1. \A i \in 1 .. Len(disk) : WellFormed(disk'[i]) => disk'[i].leg <= Written /\ disk'[i].leg \in Int
      BY <1>9, <1>12, <1>4, <1>13 DEF JournalInv, DiskInOrder, WellFormed
  <2>2. \A i \in Len(disk) + 1 .. Len(disk) + k :
          WellFormed(disk'[i]) => disk'[i].leg = Written + (i - Len(disk))
    <3> SUFFICES ASSUME NEW i \in Len(disk) + 1 .. Len(disk) + k, WellFormed(disk'[i])
                 PROVE  disk'[i].leg = Written + (i - Len(disk))
        OBVIOUS
    <3>1. i - Len(disk) \in 1 .. k /\ Len(disk) + (i - Len(disk)) = i
        BY <1>11
    <3> QED
        BY <1>14, <3>1
  <2>3. \A i \in DOMAIN disk' : WellFormed(disk'[i]) => disk'[i].leg <= Written'
      BY <1>6, <1>11, <1>12, <2>1, <2>2
  <2>4. ASSUME NEW i \in DOMAIN disk', NEW j \in DOMAIN disk', i < j,
               WellFormed(disk'[i]), WellFormed(disk'[j])
        PROVE  disk'[i].leg < disk'[j].leg
    <3>1. CASE j <= Len(disk)
        BY <1>9, <1>11, <1>12, <2>4, <3>1 DEF JournalInv, DiskInOrder
    <3>2. CASE j > Len(disk)
      <4>1. disk'[j].leg = Written + (j - Len(disk))
          BY <1>11, <1>12, <2>2, <2>4, <3>2
      <4>2. CASE i <= Len(disk)
          BY <1>6, <1>11, <1>12, <2>1, <2>4, <3>2, <4>1, <4>2
      <4>3. CASE i > Len(disk)
          BY <1>6, <1>11, <1>12, <2>2, <2>4, <3>2, <4>1, <4>3
      <4> QED
          BY <1>11, <1>12, <4>2, <4>3
    <3> QED
        BY <1>11, <1>12, <3>1, <3>2
  <2> QED
      BY <2>3, <2>4 DEF DiskInOrder
<1>18. SessionOnDisk'
  <2>1. ASSUME NEW n \in first .. Written'
        PROVE  OnDisk(n)' \/ (orphaned /\ n = first)
    <3>1. CASE n <= Written
      <4>1. OnDisk(n) \/ (orphaned /\ n = first)
          BY <1>1, <1>6, <1>11, <2>1, <3>1 DEF JournalInv, SessionOnDisk
      <4>2. OnDisk(n) => OnDisk(n)'
          BY <1>9, <1>11, <1>12 DEF OnDisk
      <4> QED
          BY <4>1, <4>2
    <3>2. CASE n > Written
      <4> DEFINE i == n - Written
      <4>1. i \in 1 .. k /\ i \in 1 .. Len(buffered) /\ Written + i = n
          BY <1>5, <1>6, <1>11, <2>1, <3>2
      <4>2. Len(disk) + i \in DOMAIN disk'
          BY <1>11, <1>12, <4>1
      <4>3. CASE i = 1 /\ piece = "orphan"
          BY <1>1, <1>6, <2>1, <3>2, <4>1, <4>3 DEF JournalInv, SessionOnDisk
      <4>4. CASE ~(i = 1 /\ piece = "orphan")
        <5>1. disk'[Len(disk) + i] = buffered[i]
            BY <1>9, <4>1, <4>4
        <5>2. WellFormed(buffered[i]) /\ buffered[i].leg = n
            BY <1>7, <1>13, <4>1
        <5> QED
            BY <4>2, <5>1, <5>2 DEF OnDisk, WellFormed
      <4> QED
          BY <4>3, <4>4
    <3> QED
        BY <1>6, <1>11, <2>1, <3>1, <3>2
  <2>2. piece' = "orphan" => orphaned /\ Written' < first
      BY <1>1, <1>6, <1>8, <1>11 DEF FlushMoves, JournalInv, SessionOnDisk
  <2> QED
      BY <1>1, <2>1, <2>2 DEF SessionOnDisk
<1> QED
    BY <1>15, <1>16, <1>17, <1>18 DEF JournalInv

\* Going down: the buffered lines that did not reach the file are lost.
LEMMA DownKeepsInv ==
    ASSUME JournalInv, GoDown, LoseBuffer \/ DropLog
    PROVE  JournalInv'
<1>1. /\ up /\ up' = FALSE /\ UNCHANGED <<count, first, orphaned>> /\ entries' = <<>>
      /\ unwritten' = <<>> /\ restarts' \in 0 .. MaxRestarts
    BY ClientAssumption DEF GoDown, LoseBuffer, DropLog, JournalInv, JournalTypeOK
<1>2. /\ unwritten \in Seq(Entries) /\ disk \in Seq(Entries \cup {Malformed}) /\ Entries' = Entries
      /\ Len(unwritten) \in Nat /\ Len(disk) \in Nat /\ Written \in Int /\ count \in Nat
      /\ first \in Nat /\ first - 1 <= Written
    BY <1>1, ClientAssumption
    DEF JournalInv, JournalTypeOK, BufferIsTail, Entries, Written
<1>3. Written' = Written + Len(unwritten) /\ Written' = count
    BY <1>1, <1>2 DEF Written
<1>4. PICK k \in 0 .. Len(unwritten) : disk' = disk \o Lines(unwritten, k) /\ piece' \in Pieces
                                         /\ piece' # "head"
  <2>1. CASE LoseBuffer
    <3>1. Lines(unwritten, 0) = <<>> /\ disk \o <<>> = disk
        BY <1>2, ConcatEmptySeq DEF Lines
    <3>2. disk' = disk /\ piece' \in {"none", "orphan"}
        BY <2>1 DEF LoseBuffer
    <3> QED
        BY <1>2, <3>1, <3>2 DEF Pieces
  <2>2. CASE DropLog
    <3>1. CASE disk' = disk \o Lines(unwritten, Len(unwritten))
               /\ piece' = IF unwritten = <<>> THEN piece ELSE "none"
      <4>1. piece' \in Pieces /\ piece' # "head"
          BY <3>1 DEF Pieces, JournalInv, JournalTypeOK
      <4>2. Len(unwritten) \in 0 .. Len(unwritten)
          BY <1>2
      <4> QED
          BY <3>1, <4>1, <4>2
    <3>2. CASE \E k \in 0 .. Len(unwritten) - 1 :
                 /\ disk' = disk \o Lines(unwritten, k)
                 /\ IF k = 0 /\ piece # "none"
                    THEN piece' = "orphan"
                    ELSE piece' \in {"none", "orphan"}
      <4>1. PICK k \in 0 .. Len(unwritten) - 1 :
              disk' = disk \o Lines(unwritten, k) /\ piece' \in {"none", "orphan"}
          BY <3>2
      <4> QED
        <5>1. k \in 0 .. Len(unwritten) /\ piece' \in Pieces /\ piece' # "head"
            BY <1>2, <4>1 DEF Pieces
        <5> QED
            BY <4>1, <5>1
    <3> QED
        BY <2>2, <3>1, <3>2 DEF DropLog
  <2> QED
      BY <2>1, <2>2
<1>5. /\ disk' \in Seq(Entries \cup {Malformed}) /\ Len(disk') = Len(disk) + k
      /\ \A i \in 1 .. Len(disk) : disk'[i] = disk[i]
      /\ \A i \in 1 .. k : disk'[Len(disk) + i] =
           IF i = 1 /\ piece = "orphan" THEN Malformed ELSE unwritten[i]
  <2>1. k \in 0 .. Len(unwritten) /\ disk' = disk \o Lines(unwritten, k)
      BY <1>4
  <2>2. /\ (disk \o Lines(unwritten, k)) \in Seq(Entries \cup {Malformed})
        /\ Len(disk \o Lines(unwritten, k)) = Len(disk) + k
        /\ \A i \in 1 .. Len(disk) : (disk \o Lines(unwritten, k))[i] = disk[i]
        /\ \A i \in 1 .. k :
             (disk \o Lines(unwritten, k))[Len(disk) + i] =
               IF i = 1 /\ piece = "orphan" THEN Malformed ELSE unwritten[i]
    <3>1. disk \in Seq(Entries \cup {Malformed}) /\ unwritten \in Seq(Entries)
          /\ k \in 0 .. Len(unwritten)
        BY <1>2, <2>1
    <3> QED
        BY <3>1, LinesMoved
  <2> QED
      BY <2>1, <2>2, Zenon
<1>6. k \in Nat /\ k <= Len(unwritten) /\ DOMAIN disk = 1 .. Len(disk)
      /\ DOMAIN disk' = 1 .. Len(disk) + k
    BY <1>2, <1>4, <1>5
<1>7. \A i \in 1 .. Len(disk) :
        WellFormed(disk'[i]) => disk'[i].leg \in Int /\ disk'[i].leg <= Written
  <2>1. \A e \in Entries : e.leg \in Int
      BY DEF Entries
  <2> QED
      BY <1>2, <1>5, <1>6, <2>1 DEF JournalInv, DiskInOrder, WellFormed
<1>8. \A i \in Len(disk) + 1 .. Len(disk) + k :
        WellFormed(disk'[i]) => disk'[i].leg = Written + (i - Len(disk))
  <2> SUFFICES ASSUME NEW i \in Len(disk) + 1 .. Len(disk) + k, WellFormed(disk'[i])
               PROVE  disk'[i].leg = Written + (i - Len(disk))
      OBVIOUS
  <2>1. /\ i - Len(disk) \in 1 .. k /\ Len(disk) + (i - Len(disk)) = i
        /\ i - Len(disk) \in 1 .. Len(unwritten)
      BY <1>2, <1>6
  <2>2. disk'[i] = unwritten[i - Len(disk)]
      BY <1>5, <2>1 DEF WellFormed
  <2> QED
      BY <2>1, <2>2 DEF JournalInv, BufferIsTail
<1>9. JournalTypeOK'
  <2>1. /\ entries' \in Seq(Entries') /\ unwritten' \in Seq(Entries')
        /\ disk' \in Seq(Entries' \cup {Malformed})
      BY <1>1, <1>2, <1>5
  <2>2. /\ piece' \in Pieces /\ piece' # "head" /\ count' \in 0 .. MaxEntries
        /\ first' \in 1 .. count' + 1 /\ orphaned' \in BOOLEAN /\ up' = FALSE
      BY <1>1, <1>4 DEF JournalInv, JournalTypeOK
  <2> QED
      BY <1>1, <2>1, <2>2 DEF JournalTypeOK
<1>10. BufferIsTail'
    BY <1>1, <1>2, <1>3 DEF BufferIsTail
<1>11. DiskInOrder'
  <2>1. \A i \in DOMAIN disk' : WellFormed(disk'[i]) => disk'[i].leg <= Written'
      BY <1>2, <1>3, <1>6, <1>7, <1>8
  <2>2. ASSUME NEW i \in DOMAIN disk', NEW j \in DOMAIN disk', i < j,
               WellFormed(disk'[i]), WellFormed(disk'[j])
        PROVE  disk'[i].leg < disk'[j].leg
    <3>1. CASE j <= Len(disk)
      <4>1. i \in DOMAIN disk /\ j \in DOMAIN disk /\ i \in 1 .. Len(disk) /\ j \in 1 .. Len(disk)
          BY <1>2, <1>6, <2>2, <3>1
      <4>2. disk'[i] = disk[i] /\ disk'[j] = disk[j]
          BY <1>5, <4>1, Zenon
      <4>3. WellFormed(disk[i]) /\ WellFormed(disk[j])
          BY <2>2, <4>2, Zenon
      <4>4. DiskInOrder
          BY DEF JournalInv
      <4>5. disk[i].leg < disk[j].leg
          BY <2>2, <4>1, <4>3, <4>4, Zenon DEF DiskInOrder
      <4> QED
          BY <4>2, <4>5, Zenon
    <3>2. CASE j > Len(disk)
      <4>1. disk'[j].leg = Written + (j - Len(disk))
          BY <1>2, <1>6, <1>8, <2>2, <3>2
      <4>2. CASE i <= Len(disk)
          BY <1>2, <1>6, <1>7, <2>2, <3>2, <4>1, <4>2
      <4>3. CASE i > Len(disk)
        <5>1. disk'[i].leg = Written + (i - Len(disk))
            BY <1>2, <1>6, <1>8, <2>2, <4>3
        <5> QED
            BY <1>2, <1>6, <2>2, <4>1, <5>1
      <4> QED
          BY <1>2, <1>6, <4>2, <4>3
    <3> QED
        BY <1>2, <1>6, <3>1, <3>2
  <2> QED
      BY <2>1, <2>2 DEF DiskInOrder
<1>12. SessionOnDisk'
    BY <1>1 DEF SessionOnDisk
<1> QED
    BY <1>9, <1>10, <1>11, <1>12 DEF JournalInv

LEMMA ReopenKeepsInv ==
    ASSUME JournalInv, Reopen
    PROVE  JournalInv'
<1>1. /\ ~up /\ up' = TRUE /\ first' = count + 1 /\ orphaned' = (piece = "orphan")
      /\ UNCHANGED <<count, restarts, disk, piece, unwritten>> /\ entries' = ReadAll(disk)
    BY DEF Reopen, Open
<1>2. unwritten = <<>> /\ disk \in Seq(Entries \cup {Malformed}) /\ count \in Nat /\ Entries' = Entries
    BY <1>1, ClientAssumption DEF JournalInv, JournalTypeOK, Entries
<1>3. Written = count /\ Written' = count
    BY <1>1, <1>2 DEF Written
<1>4. entries' \in Seq(Entries)
  <2>1. /\ ReadAll(disk) \in Seq(Entries \cup {Malformed})
        /\ \A i \in DOMAIN ReadAll(disk) :
             \E j \in DOMAIN disk : WellFormed(disk[j]) /\ disk[j] = ReadAll(disk)[i]
      BY <1>2, ReadAllKeepsOrder
  <2>2. \A i \in DOMAIN ReadAll(disk) : ReadAll(disk)[i] \in Entries
      BY <1>2, <2>1 DEF WellFormed
  <2> QED
      BY <1>1, <2>1, <2>2
<1>5. JournalTypeOK'
    BY <1>1, <1>2, <1>4 DEF JournalInv, JournalTypeOK
<1>6. BufferIsTail' /\ DiskInOrder'
    BY <1>1, <1>2, <1>3 DEF JournalInv, BufferIsTail, DiskInOrder
<1>7. SessionOnDisk'
  <2>1. first' .. Written' = {}
      BY <1>1, <1>2, <1>3
  <2>2. piece' = "orphan" => orphaned' /\ Written' < first'
    <3>1. Written' < first'
        BY <1>1, <1>2, <1>3
    <3>2. piece' = "orphan" => orphaned'
        BY <1>1, Zenon
    <3> QED
        BY <3>1, <3>2
  <2> QED
      BY <2>1, <2>2 DEF SessionOnDisk
<1> QED
    BY <1>5, <1>6, <1>7 DEF JournalInv

LEMMA JournalInvHolds == MCSpec => []JournalInv
<1>1. ASSUME MCInit
      PROVE  JournalInv
  <2>1. /\ unwritten = <<>> /\ disk = <<>> /\ entries = <<>> /\ piece = "none" /\ first = 1
        /\ count = 0 /\ restarts = 0 /\ orphaned = FALSE /\ up = TRUE
      BY <1>1 DEF MCInit, JournalInit
  <2>2. Written = 0 /\ DOMAIN disk = {} /\ first .. Written = {}
    <3>1. Len(<<>>) = 0 /\ DOMAIN <<>> = {}
        OBVIOUS
    <3>2. Len(unwritten) = 0 /\ DOMAIN disk = {}
        BY <2>1, <3>1, Zenon
    <3> QED
      <4>1. Written = 0
        <5>1. count = 0
            BY <2>1, Zenon
        <5> QED
            BY <3>2, <5>1 DEF Written
      <4>2. first .. Written = {}
          BY <2>1, <4>1
      <4> QED
          BY <3>2, <4>1, <4>2
  <2>3. JournalTypeOK
    <3>1. /\ entries \in Seq(Entries) /\ unwritten \in Seq(Entries)
          /\ disk \in Seq(Entries \cup {Malformed}) /\ piece \in Pieces /\ piece # "head"
        BY <2>1 DEF Pieces
    <3>2. count \in 0 .. MaxEntries /\ restarts \in 0 .. MaxRestarts /\ first \in 1 .. count + 1
        BY <2>1, ClientAssumption
    <3>3. orphaned \in BOOLEAN /\ up \in BOOLEAN /\ up
        BY <2>1, Zenon
    <3> QED
        BY <3>1, <3>2, <3>3 DEF JournalTypeOK
  <2>4. BufferIsTail /\ DiskInOrder /\ SessionOnDisk
      BY <2>1, <2>2 DEF BufferIsTail, DiskInOrder, SessionOnDisk
  <2> QED
      BY <2>3, <2>4 DEF JournalInv
<1>2. JournalInv /\ [MCNext]_mcVars => JournalInv'
  <2> SUFFICES ASSUME JournalInv, [MCNext]_mcVars
               PROVE  JournalInv'
      OBVIOUS
  <2>1. CASE Write
      BY <2>1, WriteKeepsInv
  <2>2. CASE Crash \/ Shutdown
      BY <2>2, DownKeepsInv DEF Crash, Shutdown
  <2>3. CASE Reopen
      BY <2>3, ReopenKeepsInv
  <2>4. CASE UNCHANGED mcVars
      BY <2>4
      DEF mcVars, journalVars, JournalInv, JournalTypeOK, Entries, BufferIsTail,
          DiskInOrder, SessionOnDisk, Written, OnDisk
  <2> QED
      BY <2>1, <2>2, <2>3, <2>4 DEF MCNext
<1> QED
    BY <1>1, <1>2, PTL DEF MCSpec

\* JournalTypeOK, for any number of entries and restarts: a piece at the end of the
\* file is the start of a buffered line or of one that is lost.
THEOREM JournalTypesHold == MCSpec => []JournalTypeOK
<1>1. JournalInv => JournalTypeOK
    BY DEF JournalInv
<1> QED
    BY <1>1, JournalInvHolds, PTL

\* ReadableInOrder: whatever flushes fail and whenever the process dies, read_all
\* returns the entries in the order of the calls of append, and none twice.
THEOREM ReadableInOrderHolds == MCSpec => []ReadableInOrder
<1>1. ASSUME JournalInv
      PROVE  ReadableInOrder
  <2>1. disk \in Seq(Entries \cup {Malformed})
      BY <1>1 DEF JournalInv, JournalTypeOK
  <2>2. \A i, j \in DOMAIN disk :
          i < j /\ WellFormed(disk[i]) /\ WellFormed(disk[j]) => disk[i].leg < disk[j].leg
      BY <1>1 DEF JournalInv, DiskInOrder
  <2>3. \A i, j \in DOMAIN ReadAll(disk) :
          i < j => ReadAll(disk)[i].leg < ReadAll(disk)[j].leg
      BY <2>1, <2>2, ReadAllKeepsOrder
  <2> QED
      BY <2>3 DEF ReadableInOrder, Readable
<1> QED
    BY <1>1, JournalInvHolds, PTL

\* FlushHeals: when the BufWriter is empty every entry of the session is read back,
\* except a first one that was glued to what an earlier crash left.
THEOREM FlushHealsHolds == MCSpec => []FlushHeals
<1>1. ASSUME JournalInv
      PROVE  FlushHeals
  <2> SUFFICES ASSUME up, unwritten = <<>>, NEW n \in first .. count
               PROVE  \/ \E i \in DOMAIN ReadAll(disk) : ReadAll(disk)[i].leg = n
                      \/ orphaned /\ n = first
      BY DEF FlushHeals, Readable
  <2>1. disk \in Seq(Entries \cup {Malformed}) /\ Written = count
      BY <1>1, ClientAssumption DEF JournalInv, JournalTypeOK, Written
  <2>2. OnDisk(n) \/ (orphaned /\ n = first)
      BY <1>1, <2>1 DEF JournalInv, SessionOnDisk
  <2>3. ASSUME OnDisk(n)
        PROVE  \E i \in DOMAIN ReadAll(disk) : ReadAll(disk)[i].leg = n
    <3>1. PICK j \in DOMAIN disk : WellFormed(disk[j]) /\ disk[j].leg = n
        BY <2>3 DEF OnDisk
    <3>2. \E i \in DOMAIN ReadAll(disk) : disk[j] = ReadAll(disk)[i]
        BY <2>1, <3>1, ReadAllKeepsOrder
    <3> QED
        BY <3>1, <3>2
  <2> QED
      BY <2>2, <2>3
<1> QED
    BY <1>1, JournalInvHolds, PTL
===============================================================================
