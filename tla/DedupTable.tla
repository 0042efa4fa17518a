------------------------------ MODULE DedupTable ------------------------------
(***************************************************************************)
(* The DedupTable of ta-core/src/lib.rs: a map from opportunity ids to the *)
(* instant each was inserted.  A lookup is by key alone; entries leave the *)
(* table only in gc(), which ExecEngine calls now and then.  The instants  *)
(* the code reads within one call are one instant t here.                  *)
(***************************************************************************)
EXTENDS Integers

CONSTANTS
    Ids,      \* opportunity ids (SHA-256 of the triangle's currencies)
    Ttl       \* DedupTable::ttl

VARIABLES
    now,      \* Instant::now()
    dedup     \* dedup[id] is the insertion instant, or Absent

Absent == -1      \* the id is not a key of the map

EmptyTable == [id \in Ids |-> Absent]

\* contains_key: no test of the entry's age.
Known(table, id) == table[id] # Absent

\* Mutant: the cutoff is off by one.
WrongCollected(table) ==
    [id \in Ids |-> IF table[id] > now - Ttl + 1 THEN table[id] ELSE Absent]

\* gc(): retain(|_, inserted_at| inserted_at > now - ttl)
Collected(table) ==
    [id \in Ids |-> IF table[id] > now - Ttl THEN table[id] ELSE Absent]

\* check_and_insert returning true; gcDue says whether gc() follows.
Insert(id, gcDue) ==
    LET table == [dedup EXCEPT ![id] = now]
    IN  /\ ~Known(dedup, id)
        /\ dedup' = IF gcDue THEN Collected(table) ELSE table

\* Every entry carries an instant the clock has reached.
DedupTypeOK ==
    /\ dedup \in [Ids -> Nat \cup {Absent}]
    /\ \A id \in Ids : dedup[id] <= now
===============================================================================
