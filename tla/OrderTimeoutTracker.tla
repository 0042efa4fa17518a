------------------------- MODULE OrderTimeoutTracker --------------------------
(***************************************************************************)
(* The OrderTimeoutTracker of ta-exec/src/order_timeout.rs.  The map from  *)
(* opportunity ids to (leg, instant) pairs is the set of its triples: the  *)
(* code removes a key whose list becomes empty, so no key has an empty     *)
(* list.  ExecEngine drives these operations.                              *)
(***************************************************************************)
EXTENDS Integers

CONSTANTS
    Ids,
    OrderTimeout   \* OrderTimeoutConfig::submission_timeout

VARIABLES
    now,
    pending        \* a set of [id |-> , leg |-> , at |-> ]

TrackerInit == pending = {}

\* Mutant: the instant stored is the earliest that could time out.
WrongRecordSubmission(id, leg) ==
    pending' = pending \cup {[id |-> id, leg |-> leg, at |-> now - OrderTimeout]}

RecordSubmission(id, leg) ==
    pending' = pending \cup {[id |-> id, leg |-> leg, at |-> now]}

ResolveLeg(id, leg) ==
    pending' = {p \in pending : p.id # id \/ p.leg # leg}

ResolveOpportunity(id) ==
    pending' = {p \in pending : p.id # id}

\* check_timeouts: strictly longer than the timeout.
TimedOut ==
    {[id |-> p.id, leg |-> p.leg] :
        p \in {q \in pending : now - q.at > OrderTimeout}}

\* ExecEngine::check_order_timeouts resolves each leg it reports.
ResolveTimedOut ==
    pending' = {p \in pending : [id |-> p.id, leg |-> p.leg] \notin TimedOut}

TrackerTypeOK == pending \subseteq [id : Ids, leg : 1 .. 3, at : Nat]
===============================================================================
