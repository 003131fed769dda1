--------------------------- MODULE AtomicRecords ----------------------------
(***************************************************************************)
(* What the record store promises its callers: a call of write_or_append   *)
(* takes effect at one moment, on at most one record.  It opens a record,  *)
(* is one more occurrence of an open record, or changes nothing; and it is *)
(* only ever held against a record whose first report it covers.           *)
(***************************************************************************)
EXTENDS Naturals

CONSTANTS
    Number,    \* record numbers
    Key,       \* group keys
    Covers,    \* the pairs <<k, l>> of keys where k names all that l names
    Severity   \* ranks of severities

VARIABLES
    record,    \* the records, by number
    waiting,   \* the calls under way
    returned,  \* the numbers of the calls that returned
    raised     \* the numbers of the calls that raised

vars == <<record, waiting, returned, raised>>

None == [state |-> "none"]

Open == {n \in Number : record[n].state = "open"}

Holding(k) == {n \in Open : record[n].key = k}

\* The report names everything that record n was opened with.
Extends(e, n) == <<e.key, record[n].opened>> \in Covers

Taken == {e.id : e \in waiting} \cup returned \cup raised

Init ==
    /\ record = [n \in Number |-> None]
    /\ waiting = {}
    /\ returned = {}
    /\ raised = {}

\* A call begins, under a number of its own.
Submit(n, k, s) ==
    /\ waiting' = waiting \cup {[id |-> n, key |-> k, severity |-> s]}
    /\ UNCHANGED <<record, returned, raised>>

Return(e) ==
    /\ waiting' = waiting \ {e}
    /\ returned' = returned \cup {e.id}
    /\ UNCHANGED raised

Raise(e) ==
    /\ waiting' = waiting \ {e}
    /\ raised' = raised \cup {e.id}
    /\ UNCHANGED returned

(***************************************************************************)
(* What a call that returns did.                                           *)
(***************************************************************************)

\* The key is new: the report becomes a record under its own number.
OpenRecord(e) ==
    /\ Holding(e.key) = {}
    /\ record[e.id] = None
    /\ record' = [record EXCEPT ![e.id] =
            [state |-> "open", opened |-> e.key, key |-> e.key,
             count |-> 1, severity |-> e.severity]]

\* Record n with one occurrence more, under the key of the report.
Worse(n, e) ==
    [state |-> "open", opened |-> record[n].opened, key |-> e.key,
     count |-> record[n].count + 1,
     severity |-> IF e.severity > record[n].severity THEN e.severity ELSE record[n].severity]

\* The key is that of an open record.
Count(e, n) ==
    /\ n \in Holding(e.key)
    /\ record' = [record EXCEPT ![n] = Worse(n, e)]

\* An open record moves to the key of the report, which nobody else holds.
Grow(e, n) ==
    /\ n \in Open
    /\ Extends(e, n)
    /\ Holding(e.key) \subseteq {n}
    /\ record' = [record EXCEPT ![n] = Worse(n, e)]

\* The record it would have grown is closed: no record counts the report.
Lose(e, n) ==
    /\ record[n].state = "over"
    /\ Extends(e, n)
    /\ UNCHANGED record

\* A call that raises: the record it would have grown is not the one that holds the key.
Refuse(e, n) ==
    /\ n \in Open \ Holding(e.key)
    /\ Extends(e, n)
    /\ Holding(e.key) # {}
    /\ UNCHANGED record

Close(n) ==
    /\ n \in Open
    /\ record' = [record EXCEPT ![n].state = "over"]
    /\ UNCHANGED <<waiting, returned, raised>>

Next ==
    \/ \E e \in waiting :
        /\ Return(e)
        /\ OpenRecord(e) \/ \E n \in Number : Count(e, n) \/ Grow(e, n) \/ Lose(e, n)
    \/ \E e \in waiting : Raise(e) /\ \E n \in Number : Refuse(e, n)
    \/ \E n \in Number : Close(n)
    \/ \E n \in Number \ Taken, k \in Key, s \in Severity : Submit(n, k, s)

Spec == Init /\ [][Next]_vars
=============================================================================
