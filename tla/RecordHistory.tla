--------------------------- MODULE RecordHistory ----------------------------
(***************************************************************************)
(* The record store with the memory of the key under which each record was *)
(* opened, and through it the store as an implementation of AtomicRecords: *)
(* the two transactions of a call of write_or_append look like one.        *)
(***************************************************************************)
EXTENDS ProblemRecords

VARIABLE opened   \* history: per record, the key of the INSERT that opened it

historyVars == <<rows, nextSeq, call, returned, raised, opened>>

HistoryInit == Init /\ opened = [i \in Ids |-> <<>>]

Remember ==
    opened' = [i \in Ids |->
        IF rows[i] = Absent /\ rows'[i] # Absent THEN rows'[i].key ELSE opened[i]]

HistoryNext == Next /\ Remember

HistorySpec == HistoryInit /\ [][HistoryNext]_historyVars

-----------------------------------------------------------------------------
Covering ==
    {p \in Key \X Key : p[1][1] = p[2][1] /\ AnomalyKeys(p[2][2]) \subseteq AnomalyKeys(p[1][2])}

RecordOf(i) ==
    IF rows[i] = Absent THEN [state |-> "none"]
    ELSE [state |-> IF IsOpen(rows[i]) THEN "open" ELSE "over",
          opened |-> opened[i], key |-> rows[i].key,
          count |-> rows[i].count, severity |-> rows[i].severity]

ReportOf(rec) ==
    [id |-> rec.id, key |-> GroupKey(rec.domain, rec.anoms), severity |-> rec.severity]

Records == [i \in Ids |-> RecordOf(i)]

Calling == {w \in Writer : call[w] # Idle}

Reports == {ReportOf(call[w].rec) : w \in Calling}

\* Emissions list at least one anomaly.
ReportedKey == {k \in Key : AnomalyKeys(k[2]) # {}}

Atomic == INSTANCE AtomicRecords WITH
    Number  <- Ids,
    Key     <- ReportedKey,
    Covers  <- Covering,
    record  <- Records,
    waiting <- Reports

\* However many calls of write_or_append are between their SELECT and their write
\* (records.py:475-482) while records are closed, each takes effect as if at one moment:
\* it opens one record, is one occurrence of one open record, or, when the record it
\* had chosen was closed or its key was taken meanwhile, changes nothing.  A stale
\* read never makes a record count a report that lacks an anomaly the record was
\* opened with.
ImplementsAtomic == Atomic!Spec
=============================================================================
