--------------------------- MODULE ProblemRecords ---------------------------
(***************************************************************************)
(* The problem_record table and the PostgreSQL store in front of it        *)
(* (storage/records.py, migrations/V1__init_tables.sql): how the emissions *)
(* of concurrent detection rounds become open records, are appended to     *)
(* them or merged into them, while people and the reconciler close them.   *)
(*                                                                         *)
(* Every pool call of the store is a transaction of its own, so a call of  *)
(* write_or_append is two steps: the SELECT that looks for a record to     *)
(* grow, and the UPDATE or INSERT that follows.  Anything may happen       *)
(* between the two.                                                        *)
(*                                                                         *)
(* One tenant: every statement of the store is qualified by tenant_id.     *)
(* Left out: the columns no property tells apart (symptom, correlation,    *)
(* verification, the timestamps, resolve_reason) and the evidence array,   *)
(* which ProblemLifecycle models.                                          *)
(***************************************************************************)
EXTENDS Naturals, FiniteSets, FiniteSetsExt

CONSTANTS
    Anomaly,     \* identities of anomalies (fingerprint.anomaly_key)
    Domain,      \* monitored domains
    Severity,    \* ranks of severities, warning < high < critical
    Writer,      \* concurrent calls of write_or_append
    MaxSamples,  \* bound: how often one identity occurs in an emission
    MaxRecords   \* bound: numbers the sequence store hands out

ASSUME SeverityAssumption   == Severity \subseteq Nat
ASSUME MaxSamplesAssumption == MaxSamples \in Nat \ {0}
ASSUME MaxRecordsAssumption == MaxRecords \in Nat

VARIABLES
    rows,      \* problem_record, by record number
    nextSeq,   \* the last number drawn from record_seq
    call,      \* per writer, the locals of its call of write_or_append
    returned,  \* history: the emissions whose call returned normally
    raised     \* history: the emissions whose call raised

vars == <<rows, nextSeq, call, returned, raised>>

-----------------------------------------------------------------------------
(***************************************************************************)
(* Anomaly lists.  The metric_anomalies and log_anomalies of a record are  *)
(* lists in which one identity may occur several times: a detector reports *)
(* one anomaly per offending sample.                                       *)
(***************************************************************************)
Bag == [Anomaly -> 0..MaxSamples]

\* The set of identities of a list: records._anomaly_keys.
AnomalyKeys(b) == {a \in Anomaly : b[a] > 0}

\* Faulty: only the additions are kept.
MergeAnomaliesAdded(old, new) ==
    [a \in Anomaly |-> IF a \in AnomalyKeys(new) \ AnomalyKeys(old) THEN 1 ELSE 0]

\* records._merge_anomalies: union by identity, one entry for each.
MergeAnomalies(old, new) ==
    [a \in Anomaly |-> IF a \in AnomalyKeys(old) \cup AnomalyKeys(new) THEN 1 ELSE 0]

\* fingerprint.group_key hashes the sorted LIST of identities, so it is an
\* injective image of the list, repetitions included; its service segment is
\* a function of the identities.
GroupKey(d, b) == <<d, b>>

Key == Domain \X Bag

-----------------------------------------------------------------------------
(***************************************************************************)
(* Rows.  A number that no INSERT used yet has state "absent".             *)
(***************************************************************************)
Ids == 1..MaxRecords

OpenStates == {"pending", "in_progress"}

TerminalStates == {"resolved", "closed", "escalated"}

Row == [state : OpenStates \cup TerminalStates,
        domain : Domain, key : Key, anoms : Bag,
        count : Nat, severity : Severity]

Absent == [state |-> "absent"]

IsOpen(r) == r.state \in OpenStates

\* Faulty: open_group_key is NULL for in_progress rows too.
OpenWithKeyPendingOnly(k) == {i \in Ids : rows[i].state = "pending" /\ rows[i].key = k}

\* The rows the generated column open_group_key lets the UNIQUE index see
\* under key k.
OpenWithKey(k) == {i \in Ids : IsOpen(rows[i]) /\ rows[i].key = k}

MaxSeverity(s, t) == IF s > t THEN s ELSE t

-----------------------------------------------------------------------------
(***************************************************************************)
(* Calls.  "find": about to SELECT; "merge"/"insert": about to write.      *)
(***************************************************************************)
Idle == [pc |-> "idle"]

\* The record that emit built, with the number it drew.
Emission == [id : Ids, domain : Domain, anoms : Bag, severity : Severity]

Call == {Idle}
        \cup [pc : {"find", "insert"}, rec : Emission]
        \cup [pc : {"merge"}, rec : Emission, target : Ids, read : Bag]

Init ==
    /\ rows = [i \in Ids |-> Absent]
    /\ nextSeq = 0
    /\ call = [w \in Writer |-> Idle]
    /\ returned = {}
    /\ raised = {}

Return(w) ==
    /\ call' = [call EXCEPT ![w] = Idle]
    /\ returned' = returned \cup {call[w].rec.id}
    /\ UNCHANGED raised

Raise(w) ==
    /\ call' = [call EXCEPT ![w] = Idle]
    /\ raised' = raised \cup {call[w].rec.id}
    /\ UNCHANGED returned

\* emit draws a number, appended to an old record or not, builds the record
\* and calls write_or_append.
Emit(w, d, b, s) ==
    /\ call[w] = Idle
    /\ nextSeq < MaxRecords
    /\ AnomalyKeys(b) # {}
    /\ nextSeq' = nextSeq + 1
    /\ call' = [call EXCEPT ![w] =
            [pc |-> "find",
             rec |-> [id |-> nextSeq + 1, domain |-> d, anoms |-> b, severity |-> s]]]
    /\ UNCHANGED <<rows, returned, raised>>

\* The open records of the domain whose identities are a strict subset of
\* those of the new record.
SubsetRows(rec) ==
    {i \in Ids : /\ IsOpen(rows[i])
                 /\ rows[i].domain = rec.domain
                 /\ AnomalyKeys(rows[i].anoms) # {}
                 /\ AnomalyKeys(rows[i].anoms) \subseteq AnomalyKeys(rec.anoms)
                 /\ AnomalyKeys(rows[i].anoms) # AnomalyKeys(rec.anoms)}

\* records._superset_candidate: the largest of them.  The SELECT has no ORDER
\* BY, so any of the largest.
SupersetCandidates(rec) ==
    {i \in SubsetRows(rec) : \A j \in SubsetRows(rec) :
        Cardinality(AnomalyKeys(rows[j].anoms)) <= Cardinality(AnomalyKeys(rows[i].anoms))}

\* PGRecordStore._find_superset_candidate: one SELECT, then plain Python.
FindSuperset(w) ==
    /\ call[w].pc = "find"
    /\ LET rec == call[w].rec IN
        \/ /\ SubsetRows(rec) = {}
           /\ call' = [call EXCEPT ![w] = [pc |-> "insert", rec |-> rec]]
        \/ \E i \in SupersetCandidates(rec) :
              call' = [call EXCEPT ![w] =
                [pc |-> "merge", rec |-> rec, target |-> i, read |-> rows[i].anoms]]
    /\ UNCHANGED <<rows, nextSeq, returned, raised>>

\* Faulty: the merge does not move the record to its new key.
MergedRowOldKey(row, rec, read) ==
    [row EXCEPT !.anoms = MergeAnomalies(read, rec.anoms),
                !.count = @ + 1,
                !.severity = MaxSeverity(rec.severity, @)]

\* The SET list of the UPDATE in _merge_into: the anomalies are computed from
\* the list read by the SELECT, the rest from the row itself.
MergedRow(row, rec, read) ==
    [row EXCEPT !.key = GroupKey(rec.domain, rec.anoms),
                !.anoms = MergeAnomalies(read, rec.anoms),
                !.count = @ + 1,
                !.severity = MaxSeverity(rec.severity, @)]

\* Faulty: write_or_append does not return after the merge, and inserts too.
MergeIntoFallsThrough(w) ==
    /\ call[w].pc = "merge"
    /\ IsOpen(rows[call[w].target])
    /\ OpenWithKey(GroupKey(call[w].rec.domain, call[w].rec.anoms)) = {}
    /\ rows' = [rows EXCEPT ![call[w].target] = MergedRow(@, call[w].rec, call[w].read)]
    /\ call' = [call EXCEPT ![w] = [pc |-> "insert", rec |-> call[w].rec]]
    /\ UNCHANGED <<nextSeq, returned, raised>>

\* Faulty: the WHERE of the UPDATE names the record only, not its state.
MergeIntoAnyState(w) ==
    /\ call[w].pc = "merge"
    /\ OpenWithKey(GroupKey(call[w].rec.domain, call[w].rec.anoms)) \subseteq {call[w].target}
    /\ rows' = [rows EXCEPT ![call[w].target] = MergedRow(@, call[w].rec, call[w].read)]
    /\ Return(w)
    /\ UNCHANGED nextSeq

\* PGRecordStore._merge_into: WHERE ... state = ANY(open states); the number
\* of rows updated is not looked at.  The UNIQUE index rejects the new key
\* when another open row has it.
MergeInto(w) ==
    /\ call[w].pc = "merge"
    /\ LET rec == call[w].rec
           t == call[w].target
       IN  \/ /\ ~IsOpen(rows[t])
              /\ Return(w)
              /\ UNCHANGED rows
           \/ /\ IsOpen(rows[t])
              /\ OpenWithKey(GroupKey(rec.domain, rec.anoms)) \subseteq {t}
              /\ rows' = [rows EXCEPT ![t] = MergedRow(@, rec, call[w].read)]
              /\ Return(w)
           \/ /\ IsOpen(rows[t])
              /\ ~(OpenWithKey(GroupKey(rec.domain, rec.anoms)) \subseteq {t})
              /\ Raise(w)
              /\ UNCHANGED rows
    /\ UNCHANGED nextSeq

NewRow(rec) ==
    [state |-> "pending", domain |-> rec.domain,
     key |-> GroupKey(rec.domain, rec.anoms), anoms |-> rec.anoms,
     count |-> 1, severity |-> rec.severity]

\* Faulty: the last severity wins.
AppendedRowLastSeverity(row, rec) == [row EXCEPT !.count = @ + 1, !.severity = rec.severity]

\* The SET list of ON CONFLICT (tenant_id, open_group_key) DO UPDATE.
AppendedRow(row, rec) ==
    [row EXCEPT !.count = @ + 1, !.severity = MaxSeverity(rec.severity, @)]

\* The INSERT ... ON CONFLICT DO UPDATE at the end of write_or_append.
InsertOrAppend(w) ==
    /\ call[w].pc = "insert"
    /\ LET rec == call[w].rec
           hit == OpenWithKey(GroupKey(rec.domain, rec.anoms))
       IN  \/ \E i \in hit : rows' = [rows EXCEPT ![i] = AppendedRow(@, rec)]
           \/ /\ hit = {}
              /\ rows' = [rows EXCEPT ![rec.id] = NewRow(rec)]
    /\ Return(w)
    /\ UNCHANGED nextSeq

\* resolve, close and mark_escalated: PGRecordStore._set_terminal_state, one
\* UPDATE guarded by state <> target only.
SetTerminalState(i, s) ==
    /\ rows[i].state \notin {"absent", s}
    /\ rows' = [rows EXCEPT ![i].state = s]
    /\ UNCHANGED <<nextSeq, call, returned, raised>>

\* PGRecordStore.mark_in_progress: one UPDATE guarded by state = 'pending'.
MarkInProgress(i) ==
    /\ rows[i].state = "pending"
    /\ rows' = [rows EXCEPT ![i].state = "in_progress"]
    /\ UNCHANGED <<nextSeq, call, returned, raised>>

Next ==
    \/ \E w \in Writer, d \in Domain, b \in Bag, s \in Severity : Emit(w, d, b, s)
    \/ \E w \in Writer : FindSuperset(w)
    \/ \E w \in Writer : MergeInto(w)
    \/ \E w \in Writer : InsertOrAppend(w)
    \/ \E i \in Ids, s \in TerminalStates : SetTerminalState(i, s)
    \/ \E i \in Ids : MarkInProgress(i)

Spec == Init /\ [][Next]_vars

-----------------------------------------------------------------------------
(***************************************************************************)
(* Properties.                                                             *)
(***************************************************************************)

TypeOK ==
    /\ rows \in [Ids -> Row \cup {Absent}]
    /\ nextSeq \in 0..MaxRecords
    /\ call \in [Writer -> Call]
    /\ returned \subseteq Ids
    /\ raised \subseteq Ids

\* V1__init_tables.sql:18: however emissions, merges and closings interleave,
\* two open records never share a group key.
OneOpenPerKey ==
    \A i, j \in Ids :
        IsOpen(rows[i]) /\ IsOpen(rows[j]) /\ rows[i].key = rows[j].key => i = j

\* A record's group key always names exactly the identities it lists and its
\* own domain.  The merge writes the key of the new record but anomalies
\* computed from an older read: the two stay consistent even when that read
\* is stale, so the exact-key path finds the record again.
KeyNamesAnomalies ==
    \A i \in Ids : rows[i] # Absent =>
        /\ rows[i].key[1] = rows[i].domain
        /\ AnomalyKeys(rows[i].key[2]) = AnomalyKeys(rows[i].anoms)

\* A number is inserted at most once and belongs to one emission: a call under
\* way holds a number no row, no other call and no finished call has.
NumbersNotShared ==
    \A w \in Writer : call[w] # Idle =>
        /\ call[w].rec.id <= nextSeq
        /\ rows[call[w].rec.id] = Absent
        /\ call[w].rec.id \notin returned \cup raised
        /\ \A v \in Writer \ {w} : call[v] # Idle => call[v].rec.id # call[w].rec.id

\* A closed record is history: no emission that was under way when it closed
\* opens it again or changes what it lists, and no row is ever deleted.
ClosedStaysClosed ==
    [][\A i \in Ids : rows[i] # Absent /\ ~IsOpen(rows[i]) =>
            /\ rows'[i] # Absent /\ ~IsOpen(rows'[i])
            /\ rows'[i].key = rows[i].key /\ rows'[i].anoms = rows[i].anoms
            /\ rows'[i].count = rows[i].count]_vars

CountOf(i) == IF rows[i] = Absent THEN 0 ELSE rows[i].count

\* occurrence_count never counts a call twice, nor one that raised: every occurrence
\* that the records count is a call of its own that returned (f: the record of a call,
\* 0 for a call that no record counts).
NeverOvercounted ==
    \E f \in [returned -> Ids \cup {0}] :
        \A i \in Ids : CountOf(i) = Cardinality({e \in returned : f[e] = i})

\* While a record is open its severity never drops and it forgets no
\* occurrence (the CASE on array_position in both statements).
OpenRecordGrows ==
    [][\A i \in Ids : IsOpen(rows[i]) =>
            rows'[i].count >= rows[i].count /\ rows'[i].severity >= rows[i].severity]_vars

\* records.py:447, "anomalies take the union": an open record loses an
\* identity only to a merge that computed the union from a list another call
\* had changed since it was read.
OnlyStaleMergeForgets ==
    [][\A i \in Ids : IsOpen(rows[i]) =>
            \/ AnomalyKeys(rows[i].anoms) \subseteq AnomalyKeys(rows'[i].anoms)
            \/ \E w \in Writer :
                 /\ call[w].pc = "merge" /\ call[w].target = i /\ call'[w] = Idle
                 /\ call[w].read # rows[i].anoms]_vars

-----------------------------------------------------------------------------
(***************************************************************************)
(* Claims of the documentation that the code does not keep; README.md says *)
(* for which constants TLC refutes them.                                   *)
(***************************************************************************)
\* records.py:163, "opens a record or appends to one": a call that returned
\* left its occurrence in some record.
EveryEmissionCounted == MapThenSumSet(CountOf, Ids) = Cardinality(returned)

\* records.py:32, "the case of equality is handled by the ON CONFLICT path":
\* no call fails on the UNIQUE index.
NoWriteRaises == raised = {}

\* records.py:44-47: the identity of a record is its set of identities,
\* independent of the samples, so no two open records of a domain list the
\* same set.
OneOpenPerAnomalySet ==
    \A i, j \in Ids :
        /\ IsOpen(rows[i]) /\ IsOpen(rows[j]) /\ rows[i].domain = rows[j].domain
        /\ AnomalyKeys(rows[i].anoms) = AnomalyKeys(rows[j].anoms)
        => i = j
=============================================================================
