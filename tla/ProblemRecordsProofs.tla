------------------------ MODULE ProblemRecordsProofs ------------------------
(***************************************************************************)
(* Proofs about the record store, for any anomalies, domains, writers and  *)
(* bounds.                                                                 *)
(***************************************************************************)
EXTENDS RecordHistory, TLAPS, FiniteSetTheorems

USE SeverityAssumption, MaxSamplesAssumption, MaxRecordsAssumption

-----------------------------------------------------------------------------
(***************************************************************************)
(* Operators.                                                              *)
(***************************************************************************)

\* Merging lists yields a list, and its identities are those of both.
LEMMA MergeIsUnion ==
    ASSUME NEW old \in Bag, NEW new \in Bag
    PROVE  /\ MergeAnomalies(old, new) \in Bag
           /\ AnomalyKeys(MergeAnomalies(old, new)) = AnomalyKeys(old) \cup AnomalyKeys(new)
  BY DEF MergeAnomalies, Bag, AnomalyKeys

\* Taking the greater of two severities.
LEMMA SeverityJoin ==
    ASSUME NEW s \in Severity, NEW t \in Severity
    PROVE  MaxSeverity(s, t) \in Severity /\ MaxSeverity(s, t) >= t
  BY DEF MaxSeverity

\* The fields of rows and of emissions.
LEMMA Fields ==
    ASSUME NEW r \in Row, NEW rec \in Emission
    PROVE  /\ r.state \in OpenStates \cup TerminalStates
           /\ r.domain \in Domain /\ r.key \in Key /\ r.anoms \in Bag
           /\ r.count \in Nat /\ r.severity \in Severity
           /\ rec.id \in Ids /\ rec.domain \in Domain
           /\ rec.anoms \in Bag /\ rec.severity \in Severity
  BY DEF Row, Emission

\* A merged row is a row, in the state and domain of the old one.
LEMMA MergedRowType ==
    ASSUME NEW r \in Row, NEW rec \in Emission, NEW read \in Bag
    PROVE  /\ MergedRow(r, rec, read) \in Row
           /\ MergedRow(r, rec, read).state = r.state
           /\ MergedRow(r, rec, read).domain = r.domain
           /\ MergedRow(r, rec, read).key = <<rec.domain, rec.anoms>>
           /\ MergedRow(r, rec, read).anoms = MergeAnomalies(read, rec.anoms)
           /\ MergedRow(r, rec, read).count = r.count + 1
           /\ MergedRow(r, rec, read).severity >= r.severity
  <1>1. MergeAnomalies(read, rec.anoms) \in Bag
    BY MergeIsUnion, Fields
  <1>2. /\ MaxSeverity(rec.severity, r.severity) \in Severity
        /\ MaxSeverity(rec.severity, r.severity) >= r.severity
    BY SeverityJoin, Fields
  <1>3. GroupKey(rec.domain, rec.anoms) \in Key
    BY Fields DEF GroupKey, Key
  <1>4. r.count + 1 \in Nat
    BY Fields
  <1> DEFINE k == GroupKey(rec.domain, rec.anoms)
             b == MergeAnomalies(read, rec.anoms)
             n == r.count + 1
             s == MaxSeverity(rec.severity, r.severity)
             q == [r EXCEPT !.key = k, !.anoms = b, !.count = n, !.severity = s]
  <1>5. /\ k \in Key /\ b \in Bag /\ n \in Nat /\ s \in Severity
        /\ s >= r.severity
        /\ k = <<rec.domain, rec.anoms>>
    BY <1>1, <1>2, <1>3, <1>4 DEF GroupKey
  <1>6. MergedRow(r, rec, read) = q
    BY DEF MergedRow
  <1> HIDE DEF k, b, n, s
  <1>7. q \in Row
    BY <1>5 DEF Row
  <1>8. /\ q.state = r.state /\ q.domain = r.domain
        /\ q.key = k /\ q.anoms = b /\ q.count = n /\ q.severity = s
    BY <1>5 DEF Row
  <1> HIDE DEF q
  <1> QED
    BY <1>5, <1>6, <1>7, <1>8 DEF n, b

\* An appended row is a row with the same state, domain, key and anomalies.
LEMMA AppendedRowType ==
    ASSUME NEW r \in Row, NEW rec \in Emission
    PROVE  /\ AppendedRow(r, rec) \in Row
           /\ AppendedRow(r, rec).state = r.state
           /\ AppendedRow(r, rec).domain = r.domain
           /\ AppendedRow(r, rec).key = r.key
           /\ AppendedRow(r, rec).anoms = r.anoms
           /\ AppendedRow(r, rec).count = r.count + 1
           /\ AppendedRow(r, rec).severity >= r.severity
  <1>1. /\ MaxSeverity(rec.severity, r.severity) \in Severity
        /\ MaxSeverity(rec.severity, r.severity) >= r.severity
    BY SeverityJoin, Fields
  <1> DEFINE n == r.count + 1
             s == MaxSeverity(rec.severity, r.severity)
             q == [r EXCEPT !.count = n, !.severity = s]
  <1>2. n \in Nat /\ s \in Severity /\ s >= r.severity
    BY <1>1, Fields
  <1>3. AppendedRow(r, rec) = q
    BY DEF AppendedRow
  <1> HIDE DEF n, s
  <1>4. /\ q \in Row
        /\ q.state = r.state /\ q.domain = r.domain
        /\ q.key = r.key /\ q.anoms = r.anoms /\ q.count = n /\ q.severity = s
    BY <1>2 DEF Row
  <1> HIDE DEF q
  <1> QED
    BY <1>2, <1>3, <1>4 DEF n

\* A new row is an open row whose key is that of its own anomalies.
LEMMA NewRowType ==
    ASSUME NEW rec \in Emission
    PROVE  /\ NewRow(rec) \in Row
           /\ NewRow(rec).state = "pending"
           /\ NewRow(rec).domain = rec.domain
           /\ NewRow(rec).key = <<rec.domain, rec.anoms>>
           /\ NewRow(rec).anoms = rec.anoms
  BY DEF NewRow, Row, GroupKey, Key, Emission, OpenStates

\* Open rows are rows, not absent numbers.
LEMMA OpenIsRow ==
    ASSUME NEW r \in Row \cup {Absent}
    PROVE  /\ IsOpen(r) => r \in Row
           /\ r # Absent <=> r \in Row
           /\ r.state # "absent" <=> r \in Row
  BY DEF IsOpen, OpenStates, TerminalStates, Absent, Row

\* The locals of a call, by its program counter.
LEMMA CallFields ==
    ASSUME NEW c \in Call
    PROVE  /\ c.pc \in {"idle", "find", "insert", "merge"}
           /\ c.pc = "idle" <=> c = Idle
           /\ c # Idle => c.rec \in Emission
           /\ c.pc = "merge" => c.target \in Ids /\ c.read \in Bag
  BY DEF Call, Idle

-----------------------------------------------------------------------------
(***************************************************************************)
(* Types.                                                                  *)
(***************************************************************************)

\* A call about to write holds an emission; ending it leaves the call idle.
LEMMA EndTypes ==
    ASSUME TypeOK, NEW w \in Writer, call[w] # Idle, Return(w) \/ Raise(w)
    PROVE  /\ call[w].rec \in Emission
           /\ call' \in [Writer -> Call]
           /\ returned' \subseteq Ids
           /\ raised' \subseteq Ids
  <1>1. call[w].rec \in Emission
    BY CallFields DEF TypeOK
  <1>2. call[w].rec.id \in Ids
    BY <1>1 DEF Emission
  <1>3. Idle \in Call
    BY DEF Call
  <1> QED
    BY <1>1, <1>2, <1>3 DEF Return, Raise, TypeOK

\* Every step of the store keeps every variable in its type.
THEOREM TypeCorrect == Spec => []TypeOK
<1>1. Init => TypeOK
  BY DEF Init, TypeOK, Ids, Call
<1>2. TypeOK /\ [Next]_vars => TypeOK'
  <2> SUFFICES ASSUME TypeOK, [Next]_vars PROVE TypeOK'
    OBVIOUS
  <2>1. ASSUME NEW w \in Writer, NEW d \in Domain, NEW b \in Bag, NEW s \in Severity,
               Emit(w, d, b, s)
        PROVE  TypeOK'
    <3>1. nextSeq + 1 \in Ids /\ nextSeq' \in 0..MaxRecords
      BY <2>1 DEF Emit, TypeOK, Ids
    <3>2. [id |-> nextSeq + 1, domain |-> d, anoms |-> b, severity |-> s] \in Emission
      BY <3>1 DEF Emission
    <3>3. call' \in [Writer -> Call]
      BY <2>1, <3>2 DEF Emit, TypeOK, Call
    <3> QED
      BY <2>1, <3>1, <3>3 DEF Emit, TypeOK
  <2>2. ASSUME NEW w \in Writer, FindSuperset(w)
        PROVE  TypeOK'
    <3>1. call[w] \in Call /\ call[w].rec \in Emission
      BY <2>2, CallFields DEF TypeOK, FindSuperset, Idle
    <3>2. ASSUME NEW i \in SupersetCandidates(call[w].rec)
          PROVE  i \in Ids /\ rows[i].anoms \in Bag
      <4>1. i \in Ids /\ IsOpen(rows[i])
        BY <3>2 DEF SupersetCandidates, SubsetRows
      <4>2. rows[i] \in Row
        BY <4>1, OpenIsRow DEF TypeOK
      <4> QED
        BY <4>1, <4>2 DEF Row
    <3>3. call' \in [Writer -> Call]
      <4>1. CASE call' = [call EXCEPT ![w] = [pc |-> "insert", rec |-> call[w].rec]]
        BY <4>1, <3>1 DEF TypeOK, Call
      <4>2. ASSUME NEW i \in SupersetCandidates(call[w].rec),
                   call' = [call EXCEPT ![w] = [pc |-> "merge", rec |-> call[w].rec,
                                                target |-> i, read |-> rows[i].anoms]]
            PROVE  call' \in [Writer -> Call]
        BY <4>2, <3>1, <3>2 DEF TypeOK, Call
      <4> QED
        BY <4>1, <4>2, <2>2 DEF FindSuperset
    <3> QED
      BY <2>2, <3>3 DEF FindSuperset, TypeOK
  <2>3. ASSUME NEW w \in Writer, MergeInto(w)
        PROVE  TypeOK'
    <3>1. /\ call[w] # Idle /\ call[w].target \in Ids /\ call[w].read \in Bag
          /\ Return(w) \/ Raise(w)
      BY <2>3, CallFields DEF MergeInto, TypeOK, Idle
    <3>2. IsOpen(rows[call[w].target]) =>
            MergedRow(rows[call[w].target], call[w].rec, call[w].read) \in Row
      BY <3>1, EndTypes, OpenIsRow, MergedRowType DEF TypeOK
    <3>3. rows' \in [Ids -> Row \cup {Absent}]
      BY <2>3, <3>1, <3>2 DEF MergeInto, TypeOK
    <3> QED
      BY <2>3, <3>1, <3>3, EndTypes DEF MergeInto, TypeOK
  <2>4. ASSUME NEW w \in Writer, InsertOrAppend(w)
        PROVE  TypeOK'
    <3>1. call[w] # Idle /\ Return(w)
      BY <2>4 DEF InsertOrAppend, Idle
    <3>2. call[w].rec \in Emission /\ call[w].rec.id \in Ids
      BY <3>1, EndTypes DEF Emission
    <3>3. ASSUME NEW i \in Ids, IsOpen(rows[i])
          PROVE  AppendedRow(rows[i], call[w].rec) \in Row
      BY <3>2, <3>3, OpenIsRow, AppendedRowType DEF TypeOK
    <3>4. rows' \in [Ids -> Row \cup {Absent}]
      BY <2>4, <3>2, <3>3, NewRowType DEF InsertOrAppend, OpenWithKey, TypeOK
    <3> QED
      BY <2>4, <3>1, <3>4, EndTypes DEF InsertOrAppend, TypeOK
  <2>5. ASSUME NEW i \in Ids, NEW s \in TerminalStates, SetTerminalState(i, s)
        PROVE  TypeOK'
    <3>1. rows[i] \in Row
      BY <2>5, OpenIsRow DEF SetTerminalState, TypeOK
    <3>2. [rows[i] EXCEPT !.state = s] \in Row
      BY <3>1 DEF Row
    <3> QED
      BY <2>5, <3>2 DEF SetTerminalState, TypeOK
  <2>6. ASSUME NEW i \in Ids, MarkInProgress(i)
        PROVE  TypeOK'
    <3>1. rows[i] \in Row
      BY <2>6, OpenIsRow DEF MarkInProgress, TypeOK
    <3>2. [rows[i] EXCEPT !.state = "in_progress"] \in Row
      BY <3>1 DEF Row, OpenStates
    <3> QED
      BY <2>6, <3>2 DEF MarkInProgress, TypeOK
  <2>7. CASE UNCHANGED vars
    BY <2>7 DEF vars, TypeOK
  <2> QED
    BY <2>1, <2>2, <2>3, <2>4, <2>5, <2>6, <2>7 DEF Next
<1> QED
  BY <1>1, <1>2, PTL DEF Spec

-----------------------------------------------------------------------------
(***************************************************************************)
(* The inductive invariant.  KeyNamesAnomalies is not inductive alone: a   *)
(* merge computes the new anomalies from what its SELECT read, so one must *)
(* know that this read was, and stays, a part of the emission, and that    *)
(* its target keeps its domain.  ClosedStaysClosed needs that the number   *)
(* of an INSERT is unused.                                                 *)
(***************************************************************************)

MergeReads ==
    \A w \in Writer : call[w].pc = "merge" =>
        /\ rows[call[w].target] # Absent
        /\ rows[call[w].target].domain = call[w].rec.domain
        /\ AnomalyKeys(call[w].read) \subseteq AnomalyKeys(call[w].rec.anoms)

NumbersDrawn ==
    /\ \A i \in Ids : rows[i] # Absent => i <= nextSeq
    /\ \A i \in returned \cup raised : i <= nextSeq

StoreInv ==
    /\ TypeOK
    /\ OneOpenPerKey
    /\ KeyNamesAnomalies
    /\ NumbersNotShared
    /\ MergeReads
    /\ NumbersDrawn

\* What an update of one present row may do to it without disturbing the
\* parts of the invariant that look at rows from a call.
KeepsRow(i) ==
    /\ rows[i] # Absent
    /\ rows' = [rows EXCEPT ![i] = rows'[i]]
    /\ rows'[i] \in Row
    /\ rows'[i].domain = rows[i].domain

\* An update of a present row keeps what calls know about rows.
LEMMA KeptRowCalls ==
    ASSUME StoreInv, NEW i \in Ids, KeepsRow(i),
           NEW v \in Writer, call[v] # Idle
    PROVE  /\ rows'[call[v].rec.id] = Absent
           /\ call[v].pc = "merge" =>
                /\ rows'[call[v].target] # Absent
                /\ rows'[call[v].target].domain = call[v].rec.domain
  <1>1. call[v].rec.id \in Ids /\ (call[v].pc = "merge" => call[v].target \in Ids)
    <2>1. call[v] \in Call
      BY DEF StoreInv, TypeOK
    <2> QED
      BY <2>1, CallFields DEF Emission
  <1>2. rows[call[v].rec.id] = Absent
    BY DEF StoreInv, NumbersNotShared
  <1>3. rows' \in [Ids -> Row \cup {Absent}] /\ rows'[i] # Absent
    BY OpenIsRow DEF KeepsRow, StoreInv, TypeOK
  <1> QED
    BY <1>1, <1>2, <1>3 DEF KeepsRow, StoreInv, MergeReads, TypeOK

\* Emit: a fresh number.
LEMMA EmitInv ==
    ASSUME StoreInv, TypeOK', NEW w \in Writer, NEW d \in Domain, NEW b \in Bag,
           NEW s \in Severity, Emit(w, d, b, s)
    PROVE  StoreInv'
  <1> DEFINE id == nextSeq + 1
  <1>1. id \in Ids /\ nextSeq' = id /\ nextSeq \in Nat /\ UNCHANGED <<rows, returned, raised>>
    BY DEF Emit, StoreInv, TypeOK, Ids
  <1>2. call[w] = Idle /\ call'[w].rec.id = id /\ call'[w].pc = "find"
    BY DEF Emit, StoreInv, TypeOK
  <1>3. \A v \in Writer \ {w} : call'[v] = call[v]
    BY DEF Emit, StoreInv, TypeOK
  <1>4. rows[id] = Absent /\ id \notin returned \cup raised
    BY <1>1 DEF StoreInv, NumbersDrawn
  <1>5. \A v \in Writer : call[v] # Idle => call[v].rec.id \in Nat /\ call[v].rec.id <= nextSeq
    BY CallFields DEF StoreInv, NumbersNotShared, TypeOK, Emission, Ids
  <1>6. OneOpenPerKey' /\ KeyNamesAnomalies'
    BY <1>1 DEF StoreInv, OneOpenPerKey, KeyNamesAnomalies
  <1>7. NumbersNotShared'
    <2> SUFFICES ASSUME NEW v \in Writer, call'[v] # Idle
                 PROVE  /\ call'[v].rec.id <= nextSeq'
                        /\ rows'[call'[v].rec.id] = Absent
                        /\ call'[v].rec.id \notin returned' \cup raised'
                        /\ \A u \in Writer \ {v} :
                              call'[u] # Idle => call'[u].rec.id # call'[v].rec.id
      BY DEF NumbersNotShared
    <2>1. CASE v = w
      BY <2>1, <1>1, <1>2, <1>3, <1>4, <1>5
    <2>2. CASE v # w
      BY <2>2, <1>1, <1>2, <1>3, <1>4, <1>5 DEF StoreInv, NumbersNotShared
    <2> QED
      BY <2>1, <2>2
  <1>8. MergeReads'
    BY <1>1, <1>2, <1>3 DEF StoreInv, MergeReads
  <1>9. NumbersDrawn'
    BY <1>1 DEF StoreInv, NumbersDrawn, TypeOK, Ids
  <1> QED
    BY <1>6, <1>7, <1>8, <1>9 DEF StoreInv

\* FindSuperset: what it reads is part of the emission.
LEMMA FindInv ==
    ASSUME StoreInv, TypeOK', NEW w \in Writer, FindSuperset(w)
    PROVE  StoreInv'
  <1>1. UNCHANGED <<rows, nextSeq, returned, raised>>
    BY DEF FindSuperset
  <1>2. call[w] # Idle /\ call'[w].rec = call[w].rec /\ call'[w] # Idle
    BY DEF FindSuperset, StoreInv, TypeOK, Idle
  <1>3. \A v \in Writer \ {w} : call'[v] = call[v]
    BY DEF FindSuperset, StoreInv, TypeOK
  <1>4. call'[w].pc = "merge" =>
            /\ rows[call'[w].target] # Absent
            /\ rows[call'[w].target].domain = call'[w].rec.domain
            /\ AnomalyKeys(call'[w].read) \subseteq AnomalyKeys(call'[w].rec.anoms)
    <2> SUFFICES ASSUME call'[w].pc = "merge"
                 PROVE  /\ rows[call'[w].target] # Absent
                        /\ rows[call'[w].target].domain = call[w].rec.domain
                        /\ AnomalyKeys(call'[w].read) \subseteq AnomalyKeys(call[w].rec.anoms)
      BY <1>2
    <2>1. PICK i \in SupersetCandidates(call[w].rec) :
            call' = [call EXCEPT ![w] = [pc |-> "merge", rec |-> call[w].rec,
                                         target |-> i, read |-> rows[i].anoms]]
      BY DEF FindSuperset, StoreInv, TypeOK
    <2>2. call'[w].target = i /\ call'[w].read = rows[i].anoms
      BY <2>1 DEF StoreInv, TypeOK
    <2>3. /\ i \in Ids /\ IsOpen(rows[i]) /\ rows[i].domain = call[w].rec.domain
          /\ AnomalyKeys(rows[i].anoms) \subseteq AnomalyKeys(call[w].rec.anoms)
      BY <2>1 DEF SupersetCandidates, SubsetRows
    <2>4. rows[i] # Absent
      BY <2>3, OpenIsRow DEF StoreInv, TypeOK
    <2> QED
      BY <2>2, <2>3, <2>4
  <1>5. OneOpenPerKey' /\ KeyNamesAnomalies' /\ NumbersDrawn'
    BY <1>1 DEF StoreInv, OneOpenPerKey, KeyNamesAnomalies, NumbersDrawn
  <1>6. NumbersNotShared'
    BY <1>1, <1>2, <1>3 DEF StoreInv, NumbersNotShared
  <1>7. MergeReads'
    BY <1>1, <1>3, <1>4 DEF StoreInv, MergeReads
  <1> QED
    BY <1>5, <1>6, <1>7 DEF StoreInv

\* A call that ends, whatever it did to a present row: the parts of the
\* invariant about numbers and reads.
LEMMA EndInv ==
    ASSUME StoreInv, NEW w \in Writer, call[w] # Idle, Return(w) \/ Raise(w),
           UNCHANGED nextSeq,
           \/ UNCHANGED rows
           \/ \E i \in Ids : KeepsRow(i)
           \/ rows' = [rows EXCEPT ![call[w].rec.id] = NewRow(call[w].rec)]
    PROVE  NumbersNotShared' /\ MergeReads' /\ NumbersDrawn'
  <1>1. call'[w] = Idle /\ \A v \in Writer \ {w} : call'[v] = call[v]
    BY DEF Return, Raise, StoreInv, TypeOK
  <1>2. returned' \cup raised' = returned \cup raised \cup {call[w].rec.id}
    BY DEF Return, Raise
  <1>3. call[w].rec \in Emission /\ call[w].rec.id \in Ids /\ call[w].rec.id <= nextSeq
    BY CallFields DEF StoreInv, TypeOK, NumbersNotShared, Emission
  <1>4. NewRow(call[w].rec) \in Row /\ NewRow(call[w].rec) # Absent
    BY <1>3, NewRowType, OpenIsRow
  <1>5. ASSUME NEW v \in Writer, v # w, call[v] # Idle
        PROVE  /\ rows'[call[v].rec.id] = Absent
               /\ call[v].pc = "merge" =>
                    /\ rows'[call[v].target] # Absent
                    /\ rows'[call[v].target].domain = call[v].rec.domain
    <2>1. /\ call[v].rec.id \in Ids
          /\ call[v].pc = "merge" => call[v].target \in Ids
      <3>1. call[v] \in Call
        BY DEF StoreInv, TypeOK
      <3> QED
        BY <3>1, <1>5, CallFields DEF Emission
    <2>2. rows[call[v].rec.id] = Absent /\ call[v].rec.id # call[w].rec.id
      BY <1>5 DEF StoreInv, NumbersNotShared
    <2>3. CASE UNCHANGED rows
      BY <2>2, <2>3, <1>5 DEF StoreInv, MergeReads
    <2>4. CASE \E i \in Ids : KeepsRow(i)
      BY <2>4, <1>5, KeptRowCalls
    <2>5. CASE rows' = [rows EXCEPT ![call[w].rec.id] = NewRow(call[w].rec)]
      <3>1. rows[call[w].rec.id] = Absent
        BY DEF StoreInv, NumbersNotShared
      <3>2. call[v].pc = "merge" => call[v].target # call[w].rec.id
        BY <3>1 DEF StoreInv, MergeReads
      <3> QED
        BY <2>1, <2>2, <2>5, <3>2 DEF StoreInv, TypeOK, MergeReads
    <2> QED
      BY <2>3, <2>4, <2>5
  <1>6. NumbersNotShared'
    BY <1>1, <1>2, <1>5 DEF StoreInv, NumbersNotShared
  <1>7. MergeReads'
    BY <1>1, <1>5 DEF StoreInv, MergeReads, Idle
  <1>8. NumbersDrawn'
    <2>1. \A i \in Ids : rows'[i] # Absent => i <= nextSeq
      BY <1>3 DEF StoreInv, NumbersDrawn, KeepsRow, TypeOK
    <2> QED
      BY <1>2, <1>3, <2>1 DEF StoreInv, NumbersDrawn
  <1> QED
    BY <1>6, <1>7, <1>8

\* MergeInto: the UNIQUE index keeps keys apart, and the key written names
\* the anomalies written because the read was part of the emission.
LEMMA MergeInv ==
    ASSUME StoreInv, TypeOK', NEW w \in Writer, MergeInto(w)
    PROVE  StoreInv'
  <1> DEFINE t == call[w].target
             rec == call[w].rec
  <1>1. /\ call[w] # Idle /\ t \in Ids /\ call[w].read \in Bag /\ rec \in Emission
        /\ Return(w) \/ Raise(w)
        /\ UNCHANGED nextSeq
    BY CallFields DEF MergeInto, StoreInv, TypeOK, Idle
  <1>2. CASE UNCHANGED rows
    <2>1. OneOpenPerKey' /\ KeyNamesAnomalies'
      BY <1>2 DEF StoreInv, OneOpenPerKey, KeyNamesAnomalies
    <2> QED
      BY <1>1, <1>2, <2>1, EndInv DEF StoreInv
  <1>3. CASE /\ IsOpen(rows[t])
             /\ OpenWithKey(GroupKey(rec.domain, rec.anoms)) \subseteq {t}
             /\ rows' = [rows EXCEPT ![t] = MergedRow(rows[t], rec, call[w].read)]
    <2>1. rows[t] \in Row /\ rows[t] # Absent
      BY <1>1, <1>3, OpenIsRow DEF StoreInv, TypeOK
    <2>2. /\ rows'[t] = MergedRow(rows[t], rec, call[w].read)
          /\ \A i \in Ids \ {t} : rows'[i] = rows[i]
      BY <1>1, <1>3 DEF StoreInv, TypeOK
    <2>3. /\ rows'[t] \in Row /\ rows'[t].state = rows[t].state
          /\ rows'[t].domain = rows[t].domain
          /\ rows'[t].key = <<rec.domain, rec.anoms>>
          /\ rows'[t].anoms = MergeAnomalies(call[w].read, rec.anoms)
      BY <1>1, <2>1, <2>2, MergedRowType
    <2>4. KeepsRow(t)
      BY <1>1, <1>3, <2>1, <2>2, <2>3 DEF KeepsRow, StoreInv, TypeOK
    <2>5. OneOpenPerKey'
      BY <1>3, <2>2, <2>3
         DEF StoreInv, OneOpenPerKey, OpenWithKey, GroupKey, IsOpen
    <2>6. AnomalyKeys(rows'[t].anoms) = AnomalyKeys(rec.anoms) /\ rec.domain = rows[t].domain
      <3>1. AnomalyKeys(call[w].read) \subseteq AnomalyKeys(rec.anoms) /\ rec.domain = rows[t].domain
        BY DEF StoreInv, MergeReads, MergeInto
      <3>2. rec.anoms \in Bag
        BY <1>1 DEF Emission
      <3>3. AnomalyKeys(MergeAnomalies(call[w].read, rec.anoms))
                = AnomalyKeys(call[w].read) \cup AnomalyKeys(rec.anoms)
        BY <1>1, <3>2, MergeIsUnion
      <3>4. AnomalyKeys(rows'[t].anoms) = AnomalyKeys(MergeAnomalies(call[w].read, rec.anoms))
        BY <2>3
      <3> QED
        BY <3>1, <3>3, <3>4
    <2>7. KeyNamesAnomalies'
      BY <2>2, <2>3, <2>6 DEF StoreInv, KeyNamesAnomalies
    <2> QED
      BY <1>1, <2>4, <2>5, <2>7, EndInv DEF StoreInv
  <1> QED
    BY <1>2, <1>3 DEF MergeInto

\* InsertOrAppend: a new row only when no open row has its key.
LEMMA InsertInv ==
    ASSUME StoreInv, TypeOK', NEW w \in Writer, InsertOrAppend(w)
    PROVE  StoreInv'
  <1> DEFINE rec == call[w].rec
             hit == OpenWithKey(GroupKey(rec.domain, rec.anoms))
  <1>1. call[w] # Idle /\ rec \in Emission /\ rec.id \in Ids /\ Return(w) /\ UNCHANGED nextSeq
    BY CallFields DEF InsertOrAppend, StoreInv, TypeOK, Idle, Emission
  <1>2. CASE \E i \in hit : rows' = [rows EXCEPT ![i] = AppendedRow(rows[i], rec)]
    <2>1. PICK i \in hit : rows' = [rows EXCEPT ![i] = AppendedRow(rows[i], rec)]
      BY <1>2
    <2>2. i \in Ids /\ rows[i] \in Row /\ rows[i] # Absent
      BY OpenIsRow DEF StoreInv, TypeOK, OpenWithKey
    <2>3. rows'[i] = AppendedRow(rows[i], rec) /\ \A j \in Ids \ {i} : rows'[j] = rows[j]
      BY <2>1, <2>2 DEF StoreInv, TypeOK
    <2>4. /\ rows'[i] \in Row /\ rows'[i].state = rows[i].state
          /\ rows'[i].domain = rows[i].domain /\ rows'[i].key = rows[i].key
          /\ rows'[i].anoms = rows[i].anoms
      BY <1>1, <2>2, <2>3, AppendedRowType
    <2>5. KeepsRow(i)
      BY <2>1, <2>2, <2>3, <2>4 DEF KeepsRow, StoreInv, TypeOK
    <2>6. OneOpenPerKey' /\ KeyNamesAnomalies'
      BY <2>2, <2>3, <2>4 DEF StoreInv, OneOpenPerKey, KeyNamesAnomalies, IsOpen
    <2> QED
      BY <1>1, <2>2, <2>5, <2>6, EndInv DEF StoreInv
  <1>3. CASE hit = {} /\ rows' = [rows EXCEPT ![rec.id] = NewRow(rec)]
    <2>1. rows'[rec.id] = NewRow(rec) /\ \A j \in Ids \ {rec.id} : rows'[j] = rows[j]
      BY <1>1, <1>3 DEF StoreInv, TypeOK
    <2>2. /\ rows'[rec.id].domain = rec.domain /\ rows'[rec.id].anoms = rec.anoms
          /\ rows'[rec.id].key = <<rec.domain, rec.anoms>>
      BY <1>1, <2>1, NewRowType
    <2>3. OneOpenPerKey'
      BY <1>3, <2>1, <2>2 DEF StoreInv, OneOpenPerKey, OpenWithKey, GroupKey
    <2>4. KeyNamesAnomalies'
      BY <2>1, <2>2 DEF StoreInv, KeyNamesAnomalies
    <2> QED
      BY <1>1, <1>3, <2>3, <2>4, EndInv DEF StoreInv
  <1> QED
    BY <1>2, <1>3 DEF InsertOrAppend

\* A change of state that does not reopen a row.
LEMMA StateInv ==
    ASSUME StoreInv, TypeOK', NEW i \in Ids, NEW s, rows[i].state # "absent",
           rows' = [rows EXCEPT ![i].state = s], s \in OpenStates => IsOpen(rows[i]),
           UNCHANGED <<nextSeq, call, returned, raised>>
    PROVE  StoreInv'
  <1>1. rows[i] \in Row /\ rows[i] # Absent
    BY OpenIsRow DEF StoreInv, TypeOK
  <1>2. rows'[i] = [rows[i] EXCEPT !.state = s] /\ \A j \in Ids \ {i} : rows'[j] = rows[j]
    BY DEF StoreInv, TypeOK
  <1>3. /\ rows'[i].state = s /\ rows'[i].domain = rows[i].domain
        /\ rows'[i].key = rows[i].key /\ rows'[i].anoms = rows[i].anoms
    BY <1>1, <1>2 DEF Row
  <1>4. rows'[i] \in Row
    <2>1. DOMAIN rows'[i] = DOMAIN rows[i]
      BY <1>1, <1>2
    <2>2. rows'[i] # Absent
      BY <1>1, <2>1 DEF Row, Absent
    <2> QED
      BY <2>2 DEF TypeOK
  <1>5. KeepsRow(i)
    BY <1>1, <1>2, <1>3, <1>4 DEF KeepsRow, StoreInv, TypeOK
  <1>6. OneOpenPerKey' /\ KeyNamesAnomalies'
    BY <1>1, <1>2, <1>3 DEF StoreInv, OneOpenPerKey, KeyNamesAnomalies, IsOpen
  <1>7. NumbersNotShared'
    BY <1>5, KeptRowCalls DEF StoreInv, NumbersNotShared
  <1>8. MergeReads'
    <2>1. \A v \in Writer : call[v].pc = "merge" => call[v] # Idle
      BY DEF Idle
    <2> QED
      BY <1>5, <2>1, KeptRowCalls DEF StoreInv, MergeReads
  <1>9. NumbersDrawn'
    BY <1>1, <1>2 DEF StoreInv, NumbersDrawn
  <1> QED
    BY <1>6, <1>7, <1>8, <1>9 DEF StoreInv

\* The store keeps its invariant.
LEMMA StoreStep == StoreInv /\ TypeOK' /\ [Next]_vars => StoreInv'
  <1> SUFFICES ASSUME StoreInv, TypeOK', [Next]_vars PROVE StoreInv'
    OBVIOUS
  <1>1. ASSUME NEW i \in Ids, NEW s \in TerminalStates, SetTerminalState(i, s)
        PROVE  StoreInv'
    <2>1. /\ rows[i].state # "absent" /\ rows' = [rows EXCEPT ![i].state = s]
          /\ UNCHANGED <<nextSeq, call, returned, raised>>
      BY <1>1 DEF SetTerminalState
    <2>2. s \notin OpenStates
      BY DEF TerminalStates, OpenStates
    <2> QED
      BY <2>1, <2>2, StateInv
  <1>2. ASSUME NEW i \in Ids, MarkInProgress(i)
        PROVE  StoreInv'
    <2>1. /\ rows[i].state # "absent" /\ rows' = [rows EXCEPT ![i].state = "in_progress"]
          /\ UNCHANGED <<nextSeq, call, returned, raised>>
      BY <1>2 DEF MarkInProgress
    <2>2. IsOpen(rows[i])
      BY <1>2 DEF MarkInProgress, OpenStates, IsOpen
    <2> QED
      BY <2>1, <2>2, StateInv
  <1>3. CASE UNCHANGED vars
    BY <1>3 DEF vars, StoreInv, OneOpenPerKey, KeyNamesAnomalies, NumbersNotShared,
                MergeReads, NumbersDrawn
  <1> QED
    BY <1>1, <1>2, <1>3, EmitInv, FindInv, MergeInv, InsertInv DEF Next

\* The inductive invariant holds at every moment.
LEMMA StoreInvariant == Spec => []StoreInv
<1>1. Init => StoreInv
  BY DEF Init, StoreInv, TypeOK, Ids, Call, OneOpenPerKey, KeyNamesAnomalies,
         NumbersNotShared, MergeReads, NumbersDrawn, Idle, IsOpen, Absent, OpenStates
<1> QED
  BY <1>1, StoreStep, TypeCorrect, PTL DEF Spec

\* At every moment: one open record per key, keys that name what their record
\* lists, and numbers that belong to one emission each (records.py, V1 schema).
THEOREM StoreCorrect == Spec => [](OneOpenPerKey /\ KeyNamesAnomalies /\ NumbersNotShared)
<1>1. StoreInv => OneOpenPerKey /\ KeyNamesAnomalies /\ NumbersNotShared
  BY DEF StoreInv
<1> QED
  BY <1>1, StoreInvariant, PTL

\* _merge_into writes the key of the new record and anomalies computed from an older read:
\* the key of a record names what the record lists all the same, for any number of writers.
THEOREM KeysAreTrue == Spec => []KeyNamesAnomalies
<1>1. StoreInv => KeyNamesAnomalies
  BY DEF StoreInv
<1> QED
  BY <1>1, StoreInvariant, PTL

-----------------------------------------------------------------------------
(***************************************************************************)
(* Occurrences.  The calls that returned are attributed to records, and a  *)
(* record counts the calls attributed to it.                               *)
(***************************************************************************)

\* A call more returns, and the record j, if any, counts it.
LEMMA CountedOnce ==
    ASSUME TypeOK, NeverOvercounted, NEW e \in Ids, e \notin returned, returned' = returned \cup {e},
           NEW j \in Ids \cup {0}, \A i \in Ids : CountOf(i)' = IF i = j THEN CountOf(i) + 1 ELSE CountOf(i)
    PROVE  NeverOvercounted'
  <1>1. PICK f \in [returned -> Ids \cup {0}] :
            \A i \in Ids : CountOf(i) = Cardinality({x \in returned : f[x] = i})
    BY DEF NeverOvercounted
  <1>2. PICK g : g = [x \in returned \cup {e} |-> IF x = e THEN j ELSE f[x]]
    OBVIOUS
  <1>3. g \in [returned \cup {e} -> Ids \cup {0}]
    BY <1>1, <1>2
  <1>4. ASSUME NEW i \in Ids
        PROVE  CountOf(i)' = Cardinality({x \in returned \cup {e} : g[x] = i})
    <2>1. PICK S : S = {x \in returned : f[x] = i}
      OBVIOUS
    <2>2. IsFiniteSet(Ids)
      BY FS_Interval, MaxRecordsAssumption DEF Ids
    <2>3. S \subseteq Ids
      BY <2>1 DEF TypeOK
    <2>4. IsFiniteSet(S)
      BY <2>2, <2>3, FS_Subset
    <2>5. CountOf(i) = Cardinality(S)
      BY <1>1, <2>1
    <2>6. CASE i = j
      <3>1. {x \in returned \cup {e} : g[x] = i} = S \cup {e} /\ e \notin S
        BY <1>2, <2>1, <2>6
      <3>2. Cardinality(S \cup {e}) = Cardinality(S) + 1
        BY <2>4, <3>1, FS_AddElement
      <3> QED
        BY <2>5, <2>6, <3>1, <3>2
    <2>7. CASE i # j
      <3>1. {x \in returned \cup {e} : g[x] = i} = S
        BY <1>2, <2>1, <2>7
      <3> QED
        BY <2>5, <2>7, <3>1
    <2> QED
      BY <2>6, <2>7
  <1> QED
    BY <1>3, <1>4 DEF NeverOvercounted

LEMMA CountsKept ==
    ASSUME NeverOvercounted, UNCHANGED returned, \A i \in Ids : CountOf(i)' = CountOf(i)
    PROVE  NeverOvercounted'
  BY DEF NeverOvercounted

\* The ways to write a row, and what they count.
LEMMA RowCounted ==
    ASSUME TypeOK, NEW i \in Ids, NEW r \in Row, rows' = [rows EXCEPT ![i] = r]
    PROVE  \A h \in Ids : CountOf(h)' = IF h = i THEN r.count ELSE CountOf(h)
  <1>1. r # Absent
    BY OpenIsRow
  <1> QED
    BY <1>1 DEF CountOf, TypeOK

LEMMA OvercountStep ==
    ASSUME StoreInv, NeverOvercounted, [Next]_vars
    PROVE  NeverOvercounted'
  <1>1. TypeOK
    BY DEF StoreInv
  <1>2. ASSUME NEW w \in Writer, call[w] # Idle
        PROVE  /\ call[w].rec \in Emission /\ call[w].rec.id \in Ids /\ call[w].rec.id \notin returned
               /\ rows[call[w].rec.id] = Absent
               /\ call[w].pc = "merge" => call[w].target \in Ids /\ call[w].read \in Bag
    <2>1. call[w] \in Call
      BY <1>1 DEF TypeOK
    <2>2. call[w].rec \in Emission
      BY <1>2, <2>1, CallFields
    <2>3. call[w].rec.id \in Ids
      BY <2>2 DEF Emission
    <2> QED
      BY <1>2, <2>1, <2>2, <2>3, CallFields DEF StoreInv, NumbersNotShared
  <1>3. ASSUME NEW w \in Writer, MergeInto(w)
        PROVE  NeverOvercounted'
    <2>1. call[w] # Idle /\ call[w].pc = "merge"
      BY <1>3 DEF MergeInto, Idle
    <2>2. PICK rec, t, read : rec = call[w].rec /\ t = call[w].target /\ read = call[w].read
      OBVIOUS
    <2>3. rec \in Emission /\ rec.id \in Ids /\ rec.id \notin returned /\ t \in Ids /\ read \in Bag
      BY <1>2, <2>1, <2>2
    <2>4. CASE Raise(w) /\ UNCHANGED rows
      BY <2>4, CountsKept DEF Raise, CountOf
    <2>5. CASE Return(w) /\ UNCHANGED rows
      <3>1. \A i \in Ids : i # 0 /\ CountOf(i)' = CountOf(i)
        BY <2>5 DEF CountOf, Ids
      <3>2. returned' = returned \cup {rec.id}
        BY <2>2, <2>5 DEF Return
      <3> QED
        BY <1>1, <2>3, <3>1, <3>2, CountedOnce
    <2>6. CASE Return(w) /\ IsOpen(rows[t]) /\ rows' = [rows EXCEPT ![t] = MergedRow(rows[t], rec, read)]
      <3>1. rows[t] \in Row /\ rows[t] # Absent
        BY <1>1, <2>3, <2>6, OpenIsRow DEF TypeOK
      <3>2. PICK r : r = MergedRow(rows[t], rec, read)
        OBVIOUS
      <3>3. r \in Row /\ r.count = rows[t].count + 1
        BY <2>3, <3>1, <3>2, MergedRowType
      <3>4. \A i \in Ids : CountOf(i)' = IF i = t THEN CountOf(i) + 1 ELSE CountOf(i)
        <4>1. \A i \in Ids : CountOf(i)' = IF i = t THEN r.count ELSE CountOf(i)
          BY <1>1, <2>3, <2>6, <3>2, <3>3, RowCounted
        <4>2. CountOf(t) = rows[t].count
          BY <3>1 DEF CountOf
        <4> QED
          BY <3>3, <4>1, <4>2
      <3>5. returned' = returned \cup {rec.id}
        BY <2>2, <2>6 DEF Return
      <3> QED
        BY <1>1, <2>3, <3>4, <3>5, CountedOnce
    <2> QED
      BY <1>3, <2>2, <2>4, <2>5, <2>6 DEF MergeInto
  <1>4. ASSUME NEW w \in Writer, InsertOrAppend(w)
        PROVE  NeverOvercounted'
    <2>1. call[w] # Idle
      BY <1>4 DEF InsertOrAppend, Idle
    <2>2. PICK rec : rec = call[w].rec
      OBVIOUS
    <2>3. rec \in Emission /\ rec.id \in Ids /\ rec.id \notin returned /\ rows[rec.id] = Absent
      BY <1>2, <2>1, <2>2
    <2>4. returned' = returned \cup {rec.id}
      BY <1>4, <2>2 DEF InsertOrAppend, Return
    <2>5. ASSUME NEW i \in OpenWithKey(GroupKey(rec.domain, rec.anoms)),
                 rows' = [rows EXCEPT ![i] = AppendedRow(rows[i], rec)]
          PROVE  NeverOvercounted'
      <3>1. i \in Ids /\ rows[i] \in Row /\ rows[i] # Absent
        BY <1>1, OpenIsRow DEF TypeOK, OpenWithKey
      <3>2. PICK r : r = AppendedRow(rows[i], rec)
        OBVIOUS
      <3>3. r \in Row /\ r.count = rows[i].count + 1
        BY <2>3, <3>1, <3>2, AppendedRowType
      <3>4. \A h \in Ids : CountOf(h)' = IF h = i THEN CountOf(h) + 1 ELSE CountOf(h)
        <4>1. \A h \in Ids : CountOf(h)' = IF h = i THEN r.count ELSE CountOf(h)
          BY <1>1, <2>5, <3>1, <3>2, <3>3, RowCounted
        <4>2. CountOf(i) = rows[i].count
          BY <3>1 DEF CountOf
        <4> QED
          BY <3>3, <4>1, <4>2
      <3> QED
        BY <1>1, <2>3, <2>4, <3>1, <3>4, CountedOnce
    <2>6. CASE rows' = [rows EXCEPT ![rec.id] = NewRow(rec)]
      <3>1. NewRow(rec) \in Row /\ NewRow(rec).count = 1
        BY <2>3, NewRowType DEF NewRow
      <3>2. PICK r : r = NewRow(rec)
        OBVIOUS
      <3>3. \A h \in Ids : CountOf(h)' = IF h = rec.id THEN CountOf(h) + 1 ELSE CountOf(h)
        <4>1. \A h \in Ids : CountOf(h)' = IF h = rec.id THEN r.count ELSE CountOf(h)
          BY <1>1, <2>3, <2>6, <3>1, <3>2, RowCounted
        <4>2. CountOf(rec.id) = 0
          BY <2>3 DEF CountOf
        <4> QED
          BY <3>1, <3>2, <4>1, <4>2
      <3> QED
        BY <1>1, <2>3, <2>4, <3>3, CountedOnce
    <2> QED
      BY <1>4, <2>2, <2>5, <2>6 DEF InsertOrAppend
  <1>5. ASSUME NEW i \in Ids, NEW s \in OpenStates \cup TerminalStates, rows[i].state # "absent",
               rows' = [rows EXCEPT ![i].state = s], UNCHANGED returned
        PROVE  NeverOvercounted'
    <2>1. PICK q : q = rows[i]
      OBVIOUS
    <2>2. q \in Row /\ q # Absent
      BY <1>1, <1>5, <2>1, OpenIsRow DEF TypeOK
    <2>3. PICK r : r = [q EXCEPT !.state = s]
      OBVIOUS
    <2>4. r \in Row /\ r.count = q.count
      BY <2>2, <2>3 DEF Row
    <2>5. rows' = [rows EXCEPT ![i] = r]
      BY <1>5, <2>1, <2>3
    <2>6. \A h \in Ids : CountOf(h)' = IF h = i THEN r.count ELSE CountOf(h)
      BY <1>1, <2>4, <2>5, RowCounted
    <2>7. CountOf(i) = q.count
      BY <2>1, <2>2 DEF CountOf
    <2> QED
      BY <1>5, <2>4, <2>6, <2>7, CountsKept
  <1>6. ASSUME NEW i \in Ids, NEW s \in TerminalStates, SetTerminalState(i, s) PROVE NeverOvercounted'
    BY <1>5, <1>6 DEF SetTerminalState
  <1>7. ASSUME NEW i \in Ids, MarkInProgress(i) PROVE NeverOvercounted'
    BY <1>5, <1>7 DEF MarkInProgress, OpenStates
  <1>8. ASSUME UNCHANGED <<rows, returned>> PROVE NeverOvercounted'
    BY <1>8, CountsKept DEF CountOf
  <1> QED
    BY <1>3, <1>4, <1>6, <1>7, <1>8 DEF Next, Emit, FindSuperset, vars

\* occurrence_count, in both statements of write_or_append: every occurrence that the records
\* count is a call of its own that returned, for any number of writers and records.
THEOREM CountedAtMostOnce == Spec => []NeverOvercounted
<1>1. Init => NeverOvercounted
  <2> SUFFICES ASSUME Init PROVE NeverOvercounted
    OBVIOUS
  <2>1. returned = {} /\ \A i \in Ids : CountOf(i) = 0
    BY DEF Init, CountOf
  <2>2. PICK f : f = [e \in returned |-> 0]
    OBVIOUS
  <2>3. f \in [returned -> Ids \cup {0}] /\ \A i \in Ids : {e \in returned : f[e] = i} = {}
    BY <2>1, <2>2
  <2>4. Cardinality({}) = 0
    BY FS_EmptySet
  <2> QED
    BY <2>1, <2>3, <2>4 DEF NeverOvercounted
<1>2. StoreInv /\ NeverOvercounted /\ [Next]_vars => NeverOvercounted'
  BY OvercountStep
<1> QED
  BY <1>1, <1>2, StoreInvariant, PTL DEF Spec

-----------------------------------------------------------------------------
(***************************************************************************)
(* Action properties.                                                      *)
(***************************************************************************)

\* Writer w, at the end of its call, merges what it emits into record i.
MergesRow(w, i) ==
    /\ call[w].pc = "merge" /\ call[w].target = i /\ call'[w] = Idle
    /\ call[w].rec \in Emission /\ call[w].read \in Bag
    /\ rows'[i] = MergedRow(rows[i], call[w].rec, call[w].read)

\* A step changes at most one row, and changes it in one of four ways.
LEMMA RowSteps ==
    ASSUME StoreInv, Next, NEW i \in Ids, rows[i] # Absent, rows'[i] # rows[i]
    PROVE  \/ IsOpen(rows[i]) /\ \E w \in Writer : MergesRow(w, i)
           \/ IsOpen(rows[i]) /\ \E rec \in Emission : rows'[i] = AppendedRow(rows[i], rec)
           \/ \E s \in TerminalStates : rows'[i] = [rows[i] EXCEPT !.state = s]
           \/ /\ IsOpen(rows[i])
              /\ rows'[i] = [rows[i] EXCEPT !.state = "in_progress"]
  <1>1. ASSUME NEW w \in Writer, MergeInto(w)
        PROVE  IsOpen(rows[i]) /\ MergesRow(w, i)
    <2>1. call[w].rec \in Emission /\ call[w].read \in Bag /\ call[w].target \in Ids
      BY <1>1, CallFields DEF MergeInto, StoreInv, TypeOK, Idle
    <2>2. /\ call[w].pc = "merge" /\ IsOpen(rows[call[w].target]) /\ Return(w)
          /\ rows' = [rows EXCEPT ![call[w].target]
                        = MergedRow(rows[call[w].target], call[w].rec, call[w].read)]
      BY <1>1 DEF MergeInto
    <2>3. i = call[w].target
      BY <2>2 DEF StoreInv, TypeOK
    <2>4. rows'[i] = MergedRow(rows[i], call[w].rec, call[w].read)
      BY <2>2, <2>3 DEF StoreInv, TypeOK
    <2>5. call'[w] = Idle
      BY <2>2 DEF Return, StoreInv, TypeOK
    <2> QED
      BY <2>1, <2>2, <2>3, <2>4, <2>5 DEF MergesRow
  <1>2. ASSUME NEW w \in Writer, InsertOrAppend(w)
        PROVE  IsOpen(rows[i]) /\ \E rec \in Emission : rows'[i] = AppendedRow(rows[i], rec)
    <2>1. call[w] # Idle /\ call[w].rec \in Emission
      BY <1>2, CallFields DEF InsertOrAppend, StoreInv, TypeOK, Idle
    <2>2. rows[call[w].rec.id] = Absent
      BY <2>1 DEF StoreInv, NumbersNotShared
    <2>3. rows' # [rows EXCEPT ![call[w].rec.id] = NewRow(call[w].rec)]
      BY <2>2 DEF StoreInv, TypeOK
    <2>4. PICK j \in OpenWithKey(GroupKey(call[w].rec.domain, call[w].rec.anoms)) :
            rows' = [rows EXCEPT ![j] = AppendedRow(rows[j], call[w].rec)]
      BY <1>2, <2>3 DEF InsertOrAppend
    <2>5. i = j /\ IsOpen(rows[j])
      BY <2>4 DEF StoreInv, TypeOK, OpenWithKey
    <2>6. rows'[i] = AppendedRow(rows[i], call[w].rec)
      BY <2>4, <2>5 DEF StoreInv, TypeOK
    <2> QED
      BY <2>1, <2>5, <2>6
  <1>3. ASSUME NEW j \in Ids, NEW s \in TerminalStates, SetTerminalState(j, s)
        PROVE  rows'[i] = [rows[i] EXCEPT !.state = s]
    BY <1>3 DEF SetTerminalState, StoreInv, TypeOK
  <1>4. ASSUME NEW j \in Ids, MarkInProgress(j)
        PROVE  IsOpen(rows[i]) /\ rows'[i] = [rows[i] EXCEPT !.state = "in_progress"]
    BY <1>4 DEF MarkInProgress, StoreInv, TypeOK, IsOpen, OpenStates
  <1>5. ASSUME NEW w \in Writer, FindSuperset(w) \/
               \E d \in Domain, b \in Bag, s \in Severity : Emit(w, d, b, s)
        PROVE  FALSE
    BY <1>5 DEF FindSuperset, Emit
  <1> QED
    BY <1>1, <1>2, <1>3, <1>4, <1>5 DEF Next

\* A closed record keeps its key, anomalies and count and never reopens, for
\* every interleaving of calls under way with its closing (_merge_into's
\* WHERE, the white list of open_group_key, mark_in_progress's WHERE).
THEOREM ClosedIsFinal == Spec => ClosedStaysClosed
<1> DEFINE Kept(i) == rows[i] # Absent /\ ~IsOpen(rows[i]) =>
            /\ rows'[i] # Absent /\ ~IsOpen(rows'[i])
            /\ rows'[i].key = rows[i].key /\ rows'[i].anoms = rows[i].anoms
            /\ rows'[i].count = rows[i].count
<1>1. StoreInv /\ [Next]_vars => [\A i \in Ids : Kept(i)]_vars
  <2> SUFFICES ASSUME StoreInv, Next, NEW i \in Ids, rows[i] # Absent, ~IsOpen(rows[i]),
                      rows'[i] # rows[i]
               PROVE  /\ rows'[i] # Absent /\ ~IsOpen(rows'[i])
                      /\ rows'[i].key = rows[i].key /\ rows'[i].anoms = rows[i].anoms
                      /\ rows'[i].count = rows[i].count
    BY DEF vars
  <2>1. rows[i] \in Row
    BY OpenIsRow DEF StoreInv, TypeOK
  <2>2. PICK s \in TerminalStates : rows'[i] = [rows[i] EXCEPT !.state = s]
    BY RowSteps
  <2>3. s \notin OpenStates
    BY DEF TerminalStates, OpenStates
  <2>4. rows'[i] \in Row
    BY <2>1, <2>2 DEF Row
  <2>5. /\ rows'[i].state = s /\ rows'[i].key = rows[i].key
        /\ rows'[i].anoms = rows[i].anoms /\ rows'[i].count = rows[i].count
    BY <2>1, <2>2 DEF Row
  <2> QED
    BY <2>3, <2>4, <2>5, OpenIsRow DEF IsOpen
<1> QED
  BY <1>1, StoreInvariant, PTL DEF Spec, ClosedStaysClosed

\* An open record never loses an occurrence and its severity never drops.
THEOREM OpenOnlyGrows == Spec => OpenRecordGrows
<1> DEFINE Grows(i) == IsOpen(rows[i]) =>
            rows'[i].count >= rows[i].count /\ rows'[i].severity >= rows[i].severity
<1>1. StoreInv /\ [Next]_vars => [\A i \in Ids : Grows(i)]_vars
  <2> SUFFICES ASSUME StoreInv, Next, NEW i \in Ids, IsOpen(rows[i])
               PROVE  rows'[i].count >= rows[i].count /\ rows'[i].severity >= rows[i].severity
    BY DEF vars
  <2>1. rows[i] \in Row /\ rows[i] # Absent
    BY OpenIsRow DEF StoreInv, TypeOK
  <2>2. rows[i].count \in Nat /\ rows[i].severity \in Nat
    BY <2>1 DEF Row
  <2>3. CASE rows'[i] = rows[i]
    BY <2>2, <2>3
  <2>4. ASSUME NEW w \in Writer, MergesRow(w, i)
        PROVE  rows'[i].count >= rows[i].count /\ rows'[i].severity >= rows[i].severity
    BY <2>1, <2>2, <2>4, MergedRowType DEF MergesRow
  <2>5. ASSUME NEW rec \in Emission, rows'[i] = AppendedRow(rows[i], rec)
        PROVE  rows'[i].count >= rows[i].count /\ rows'[i].severity >= rows[i].severity
    BY <2>1, <2>2, <2>5, AppendedRowType
  <2>6. ASSUME NEW s, rows'[i] = [rows[i] EXCEPT !.state = s]
        PROVE  rows'[i].count >= rows[i].count /\ rows'[i].severity >= rows[i].severity
    <3>1. rows'[i].count = rows[i].count /\ rows'[i].severity = rows[i].severity
      BY <2>1, <2>6 DEF Row
    <3> QED
      BY <2>2, <3>1
  <2> QED
    BY <2>1, <2>3, <2>4, <2>5, <2>6, RowSteps
<1> QED
  BY <1>1, StoreInvariant, PTL DEF Spec, OpenRecordGrows

\* A merge whose read is fresh forgets nothing: with any number of writers an
\* identity is only lost to a stale one.
THEOREM MergeIsUnionOfRead == Spec => OnlyStaleMergeForgets
<1> DEFINE Keeps(i) == IsOpen(rows[i]) =>
            \/ AnomalyKeys(rows[i].anoms) \subseteq AnomalyKeys(rows'[i].anoms)
            \/ \E w \in Writer :
                 /\ call[w].pc = "merge" /\ call[w].target = i /\ call'[w] = Idle
                 /\ call[w].read # rows[i].anoms
<1>1. StoreInv /\ [Next]_vars => [\A i \in Ids : Keeps(i)]_vars
  <2> DEFINE Kept(i) == AnomalyKeys(rows[i].anoms) \subseteq AnomalyKeys(rows'[i].anoms)
             Stale(i) == \E w \in Writer :
                 /\ call[w].pc = "merge" /\ call[w].target = i /\ call'[w] = Idle
                 /\ call[w].read # rows[i].anoms
  <2> SUFFICES ASSUME StoreInv, Next, NEW i \in Ids, IsOpen(rows[i]), ~Stale(i)
               PROVE  Kept(i)
    BY DEF vars
  <2>1. rows[i] \in Row /\ rows[i] # Absent
    BY OpenIsRow DEF StoreInv, TypeOK
  <2>2. CASE rows'[i] = rows[i]
    BY <2>2
  <2>3. ASSUME NEW w \in Writer, MergesRow(w, i) PROVE Kept(i)
    <3>1. call[w].read = rows[i].anoms /\ call[w].rec.anoms \in Bag /\ call[w].read \in Bag
      BY <2>3 DEF MergesRow, Emission
    <3>2. rows'[i].anoms = MergeAnomalies(call[w].read, call[w].rec.anoms)
      BY <2>1, <2>3 DEF MergesRow, MergedRow, Row
    <3> QED
      BY <3>1, <3>2, MergeIsUnion
  <2>4. ASSUME NEW rec \in Emission, rows'[i] = AppendedRow(rows[i], rec) PROVE Kept(i)
    BY <2>1, <2>4 DEF AppendedRow, Row
  <2>5. ASSUME NEW s, rows'[i] = [rows[i] EXCEPT !.state = s] PROVE Kept(i)
    BY <2>1, <2>5 DEF Row
  <2> QED
    BY <2>1, <2>2, <2>3, <2>4, <2>5, RowSteps
<1> QED
  BY <1>1, StoreInvariant, PTL DEF Spec, OnlyStaleMergeForgets

-----------------------------------------------------------------------------
(***************************************************************************)
(* The store as an implementation of AtomicRecords.  What makes it one is  *)
(* that a record, and every read of it that a call still holds, lists the  *)
(* anomalies the record was opened with: merges may lose what other merges *)
(* added, and never these.                                                 *)
(***************************************************************************)

OpenedListed ==
    /\ \A i \in Ids : rows[i] # Absent =>
        /\ opened[i] \in Key /\ opened[i][1] = rows[i].domain
        /\ AnomalyKeys(opened[i][2]) \subseteq AnomalyKeys(rows[i].anoms)
    /\ \A w \in Writer : call[w].pc = "merge" =>
        AnomalyKeys(opened[call[w].target][2]) \subseteq AnomalyKeys(call[w].read)

\* A call that holds a read held it before, or reads now.
LEMMA ReadSteps ==
    ASSUME StoreInv, Next, NEW w \in Writer, call'[w].pc = "merge", call'[w] # call[w]
    PROVE  \E i \in Ids : /\ rows[i] # Absent /\ call'[w].target = i
                          /\ call'[w].read = rows[i].anoms
  <1>1. ASSUME NEW v \in Writer, FindSuperset(v)
        PROVE  \E i \in Ids : /\ rows[i] # Absent /\ call'[w].target = i
                              /\ call'[w].read = rows[i].anoms
    <2>1. v = w
      BY <1>1 DEF FindSuperset, StoreInv, TypeOK
    <2>2. PICK i \in SupersetCandidates(call[w].rec) :
            call' = [call EXCEPT ![w] = [pc |-> "merge", rec |-> call[w].rec,
                                         target |-> i, read |-> rows[i].anoms]]
      BY <1>1, <2>1 DEF FindSuperset, StoreInv, TypeOK
    <2>3. call'[w].target = i /\ call'[w].read = rows[i].anoms
      BY <2>2 DEF StoreInv, TypeOK
    <2>4. i \in Ids /\ IsOpen(rows[i])
      BY <2>2 DEF SupersetCandidates, SubsetRows
    <2>5. rows[i] # Absent
      BY <2>4, OpenIsRow DEF StoreInv, TypeOK
    <2> QED
      BY <2>3, <2>4, <2>5
  <1>2. ASSUME NEW v \in Writer, NEW d \in Domain, NEW b \in Bag, NEW s \in Severity,
               Emit(v, d, b, s)
        PROVE  FALSE
    BY <1>2 DEF Emit, StoreInv, TypeOK
  <1>3. ASSUME NEW v \in Writer, MergeInto(v) \/ InsertOrAppend(v)
        PROVE  FALSE
    BY <1>3 DEF MergeInto, InsertOrAppend, Return, Raise, Idle, StoreInv, TypeOK
  <1>4. ASSUME NEW i \in Ids, MarkInProgress(i) \/ \E s \in TerminalStates : SetTerminalState(i, s)
        PROVE  FALSE
    BY <1>4 DEF MarkInProgress, SetTerminalState
  <1> QED
    BY <1>1, <1>2, <1>3, <1>4 DEF Next

\* What a record was opened with stays listed, by it and by the reads of it.
LEMMA OpenedStep ==
    ASSUME StoreInv, StoreInv', OpenedListed, Next, Remember
    PROVE  OpenedListed'
  <1>1. \A i \in Ids : rows[i] # Absent => opened'[i] = opened[i]
    BY DEF Remember
  <1>2. ASSUME NEW i \in Ids, rows'[i] # Absent
        PROVE  /\ opened'[i] \in Key /\ opened'[i][1] = rows'[i].domain
               /\ AnomalyKeys(opened'[i][2]) \subseteq AnomalyKeys(rows'[i].anoms)
    <2>1. rows'[i] \in Row
      BY <1>2 DEF StoreInv, TypeOK
    <2>2. CASE rows[i] = Absent
      <3>1. opened'[i] = rows'[i].key
        BY <1>2, <2>2 DEF Remember
      <3>2. rows'[i].key \in Key
        BY <2>1 DEF Row
      <3> QED
        BY <1>2, <3>1, <3>2 DEF StoreInv, KeyNamesAnomalies
    <2>3. CASE rows[i] # Absent
      <3>1. /\ opened'[i] \in Key /\ opened'[i][1] = rows[i].domain
            /\ AnomalyKeys(opened'[i][2]) \subseteq AnomalyKeys(rows[i].anoms)
        BY <1>1, <2>3 DEF OpenedListed
      <3>2. rows[i] \in Row
        BY <2>3 DEF StoreInv, TypeOK
      <3>3. CASE rows'[i] = rows[i]
        BY <3>1, <3>3
      <3>4. ASSUME NEW w \in Writer, MergesRow(w, i)
            PROVE  /\ rows'[i].domain = rows[i].domain
                   /\ AnomalyKeys(opened'[i][2]) \subseteq AnomalyKeys(rows'[i].anoms)
        <4>1. call[w].rec.anoms \in Bag /\ call[w].read \in Bag
          BY <3>4 DEF MergesRow, Emission
        <4>2. /\ rows'[i].anoms = MergeAnomalies(call[w].read, call[w].rec.anoms)
              /\ rows'[i].domain = rows[i].domain
          BY <3>2, <3>4, MergedRowType DEF MergesRow
        <4>3. AnomalyKeys(opened'[i][2]) \subseteq AnomalyKeys(call[w].read)
          BY <3>4, <1>1, <2>3 DEF MergesRow, OpenedListed
        <4> QED
          BY <4>1, <4>2, <4>3, MergeIsUnion
      <3>5. ASSUME NEW rec \in Emission, rows'[i] = AppendedRow(rows[i], rec)
            PROVE  rows'[i].domain = rows[i].domain /\ rows'[i].anoms = rows[i].anoms
        BY <3>2, <3>5, AppendedRowType
      <3>6. ASSUME NEW s, rows'[i] = [rows[i] EXCEPT !.state = s]
            PROVE  rows'[i].domain = rows[i].domain /\ rows'[i].anoms = rows[i].anoms
        BY <3>2, <3>6 DEF Row
      <3> QED
        BY <3>1, <3>3, <3>4, <3>5, <3>6, <2>3, RowSteps
    <2> QED
      BY <2>2, <2>3
  <1>3. ASSUME NEW w \in Writer, call'[w].pc = "merge"
        PROVE  AnomalyKeys(opened'[call'[w].target][2]) \subseteq AnomalyKeys(call'[w].read)
    <2>1. CASE call'[w] = call[w]
      <3>1. call[w].target \in Ids
        <4>1. call[w] \in Call /\ call[w] # Idle
          BY <1>3, <2>1 DEF StoreInv, TypeOK, Idle
        <4> QED
          BY <4>1, <1>3, <2>1, CallFields
      <3>2. rows[call[w].target] # Absent
        BY <1>3, <2>1 DEF StoreInv, MergeReads
      <3> QED
        BY <1>1, <1>3, <2>1, <3>1, <3>2 DEF OpenedListed
    <2>2. CASE call'[w] # call[w]
      BY <1>1, <1>3, <2>2, ReadSteps DEF OpenedListed
    <2> QED
      BY <2>1, <2>2
  <1> QED
    BY <1>2, <1>3 DEF OpenedListed

\* The specification with its history is the specification of the store.
LEMMA HistoryImplies == HistorySpec => Spec
<1>1. HistoryInit => Init
  BY DEF HistoryInit
<1>2. [HistoryNext]_historyVars => [Next]_vars
  BY DEF HistoryNext, historyVars, vars
<1> QED
  BY <1>1, <1>2, PTL DEF HistorySpec, Spec

\* Every record lists what it was opened with, at every moment.
LEMMA OpenedAlwaysListed == HistorySpec => [](StoreInv /\ OpenedListed)
<1>1. HistoryInit => OpenedListed
  BY DEF HistoryInit, Init, OpenedListed, Idle
<1>2. StoreInv /\ StoreInv' /\ OpenedListed /\ [HistoryNext]_historyVars => OpenedListed'
  <2>1. CASE UNCHANGED historyVars
    BY <2>1 DEF historyVars, OpenedListed
  <2> QED
    BY <2>1, OpenedStep DEF HistoryNext
<1> QED
  BY <1>1, <1>2, HistoryImplies, StoreInvariant, PTL DEF HistorySpec

-----------------------------------------------------------------------------
(***************************************************************************)
(* What the abstract store sees of the rows and of the calls.              *)
(***************************************************************************)

\* The fields of a record as the abstract store sees them.
LEMMA RecordFields ==
    ASSUME NEW i \in Ids, rows[i] # Absent
    PROVE  /\ Records[i] = RecordOf(i)
           /\ RecordOf(i) = [state |-> IF IsOpen(rows[i]) THEN "open" ELSE "over",
                             opened |-> opened[i], key |-> rows[i].key,
                             count |-> rows[i].count, severity |-> rows[i].severity]
           /\ (RecordOf(i).state = "open") <=> IsOpen(rows[i])
           /\ (RecordOf(i).state = "over") <=> ~IsOpen(rows[i])
           /\ RecordOf(i).opened = opened[i] /\ RecordOf(i).key = rows[i].key
  BY DEF Records, RecordOf

\* A number without a row is one without a record.
LEMMA NoRecord ==
    ASSUME NEW i \in Ids, rows[i] = Absent
    PROVE  /\ Records[i] = Atomic!None /\ Records[i].state = "none"
           /\ ~IsOpen(rows[i])
  BY DEF Records, RecordOf, Atomic!None, IsOpen, OpenStates, Absent

\* Open rows are open records, and the UNIQUE index sees the records that hold a key.
LEMMA MappedOpen ==
    /\ Atomic!Open = {i \in Ids : IsOpen(rows[i])}
    /\ \A k : Atomic!Holding(k) = OpenWithKey(k)
  <1>1. Atomic!Open = {i \in Ids : Records[i].state = "open"}
    BY DEF Atomic!Open
  <1>2. \A i \in Ids : (Records[i].state = "open") <=> IsOpen(rows[i])
    BY RecordFields, NoRecord
  <1>3. \A i \in Ids : IsOpen(rows[i]) => Records[i].key = rows[i].key
    BY RecordFields, NoRecord
  <1>4. \A k : Atomic!Holding(k) = {i \in Atomic!Open : Records[i].key = k}
    BY DEF Atomic!Holding
  <1> QED
    BY <1>1, <1>2, <1>3, <1>4 DEF OpenWithKey

\* A step that leaves all rows but one alone.
LEMMA OneRecord ==
    ASSUME NEW t \in Ids, \A i \in Ids \ {t} : rows'[i] = rows[i] /\ opened'[i] = opened[i]
    PROVE  Records' = [Records EXCEPT ![t] = RecordOf(t)']
  <1>1. \A i \in Ids \ {t} : RecordOf(i)' = RecordOf(i)
    BY DEF RecordOf, IsOpen
  <1> QED
    BY <1>1 DEF Records

\* A step that leaves every row alone.
LEMMA SameRecords ==
    ASSUME \A i \in Ids : rows'[i] = rows[i] /\ opened'[i] = opened[i]
    PROVE  Records' = Records
  <1>1. \A i \in Ids : RecordOf(i)' = RecordOf(i)
    BY DEF RecordOf, IsOpen
  <1> QED
    BY <1>1 DEF Records

\* A call under way is a report that waits, and its end takes it and no other away.
LEMMA ReportEnds ==
    ASSUME StoreInv, NEW w \in Writer, call[w] # Idle, call' = [call EXCEPT ![w] = Idle]
    PROVE  /\ ReportOf(call[w].rec) \in Reports
           /\ Reports' = Reports \ {ReportOf(call[w].rec)}
  <1>1. \A v \in Writer \ {w} : call'[v] = call[v]
    BY DEF StoreInv, TypeOK
  <1>2. call'[w] = Idle
    BY DEF StoreInv, TypeOK
  <1>3. Calling' = Calling \ {w} /\ w \in Calling
    BY <1>1, <1>2 DEF Calling
  <1>4. \A v \in Calling \ {w} : ReportOf(call[v].rec) # ReportOf(call[w].rec)
    BY DEF StoreInv, NumbersNotShared, Calling, ReportOf
  <1>5. Reports' = {ReportOf(call[v].rec) : v \in Calling \ {w}}
    BY <1>1, <1>3 DEF Reports, Calling, ReportOf
  <1> QED
    BY <1>3, <1>4, <1>5 DEF Reports

\* Everything a merge is about to count against its target covers what it was opened with.
LEMMA MergeExtends ==
    ASSUME StoreInv, OpenedListed, NEW w \in Writer, call[w].pc = "merge"
    PROVE  Atomic!Extends(ReportOf(call[w].rec), call[w].target)
  <1>1. call[w] \in Call /\ call[w] # Idle
    BY DEF StoreInv, TypeOK, Idle
  <1>2. call[w].target \in Ids /\ call[w].rec \in Emission
    BY <1>1, CallFields
  <1>3. rows[call[w].target] # Absent /\ rows[call[w].target].domain = call[w].rec.domain
    BY DEF StoreInv, MergeReads
  <1>4. AnomalyKeys(opened[call[w].target][2]) \subseteq AnomalyKeys(call[w].rec.anoms)
    BY DEF StoreInv, MergeReads, OpenedListed
  <1>5. opened[call[w].target] \in Key /\ opened[call[w].target][1] = call[w].rec.domain
    BY <1>2, <1>3 DEF OpenedListed
  <1>6. GroupKey(call[w].rec.domain, call[w].rec.anoms) \in Key
    BY <1>2 DEF Emission, GroupKey, Key
  <1>7. <<GroupKey(call[w].rec.domain, call[w].rec.anoms), opened[call[w].target]>> \in Covering
    BY <1>4, <1>5, <1>6 DEF Covering, GroupKey
  <1>8. Records[call[w].target].opened = opened[call[w].target]
    BY <1>2, <1>3, RecordFields
  <1>9. ReportOf(call[w].rec).key = GroupKey(call[w].rec.domain, call[w].rec.anoms)
    BY DEF ReportOf
  <1> QED
    BY <1>7, <1>8, <1>9 DEF Atomic!Extends

\* An open row that counts one emission more and takes its key.
LEMMA WorseRecord ==
    ASSUME NEW t \in Ids, NEW rec \in Emission, rows[t] \in Row, rows'[t] \in Row,
           IsOpen(rows[t]), rows'[t].state = rows[t].state, opened'[t] = opened[t],
           rows'[t].key = GroupKey(rec.domain, rec.anoms),
           rows'[t].count = rows[t].count + 1,
           rows'[t].severity = MaxSeverity(rec.severity, rows[t].severity)
    PROVE  RecordOf(t)' = Atomic!Worse(t, ReportOf(rec))
  <1> DEFINE k == GroupKey(rec.domain, rec.anoms)
             n == rows[t].count + 1
             s == MaxSeverity(rec.severity, rows[t].severity)
  <1>1. rows[t] # Absent /\ rows'[t] # Absent
    BY OpenIsRow
  <1>2. IsOpen(rows'[t])
    BY DEF IsOpen
  <1>3. RecordOf(t)' = [state |-> "open", opened |-> opened[t], key |-> k,
                        count |-> n, severity |-> s]
    BY <1>1, <1>2 DEF RecordOf, IsOpen
  <1>4. Records[t] = [state |-> "open", opened |-> opened[t], key |-> rows[t].key,
                      count |-> rows[t].count, severity |-> rows[t].severity]
    BY <1>1, RecordFields
  <1>5. ReportOf(rec).key = k /\ ReportOf(rec).severity = rec.severity
    BY DEF ReportOf
  <1> QED
    BY <1>3, <1>4, <1>5 DEF Atomic!Worse, MaxSeverity

\* A row that appears is a record opened under its own key.
LEMMA FreshRecord ==
    ASSUME NEW rec \in Emission, rows[rec.id] = Absent, rows'[rec.id] = NewRow(rec), Remember
    PROVE  RecordOf(rec.id)' =
              [state |-> "open", opened |-> ReportOf(rec).key, key |-> ReportOf(rec).key,
               count |-> 1, severity |-> ReportOf(rec).severity]
  <1> DEFINE k == GroupKey(rec.domain, rec.anoms)
  <1>1. rec.id \in Ids /\ NewRow(rec) # Absent
    BY NewRowType, OpenIsRow DEF Emission
  <1>2. /\ NewRow(rec).state = "pending" /\ NewRow(rec).key = k
        /\ NewRow(rec).count = 1 /\ NewRow(rec).severity = rec.severity
    BY DEF NewRow
  <1>3. IsOpen(rows[rec.id])'
    BY <1>2 DEF IsOpen, OpenStates
  <1>4. opened'[rec.id] = k
    BY <1>1, <1>2 DEF Remember
  <1>5. ReportOf(rec).key = k /\ ReportOf(rec).severity = rec.severity
    BY DEF ReportOf
  <1> HIDE DEF k
  <1> QED
    BY <1>1, <1>2, <1>3, <1>4, <1>5 DEF RecordOf

\* The history of a step that opens no record.
LEMMA OpenedKept ==
    ASSUME Remember, NEW i \in Ids, rows[i] # Absent \/ rows'[i] = rows[i]
    PROVE  opened'[i] = opened[i]
  BY DEF Remember

-----------------------------------------------------------------------------
(***************************************************************************)
(* Every step of the store is one of the abstract store, or none.          *)
(***************************************************************************)

\* emit: a report begins to wait, under a number nobody has.
LEMMA EmitRefines ==
    ASSUME StoreInv, Remember, NEW w \in Writer, NEW d \in Domain, NEW b \in Bag,
           NEW s \in Severity, Emit(w, d, b, s)
    PROVE  Atomic!Next
  <1> DEFINE n == nextSeq + 1
             k == GroupKey(d, b)
             e == [id |-> n, key |-> k, severity |-> s]
  <1>1. n \in Ids /\ nextSeq \in Nat /\ UNCHANGED <<rows, returned, raised>>
    BY DEF Emit, StoreInv, TypeOK, Ids
  <1>2. Records' = Records
    BY <1>1, OpenedKept, SameRecords
  <1>3. call[w] = Idle /\ call'[w] # Idle /\ ReportOf(call'[w].rec) = e
    BY DEF Emit, StoreInv, TypeOK, Idle, ReportOf
  <1>4. \A v \in Writer \ {w} : call'[v] = call[v]
    BY DEF Emit, StoreInv, TypeOK
  <1>5. Calling' = Calling \cup {w} /\ w \notin Calling
    BY <1>3, <1>4 DEF Calling
  <1>6. Reports' = Reports \cup {e}
    <2>1. Reports' = {ReportOf(call'[v].rec) : v \in Calling \cup {w}}
      BY <1>5 DEF Reports, Calling, ReportOf
    <2>2. \A v \in Calling : ReportOf(call'[v].rec) = ReportOf(call[v].rec)
      BY <1>4, <1>5 DEF Calling
    <2> QED
      BY <1>3, <2>1, <2>2 DEF Reports
  <1>7. n \notin Atomic!Taken
    <2>1. \A v \in Calling : call[v].rec.id \in Nat /\ call[v].rec.id <= nextSeq
      BY CallFields DEF StoreInv, NumbersNotShared, TypeOK, Emission, Ids, Calling
    <2>2. n \notin {x.id : x \in Reports}
      BY <1>1, <2>1 DEF Reports, ReportOf
    <2>3. n \notin returned \cup raised
      BY <1>1 DEF StoreInv, NumbersDrawn
    <2> QED
      BY <2>2, <2>3 DEF Atomic!Taken
  <1>8. k \in ReportedKey
    BY DEF Emit, ReportedKey, Key, GroupKey
  <1>9. Atomic!Submit(n, k, s)
    BY <1>1, <1>2, <1>6 DEF Atomic!Submit
  <1> HIDE DEF n, k
  <1> QED
    BY <1>1, <1>7, <1>8, <1>9 DEF Atomic!Next

\* The SELECT of a call is not seen.
LEMMA FindRefines ==
    ASSUME StoreInv, Remember, NEW w \in Writer, FindSuperset(w)
    PROVE  UNCHANGED <<Records, Reports, returned, raised>>
  <1>1. UNCHANGED <<rows, returned, raised>>
    BY DEF FindSuperset
  <1>2. Records' = Records
    BY <1>1, OpenedKept, SameRecords
  <1>3. call[w] # Idle /\ call'[w] # Idle /\ call'[w].rec = call[w].rec
    BY DEF FindSuperset, StoreInv, TypeOK, Idle
  <1>4. \A v \in Writer \ {w} : call'[v] = call[v]
    BY DEF FindSuperset, StoreInv, TypeOK
  <1>5. Calling' = Calling /\ \A v \in Calling : call'[v].rec = call[v].rec
    BY <1>3, <1>4 DEF Calling
  <1>6. Reports' = Reports
    BY <1>5 DEF Reports, ReportOf, Calling
  <1> QED
    BY <1>1, <1>2, <1>6

\* A change of state closes a record, or is not seen.
LEMMA StateRefines ==
    ASSUME StoreInv, Remember, NEW i \in Ids, NEW s,
           MarkInProgress(i) \/ (s \in TerminalStates /\ SetTerminalState(i, s))
    PROVE  Atomic!Next \/ UNCHANGED <<Records, Reports, returned, raised>>
  <1>1. PICK u : /\ rows' = [rows EXCEPT ![i].state = u]
                 /\ \/ u \in TerminalStates
                    \/ u \in OpenStates /\ IsOpen(rows[i])
                 /\ rows[i].state # "absent"
    BY DEF MarkInProgress, SetTerminalState, OpenStates, IsOpen
  <1>2. UNCHANGED <<call, returned, raised>>
    BY DEF MarkInProgress, SetTerminalState
  <1>3. Reports' = Reports
    BY <1>2 DEF Reports, Calling, ReportOf
  <1>4. rows[i] # Absent /\ rows[i] \in Row
    BY <1>1 DEF Absent, StoreInv, TypeOK
  <1>5. /\ rows'[i] = [rows[i] EXCEPT !.state = u]
        /\ \A j \in Ids \ {i} : rows'[j] = rows[j]
    BY <1>1 DEF StoreInv, TypeOK
  <1>6. /\ rows'[i] \in Row /\ rows'[i].state = u /\ rows'[i].key = rows[i].key
        /\ rows'[i].count = rows[i].count /\ rows'[i].severity = rows[i].severity
    BY <1>1, <1>4, <1>5 DEF Row
  <1>7. rows'[i] # Absent /\ opened'[i] = opened[i]
    BY <1>4, <1>6, OpenIsRow, OpenedKept
  <1>8. Records' = [Records EXCEPT ![i] = RecordOf(i)']
    BY <1>4, <1>5, OpenedKept, OneRecord
  <1>9. (IsOpen(rows[i])' <=> u \in OpenStates) /\ OpenStates \cap TerminalStates = {}
    BY <1>6 DEF IsOpen, OpenStates, TerminalStates
  <1>10. RecordOf(i)' = [state |-> IF u \in OpenStates THEN "open" ELSE "over",
                         opened |-> opened[i], key |-> rows[i].key,
                         count |-> rows[i].count, severity |-> rows[i].severity]
    BY <1>6, <1>7, <1>9 DEF RecordOf
  <1>11. CASE IsOpen(rows[i]) /\ u \notin OpenStates
    <2>1. RecordOf(i)' = [Records[i] EXCEPT !.state = "over"]
      BY <1>4, <1>10, <1>11, RecordFields
    <2>2. i \in Atomic!Open
      BY <1>11, MappedOpen
    <2>3. Atomic!Close(i)
      BY <1>2, <1>3, <1>8, <2>1, <2>2 DEF Atomic!Close
    <2> QED
      BY <2>3 DEF Atomic!Next
  <1>12. CASE ~(IsOpen(rows[i]) /\ u \notin OpenStates)
    <2>1. RecordOf(i)' = Records[i]
      BY <1>1, <1>4, <1>9, <1>10, <1>12, RecordFields
    <2>2. Records' = Records
      BY <1>8, <2>1 DEF Records
    <2> QED
      BY <1>2, <1>3, <2>2
  <1> QED
    BY <1>11, <1>12

\* The UPDATE of a merge: its target is closed, grows, or is not the row that has the key.
LEMMA MergeRefines ==
    ASSUME StoreInv, OpenedListed, Remember, NEW w \in Writer, MergeInto(w)
    PROVE  Atomic!Next
  <1>a. PICK rec : rec = call[w].rec
    OBVIOUS
  <1>b. PICK t : t = call[w].target
    OBVIOUS
  <1> DEFINE e == ReportOf(rec)
             k == GroupKey(rec.domain, rec.anoms)
  <1>1. call[w].pc = "merge" /\ call[w] # Idle /\ call[w] \in Call
    BY DEF MergeInto, Idle, StoreInv, TypeOK
  <1>2. rec \in Emission /\ t \in Ids /\ call[w].read \in Bag
    BY <1>1, <1>a, <1>b, CallFields
  <1>3. rows[t] # Absent /\ rows[t] \in Row
    BY <1>1, <1>2, <1>b DEF StoreInv, MergeReads, TypeOK
  <1>4. Atomic!Extends(e, t)
    BY <1>1, <1>a, <1>b, MergeExtends
  <1>5. e.key = k /\ e.id = rec.id
    BY DEF ReportOf
  <1>6. call' = [call EXCEPT ![w] = Idle]
    BY DEF MergeInto, Return, Raise
  <1>7. e \in Reports /\ Reports' = Reports \ {e}
    BY <1>1, <1>6, <1>a, ReportEnds
  <1> HIDE DEF e, k
  <1>8. Atomic!Holding(e.key) = OpenWithKey(k) /\ Atomic!Open = {i \in Ids : IsOpen(rows[i])}
    BY <1>5, MappedOpen
  <1>9. CASE ~IsOpen(rows[t]) /\ Return(w) /\ UNCHANGED rows
    <2>1. Records' = Records
      BY <1>9, OpenedKept, SameRecords
    <2>2. Records[t].state = "over"
      BY <1>2, <1>3, <1>9, RecordFields
    <2>3. Atomic!Lose(e, t)
      BY <1>4, <2>1, <2>2 DEF Atomic!Lose
    <2>4. Atomic!Return(e)
      BY <1>5, <1>7, <1>9, <1>a DEF Return, Atomic!Return
    <2> QED
      BY <1>2, <1>7, <2>3, <2>4 DEF Atomic!Next
  <1>10. CASE /\ IsOpen(rows[t]) /\ Return(w)
              /\ OpenWithKey(k) \subseteq {t}
              /\ rows' = [rows EXCEPT ![t] = MergedRow(rows[t], rec, call[w].read)]
    <2> DEFINE q == MergedRow(rows[t], rec, call[w].read)
    <2>1. rows'[t] = q /\ \A j \in Ids \ {t} : rows'[j] = rows[j]
      BY <1>2, <1>10 DEF StoreInv, TypeOK
    <2>2. /\ q \in Row /\ q.state = rows[t].state /\ q.key = <<rec.domain, rec.anoms>>
          /\ q.count = rows[t].count + 1
      BY <1>2, <1>3, MergedRowType
    <2>3. q.severity = MaxSeverity(rec.severity, rows[t].severity)
      BY <1>2, <1>3 DEF MergedRow, Row
    <2>4. opened'[t] = opened[t]
      BY <1>2, <1>3, OpenedKept
    <2> HIDE DEF q
    <2>5. RecordOf(t)' = Atomic!Worse(t, ReportOf(rec))
      BY <1>2, <1>3, <1>10, <2>1, <2>2, <2>3, <2>4, WorseRecord DEF GroupKey
    <2>6. Records' = [Records EXCEPT ![t] = RecordOf(t)']
      BY <1>2, <2>1, <2>4, OpenedKept, OneRecord
    <2>7. Atomic!Grow(e, t)
      BY <1>2, <1>4, <1>8, <1>10, <2>5, <2>6 DEF Atomic!Grow, e
    <2>8. Atomic!Return(e)
      BY <1>5, <1>7, <1>10, <1>a DEF Return, Atomic!Return
    <2> QED
      BY <1>2, <1>7, <2>7, <2>8 DEF Atomic!Next
  <1>11. CASE /\ IsOpen(rows[t]) /\ Raise(w) /\ UNCHANGED rows
              /\ ~(OpenWithKey(k) \subseteq {t})
    <2>1. Records' = Records
      BY <1>11, OpenedKept, SameRecords
    <2>2. PICK j \in OpenWithKey(k) : j # t
      BY <1>11
    <2>3. t \notin OpenWithKey(k)
      BY <1>2, <2>2 DEF StoreInv, OneOpenPerKey, OpenWithKey
    <2>4. Atomic!Refuse(e, t)
      BY <1>2, <1>4, <1>8, <1>11, <2>1, <2>2, <2>3 DEF Atomic!Refuse
    <2>5. Atomic!Raise(e)
      BY <1>5, <1>7, <1>11, <1>a DEF Raise, Atomic!Raise
    <2> QED
      BY <1>2, <1>7, <2>4, <2>5 DEF Atomic!Next
  <1> QED
    BY <1>9, <1>10, <1>11, <1>a, <1>b DEF MergeInto, k

\* The upsert: the key is new and a record is opened, or the record that has it counts.
LEMMA InsertRefines ==
    ASSUME StoreInv, Remember, NEW w \in Writer, InsertOrAppend(w)
    PROVE  Atomic!Next
  <1>a. PICK rec : rec = call[w].rec
    OBVIOUS
  <1> DEFINE e == ReportOf(rec)
             k == GroupKey(rec.domain, rec.anoms)
  <1>1. call[w].pc = "insert" /\ call[w] # Idle /\ call[w] \in Call /\ Return(w)
    BY DEF InsertOrAppend, Idle, StoreInv, TypeOK
  <1>2. rec \in Emission /\ rec.id \in Ids
    BY <1>1, <1>a, CallFields DEF Emission
  <1>3. rows[rec.id] = Absent
    BY <1>1, <1>a DEF StoreInv, NumbersNotShared
  <1>4. e.key = k /\ e.id = rec.id
    BY DEF ReportOf
  <1>5. e \in Reports /\ Reports' = Reports \ {e}
    BY <1>1, <1>a, ReportEnds DEF Return
  <1>6. Atomic!Return(e)
    BY <1>1, <1>4, <1>5, <1>a DEF Return, Atomic!Return
  <1> HIDE DEF e, k
  <1>7. Atomic!Holding(e.key) = OpenWithKey(k)
    BY <1>4, MappedOpen
  <1>8. ASSUME NEW i \in OpenWithKey(k), rows' = [rows EXCEPT ![i] = AppendedRow(rows[i], rec)]
        PROVE  Atomic!Next
    <2> DEFINE q == AppendedRow(rows[i], rec)
    <2>1. i \in Ids /\ IsOpen(rows[i]) /\ rows[i].key = k
      BY <1>8 DEF OpenWithKey
    <2>2. rows[i] # Absent /\ rows[i] \in Row
      BY <2>1, OpenIsRow DEF StoreInv, TypeOK
    <2>3. rows'[i] = q /\ \A j \in Ids \ {i} : rows'[j] = rows[j]
      BY <1>8, <2>1 DEF StoreInv, TypeOK
    <2>4. /\ q \in Row /\ q.state = rows[i].state /\ q.key = rows[i].key
          /\ q.count = rows[i].count + 1
      BY <1>2, <2>2, AppendedRowType
    <2>5. q.severity = MaxSeverity(rec.severity, rows[i].severity)
      BY <1>2, <2>2 DEF AppendedRow, Row
    <2>6. opened'[i] = opened[i]
      BY <2>1, <2>2, OpenedKept
    <2> HIDE DEF q
    <2>7. RecordOf(i)' = Atomic!Worse(i, ReportOf(rec))
      BY <1>2, <2>1, <2>2, <2>3, <2>4, <2>5, <2>6, WorseRecord DEF k
    <2>8. Records' = [Records EXCEPT ![i] = RecordOf(i)']
      BY <2>1, <2>3, OpenedKept, OneRecord
    <2>9. Atomic!Count(e, i)
      BY <1>7, <1>8, <2>7, <2>8 DEF Atomic!Count, e
    <2> QED
      BY <1>5, <1>6, <2>1, <2>9 DEF Atomic!Next
  <1>9. ASSUME OpenWithKey(k) = {}, rows' = [rows EXCEPT ![rec.id] = NewRow(rec)]
        PROVE  Atomic!Next
    <2>1. rows'[rec.id] = NewRow(rec) /\ \A j \in Ids \ {rec.id} : rows'[j] = rows[j]
      BY <1>2, <1>9 DEF StoreInv, TypeOK
    <2>2. Records' = [Records EXCEPT ![rec.id] = RecordOf(rec.id)']
      BY <1>2, <2>1, OpenedKept, OneRecord
    <2>3. RecordOf(rec.id)' =
              [state |-> "open", opened |-> e.key, key |-> e.key,
               count |-> 1, severity |-> e.severity]
      BY <1>2, <1>3, <2>1, FreshRecord DEF e
    <2>4. Records[e.id] = Atomic!None
      BY <1>2, <1>3, <1>4, NoRecord
    <2>5. Atomic!OpenRecord(e)
      BY <1>4, <1>7, <1>9, <2>2, <2>3, <2>4 DEF Atomic!OpenRecord
    <2> QED
      BY <1>5, <1>6, <2>5 DEF Atomic!Next
  <1> QED
    BY <1>8, <1>9, <1>a DEF InsertOrAppend, k

\* However the two transactions of any number of calls of write_or_append (records.py:475-482)
\* interleave with each other and with the closing of records, every call takes effect as if
\* at one moment, on at most one record, whose first report it covers.
THEOREM StoreIsAtomic == HistorySpec => ImplementsAtomic
<1>1. HistoryInit => Atomic!Init
  <2> SUFFICES ASSUME HistoryInit PROVE Atomic!Init
    OBVIOUS
  <2>1. /\ \A i \in Ids : rows[i] = Absent
        /\ \A w \in Writer : call[w] = Idle
        /\ returned = {} /\ raised = {}
    BY DEF HistoryInit, Init
  <2>2. Records = [n \in Ids |-> Atomic!None]
    BY <2>1 DEF Records, RecordOf, Atomic!None
  <2>3. Reports = {}
    BY <2>1 DEF Reports, Calling
  <2> QED
    BY <2>1, <2>2, <2>3 DEF Atomic!Init
<1>2. StoreInv /\ OpenedListed /\ [HistoryNext]_historyVars => [Atomic!Next]_(Atomic!vars)
  <2> SUFFICES ASSUME StoreInv, OpenedListed, [HistoryNext]_historyVars
               PROVE  Atomic!Next \/ UNCHANGED <<Records, Reports, returned, raised>>
    BY DEF Atomic!vars
  <2>1. CASE UNCHANGED historyVars
    <3>1. Records' = Records
      BY <2>1, SameRecords DEF historyVars
    <3>2. Reports' = Reports
      BY <2>1 DEF historyVars, Reports, Calling, ReportOf
    <3> QED
      BY <2>1, <3>1, <3>2 DEF historyVars
  <2>2. CASE Next /\ Remember
    <3>1. ASSUME NEW i \in Ids, NEW s \in TerminalStates, SetTerminalState(i, s)
          PROVE  Atomic!Next \/ UNCHANGED <<Records, Reports, returned, raised>>
      BY <2>2, <3>1, StateRefines
    <3>2. ASSUME NEW i \in Ids, MarkInProgress(i)
          PROVE  Atomic!Next \/ UNCHANGED <<Records, Reports, returned, raised>>
      BY <2>2, <3>2, StateRefines
    <3> QED
      BY <2>2, <3>1, <3>2, EmitRefines, FindRefines, MergeRefines, InsertRefines DEF Next
  <2> QED
    BY <2>1, <2>2 DEF HistoryNext
<1> QED
  BY <1>1, <1>2, OpenedAlwaysListed, PTL DEF HistorySpec, ImplementsAtomic, Atomic!Spec
=============================================================================
