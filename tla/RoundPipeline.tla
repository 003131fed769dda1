---------------------------- MODULE RoundPipeline ----------------------------
(***************************************************************************)
(* What run_domain (pipeline/runner.py) makes of the signals of one round, *)
(* up to the incidents it verifies and emits: L0 suppression               *)
(* (pipeline/l0_suppress.py and suppressors/), L1 detection                *)
(* (pipeline/l1_detect.py, filter_signals.py and detectors/), the          *)
(* union-find of pipeline/grouping.py, L2 correlation                      *)
(* (pipeline/l2_correlate.py) and the severity of L3 (l3_verify.py).       *)
(* A step is a pass of a loop.  DetectionFunnel models what the counters   *)
(* and the records make of the incidents.                                  *)
(*                                                                         *)
(* A signal is at the time of its place in the list.  A metric signal is   *)
(* one that crosses the threshold of the detectors that match it.          *)
(***************************************************************************)
EXTENDS Integers, Sequences, SequencesExt, FiniteSets

CONSTANTS
    Signal,       \* the signals a source may report
    MaxSignals,   \* bound: signals of a round
    RuleSets,     \* what maintenance_window and suppress_blacklist may hold
    Detectors,    \* domain_config.detectors, a sequence
    MinCount,     \* params.min_count of signature_aggregate
    Window,       \* correlation.metric_log_window_sec
    None

ASSUME PipelineAssumption ==
    /\ MaxSignals \in Nat /\ MinCount \in Nat /\ Window \in Nat
    /\ \A s \in Signal : s.kind \in {"metric", "log"}
    /\ Len(Detectors) \in Nat /\ DOMAIN Detectors = 1..Len(Detectors)
    /\ \A i \in DOMAIN Detectors : Detectors[i].severity \in {"warning", "high", "critical"}

VARIABLES
    signals,     \* ctx.signals as collected
    rules,       \* ctx.maintenance_windows and ctx.blacklist
    pc,          \* the loop that is running
    k,           \* its next pass
    suppressed,  \* ctx.suppressed, as places in signals
    broken,      \* history: the detectors that raised
    anomalies,   \* ctx.anomalies
    parent,      \* _UnionFind._parent
    logRoots,    \* log_root_by_service
    groups       \* the result of group_anomalies, as sets of places in anomalies

vars == <<signals, rules, pc, k, suppressed, broken, anomalies, parent, logRoots, groups>>

Service == {s.service : s \in Signal}

Init ==
    /\ signals \in UNION {[1..n -> Signal] : n \in 0..MaxSignals}
    /\ rules \in RuleSets
    /\ pc = "suppress"
    /\ k = 1
    /\ suppressed = {}
    /\ broken = {}
    /\ anomalies = <<>>
    /\ parent = <<>>
    /\ logRoots = [s \in Service |-> {}]
    /\ groups = {}

-----------------------------------------------------------------------------
(***************************************************************************)
(* L0 and L1.                                                              *)
(***************************************************************************)
\* _reason_for of MaintenanceWindowSuppressor: both ends are part of the window.
InWindow(r, i) ==
    r.type = "window" /\ r.service = signals[i].service /\ r.start <= i /\ i <= r.end

\* _reason_for of BlacklistSuppressor: the name of the metric or the level of the log.  The
\* domain of an entry is not looked at.
Blacklisted(r, i) ==
    r.type = "entry" /\ r.service = signals[i].service /\ r.signal = signals[i].name

Hits(r, i) == InWindow(r, i) \/ Blacklisted(r, i)

\* Faulty: signals are compared by their value and not by identity.
SuppressEqual ==
    /\ pc = "suppress"
    /\ suppressed' = {i \in DOMAIN signals :
            \E j \in DOMAIN signals : signals[i] = signals[j] /\ \E r \in rules : Hits(r, j)}
    /\ pc' = "detect"
    /\ UNCHANGED <<signals, rules, k, broken, anomalies, parent, logRoots, groups>>

L0Suppress ==
    /\ pc = "suppress"
    /\ suppressed' = {i \in DOMAIN signals : \E r \in rules : Hits(r, i)}
    /\ pc' = "detect"
    /\ UNCHANGED <<signals, rules, k, broken, anomalies, parent, logRoots, groups>>

\* filter_signals: everything, a metric name or a log level, or a pattern whose
\* empty fields match everything.
Matches(i, m) ==
    LET s == signals[i]
    IN  \/ m.type = "all"
        \/ m.type = "name" /\ s.name = m.name
        \/ /\ m.type = s.kind
           /\ m.name \in {None, s.name}
           /\ m.service \in {None, s.service}

FilterSignals(m) == {i \in DOMAIN signals \ suppressed : Matches(i, m)}

\* The members of a set of places, in the order of the list.
Sorted(S) ==
    CHOOSE f \in [1..Cardinality(S) -> S] : \A m, n \in DOMAIN f : m < n => f[m] < f[n]

\* StaticThresholdDetector and SimpleCompareDetector: an anomaly for each metric signal.
Thresholds(matched, severity) ==
    LET hits == Sorted({i \in matched : signals[i].kind = "metric"})
    IN  [n \in 1..Len(hits) |->
            [kind |-> "metric", service |-> signals[hits[n]].service, name |-> signals[hits[n]].name,
             traces |-> {}, at |-> hits[n], severity |-> severity, from |-> {hits[n]}]]

SameKey(i, j) == signals[i].sig = signals[j].sig /\ signals[i].service = signals[j].service

\* SignatureAggregateDetector: the log signals of one signature and service are
\* one anomaly, if there are enough of them.
Aggregates(matched, severity) ==
    LET logs  == {i \in matched : signals[i].kind = "log"}
        Of(i) == {j \in logs : SameKey(i, j)}
        firsts == Sorted({i \in logs : Cardinality(Of(i)) >= MinCount /\ \A j \in Of(i) : i <= j})
    IN  [n \in 1..Len(firsts) |->
            LET i == firsts[n]
            IN  [kind |-> "log", service |-> signals[i].service, name |-> signals[i].sig,
                 traces |-> {signals[j].trace : j \in Of(i)} \ {None},
                 at |-> CHOOSE j \in Of(i) : \A o \in Of(i) : o <= j,
                 severity |-> severity, from |-> Of(i)]]

Found(d, matched) ==
    IF d.plugin = "signature_aggregate" THEN Aggregates(matched, d.severity)
    ELSE Thresholds(matched, d.severity)

\* l1_detect: a detector that raises is skipped.
L1Detect ==
    /\ pc = "detect"
    /\ k \in DOMAIN Detectors
    /\ LET d == Detectors[k]
       IN  \/ /\ anomalies' = anomalies \o Found(d, FilterSignals(d.signal))
              /\ UNCHANGED broken
           \/ /\ FilterSignals(d.signal) # {}
              /\ broken' = broken \cup {k}
              /\ UNCHANGED anomalies
    /\ k' = k + 1
    /\ UNCHANGED <<signals, rules, pc, suppressed, parent, logRoots, groups>>

-----------------------------------------------------------------------------
(***************************************************************************)
(* group_anomalies.                                                        *)
(***************************************************************************)
Logs == {i \in DOMAIN anomalies : anomalies[i].kind = "log"}

Metrics == {i \in DOMAIN anomalies : anomalies[i].kind = "metric"}

BeginGrouping ==
    /\ pc = "detect"
    /\ k \notin DOMAIN Detectors
    /\ parent' = [i \in DOMAIN anomalies |-> i]
    /\ pc' = "logs"
    /\ k' = 1
    /\ UNCHANGED <<signals, rules, suppressed, broken, anomalies, logRoots, groups>>

\* _UnionFind.find: the root of x, and the nodes on the way to it.
Root(p, x) ==
    LET root[y \in DOMAIN p] == IF p[y] = y THEN y ELSE root[p[y]] IN root[x]

Path(p, x) ==
    LET path[y \in DOMAIN p] == IF p[y] = y THEN {y} ELSE {y} \cup path[p[y]] IN path[x]

\* The path compression of find.
Compress(p, x) == [y \in DOMAIN p |-> IF y \in Path(p, x) THEN Root(p, x) ELSE p[y]]

\* Faulty: the nodes are linked and not their roots.
UnionNodes(p, a, b) == [p EXCEPT ![b] = a]

Union(p, a, b) ==
    LET q == Compress(Compress(p, a), b)
        ra == Root(p, a)
        rb == Root(p, b)
    IN  IF ra # rb THEN [q EXCEPT ![rb] = ra] ELSE q

Smallest(S) == CHOOSE i \in S : \A j \in S : i <= j

WithSignature(i) == Smallest({j \in Logs : anomalies[j].name = anomalies[i].name})

WithTrace(t) == Smallest({j \in Logs : t \in anomalies[j].traces})

\* A pass of _union_logs: by_signature and by_trace hold the first log anomaly
\* with the signature or the trace.
UnionLogs(i) ==
    LET holders == <<WithSignature(i)>> \o SetToSeq({WithTrace(t) : t \in anomalies[i].traces})
    IN  FoldLeft(LAMBDA p, j : Union(p, j, i), parent, holders)

LinkLogs ==
    /\ pc = "logs"
    /\ k \in DOMAIN anomalies
    /\ parent' = IF k \in Logs THEN UnionLogs(k) ELSE parent
    /\ k' = k + 1
    /\ UNCHANGED <<signals, rules, pc, suppressed, broken, anomalies, logRoots, groups>>

\* The metric anomalies of a service are one.
LinkMetrics ==
    /\ pc = "metrics"
    /\ k \in DOMAIN anomalies
    /\ LET anchor == Smallest({j \in Metrics : anomalies[j].service = anomalies[k].service})
       IN  parent' = IF k \in Metrics /\ anchor # k THEN Union(parent, anchor, k) ELSE parent
    /\ k' = k + 1
    /\ UNCHANGED <<signals, rules, pc, suppressed, broken, anomalies, logRoots, groups>>

LogRoots ==
    /\ pc = "metrics"
    /\ k \notin DOMAIN anomalies
    /\ parent' = FoldLeft(Compress, parent, Sorted(Logs))
    /\ logRoots' = [s \in Service |-> {Root(parent, i) : i \in {j \in Logs : anomalies[j].service = s}}]
    /\ pc' = "attach"
    /\ k' = 1
    /\ UNCHANGED <<signals, rules, suppressed, broken, anomalies, groups>>

\* Only a service whose logs are in one group attracts its metrics.
Host(roots) == Cardinality(roots) = 1

AttachMetrics ==
    /\ pc = "attach"
    /\ k \in DOMAIN anomalies
    /\ LET roots == logRoots[anomalies[k].service]
       IN  parent' = IF k \in Metrics /\ Host(roots)
                     THEN FoldLeft(LAMBDA p, r : Union(p, r, k), parent, SetToSeq(roots)) ELSE parent
    /\ k' = k + 1
    /\ UNCHANGED <<signals, rules, pc, suppressed, broken, anomalies, logRoots, groups>>

\* The next loop.
NextLoop ==
    /\ pc = "logs"
    /\ k \notin DOMAIN anomalies
    /\ pc' = "metrics"
    /\ k' = 1
    /\ UNCHANGED <<signals, rules, suppressed, broken, anomalies, parent, logRoots, groups>>

\* The components, by their root.
Collect ==
    /\ pc = "attach"
    /\ k \notin DOMAIN anomalies
    /\ parent' = FoldLeft(Compress, parent, Sorted(DOMAIN anomalies))
    /\ groups' = {{i \in DOMAIN anomalies : Root(parent, i) = r} : r \in {Root(parent, i) : i \in DOMAIN anomalies}}
    /\ pc' = "done"
    /\ UNCHANGED <<signals, rules, k, suppressed, broken, anomalies, logRoots>>

Next ==
    \/ L0Suppress
    \/ L1Detect
    \/ BeginGrouping
    \/ LinkLogs
    \/ NextLoop
    \/ LinkMetrics
    \/ LogRoots
    \/ AttachMetrics
    \/ Collect

Spec == Init /\ [][Next]_vars

-----------------------------------------------------------------------------
(***************************************************************************)
(* L2 and the severity of L3, for an incident g.                           *)
(***************************************************************************)
Near(i, j) ==
    /\ anomalies[i].at - anomalies[j].at <= Window
    /\ anomalies[j].at - anomalies[i].at <= Window

\* Faulty: a metric of one service is related to a log of another.
WithinWindowOfGroup(g) == \E m \in g \cap Metrics, l \in g \cap Logs : Near(m, l)

\* _within_window: a metric and a log of one service.
WithinWindow(g) ==
    \E m \in g \cap Metrics, l \in g \cap Logs : anomalies[m].service = anomalies[l].service /\ Near(m, l)

Rank == [warning |-> 0, high |-> 1, critical |-> 2]

High(S) == \E i \in S : anomalies[i].severity = "high"

\* calibrate_severity of the anomalies that persist, given Correlation.related.
CalibrateSeverity(persisted, related) ==
    IF related /\ High(persisted \cap Metrics) /\ High(persisted \cap Logs) THEN "critical"
    ELSE LET top == CHOOSE i \in persisted : \A j \in persisted : Rank[anomalies[j].severity] <= Rank[anomalies[i].severity]
         IN  anomalies[top].severity

-----------------------------------------------------------------------------
(***************************************************************************)
(* Properties.                                                             *)
(***************************************************************************)
TypeOK ==
    /\ pc \in {"suppress", "detect", "logs", "metrics", "attach", "done"}
    /\ k \in 1..(MaxSignals * Len(Detectors) + Len(Detectors) + 1)
    /\ suppressed \subseteq DOMAIN signals
    /\ broken \subseteq DOMAIN Detectors
    /\ DOMAIN parent \subseteq DOMAIN anomalies
    /\ \A i \in DOMAIN parent : parent[i] \in DOMAIN parent
    /\ \A s \in Service : logRoots[s] \subseteq DOMAIN anomalies
    /\ groups \subseteq SUBSET DOMAIN anomalies

\* The component of i under a relation: what no set closed under it can leave out.
Component(i, S, Linked(_, _)) ==
    {j \in S : \A T \in SUBSET S :
        i \in T /\ (\A a \in T, b \in S : Linked(a, b) \/ Linked(b, a) => b \in T) => j \in T}

\* grouping.py:6-8: logs with one signature, or with a common trace.
SameError(i, j) ==
    \/ anomalies[i].name = anomalies[j].name
    \/ anomalies[i].traces \cap anomalies[j].traces # {}

Errors(i) == Component(i, Logs, SameError)

LogsOf(s) == {i \in Logs : anomalies[i].service = s}

\* grouping.py:9-10: metrics of one service, and a metric with the logs of its
\* service when these are one incident.
SameIncident(i, j) ==
    \/ i \in Logs /\ j \in Logs /\ SameError(i, j)
    \/ i \in Metrics /\ j \in Metrics /\ anomalies[i].service = anomalies[j].service
    \/ /\ i \in Metrics /\ j \in LogsOf(anomalies[i].service)
       /\ LogsOf(anomalies[i].service) \subseteq Errors(j)

\* grouping.py:3-10: what the union-find computes pass by pass, in the order of the
\* list, is the partition into connected components, which has no order.
IncidentsAreComponents ==
    pc = "done" => groups = {Component(i, DOMAIN anomalies, SameIncident) : i \in DOMAIN anomalies}

\* The signals detector d is to look at: the ones it asks for that no rule hides.
Seen(d) == {i \in DOMAIN signals : Matches(i, Detectors[d].signal) /\ ~\E r \in rules : Hits(r, i)}

\* Detector d is to report signal i.
Due(i, d) ==
    /\ i \in Seen(d)
    /\ IF Detectors[d].plugin = "signature_aggregate"
       THEN /\ signals[i].kind = "log"
            /\ Cardinality({j \in Seen(d) : signals[j].kind = "log" /\ SameKey(i, j)}) >= MinCount
       ELSE signals[i].kind = "metric"

\* From L0 to the incidents nothing gets lost and nothing is counted twice: a signal
\* that a detector is to report, and that did not raise, is in exactly one incident,
\* and every other one is in none.
EverySignalOnce ==
    pc = "done" =>
        \A i \in DOMAIN signals :
            Cardinality({g \in groups : \E a \in g : i \in anomalies[a].from}) =
                IF \E d \in DOMAIN Detectors \ broken : Due(i, d) THEN 1 ELSE 0

\* grouping.py:9-10 with l2_correlate.py:27-30 and l3_verify.py:22: whichever of its
\* anomalies persist, an incident is upgraded to critical only when one of its services has a
\* metric near a log, and all the logs of that service are in the incident: the metric was not
\* paired with one of several errors of its service.
UpgradeHasItsPair ==
    pc = "done" =>
        \A g \in groups : \A persisted \in (SUBSET g) \ {{}} :
            CalibrateSeverity(persisted, WithinWindow(g)) = "critical" =>
                \/ \E i \in persisted : anomalies[i].severity = "critical"
                \/ \E m \in g \cap Metrics, l \in g \cap Logs :
                        /\ anomalies[m].service = anomalies[l].service
                        /\ Near(m, l) /\ LogsOf(anomalies[l].service) \subseteq g

-----------------------------------------------------------------------------
(***************************************************************************)
(* A claim of the documentation that the code does not keep; README.md     *)
(* says for which constants TLC refutes it.                                *)
(***************************************************************************)
\* l3_verify.py:22 and docs/domain-config-tutorial.md:346: the upgrade needs a high metric and
\* a high log of one service.  calibrate_severity does not look at the service.
UpgradeIsOneService ==
    pc = "done" =>
        \A g \in groups : \A persisted \in (SUBSET g) \ {{}} :
            CalibrateSeverity(persisted, WithinWindow(g)) = "critical" =>
                \/ \E i \in persisted : anomalies[i].severity = "critical"
                \/ \E m \in persisted \cap Metrics, l \in persisted \cap Logs :
                        /\ anomalies[m].service = anomalies[l].service
                        /\ High({m}) /\ High({l})
=============================================================================
