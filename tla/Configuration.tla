---------------------------- MODULE Configuration ----------------------------
(***************************************************************************)
(* What people configure, and how rounds read it: the rules of the domains *)
(* (storage/domain_config.py, config/loader.py, router/config.py), the     *)
(* monitor targets (storage/monitor_targets.py, router/monitors.py),       *)
(* maintenance windows and the blacklist (storage/dynamic_config.py,       *)
(* router/maintenance.py, router/blacklist.py), the false-positive rates   *)
(* that verdicts on problems make (router/problems.py, _record_fpr), and   *)
(* build_context (pipeline/context.py) with the false-positive gate of     *)
(* l3_verify, which use them.                                              *)
(*                                                                         *)
(* One tenant, and the PostgreSQL stores.  A call of a store is a step; a  *)
(* request that makes one call that writes is one step.  Requests overlap, *)
(* and any call may fail, which ends its request: every request makes its  *)
(* own DomainConfigLoader, so there is no cache to fall back on.  Rows of  *)
(* domain_config are always enabled.  The rules of a domain are one value; *)
(* a window or a blacklist entry is its id; a group key is a domain, a     *)
(* service and the identities of anomalies.                                *)
(***************************************************************************)
EXTENDS Integers, FiniteSets

CONSTANTS
    Client,       \* requests under way at the same time
    Domain,
    SeedDomain,   \* the domain of domains.yaml ...
    SeedConfig,   \* ... and its rules
    Config,       \* rules a PUT may write
    Target,
    Anomaly,
    ServiceOf,    \* the service of each anomaly; numbers, in the order of the names
    MinSamples,   \* verify.min_samples
    Threshold,    \* verify.false_positive_threshold, in 1/10000
    MaxEntries,   \* bound: windows and blacklist entries
    MaxCalls,     \* bound: requests in a behaviour
    Workloads,    \* bound: the sets of kinds of requests of one behaviour
    None

ASSUME ConfigurationAssumption ==
    /\ SeedDomain \in Domain
    /\ ServiceOf \in [Anomaly -> Nat]
    /\ MinSamples \in Nat \ {0}
    /\ Threshold \in 0..10000
    /\ MaxEntries \in Nat
    /\ MaxCalls \in Nat
    /\ None \notin Domain \cup Config \cup {SeedConfig}
    /\ None \notin [cfg : Config \cup {SeedConfig}, version : Nat]
    /\ None \notin [fp : Nat, total : Nat, fpr : Nat]

Group == (SUBSET Anomaly) \ {{}}

\* group_services and representative_service.
Services(g) == {ServiceOf[a] : a \in g}

Representative(g) == CHOOSE s \in Services(g) : \A t \in Services(g) : s <= t

\* group_key: run_domain takes the service from the whole group g, the anomalies are p.
Key(d, g, p) == <<d, Representative(g), p>>

RecordKey(d, g) == Key(d, g, g)

GroupKey == {Key(d, g, p) : d \in Domain, g \in Group, p \in Group}

VARIABLES
    conf,      \* domain_config: per domain, None or its row
    target,    \* monitor_target: per target, None or its row
    entries,   \* maintenance_window and suppress_blacklist
    nextEntry, \* their identity columns
    fpr,       \* fpr_table: per group key, None or its row
    recs,      \* the group keys of which there is a problem record
    req,       \* per client, the locals of its request
    calls,     \* requests so far
    kinds,     \* the kinds of requests of this behaviour
    said       \* history: the verdicts sent, and the verdicts answered

vars == <<conf, target, entries, nextEntry, fpr, recs, req, calls, kinds, said>>

\* had, must, may and old are history: the rules that the domain had since the request
\* began; the entries that were enabled all the time, and at some time, since the round
\* began; the verdicts answered when the round began.
Idle ==
    [pc |-> "idle", kind |-> "none", d |-> None, todo |-> {}, cfg |-> None, had |-> {},
     ctx |-> {}, must |-> {}, may |-> {}, key |-> None, read |-> None,
     rate |-> None, old |-> 0, fp |-> FALSE, severity |-> "none"]

NoVerdicts == [k \in GroupKey |-> [all |-> 0, false |-> 0]]

\* A new installation, or one that has been at work.
Init ==
    /\ \/ /\ conf = [d \in Domain |-> None]
          /\ target = [t \in Target |-> None]
          /\ recs = {}
       \/ /\ conf = [d \in Domain |-> IF d = SeedDomain THEN [cfg |-> SeedConfig, version |-> 1] ELSE None]
          /\ target = [t \in Target |-> [domain |-> SeedDomain, enabled |-> TRUE, deleted |-> FALSE]]
          /\ recs = {RecordKey(SeedDomain, g) : g \in Group}
    /\ entries = {}
    /\ nextEntry = 1
    /\ fpr = [k \in GroupKey |-> None]
    /\ req = [c \in Client |-> Idle]
    /\ calls = 0
    /\ kinds \in Workloads
    /\ said = [sent |-> NoVerdicts, answered |-> NoVerdicts]

At(c, pc) == req[c].pc = pc

\* A request of a kind arrives.
Call(kind) == kind \in kinds /\ calls < MaxCalls /\ calls' = calls + 1 /\ UNCHANGED kinds

-----------------------------------------------------------------------------
(***************************************************************************)
(* History: what the requests under way could see.                         *)
(***************************************************************************)
Rules(f, d) == IF d = None \/ f[d] = None THEN None ELSE f[d].cfg

\* f is the table of domains from now on.
SeeRules(f, l) ==
    [c \in Client |-> IF l[c].pc = "idle" THEN l[c]
                      ELSE [l[c] EXCEPT !.had = @ \cup {Rules(f, l[c].d)}]]

SeeEntries(on) ==
    [c \in Client |-> IF req[c].kind # "round" THEN req[c]
                      ELSE [req[c] EXCEPT !.must = @ \cap on, !.may = @ \cup on]]

-----------------------------------------------------------------------------
(***************************************************************************)
(* PUT /v1/config/{domain}.                                                *)
(***************************************************************************)
Upsert(row, v) == [cfg |-> v, version |-> IF row = None THEN 1 ELSE row.version + 1]

PutConfig(d, v) ==
    /\ Call("put")
    /\ conf' = [conf EXCEPT ![d] = Upsert(@, v)]
    /\ req' = SeeRules(conf', req)
    /\ UNCHANGED <<target, entries, nextEntry, fpr, recs, said>>

-----------------------------------------------------------------------------
(***************************************************************************)
(* /v1/monitors.  get and update find deleted rows too.                    *)
(***************************************************************************)
\* The domain of the body is not looked up.  The number, and so the target, is new.
CreateTarget(t, d) ==
    /\ Call("target")
    /\ target[t] = None
    /\ target' = [target EXCEPT ![t] = [domain |-> d, enabled |-> TRUE, deleted |-> FALSE]]
    /\ UNCHANGED <<conf, entries, nextEntry, fpr, recs, req, said>>

UpdateTarget(t, d, on) ==
    /\ Call("target")
    /\ target[t] # None
    /\ target' = [target EXCEPT ![t].domain = d, ![t].enabled = on]
    /\ UNCHANGED <<conf, entries, nextEntry, fpr, recs, req, said>>

DeleteTarget(t) ==
    /\ Call("target")
    /\ target[t] # None
    /\ target' = [target EXCEPT ![t].deleted = TRUE]
    /\ UNCHANGED <<conf, entries, nextEntry, fpr, recs, req, said>>

\* load_all_targets.
AllTargets == {t \in Target : target[t] # None /\ target[t].enabled /\ ~target[t].deleted}

-----------------------------------------------------------------------------
(***************************************************************************)
(* /v1/maintenance-windows and /v1/blacklist.                              *)
(***************************************************************************)
Entry == [id : 1..MaxEntries, table : {"window", "blacklist"}, enabled : BOOLEAN]

\* load_maintenance_windows; a window has no flag.
Windows == {e.id : e \in {x \in entries : x.table = "window"}}

\* Faulty: the list of all rows, as an administrator sees it.
BlacklistAny == {e.id : e \in {x \in entries : x.table = "blacklist"}}

\* load_blacklist.
Blacklist == {e.id : e \in {x \in entries : x.table = "blacklist" /\ x.enabled}}

\* What a round should take into account.
InForce(rows) == {e.id : e \in {x \in rows : x.enabled}}

Insert(table, on) ==
    /\ Call("entry")
    /\ nextEntry <= MaxEntries
    /\ nextEntry' = nextEntry + 1
    /\ entries' = entries \cup {[id |-> nextEntry, table |-> table, enabled |-> on]}
    /\ req' = SeeEntries(InForce(entries'))
    /\ UNCHANGED <<conf, target, fpr, recs, said>>

CreateMaintenanceWindow == Insert("window", TRUE)

CreateBlacklist(on) == Insert("blacklist", on)

\* The arguments of either UPDATE begin with the tenant and the id, its placeholders with the
\* fields: PostgreSQL refuses it, or no row matches, and the row is answered as it was.
Unmatched(e, table) ==
    /\ Call("entry")
    /\ e.table = table
    /\ UNCHANGED <<conf, target, entries, nextEntry, fpr, recs, req, said>>

UpdateMaintenanceWindow(e) == Unmatched(e, "window")

UpdateBlacklist(e) == Unmatched(e, "blacklist")

Remove(e, table) ==
    /\ Call("entry")
    /\ e.table = table
    /\ entries' = entries \ {e}
    /\ req' = SeeEntries(InForce(entries'))
    /\ UNCHANGED <<conf, target, nextEntry, fpr, recs, said>>

DeleteMaintenanceWindow(e) == Remove(e, "window")

DeleteBlacklist(e) == Remove(e, "blacklist")

-----------------------------------------------------------------------------
(***************************************************************************)
(* DomainConfigLoader.load, and what each caller does next.                *)
(***************************************************************************)
Become(c, l) == req' = [req EXCEPT ![c] = l]

\* The locals of a request that is about to load the rules of d.
Loading(kind, d, todo) ==
    [Idle EXCEPT !.pc = "load", !.kind = kind, !.d = d, !.todo = todo, !.had = {Rules(conf, d)}]

\* GET /v1/config and GET /v1/config/{domain}.
GetConfig(c) ==
    /\ Call("get")
    /\ At(c, "idle")
    /\ Become(c, Loading("get", SeedDomain, {}))
    /\ UNCHANGED <<conf, target, entries, nextEntry, fpr, recs, said>>

\* DELETE /v1/config/{domain}.
DeleteConfig(c, d) ==
    /\ Call("delete")
    /\ At(c, "idle")
    /\ Become(c, Loading("delete", d, {}))
    /\ UNCHANGED <<conf, target, entries, nextEntry, fpr, recs, said>>

\* run_round for the targets of d, then of the domains in todo; p: the anomalies of the
\* group g that persist.  The key of the rate has the service of the whole group.
Rounds(d, todo, p, g) ==
    [Loading("round", d, todo) EXCEPT !.must = InForce(entries), !.may = InForce(entries),
        !.key = RecordKey(d, g), !.read = Key(d, g, p), !.old = said.answered[Key(d, g, p)].all]

StartRounds(c, ds) ==
    \E d \in ds, g \in Group : \E p \in (SUBSET g) \ {{}} : Become(c, Rounds(d, ds \ {d}, p, g))

\* POST /v1/monitors/{target}/run, enabled or not, deleted or not; a group of the scheduler
\* is a round of one domain as well.
RunMonitor(c, t) ==
    /\ Call("round")
    /\ At(c, "idle")
    /\ target[t] # None
    /\ StartRounds(c, {target[t].domain})
    /\ UNCHANGED <<conf, target, entries, nextEntry, fpr, recs, said>>

\* POST /v1/alerts/run: all enabled targets, one domain after the other.
RunAlerts(c) ==
    /\ Call("round")
    /\ At(c, "idle")
    /\ AllTargets # {}
    /\ StartRounds(c, {target[t].domain : t \in AllTargets})
    /\ UNCHANGED <<conf, target, entries, nextEntry, fpr, recs, said>>

\* With the rows: GET answers; DELETE answers 404 or checks the references; build_context
\* raises ValueError, which takes the other domains with it, or goes on.
Loaded(c) ==
    \/ /\ req[c].kind = "get" \/ conf[req[c].d] = None
       /\ Become(c, Idle)
    \/ /\ req[c].kind # "get" /\ conf[req[c].d] # None
       /\ Become(c, [req[c] EXCEPT !.pc = IF req[c].kind = "delete" THEN "refs" ELSE "windows",
                                   !.cfg = Rules(conf, req[c].d)])

LoadRows(c) ==
    /\ At(c, "load")
    /\ IF \E d \in Domain : conf[d] # None THEN Loaded(c) ELSE Become(c, [req[c] EXCEPT !.pc = "seed"])
    /\ UNCHANGED <<conf, target, entries, nextEntry, fpr, recs, calls, kinds, said>>

\* seed: ON CONFLICT DO UPDATE, but not of the version.
SeedRow(c) ==
    /\ At(c, "seed")
    /\ conf' = [conf EXCEPT ![SeedDomain] =
                    [cfg |-> SeedConfig, version |-> IF @ = None THEN 1 ELSE @.version]]
    /\ req' = SeeRules(conf', [req EXCEPT ![c].pc = "reload"])
    /\ UNCHANGED <<target, entries, nextEntry, fpr, recs, calls, kinds, said>>

Reload(c) ==
    /\ At(c, "reload")
    /\ Loaded(c)
    /\ UNCHANGED <<conf, target, entries, nextEntry, fpr, recs, calls, kinds, said>>

Referring(d) == {t \in AllTargets : target[t].domain = d}

CheckRefs(c) ==
    /\ At(c, "refs")
    /\ IF Referring(req[c].d) # {} THEN Become(c, Idle) ELSE Become(c, [req[c] EXCEPT !.pc = "drop"])
    /\ UNCHANGED <<conf, target, entries, nextEntry, fpr, recs, calls, kinds, said>>

DropConfig(c) ==
    /\ At(c, "drop")
    /\ conf' = [conf EXCEPT ![req[c].d] = None]
    /\ req' = SeeRules(conf', [req EXCEPT ![c] = Idle])
    /\ UNCHANGED <<target, entries, nextEntry, fpr, recs, calls, kinds, said>>

-----------------------------------------------------------------------------
(***************************************************************************)
(* The rest of build_context, and the gate.                                *)
(***************************************************************************)
LoadWindows(c) ==
    /\ At(c, "windows")
    /\ Become(c, [req[c] EXCEPT !.pc = "blacklist", !.ctx = Windows])
    /\ UNCHANGED <<conf, target, entries, nextEntry, fpr, recs, calls, kinds, said>>

LoadBlacklist(c) ==
    /\ At(c, "blacklist")
    /\ Become(c, [req[c] EXCEPT !.pc = "fpr", !.ctx = @ \cup Blacklist])
    /\ UNCHANGED <<conf, target, entries, nextEntry, fpr, recs, calls, kinds, said>>

LoadFpr(c) ==
    /\ At(c, "fpr")
    /\ Become(c, [req[c] EXCEPT !.pc = "verify", !.rate = fpr[req[c].read]])
    /\ UNCHANGED <<conf, target, entries, nextEntry, fpr, recs, calls, kinds, said>>

\* Faulty: one sample more.
FprOkLate(row) == row = None \/ row.total <= MinSamples \/ row.fpr < Threshold

\* fpr_ok, of the rate of the anomalies that persist.
FprOk(row) == row = None \/ row.total < MinSamples \/ row.fpr < Threshold

\* l3_verify, to "warning" or what calibrate_severity finds.
Verify(c) ==
    /\ At(c, "verify")
    /\ Become(c, [req[c] EXCEPT !.pc = "emit", !.severity = IF FprOk(req[c].rate) THEN "high" ELSE "warning"])
    /\ UNCHANGED <<conf, target, entries, nextEntry, fpr, recs, calls, kinds, said>>

\* emit, of the whole group; then the next domain.
Emit(c) ==
    /\ At(c, "emit")
    /\ recs' = recs \cup {req[c].key}
    /\ IF req[c].todo = {} THEN Become(c, Idle) ELSE StartRounds(c, req[c].todo)
    /\ UNCHANGED <<conf, target, entries, nextEntry, fpr, calls, kinds, said>>

-----------------------------------------------------------------------------
(***************************************************************************)
(* A verdict on a record: resolve_problem, open or not.                    *)
(***************************************************************************)
Count(table, k, fp) == [table EXCEPT ![k] = [all |-> @.all + 1, false |-> IF fp THEN @.false + 1 ELSE @.false]]

ResolveProblem(c, k, fp) ==
    /\ Call("verdict")
    /\ At(c, "idle")
    /\ k \in recs
    /\ Become(c, [Idle EXCEPT !.pc = "count", !.kind = "verdict", !.key = k, !.fp = fp])
    /\ said' = [said EXCEPT !.sent = Count(@, k, fp)]
    /\ UNCHANGED <<conf, target, entries, nextEntry, fpr, recs>>

\* fp / total in DECIMAL(5,4).
Ratio(fp, total) == (10000 * fp + total \div 2) \div total

\* Faulty: EXCLUDED, the row that was to be inserted.
CountedExcluded(row, inc) ==
    IF row = None THEN [fp |-> inc, total |-> 1, fpr |-> Ratio(inc, 1)]
    ELSE [fp |-> inc + inc, total |-> row.total + 1, fpr |-> Ratio(row.fp + inc, row.total + 1)]

Counted(row, inc) ==
    IF row = None THEN [fp |-> inc, total |-> 1, fpr |-> Ratio(inc, 1)]
    ELSE [fp |-> row.fp + inc, total |-> row.total + 1, fpr |-> Ratio(row.fp + inc, row.total + 1)]

\* write_fpr: one statement.
WriteFpr(c) ==
    /\ At(c, "count")
    /\ fpr' = [fpr EXCEPT ![req[c].key] = Counted(@, IF req[c].fp THEN 1 ELSE 0)]
    /\ Become(c, [req[c] EXCEPT !.pc = "resolve"])
    /\ UNCHANGED <<conf, target, entries, nextEntry, recs, calls, kinds, said>>

\* load_fpr for the gauge, resolve, and the answer.
Resolve(c) ==
    /\ At(c, "resolve")
    /\ said' = [said EXCEPT !.answered = Count(@, req[c].key, req[c].fp)]
    /\ Become(c, Idle)
    /\ UNCHANGED <<conf, target, entries, nextEntry, fpr, recs, calls, kinds>>

\* A call of a store raises.
StoreFails(c) ==
    /\ ~At(c, "idle")
    /\ Become(c, Idle)
    /\ UNCHANGED <<conf, target, entries, nextEntry, fpr, recs, calls, kinds, said>>

-----------------------------------------------------------------------------
Next ==
    \/ \E d \in Domain, v \in Config : PutConfig(d, v)
    \/ \E t \in Target, d \in Domain : CreateTarget(t, d)
    \/ \E t \in Target, d \in Domain, on \in BOOLEAN : UpdateTarget(t, d, on)
    \/ \E t \in Target : DeleteTarget(t)
    \/ CreateMaintenanceWindow
    \/ \E on \in BOOLEAN : CreateBlacklist(on)
    \/ \E e \in entries : UpdateMaintenanceWindow(e)
    \/ \E e \in entries : UpdateBlacklist(e)
    \/ \E e \in entries : DeleteMaintenanceWindow(e)
    \/ \E e \in entries : DeleteBlacklist(e)
    \/ \E c \in Client : GetConfig(c)
    \/ \E c \in Client, d \in Domain : DeleteConfig(c, d)
    \/ \E c \in Client, t \in Target : RunMonitor(c, t)
    \/ \E c \in Client : RunAlerts(c)
    \/ \E c \in Client : LoadRows(c)
    \/ \E c \in Client : SeedRow(c)
    \/ \E c \in Client : Reload(c)
    \/ \E c \in Client : CheckRefs(c)
    \/ \E c \in Client : DropConfig(c)
    \/ \E c \in Client : LoadWindows(c)
    \/ \E c \in Client : LoadBlacklist(c)
    \/ \E c \in Client : LoadFpr(c)
    \/ \E c \in Client : Verify(c)
    \/ \E c \in Client : Emit(c)
    \/ \E c \in Client, k \in recs, fp \in BOOLEAN : ResolveProblem(c, k, fp)
    \/ \E c \in Client : WriteFpr(c)
    \/ \E c \in Client : Resolve(c)
    \/ \E c \in Client : StoreFails(c)

Spec == Init /\ [][Next]_vars

-----------------------------------------------------------------------------
(***************************************************************************)
(* Properties.                                                             *)
(***************************************************************************)
Row(d) == conf[d] # None

TypeOK ==
    /\ \A d \in Domain : Row(d) => conf[d].cfg \in Config \cup {SeedConfig} /\ conf[d].version \in 1..MaxCalls + 1
    /\ \A t \in Target : target[t] # None => target[t].domain \in Domain /\ target[t].enabled \in BOOLEAN
    /\ entries \subseteq Entry
    /\ \A k \in GroupKey : fpr[k] # None => fpr[k].total \in 1..MaxCalls /\ fpr[k].fpr \in 0..10000
    /\ recs \subseteq GroupKey
    /\ nextEntry \in 1..MaxEntries + 1
    /\ calls \in 0..MaxCalls

\* dynamic_config.py:3, "build_context loads it every round": a round works with rules that its
\* domain had since the round began, with every window and entry that was in force all the
\* while, and with none that was not in force at any time; whatever changes while the context
\* is put together, call by call.
RoundReadsCurrent ==
    \A c \in Client : req[c].kind = "round" /\ req[c].pc \in {"fpr", "verify", "emit"} =>
        /\ req[c].cfg \in req[c].had \ {None}
        /\ req[c].must \subseteq req[c].ctx
        /\ req[c].ctx \subseteq req[c].may

\* dynamic_config.py:398-407: the table counts every verdict that was answered and none that was
\* not sent, false positives apart, and the rate is their share, however verdicts overlap.
NoVerdictLost ==
    \A k \in GroupKey :
        LET row == IF fpr[k] = None THEN [fp |-> 0, total |-> 0] ELSE fpr[k]
        IN  /\ said.answered[k].all <= row.total /\ row.total <= said.sent[k].all
            /\ said.answered[k].false <= row.fp /\ row.fp <= said.sent[k].false
            /\ fpr[k] # None => fpr[k].fpr = Ratio(row.fp, row.total)

\* l3_verify.py:40-42, "or the gate never reads what was written, and fails silently": a round of
\* a group of which the anomalies p persist, where the representative service of the group is
\* that of p, plays the problem down when min_samples verdicts on records of exactly p were
\* answered before the round began and all that were ever sent on them are false positives;
\* whatever is sent, counted and written to the table meanwhile.
GateReachesRound ==
    \A c \in Client : At(c, "emit") =>
        \A p \in Group :
            LET k == RecordKey(req[c].d, p)
            IN  /\ req[c].read = k
                /\ req[c].old >= MinSamples
                /\ said.sent[k].false = said.sent[k].all
                => req[c].severity = "warning"

\* l3_verify.py:40-42, the key that is read is the key that is written, that of the record.
\* Refuted by a group in which only some anomalies persist: its record has all of them.
GateReadsRecord == \A c \in Client : At(c, "emit") => req[c].read = req[c].key

\* The same, of the record of the anomalies that persist.  Refuted by a group of two services of
\* which the representative does not persist: no record has the key that is read.
GateReadsPersistent ==
    \A c \in Client : At(c, "emit") => \E p \in Group : req[c].read = RecordKey(req[c].d, p)

\* router/config.py:90-91, rules that an enabled target refers to are not deleted.  Refuted by a
\* target that is created or moved between the check and the delete.
DomainInUseStays ==
    [][\A d \in Domain : Row(d) /\ ~Row(d)' => Referring(d) = {}]_vars
=============================================================================
