-------------------------- MODULE ConfigurationProofs --------------------------
(***************************************************************************)
(* Proofs about the configuration and the rounds that read it, for any     *)
(* number of requests, domains, targets, anomalies, entries and verdicts.  *)
(***************************************************************************)
EXTENDS Configuration, TLAPS, FiniteSetTheorems

-----------------------------------------------------------------------------
(***************************************************************************)
(* Types.                                                                  *)
(***************************************************************************)
Rule == Config \cup {SeedConfig}

MaybeRule == Rule \cup {None}

ConfRow == [cfg : Rule, version : Nat]

TargetRow == [domain : Domain, enabled : BOOLEAN, deleted : BOOLEAN]

EntryRow == [id : Nat, table : {"window", "blacklist"}, enabled : BOOLEAN]

FprRow == [fp : Nat, total : Nat, fpr : Nat]

MaybeRate == FprRow \cup {None}

MaybeDomain == Domain \cup {None}

MaybeKey == GroupKey \cup {None}

Domains == SUBSET Domain

RuleSets == SUBSET MaybeRule

Ids == SUBSET Nat

Steps == {"idle", "load", "seed", "reload", "refs", "drop", "windows", "blacklist", "fpr", "verify",
          "emit", "count", "resolve"}

Kinds == {"none", "get", "delete", "round", "verdict"}

Severities == {"none", "high", "warning"}

Request == [pc : Steps, kind : Kinds, d : MaybeDomain, todo : Domains, cfg : MaybeRule, had : RuleSets,
            ctx : Ids, must : Ids, may : Ids, key : MaybeKey, read : MaybeKey,
            rate : MaybeRate, old : Nat, fp : BOOLEAN, severity : Severities]

Verdicts == [all : Nat, false : Nat]

\* Which steps belong to which requests, and what they have by then.
StepOfKind(l) ==
    /\ l.kind = "none" <=> l.pc = "idle"
    /\ l.kind = "verdict" <=> l.pc \in {"count", "resolve"}
    /\ l.pc \in {"refs", "drop"} => l.kind = "delete"
    /\ l.pc \in {"windows", "blacklist", "fpr", "verify", "emit"} => l.kind = "round"
    /\ l.kind \in {"get", "delete", "round"} => l.d \in Domain
    /\ l.kind = "verdict" => l.key \in GroupKey
    /\ l.kind = "round" => l.key \in GroupKey /\ l.read \in GroupKey

TablesInv ==
    /\ conf \in [Domain -> ConfRow \cup {None}]
    /\ target \in [Target -> TargetRow \cup {None}]
    /\ entries \subseteq EntryRow
    /\ nextEntry \in Nat
    /\ fpr \in [GroupKey -> MaybeRate]
    /\ recs \subseteq GroupKey
    /\ said \in [sent : [GroupKey -> Verdicts], answered : [GroupKey -> Verdicts]]

TypeInv ==
    /\ TablesInv
    /\ req = [c \in Client |-> req[c]]
    /\ \A c \in Client : req[c] \in Request /\ StepOfKind(req[c])

-----------------------------------------------------------------------------
(***************************************************************************)
(* The inductive invariants.                                               *)
(***************************************************************************)
\* Ids are drawn once, and a window is in force as long as it is there.
EntriesInv ==
    /\ \A e \in entries : e.id < nextEntry /\ (e.table = "window" => e.enabled)
    /\ \A e, f \in entries : e.id = f.id => e = f

\* What a round has read was so at some time since it began, and what was so
\* all the time is read.
SeesRules(l) ==
    /\ l.kind \in {"get", "delete", "round"} => Rules(conf, l.d) \in l.had
    /\ l.pc \in {"windows", "blacklist", "fpr", "verify", "emit"} => l.cfg \in l.had \ {None}

SeesEntries(l) ==
    l.kind = "round" =>
        /\ l.must \subseteq InForce(entries) /\ InForce(entries) \subseteq l.may
        /\ l.pc \in {"blacklist", "fpr", "verify", "emit"} => l.ctx \subseteq l.may
        /\ l.pc = "blacklist" => \A e \in entries : e.table = "window" /\ e.id \in l.must => e.id \in l.ctx
        /\ l.pc \in {"fpr", "verify", "emit"} => l.must \subseteq l.ctx

RoundsInv ==
    /\ EntriesInv
    /\ \A c \in Client : SeesRules(req[c]) /\ SeesEntries(req[c])

\* The verdicts of one kind, b: false positives or not.
Of(v, b) == IF b THEN v.false ELSE v.all - v.false

FpOf(row) == IF row = None THEN 0 ELSE row.fp

TotalOf(row) == IF row = None THEN 0 ELSE row.total

RowOf(row, b) == IF b THEN FpOf(row) ELSE TotalOf(row) - FpOf(row)

UnderWay(pc, k, b) == {c \in Client : req[c].pc = pc /\ req[c].key = k /\ req[c].fp = b}

\* A verdict is sent, then counted, then answered.
CountsInv ==
    \A k \in GroupKey, b \in BOOLEAN :
        /\ said.sent[k].false <= said.sent[k].all /\ said.answered[k].false <= said.answered[k].all
        /\ IsFiniteSet(UnderWay("count", k, b)) /\ IsFiniteSet(UnderWay("resolve", k, b))
        /\ RowOf(fpr[k], b) \in Nat
        /\ RowOf(fpr[k], b) + Cardinality(UnderWay("count", k, b)) <= Of(said.sent[k], b)
        /\ Of(said.answered[k], b) + Cardinality(UnderWay("resolve", k, b)) <= RowOf(fpr[k], b)
        /\ fpr[k] # None => fpr[k].total > 0 /\ fpr[k].fpr = Ratio(fpr[k].fp, fpr[k].total)

\* The rate that a round has read is one that the table had: it has the verdicts
\* answered before the round, and none that was not sent by now.
Rated(l) ==
    /\ l.old <= TotalOf(l.rate)
    /\ FpOf(l.rate) <= TotalOf(l.rate)
    /\ TotalOf(l.rate) - FpOf(l.rate) <= said.sent[l.read].all - said.sent[l.read].false
    /\ l.rate # None => l.rate.total > 0 /\ l.rate.fpr = Ratio(l.rate.fp, l.rate.total)

GateInv(l) ==
    /\ l.kind = "round" => l.old <= said.answered[l.read].all
    /\ l.pc = "verify" => Rated(l)
    /\ l.pc = "emit" /\ l.old >= MinSamples /\ said.sent[l.read].false = said.sent[l.read].all
            => l.severity = "warning"

VerdictsInv == CountsInv /\ \A c \in Client : GateInv(req[c])

ConfigInv == TypeInv /\ RoundsInv /\ VerdictsInv

-----------------------------------------------------------------------------
(***************************************************************************)
(* Steps of one request.                                                   *)
(***************************************************************************)
LEMMA IdleFacts ==
    /\ Idle \in Request /\ StepOfKind(Idle) /\ Idle.pc = "idle" /\ Idle.kind = "none"
    /\ SeesRules(Idle) /\ SeesEntries(Idle) /\ GateInv(Idle)
  <1>1. Idle \in Request
    BY DEF Idle, Request, Steps, Kinds, MaybeDomain, Domains, MaybeRule, RuleSets, Ids,
           MaybeKey, MaybeRate, Severities
  <1>2. Idle.pc = "idle" /\ Idle.kind = "none"
    BY DEF Idle
  <1> QED
    BY <1>1, <1>2 DEF StepOfKind, SeesRules, SeesEntries, GateInv

LEMMA VerdictNumbers ==
    ASSUME TypeInv, NEW k \in GroupKey
    PROVE  /\ said.sent[k].all \in Nat /\ said.sent[k].false \in Nat
           /\ said.answered[k].all \in Nat /\ said.answered[k].false \in Nat
           /\ \A b \in BOOLEAN : Of(said.sent[k], b) \in Int /\ Of(said.answered[k], b) \in Int
           /\ fpr[k] \in MaybeRate
  <1>1. /\ said.sent[k].all \in Nat /\ said.sent[k].false \in Nat
        /\ said.answered[k].all \in Nat /\ said.answered[k].false \in Nat
    BY DEF TypeInv, TablesInv, Verdicts
  <1>2. \A b \in BOOLEAN : Of(said.sent[k], b) \in Int /\ Of(said.answered[k], b) \in Int
    BY <1>1 DEF Of
  <1>3. fpr[k] \in MaybeRate
    BY DEF TypeInv, TablesInv
  <1> QED
    BY <1>1, <1>2, <1>3

\* Nothing is said or counted, and no verdict comes under way.
LEMMA VerdictsQuiet ==
    ASSUME ConfigInv, UNCHANGED <<fpr, said>>, \A d \in Client : GateInv(req[d])',
           \A d \in Client : req'[d].pc \in {"count", "resolve"} =>
               req'[d].pc = req[d].pc /\ req'[d].key = req[d].key /\ req'[d].fp = req[d].fp
    PROVE  VerdictsInv'
  <1>1. TypeInv /\ VerdictsInv
    BY DEF ConfigInv
  <1>2. ASSUME NEW k \in GroupKey, NEW b \in BOOLEAN, NEW pc \in {"count", "resolve"},
               IsFiniteSet(UnderWay(pc, k, b))
        PROVE  /\ IsFiniteSet(UnderWay(pc, k, b)')
               /\ Cardinality(UnderWay(pc, k, b)') <= Cardinality(UnderWay(pc, k, b))
               /\ Cardinality(UnderWay(pc, k, b)') \in Nat /\ Cardinality(UnderWay(pc, k, b)) \in Nat
    <2>1. UnderWay(pc, k, b)' \in SUBSET UnderWay(pc, k, b)
      BY DEF UnderWay
    <2> QED
      BY <1>2, <2>1, FS_Subset, FS_CardinalityType
  <1>3. CountsInv'
    <2> SUFFICES ASSUME NEW k \in GroupKey, NEW b \in BOOLEAN
                 PROVE  /\ said.sent[k].false <= said.sent[k].all
                        /\ said.answered[k].false <= said.answered[k].all
                        /\ IsFiniteSet(UnderWay("count", k, b)') /\ IsFiniteSet(UnderWay("resolve", k, b)')
                        /\ RowOf(fpr[k], b) \in Nat
                        /\ RowOf(fpr[k], b) + Cardinality(UnderWay("count", k, b)') <= Of(said.sent[k], b)
                        /\ Of(said.answered[k], b) + Cardinality(UnderWay("resolve", k, b)') <= RowOf(fpr[k], b)
                        /\ fpr[k] # None => fpr[k].total > 0 /\ fpr[k].fpr = Ratio(fpr[k].fp, fpr[k].total)
      BY DEF CountsInv
    <2>1. /\ said.sent[k].false <= said.sent[k].all /\ said.answered[k].false <= said.answered[k].all
          /\ IsFiniteSet(UnderWay("count", k, b)) /\ IsFiniteSet(UnderWay("resolve", k, b))
          /\ RowOf(fpr[k], b) \in Nat
          /\ RowOf(fpr[k], b) + Cardinality(UnderWay("count", k, b)) <= Of(said.sent[k], b)
          /\ Of(said.answered[k], b) + Cardinality(UnderWay("resolve", k, b)) <= RowOf(fpr[k], b)
          /\ fpr[k] # None => fpr[k].total > 0 /\ fpr[k].fpr = Ratio(fpr[k].fp, fpr[k].total)
      BY <1>1 DEF VerdictsInv, CountsInv
    <2>2. Of(said.sent[k], b) \in Int /\ Of(said.answered[k], b) \in Int
      BY <1>1, VerdictNumbers
    <2>3. /\ IsFiniteSet(UnderWay("count", k, b)')
          /\ Cardinality(UnderWay("count", k, b)') <= Cardinality(UnderWay("count", k, b))
          /\ Cardinality(UnderWay("count", k, b)') \in Nat /\ Cardinality(UnderWay("count", k, b)) \in Nat
      BY <1>2, <2>1
    <2>4. /\ IsFiniteSet(UnderWay("resolve", k, b)')
          /\ Cardinality(UnderWay("resolve", k, b)') <= Cardinality(UnderWay("resolve", k, b))
          /\ Cardinality(UnderWay("resolve", k, b)') \in Nat /\ Cardinality(UnderWay("resolve", k, b)) \in Nat
      BY <1>2, <2>1
    <2> QED
      BY <2>1, <2>2, <2>3, <2>4
  <1> QED
    BY <1>3 DEF VerdictsInv

\* One request goes on, and nothing that it reads changes.
LEMMA OneStep ==
    ASSUME ConfigInv, NEW c \in Client, NEW n \in Request, StepOfKind(n),
           req' = [req EXCEPT ![c] = n],
           UNCHANGED <<conf, target, entries, nextEntry, fpr, said>>, recs' \subseteq GroupKey,
           n.kind # "verdict",
           SeesRules(n), SeesEntries(n), GateInv(n)
    PROVE  ConfigInv'
  <1>1. TypeInv /\ RoundsInv /\ VerdictsInv
    BY DEF ConfigInv
  <1>2. \A d \in Client : req'[d] = IF d = c THEN n ELSE req[d]
    BY <1>1 DEF TypeInv
  <1>3. TypeInv'
    BY <1>1, <1>2 DEF TypeInv, TablesInv, StepOfKind
  <1>4. RoundsInv'
    <2>1. EntriesInv'
      BY <1>1 DEF RoundsInv, EntriesInv
    <2>2. \A d \in Client : SeesRules(req[d])'
      BY <1>1, <1>2 DEF RoundsInv, SeesRules, Rules
    <2>3. \A d \in Client : SeesEntries(req[d])'
      BY <1>1, <1>2 DEF RoundsInv, SeesEntries, InForce
    <2> QED
      BY <2>1, <2>2, <2>3 DEF RoundsInv
  <1>5. VerdictsInv'
    <2>1. \A d \in Client : GateInv(req[d])'
      BY <1>1, <1>2 DEF VerdictsInv, GateInv, Rated
    <2>2. \A d \in Client : req'[d].pc \in {"count", "resolve"} => req'[d] = req[d]
      BY <1>2 DEF StepOfKind
    <2> QED
      BY <2>1, <2>2, VerdictsQuiet
  <1> QED
    BY <1>3, <1>4, <1>5 DEF ConfigInv

LEMMA StoreFailsKeeps ==
    ASSUME ConfigInv, NEW c \in Client, StoreFails(c)
    PROVE  ConfigInv'
  <1>1. /\ req' = [req EXCEPT ![c] = Idle] /\ UNCHANGED <<conf, target, entries, nextEntry, fpr, recs, said>>
    BY DEF StoreFails, Become
  <1>2. recs' \subseteq GroupKey
    BY <1>1 DEF ConfigInv, TypeInv, TablesInv
  <1> QED
    BY <1>1, <1>2, IdleFacts, OneStep

LEMMA RequestFacts ==
    ASSUME ConfigInv, NEW c \in Client
    PROVE  /\ req[c] \in Request /\ StepOfKind(req[c])
           /\ SeesRules(req[c]) /\ SeesEntries(req[c]) /\ GateInv(req[c])
           /\ TypeInv /\ TablesInv /\ EntriesInv /\ recs \subseteq GroupKey
  BY DEF ConfigInv, TypeInv, TablesInv, RoundsInv, VerdictsInv

LEMMA RulesFacts ==
    ASSUME TablesInv, NEW d \in Domain
    PROVE  /\ Rules(conf, d) \in MaybeRule
           /\ conf[d] # None => Rules(conf, d) # None
  <1>1. conf[d] \in ConfRow \cup {None} /\ None \notin Rule /\ d # None
    BY ConfigurationAssumption DEF TablesInv, Rule
  <1> QED
    BY <1>1 DEF Rules, ConfRow, MaybeRule

LEMMA LoadingFacts ==
    ASSUME TablesInv, NEW kind \in {"get", "delete", "round"}, NEW d \in Domain, NEW todo \in Domains,
           NEW n, n = Loading(kind, d, todo)
    PROVE  /\ n \in Request /\ n.pc = "load" /\ n.kind = kind /\ n.d = d
           /\ n.had = {Rules(conf, d)} /\ n.todo = todo
  <1>1. Idle \in Request
    BY IdleFacts
  <1>2. "load" \in Steps /\ kind \in Kinds /\ d \in MaybeDomain /\ {Rules(conf, d)} \in RuleSets
    BY RulesFacts DEF Steps, Kinds, MaybeDomain, RuleSets
  <1>3. PICK h : h = {Rules(conf, d)}
    OBVIOUS
  <1>4. n = [Idle EXCEPT !.pc = "load", !.kind = kind, !.d = d, !.todo = todo, !.had = h]
    BY <1>3 DEF Loading
  <1> QED
    BY <1>1, <1>2, <1>3, <1>4 DEF Request

LEMMA GetConfigKeeps ==
    ASSUME ConfigInv, NEW c \in Client, GetConfig(c)
    PROVE  ConfigInv'
  <1>1. PICK n : n = Loading("get", SeedDomain, {})
    OBVIOUS
  <1>2. TablesInv /\ SeedDomain \in Domain /\ {} \in Domains /\ recs \subseteq GroupKey
    BY RequestFacts, ConfigurationAssumption DEF Domains
  <1>3. n \in Request /\ n.pc = "load" /\ n.kind = "get" /\ n.d = SeedDomain /\ n.had = {Rules(conf, n.d)}
    BY <1>1, <1>2, LoadingFacts
  <1>4. StepOfKind(n) /\ SeesRules(n) /\ SeesEntries(n) /\ GateInv(n)
    BY <1>2, <1>3 DEF StepOfKind, SeesRules, SeesEntries, GateInv
  <1>5. req' = [req EXCEPT ![c] = n] /\ UNCHANGED <<conf, target, entries, nextEntry, fpr, recs, said>>
    BY <1>1 DEF GetConfig, Become
  <1> QED
    BY <1>2, <1>3, <1>4, <1>5, OneStep

LEMMA DeleteConfigKeeps ==
    ASSUME ConfigInv, NEW c \in Client, NEW d \in Domain, DeleteConfig(c, d)
    PROVE  ConfigInv'
  <1>1. PICK n : n = Loading("delete", d, {})
    OBVIOUS
  <1>2. TablesInv /\ {} \in Domains /\ recs \subseteq GroupKey
    BY RequestFacts DEF Domains
  <1>3. n \in Request /\ n.pc = "load" /\ n.kind = "delete" /\ n.d = d /\ n.had = {Rules(conf, n.d)}
    BY <1>1, <1>2, LoadingFacts
  <1>4. StepOfKind(n) /\ SeesRules(n) /\ SeesEntries(n) /\ GateInv(n)
    BY <1>2, <1>3 DEF StepOfKind, SeesRules, SeesEntries, GateInv
  <1>5. req' = [req EXCEPT ![c] = n] /\ UNCHANGED <<conf, target, entries, nextEntry, fpr, recs, said>>
    BY <1>1 DEF DeleteConfig, Become
  <1> QED
    BY <1>2, <1>3, <1>4, <1>5, OneStep

\* A round begins.
LEMMA RoundFacts ==
    ASSUME TypeInv, NEW d \in Domain, NEW todo \in Domains, NEW g \in Group, NEW p \in (SUBSET g) \ {{}},
           NEW n, n = Rounds(d, todo, p, g)
    PROVE  /\ n \in Request /\ StepOfKind(n) /\ n.pc = "load" /\ n.kind = "round"
           /\ SeesRules(n) /\ SeesEntries(n) /\ GateInv(n)
  <1>1. TablesInv
    BY DEF TypeInv
  <1>2. PICK l : l = Loading("round", d, todo)
    OBVIOUS
  <1>3. l \in Request /\ l.pc = "load" /\ l.kind = "round" /\ l.d = d /\ l.had = {Rules(conf, d)}
    BY <1>1, <1>2, LoadingFacts
  <1>4. RecordKey(d, g) \in GroupKey /\ Key(d, g, p) \in GroupKey
    <2>1. p \in Group
      BY DEF Group
    <2> QED
      BY <2>1 DEF GroupKey, RecordKey
  <1>5. PICK k : k = RecordKey(d, g)
    OBVIOUS
  <1>6. PICK q : q = Key(d, g, p)
    OBVIOUS
  <1>7. PICK i : i = InForce(entries)
    OBVIOUS
  <1>8. PICK o : o = said.answered[q].all
    OBVIOUS
  <1>9. o \in Nat /\ i \in Ids /\ k \in MaybeKey /\ q \in MaybeKey
    <2>1. i \in Ids
      BY <1>1, <1>7 DEF TablesInv, InForce, EntryRow, Ids
    <2> QED
      BY <1>4, <1>5, <1>6, <1>8, <2>1, VerdictNumbers DEF MaybeKey
  <1>10. n = [l EXCEPT !.must = i, !.may = i, !.key = k, !.read = q, !.old = o]
    BY <1>2, <1>5, <1>6, <1>7, <1>8 DEF Rounds
  <1>11. n \in Request
    BY <1>3, <1>9, <1>10 DEF Request
  <1>12. /\ n.pc = "load" /\ n.kind = "round" /\ n.d = d /\ n.had = {Rules(conf, d)}
         /\ n.must = i /\ n.may = i /\ n.key = k /\ n.read = q /\ n.old = o
    BY <1>3, <1>10 DEF Request
  <1>13. StepOfKind(n)
    BY <1>4, <1>5, <1>6, <1>12 DEF StepOfKind
  <1>14. SeesRules(n) /\ SeesEntries(n)
    BY <1>7, <1>12 DEF SeesRules, SeesEntries
  <1>15. GateInv(n)
    BY <1>8, <1>9, <1>12 DEF GateInv
  <1> QED
    BY <1>11, <1>12, <1>13, <1>14, <1>15

LEMMA RoundsStart ==
    ASSUME ConfigInv, NEW c \in Client, NEW ds \in Domains, StartRounds(c, ds),
           UNCHANGED <<conf, target, entries, nextEntry, fpr, said>>, recs' \subseteq GroupKey
    PROVE  ConfigInv'
  <1>1. PICK d \in ds, g \in Group : \E p \in (SUBSET g) \ {{}} : Become(c, Rounds(d, ds \ {d}, p, g))
    BY DEF StartRounds
  <1>2. PICK p \in (SUBSET g) \ {{}} : Become(c, Rounds(d, ds \ {d}, p, g))
    BY <1>1
  <1>3. PICK todo : todo = ds \ {d}
    OBVIOUS
  <1>4. PICK n : n = Rounds(d, todo, p, g)
    OBVIOUS
  <1>5. d \in Domain /\ todo \in Domains /\ TypeInv
    BY <1>1, <1>3 DEF Domains, ConfigInv
  <1>6. req' = [req EXCEPT ![c] = n]
    BY <1>2, <1>3, <1>4 DEF Become
  <1>7. /\ n \in Request /\ StepOfKind(n) /\ n.pc = "load" /\ n.kind = "round"
        /\ SeesRules(n) /\ SeesEntries(n) /\ GateInv(n)
    BY <1>1, <1>2, <1>4, <1>5, RoundFacts
  <1> QED
    BY <1>6, <1>7, OneStep

LEMMA RunMonitorKeeps ==
    ASSUME ConfigInv, NEW c \in Client, NEW t \in Target, RunMonitor(c, t)
    PROVE  ConfigInv'
  <1>1. recs \subseteq GroupKey /\ target[t] \in TargetRow
    BY RequestFacts DEF RunMonitor, TablesInv
  <1>2. {target[t].domain} \in Domains
    BY <1>1 DEF TargetRow, Domains
  <1>3. /\ StartRounds(c, {target[t].domain})
        /\ UNCHANGED <<conf, target, entries, nextEntry, fpr, recs, said>>
    BY DEF RunMonitor
  <1>4. PICK ds : ds = {target[t].domain}
    OBVIOUS
  <1> QED
    BY <1>1, <1>2, <1>3, <1>4, RoundsStart

LEMMA RunAlertsKeeps ==
    ASSUME ConfigInv, NEW c \in Client, RunAlerts(c)
    PROVE  ConfigInv'
  <1>1. PICK ds : ds = {target[t].domain : t \in AllTargets}
    OBVIOUS
  <1>2. recs \subseteq GroupKey /\ \A t \in AllTargets : target[t] \in TargetRow
    BY RequestFacts DEF TablesInv, AllTargets
  <1>3. ds \in Domains
    BY <1>1, <1>2 DEF TargetRow, Domains
  <1>4. /\ StartRounds(c, ds) /\ UNCHANGED <<conf, target, entries, nextEntry, fpr, recs, said>>
    BY <1>1 DEF RunAlerts
  <1> QED
    BY <1>2, <1>3, <1>4, RoundsStart

\* The rules are found, or there are none.
LEMMA LoadedKeeps ==
    ASSUME ConfigInv, NEW c \in Client, req[c].pc \in {"load", "reload"}, Loaded(c),
           UNCHANGED <<conf, target, entries, nextEntry, fpr, recs, said>>
    PROVE  ConfigInv'
  <1>1. PICK l : l = req[c]
    OBVIOUS
  <1>2. /\ l \in Request /\ StepOfKind(l) /\ SeesRules(l) /\ SeesEntries(l) /\ GateInv(l)
        /\ l.pc \in {"load", "reload"} /\ TablesInv /\ recs' \subseteq GroupKey
    BY <1>1, RequestFacts
  <1>3. l.kind \in {"get", "delete", "round"} /\ l.d \in Domain
    BY <1>2 DEF StepOfKind, Request, Kinds
  <1>4. CASE req' = [req EXCEPT ![c] = Idle]
    BY <1>2, <1>4, IdleFacts, OneStep
  <1>5. CASE req' # [req EXCEPT ![c] = Idle]
    <2>1. PICK v : v = Rules(conf, l.d)
      OBVIOUS
    <2>2. PICK pc : pc = IF l.kind = "delete" THEN "refs" ELSE "windows"
      OBVIOUS
    <2>3. PICK n : n = [l EXCEPT !.pc = pc, !.cfg = v]
      OBVIOUS
    <2>4. /\ req' = [req EXCEPT ![c] = n] /\ l.kind # "get" /\ conf[l.d] # None
      BY <1>1, <1>5, <2>1, <2>2, <2>3 DEF Loaded, Become
    <2>5. pc \in Steps /\ v \in MaybeRule /\ v # None
      BY <1>2, <1>3, <2>1, <2>2, <2>4, RulesFacts DEF Steps
    <2>6. n \in Request
      BY <1>2, <2>3, <2>5 DEF Request
    <2>7. /\ n.pc = pc /\ n.kind = l.kind /\ n.d = l.d /\ n.cfg = v /\ n.had = l.had /\ n.must = l.must
          /\ n.may = l.may /\ n.key = l.key /\ n.read = l.read /\ n.old = l.old
      BY <1>2, <2>3 DEF Request
    <2>8. StepOfKind(n)
      BY <1>2, <1>3, <2>2, <2>4, <2>7 DEF StepOfKind
    <2>9. SeesRules(n)
      BY <1>2, <1>3, <2>1, <2>5, <2>7 DEF SeesRules
    <2>10. SeesEntries(n) /\ GateInv(n)
      BY <1>2, <2>2, <2>7 DEF SeesEntries, GateInv
    <2>11. n.kind # "verdict" /\ n.pc # "drop"
      BY <1>3, <2>2, <2>7
    <2> QED
      BY <1>2, <2>4, <2>6, <2>8, <2>9, <2>10, <2>11, OneStep
  <1> QED
    BY <1>4, <1>5

LEMMA LoadRowsKeeps ==
    ASSUME ConfigInv, NEW c \in Client, LoadRows(c)
    PROVE  ConfigInv'
  <1>1. UNCHANGED <<conf, target, entries, nextEntry, fpr, recs, said>> /\ req[c].pc = "load"
    BY DEF LoadRows, At
  <1>2. CASE Loaded(c)
    BY <1>1, <1>2, LoadedKeeps
  <1>3. CASE Become(c, [req[c] EXCEPT !.pc = "seed"])
    <2>1. PICK l : l = req[c]
      OBVIOUS
    <2>2. /\ l \in Request /\ StepOfKind(l) /\ SeesRules(l) /\ SeesEntries(l) /\ GateInv(l)
          /\ l.pc = "load" /\ recs' \subseteq GroupKey
      BY <1>1, <2>1, RequestFacts
    <2>3. PICK n : n = [l EXCEPT !.pc = "seed"]
      OBVIOUS
    <2>4. n \in Request
      BY <2>2, <2>3 DEF Request, Steps
    <2>5. /\ n.pc = "seed" /\ n.kind = l.kind /\ n.d = l.d /\ n.had = l.had /\ n.must = l.must
          /\ n.may = l.may /\ n.key = l.key /\ n.read = l.read /\ n.old = l.old
      BY <2>2, <2>3 DEF Request
    <2>6. StepOfKind(n) /\ n.kind # "verdict"
      BY <2>2, <2>5 DEF StepOfKind
    <2>7. SeesRules(n) /\ SeesEntries(n) /\ GateInv(n)
      BY <2>2, <2>5 DEF SeesRules, SeesEntries, GateInv
    <2>8. req' = [req EXCEPT ![c] = n]
      BY <1>3, <2>1, <2>3 DEF Become
    <2> QED
      BY <1>1, <2>2, <2>4, <2>5, <2>6, <2>7, <2>8, OneStep
  <1> QED
    BY <1>2, <1>3 DEF LoadRows

LEMMA ReloadKeeps ==
    ASSUME ConfigInv, NEW c \in Client, Reload(c)
    PROVE  ConfigInv'
  BY LoadedKeeps DEF Reload, At

LEMMA CheckRefsKeeps ==
    ASSUME ConfigInv, NEW c \in Client, CheckRefs(c)
    PROVE  ConfigInv'
  <1>1. PICK l : l = req[c]
    OBVIOUS
  <1>2. UNCHANGED <<conf, target, entries, nextEntry, fpr, recs, said>> /\ l.pc = "refs"
    BY <1>1 DEF CheckRefs, At
  <1>3. /\ l \in Request /\ StepOfKind(l) /\ SeesRules(l) /\ SeesEntries(l) /\ GateInv(l)
        /\ recs' \subseteq GroupKey
    BY <1>1, <1>2, RequestFacts
  <1>4. CASE req' = [req EXCEPT ![c] = Idle]
    BY <1>2, <1>3, <1>4, IdleFacts, OneStep
  <1>5. CASE req' # [req EXCEPT ![c] = Idle]
    <2>1. PICK n : n = [l EXCEPT !.pc = "drop"]
      OBVIOUS
    <2>2. req' = [req EXCEPT ![c] = n]
      BY <1>1, <1>5, <2>1 DEF CheckRefs, Become
    <2>3. n \in Request
      BY <1>3, <2>1 DEF Request, Steps
    <2>4. /\ n.pc = "drop" /\ n.kind = l.kind /\ n.d = l.d /\ n.had = l.had
      BY <1>3, <2>1 DEF Request
    <2>5. StepOfKind(n) /\ n.kind = "delete"
      BY <1>2, <1>3, <2>4 DEF StepOfKind
    <2>6. SeesRules(n) /\ SeesEntries(n) /\ GateInv(n)
      BY <1>3, <2>4, <2>5 DEF SeesRules, SeesEntries, GateInv
    <2> QED
      BY <1>2, <1>3, <2>2, <2>3, <2>5, <2>6, OneStep
  <1> QED
    BY <1>4, <1>5

\* The step of a round, and what it has read by then.
LEMMA RoundStep ==
    ASSUME ConfigInv, NEW c \in Client, NEW l, l = req[c], l.kind = "round", NEW n \in Request,
           n.pc \in {"windows", "blacklist", "fpr", "verify", "emit"},
           l.pc \in {"windows", "blacklist", "fpr", "verify", "emit"},
           n.kind = l.kind, n.d = l.d, n.cfg = l.cfg, n.had = l.had, n.key = l.key, n.read = l.read,
           n.old = l.old,
           req' = [req EXCEPT ![c] = n], UNCHANGED <<conf, target, entries, nextEntry, fpr, recs, said>>,
           SeesEntries(n), GateInv(n)
    PROVE  ConfigInv'
  <1>1. StepOfKind(l) /\ SeesRules(l) /\ recs' \subseteq GroupKey
    BY RequestFacts
  <1>2. StepOfKind(n) /\ SeesRules(n)
    BY <1>1 DEF StepOfKind, SeesRules
  <1> QED
    BY <1>1, <1>2, OneStep

LEMMA LoadWindowsKeeps ==
    ASSUME ConfigInv, NEW c \in Client, LoadWindows(c)
    PROVE  ConfigInv'
  <1>1. PICK l : l = req[c]
    OBVIOUS
  <1>2. UNCHANGED <<conf, target, entries, nextEntry, fpr, recs, said>> /\ l.pc = "windows"
    BY <1>1 DEF LoadWindows, At
  <1>3. l \in Request /\ l.kind = "round" /\ SeesEntries(l) /\ GateInv(l) /\ TablesInv /\ EntriesInv
    BY <1>1, <1>2, RequestFacts DEF StepOfKind
  <1>4. PICK x : x = Windows
    OBVIOUS
  <1>5. PICK n : n = [l EXCEPT !.pc = "blacklist", !.ctx = x]
    OBVIOUS
  <1>6. /\ x \subseteq InForce(entries) /\ x \in Ids
        /\ \A e \in entries : e.table = "window" => e.id \in x
    BY <1>3, <1>4 DEF Windows, InForce, EntriesInv, TablesInv, EntryRow, Ids
  <1>7. n \in Request
    BY <1>3, <1>5, <1>6 DEF Request, Steps
  <1>8. /\ n.pc = "blacklist" /\ n.kind = l.kind /\ n.d = l.d /\ n.cfg = l.cfg /\ n.had = l.had
        /\ n.key = l.key /\ n.read = l.read /\ n.old = l.old /\ n.must = l.must /\ n.may = l.may
        /\ n.ctx = x
    BY <1>3, <1>5 DEF Request
  <1>9. SeesEntries(n)
    BY <1>3, <1>6, <1>8 DEF SeesEntries
  <1>10. GateInv(n)
    BY <1>3, <1>8 DEF GateInv
  <1>11. req' = [req EXCEPT ![c] = n]
    BY <1>1, <1>4, <1>5 DEF LoadWindows, Become
  <1> QED
    BY <1>1, <1>2, <1>3, <1>7, <1>8, <1>9, <1>10, <1>11, RoundStep

LEMMA LoadBlacklistKeeps ==
    ASSUME ConfigInv, NEW c \in Client, LoadBlacklist(c)
    PROVE  ConfigInv'
  <1>1. PICK l : l = req[c]
    OBVIOUS
  <1>2. UNCHANGED <<conf, target, entries, nextEntry, fpr, recs, said>> /\ l.pc = "blacklist"
    BY <1>1 DEF LoadBlacklist, At
  <1>3. l \in Request /\ l.kind = "round" /\ SeesEntries(l) /\ GateInv(l) /\ TablesInv /\ EntriesInv
    BY <1>1, <1>2, RequestFacts DEF StepOfKind
  <1>4. PICK x : x = l.ctx \cup Blacklist
    OBVIOUS
  <1>5. PICK n : n = [l EXCEPT !.pc = "fpr", !.ctx = x]
    OBVIOUS
  <1>6. Blacklist \subseteq InForce(entries) /\ Blacklist \in Ids
    BY <1>3 DEF Blacklist, InForce, TablesInv, EntryRow, Ids
  <1>7. x \in Ids
    BY <1>3, <1>4, <1>6 DEF Request, Ids
  <1>8. n \in Request
    BY <1>3, <1>5, <1>7 DEF Request, Steps
  <1>9. /\ n.pc = "fpr" /\ n.kind = l.kind /\ n.d = l.d /\ n.cfg = l.cfg /\ n.had = l.had
        /\ n.key = l.key /\ n.read = l.read /\ n.old = l.old /\ n.must = l.must /\ n.may = l.may
        /\ n.ctx = x
    BY <1>3, <1>5 DEF Request
  <1>10. l.must \subseteq x
    <2> SUFFICES ASSUME NEW i \in l.must PROVE i \in x
      OBVIOUS
    <2>1. PICK e \in entries : e.id = i /\ e.enabled
      BY <1>3 DEF SeesEntries, InForce
    <2>2. CASE e.table = "window"
      BY <1>2, <1>3, <1>4, <2>1, <2>2 DEF SeesEntries
    <2>3. CASE e.table = "blacklist"
      BY <1>4, <2>1, <2>3 DEF Blacklist
    <2> QED
      BY <1>3, <2>1, <2>2, <2>3 DEF TablesInv, EntryRow
  <1>11. SeesEntries(n)
    BY <1>2, <1>3, <1>4, <1>6, <1>9, <1>10 DEF SeesEntries
  <1>12. GateInv(n)
    BY <1>3, <1>9 DEF GateInv
  <1>13. req' = [req EXCEPT ![c] = n]
    BY <1>1, <1>4, <1>5 DEF LoadBlacklist, Become
  <1> QED
    BY <1>1, <1>2, <1>3, <1>8, <1>9, <1>11, <1>12, <1>13, RoundStep

-----------------------------------------------------------------------------
(***************************************************************************)
(* The false-positive gate.                                                *)
(***************************************************************************)
LEMMA Quotient ==
    ASSUME NEW t \in Nat, t > 0, NEW q \in Nat, NEW r \in Nat, r < t
    PROVE  (q * t + r) \div t = q
  OBVIOUS

\* When all verdicts are false positives, the rate is 1.
LEMMA RatioOfAll ==
    ASSUME NEW t \in Nat, t > 0
    PROVE  Ratio(t, t) = 10000
  <1>1. t \div 2 \in Nat /\ t \div 2 < t
    OBVIOUS
  <1>2. PICK r \in Nat : r = t \div 2
    BY <1>1
  <1>3. (10000 * t + r) \div t = 10000
    BY <1>1, <1>2, Quotient
  <1> QED
    BY <1>2, <1>3 DEF Ratio

LEMMA CountsFacts ==
    ASSUME ConfigInv, NEW k \in GroupKey
    PROVE  /\ said.sent[k].false <= said.sent[k].all /\ said.answered[k].false <= said.answered[k].all
           /\ fpr[k] # None => fpr[k].total > 0 /\ fpr[k].fpr = Ratio(fpr[k].fp, fpr[k].total)
           /\ FpOf(fpr[k]) \in Nat /\ TotalOf(fpr[k]) \in Nat /\ FpOf(fpr[k]) <= TotalOf(fpr[k])
           /\ said.answered[k].false <= FpOf(fpr[k]) /\ FpOf(fpr[k]) <= said.sent[k].false
           /\ said.answered[k].all - said.answered[k].false <= TotalOf(fpr[k]) - FpOf(fpr[k])
           /\ TotalOf(fpr[k]) - FpOf(fpr[k]) <= said.sent[k].all - said.sent[k].false
  <1>1. TypeInv /\ CountsInv
    BY DEF ConfigInv, VerdictsInv
  <1>2. /\ said.sent[k].false <= said.sent[k].all /\ said.answered[k].false <= said.answered[k].all
        /\ fpr[k] # None => fpr[k].total > 0 /\ fpr[k].fpr = Ratio(fpr[k].fp, fpr[k].total)
    BY <1>1 DEF CountsInv
  <1>3. ASSUME NEW b \in BOOLEAN
        PROVE  /\ RowOf(fpr[k], b) \in Nat
               /\ RowOf(fpr[k], b) <= Of(said.sent[k], b)
               /\ Of(said.answered[k], b) <= RowOf(fpr[k], b)
    <2>1. /\ IsFiniteSet(UnderWay("count", k, b)) /\ IsFiniteSet(UnderWay("resolve", k, b))
          /\ RowOf(fpr[k], b) \in Nat
          /\ RowOf(fpr[k], b) + Cardinality(UnderWay("count", k, b)) <= Of(said.sent[k], b)
          /\ Of(said.answered[k], b) + Cardinality(UnderWay("resolve", k, b)) <= RowOf(fpr[k], b)
      BY <1>1 DEF CountsInv
    <2>2. Cardinality(UnderWay("count", k, b)) \in Nat /\ Cardinality(UnderWay("resolve", k, b)) \in Nat
      BY <2>1, FS_CardinalityType
    <2>3. Of(said.sent[k], b) \in Int /\ Of(said.answered[k], b) \in Int
      BY <1>1, VerdictNumbers
    <2> QED
      BY <2>1, <2>2, <2>3
  <1>4. FpOf(fpr[k]) \in Nat /\ TotalOf(fpr[k]) \in Nat
    BY <1>1, VerdictNumbers DEF MaybeRate, FprRow, FpOf, TotalOf
  <1>5. /\ FpOf(fpr[k]) <= said.sent[k].false /\ said.answered[k].false <= FpOf(fpr[k])
    <2>1. RowOf(fpr[k], TRUE) <= Of(said.sent[k], TRUE) /\ Of(said.answered[k], TRUE) <= RowOf(fpr[k], TRUE)
      BY <1>3
    <2> QED
      BY <2>1 DEF RowOf, Of
  <1>6. /\ TotalOf(fpr[k]) - FpOf(fpr[k]) <= said.sent[k].all - said.sent[k].false
        /\ said.answered[k].all - said.answered[k].false <= TotalOf(fpr[k]) - FpOf(fpr[k])
        /\ TotalOf(fpr[k]) - FpOf(fpr[k]) \in Nat
    <2>1. /\ RowOf(fpr[k], FALSE) <= Of(said.sent[k], FALSE) /\ Of(said.answered[k], FALSE) <= RowOf(fpr[k], FALSE)
          /\ RowOf(fpr[k], FALSE) \in Nat
      BY <1>3
    <2> QED
      BY <2>1 DEF RowOf, Of
  <1> QED
    BY <1>2, <1>4, <1>5, <1>6

LEMMA LoadFprKeeps ==
    ASSUME ConfigInv, NEW c \in Client, LoadFpr(c)
    PROVE  ConfigInv'
  <1>1. PICK l : l = req[c]
    OBVIOUS
  <1>2. UNCHANGED <<conf, target, entries, nextEntry, fpr, recs, said>> /\ l.pc = "fpr"
    BY <1>1 DEF LoadFpr, At
  <1>3. /\ l \in Request /\ l.kind = "round" /\ l.read \in GroupKey /\ SeesEntries(l) /\ GateInv(l)
        /\ TypeInv
    BY <1>1, <1>2, RequestFacts DEF StepOfKind
  <1>4. PICK x : x = fpr[l.read]
    OBVIOUS
  <1>5. PICK n : n = [l EXCEPT !.pc = "verify", !.rate = x]
    OBVIOUS
  <1>6. x \in MaybeRate
    BY <1>3, <1>4, VerdictNumbers
  <1>7. n \in Request
    BY <1>3, <1>5, <1>6 DEF Request, Steps
  <1>8. /\ n.pc = "verify" /\ n.kind = l.kind /\ n.d = l.d /\ n.cfg = l.cfg /\ n.had = l.had
        /\ n.key = l.key /\ n.read = l.read /\ n.old = l.old /\ n.must = l.must /\ n.may = l.may
        /\ n.ctx = l.ctx /\ n.rate = x
    BY <1>3, <1>5 DEF Request
  <1>9. SeesEntries(n)
    BY <1>2, <1>3, <1>8 DEF SeesEntries
  <1>10. Rated(n)
    <2>1. /\ FpOf(x) \in Nat /\ TotalOf(x) \in Nat /\ FpOf(x) <= TotalOf(x)
          /\ said.answered[l.read].false <= FpOf(x)
          /\ said.answered[l.read].all - said.answered[l.read].false <= TotalOf(x) - FpOf(x)
          /\ TotalOf(x) - FpOf(x) <= said.sent[l.read].all - said.sent[l.read].false
          /\ x # None => x.total > 0 /\ x.fpr = Ratio(x.fp, x.total)
      BY <1>3, <1>4, CountsFacts
    <2>2. l.old <= said.answered[l.read].all /\ l.old \in Nat
      BY <1>3 DEF GateInv, Request
    <2>3. said.answered[l.read].all \in Nat /\ said.answered[l.read].false \in Nat
      BY <1>3, VerdictNumbers
    <2>4. l.old <= TotalOf(x)
      BY <2>1, <2>2, <2>3
    <2> QED
      BY <1>8, <2>1, <2>4 DEF Rated
  <1>11. GateInv(n)
    BY <1>3, <1>8, <1>10 DEF GateInv
  <1>12. req' = [req EXCEPT ![c] = n]
    BY <1>1, <1>4, <1>5 DEF LoadFpr, Become
  <1> QED
    BY <1>1, <1>2, <1>3, <1>7, <1>8, <1>9, <1>11, <1>12, RoundStep

\* A rate that has enough verdicts, all of them false positives, closes the gate.
LEMMA GateCloses ==
    ASSUME NEW l \in Request, l.read \in GroupKey, TypeInv, Rated(l), l.old >= MinSamples,
           said.sent[l.read].false = said.sent[l.read].all
    PROVE  ~FprOk(l.rate)
  <1>1. MinSamples \in Nat /\ MinSamples > 0 /\ Threshold \in Nat /\ Threshold <= 10000
    BY ConfigurationAssumption
  <1>2. PICK x : x = l.rate
    OBVIOUS
  <1>3. x \in MaybeRate /\ l.old \in Nat
    BY <1>2 DEF Request
  <1>4. said.sent[l.read].all - said.sent[l.read].false = 0
    BY VerdictNumbers
  <1>5. /\ l.old <= TotalOf(x) /\ FpOf(x) <= TotalOf(x) /\ TotalOf(x) - FpOf(x) <= 0
        /\ x # None => x.total > 0 /\ x.fpr = Ratio(x.fp, x.total)
    BY <1>2, <1>4 DEF Rated
  <1>6. x # None
    BY <1>1, <1>3, <1>5 DEF TotalOf
  <1>7. x.fp \in Nat /\ x.total \in Nat /\ FpOf(x) = x.fp /\ TotalOf(x) = x.total
    BY <1>3, <1>6 DEF MaybeRate, FprRow, FpOf, TotalOf
  <1>9. x.fp = x.total /\ x.total >= MinSamples /\ x.total > 0
    BY <1>1, <1>3, <1>5, <1>6, <1>7
  <1>10. x.fpr = 10000
    BY <1>5, <1>6, <1>7, <1>9, RatioOfAll
  <1> QED
    BY <1>1, <1>2, <1>6, <1>7, <1>9, <1>10 DEF FprOk

LEMMA VerifyKeeps ==
    ASSUME ConfigInv, NEW c \in Client, Verify(c)
    PROVE  ConfigInv'
  <1>1. PICK l : l = req[c]
    OBVIOUS
  <1>2. UNCHANGED <<conf, target, entries, nextEntry, fpr, recs, said>> /\ l.pc = "verify"
    BY <1>1 DEF Verify, At
  <1>3. /\ l \in Request /\ l.kind = "round" /\ l.read \in GroupKey /\ SeesEntries(l) /\ GateInv(l)
        /\ TypeInv
    BY <1>1, <1>2, RequestFacts DEF StepOfKind
  <1>4. PICK x : x = IF FprOk(l.rate) THEN "high" ELSE "warning"
    OBVIOUS
  <1>5. PICK n : n = [l EXCEPT !.pc = "emit", !.severity = x]
    OBVIOUS
  <1>6. n \in Request
    <2>1. x \in Severities /\ "emit" \in Steps
      BY <1>4 DEF Severities, Steps
    <2> QED
      BY <1>3, <1>5, <2>1 DEF Request
  <1>7. /\ n.pc = "emit" /\ n.kind = l.kind /\ n.d = l.d /\ n.cfg = l.cfg /\ n.had = l.had
        /\ n.key = l.key /\ n.read = l.read /\ n.old = l.old /\ n.must = l.must /\ n.may = l.may
        /\ n.ctx = l.ctx /\ n.severity = x
    BY <1>3, <1>5 DEF Request
  <1>8. SeesEntries(n)
    BY <1>2, <1>3, <1>7 DEF SeesEntries
  <1>9. GateInv(n)
    <2>1. l.old >= MinSamples /\ said.sent[l.read].false = said.sent[l.read].all => x = "warning"
      BY <1>2, <1>3, <1>4, GateCloses DEF GateInv
    <2> QED
      BY <1>3, <1>7, <2>1 DEF GateInv
  <1>10. req' = [req EXCEPT ![c] = n]
    BY <1>1, <1>4, <1>5 DEF Verify, Become
  <1> QED
    BY <1>1, <1>2, <1>3, <1>6, <1>7, <1>8, <1>9, <1>10, RoundStep

LEMMA EmitKeeps ==
    ASSUME ConfigInv, NEW c \in Client, Emit(c)
    PROVE  ConfigInv'
  <1>1. PICK l : l = req[c]
    OBVIOUS
  <1>2. /\ UNCHANGED <<conf, target, entries, nextEntry, fpr, said>> /\ l.pc = "emit"
        /\ recs' = recs \cup {l.key}
    BY <1>1 DEF Emit, At
  <1>3. l \in Request /\ l.kind = "round" /\ l.key \in GroupKey /\ recs \subseteq GroupKey
    BY <1>1, <1>2, RequestFacts DEF StepOfKind
  <1>4. recs' \subseteq GroupKey /\ l.todo \in Domains
    BY <1>2, <1>3 DEF Request
  <1>5. CASE req' = [req EXCEPT ![c] = Idle]
    BY <1>2, <1>4, <1>5, IdleFacts, OneStep
  <1>6. CASE StartRounds(c, l.todo)
    BY <1>2, <1>4, <1>6, RoundsStart
  <1> QED
    BY <1>1, <1>5, <1>6 DEF Emit, Become

-----------------------------------------------------------------------------
(***************************************************************************)
(* Steps that other requests see.                                          *)
(***************************************************************************)
\* The table of domains changes; the requests are l, with what they see.
LEMMA RulesSeen ==
    ASSUME ConfigInv, NEW l,
           \A d \in Client : /\ l[d] \in Request /\ StepOfKind(l[d])
                             /\ SeesRules(l[d]) /\ SeesEntries(l[d]) /\ GateInv(l[d])
                             /\ l[d].pc \in {"drop", "count", "resolve"} => l[d] = req[d],
           conf' \in [Domain -> ConfRow \cup {None}], req' = SeeRules(conf', l),
           UNCHANGED <<target, entries, nextEntry, fpr, recs, said>>
    PROVE  ConfigInv'
  <1>1. TypeInv /\ RoundsInv /\ VerdictsInv
    BY DEF ConfigInv
  <1>2. TablesInv'
    BY <1>1 DEF TypeInv, TablesInv
  <1>3. ASSUME NEW d \in Client
        PROVE  \E h : /\ req'[d] = [l[d] EXCEPT !.had = h] /\ h \in RuleSets /\ l[d].had \subseteq h
                      /\ l[d].pc # "idle" => Rules(conf', l[d].d) \in h
    <2>1. PICK m : m = l[d]
      OBVIOUS
    <2>2. m \in Request
      BY <2>1
    <2>3. CASE m.pc = "idle"
      <3>1. req'[d] = m
        BY <2>1, <2>3 DEF SeeRules
      <3>2. m = [m EXCEPT !.had = m.had] /\ m.had \in RuleSets
        BY <2>2 DEF Request
      <3> QED
        BY <2>1, <2>3, <3>1, <3>2
    <2>4. CASE m.pc # "idle"
      <3>1. PICK r : r = Rules(conf', m.d)
        OBVIOUS
      <3>2. req'[d] = [m EXCEPT !.had = m.had \cup {r}]
        BY <2>1, <2>4, <3>1 DEF SeeRules
      <3>3. r \in MaybeRule
        <4>1. m.d = None \/ m.d \in Domain
          BY <2>2 DEF Request, MaybeDomain
        <4>2. None \in MaybeRule
          BY DEF MaybeRule
        <4>3. CASE m.d \in Domain
          BY <3>1, <4>2, <4>3 DEF Rules, ConfRow, MaybeRule
        <4> QED
          BY <3>1, <4>1, <4>2, <4>3 DEF Rules
      <3>4. m.had \cup {r} \in RuleSets
        BY <2>2, <3>3 DEF Request, RuleSets
      <3>5. PICK h : h = m.had \cup {r}
        OBVIOUS
      <3>6. req'[d] = [m EXCEPT !.had = h] /\ h \in RuleSets /\ m.had \subseteq h /\ r \in h
        BY <3>2, <3>4, <3>5
      <3>7. Rules(conf', l[d].d) \in h /\ l[d].had \subseteq h /\ req'[d] = [l[d] EXCEPT !.had = h]
        BY <2>1, <3>1, <3>6
      <3> QED
        BY <3>6, <3>7
    <2> QED
      BY <2>1, <2>3, <2>4
  <1>4. ASSUME NEW d \in Client
        PROVE  /\ req'[d] \in Request
               /\ l[d].had \subseteq req'[d].had
               /\ l[d].pc # "idle" => Rules(conf', l[d].d) \in req'[d].had
               /\ req'[d].pc = l[d].pc /\ req'[d].kind = l[d].kind /\ req'[d].d = l[d].d
               /\ req'[d].cfg = l[d].cfg /\ req'[d].ctx = l[d].ctx /\ req'[d].must = l[d].must
               /\ req'[d].may = l[d].may /\ req'[d].key = l[d].key
               /\ req'[d].read = l[d].read /\ req'[d].rate = l[d].rate /\ req'[d].old = l[d].old
               /\ req'[d].fp = l[d].fp /\ req'[d].severity = l[d].severity
    <2>1. PICK h : /\ req'[d] = [l[d] EXCEPT !.had = h] /\ h \in RuleSets /\ l[d].had \subseteq h
                   /\ l[d].pc # "idle" => Rules(conf', l[d].d) \in h
      BY <1>3
    <2>2. PICK m : m = l[d]
      OBVIOUS
    <2>3. m \in Request /\ req'[d] = [m EXCEPT !.had = h]
      BY <2>1, <2>2
    <2> QED
      BY <2>1, <2>2, <2>3 DEF Request
  <1>5. TypeInv'
    <2>1. \A d \in Client : StepOfKind(req[d])'
      BY <1>4 DEF StepOfKind
    <2>2. req' = [d \in Client |-> req'[d]]
      BY DEF SeeRules
    <2> QED
      BY <1>2, <1>4, <2>1, <2>2 DEF TypeInv
  <1>6. RoundsInv'
    <2>1. EntriesInv'
      BY <1>1 DEF RoundsInv, EntriesInv
    <2>2. \A d \in Client : SeesRules(req[d])'
      BY <1>4 DEF SeesRules, StepOfKind
    <2>3. \A d \in Client : SeesEntries(req[d])'
      BY <1>4 DEF SeesEntries
    <2> QED
      BY <2>1, <2>2, <2>3 DEF RoundsInv
  <1>7. VerdictsInv'
    <2>1. \A d \in Client : GateInv(req[d])'
      BY <1>4 DEF GateInv, Rated
    <2>2. \A d \in Client : req'[d].pc \in {"count", "resolve"} =>
               req'[d].pc = req[d].pc /\ req'[d].key = req[d].key /\ req'[d].fp = req[d].fp
      BY <1>4
    <2> QED
      BY <2>1, <2>2, VerdictsQuiet
  <1> QED
    BY <1>5, <1>6, <1>7 DEF ConfigInv

LEMMA PutConfigKeeps ==
    ASSUME ConfigInv, NEW d \in Domain, NEW v \in Config, PutConfig(d, v)
    PROVE  ConfigInv'
  <1>1. TablesInv
    BY DEF ConfigInv, TypeInv
  <1>2. conf' \in [Domain -> ConfRow \cup {None}]
    <2>1. Upsert(conf[d], v) \in ConfRow
      BY <1>1 DEF Upsert, TablesInv, ConfRow, Rule
    <2> QED
      BY <1>1, <2>1 DEF PutConfig, TablesInv
  <1>3. PICK l : l = req
    OBVIOUS
  <1>4. req' = SeeRules(conf', l) /\ UNCHANGED <<target, entries, nextEntry, fpr, recs, said>>
    BY <1>3 DEF PutConfig
  <1>5. \A c \in Client : /\ l[c] \in Request /\ StepOfKind(l[c])
                          /\ SeesRules(l[c]) /\ SeesEntries(l[c]) /\ GateInv(l[c])
                          /\ l[c] = req[c]
    BY <1>3, RequestFacts
  <1> QED
    BY <1>2, <1>4, <1>5, RulesSeen

LEMMA SeedRowKeeps ==
    ASSUME ConfigInv, NEW c \in Client, SeedRow(c)
    PROVE  ConfigInv'
  <1>1. TablesInv /\ SeedDomain \in Domain
    BY ConfigurationAssumption DEF ConfigInv, TypeInv
  <1>2. conf' \in [Domain -> ConfRow \cup {None}]
    <2>1. PICK r : r = [cfg |-> SeedConfig, version |-> IF conf[SeedDomain] = None THEN 1
                                                       ELSE conf[SeedDomain].version]
      OBVIOUS
    <2>2. r \in ConfRow
      BY <1>1, <2>1 DEF TablesInv, ConfRow, Rule
    <2>3. conf' = [conf EXCEPT ![SeedDomain] = r]
      BY <2>1 DEF SeedRow
    <2> QED
      BY <1>1, <2>2, <2>3 DEF TablesInv
  <1>3. PICK l : l = [req EXCEPT ![c].pc = "reload"]
    OBVIOUS
  <1>4. req' = SeeRules(conf', l) /\ UNCHANGED <<target, entries, nextEntry, fpr, recs, said>>
    BY <1>3 DEF SeedRow
  <1>5. PICK m : m = req[c]
    OBVIOUS
  <1>6. PICK n : n = [m EXCEPT !.pc = "reload"]
    OBVIOUS
  <1>7. /\ m \in Request /\ StepOfKind(m) /\ SeesRules(m) /\ SeesEntries(m) /\ GateInv(m) /\ m.pc = "seed"
    BY <1>5, RequestFacts DEF SeedRow, At
  <1>8. n \in Request
    BY <1>6, <1>7 DEF Request, Steps
  <1>9. /\ n.pc = "reload" /\ n.kind = m.kind /\ n.d = m.d /\ n.had = m.had /\ n.must = m.must
        /\ n.may = m.may /\ n.key = m.key /\ n.read = m.read /\ n.old = m.old
    BY <1>6, <1>7 DEF Request
  <1>10. StepOfKind(n) /\ SeesRules(n) /\ SeesEntries(n) /\ GateInv(n)
    BY <1>7, <1>9 DEF StepOfKind, SeesRules, SeesEntries, GateInv
  <1>11. \A d \in Client : l[d] = IF d = c THEN n ELSE req[d]
    BY <1>3, <1>5, <1>6 DEF ConfigInv, TypeInv
  <1>12. \A d \in Client : /\ l[d] \in Request /\ StepOfKind(l[d])
                           /\ SeesRules(l[d]) /\ SeesEntries(l[d]) /\ GateInv(l[d])
                           /\ l[d].pc \in {"drop", "count", "resolve"} => l[d] = req[d]
    BY <1>8, <1>9, <1>10, <1>11, RequestFacts
  <1> QED
    BY <1>2, <1>4, <1>12, RulesSeen

LEMMA DropConfigKeeps ==
    ASSUME ConfigInv, NEW c \in Client, DropConfig(c)
    PROVE  ConfigInv'
  <1>1. TablesInv
    BY DEF ConfigInv, TypeInv
  <1>2. conf' \in [Domain -> ConfRow \cup {None}]
    BY <1>1 DEF DropConfig, TablesInv
  <1>3. PICK l : l = [req EXCEPT ![c] = Idle]
    OBVIOUS
  <1>4. req' = SeeRules(conf', l) /\ UNCHANGED <<target, entries, nextEntry, fpr, recs, said>>
    BY <1>3 DEF DropConfig
  <1>5. \A d \in Client : l[d] = IF d = c THEN Idle ELSE req[d]
    BY <1>3 DEF ConfigInv, TypeInv
  <1>6. \A d \in Client : /\ l[d] \in Request /\ StepOfKind(l[d])
                          /\ SeesRules(l[d]) /\ SeesEntries(l[d]) /\ GateInv(l[d])
                          /\ l[d].pc \in {"drop", "count", "resolve"} => l[d] = req[d]
    BY <1>5, IdleFacts, RequestFacts
  <1> QED
    BY <1>2, <1>4, <1>6, RulesSeen

\* Nothing that a request has seen depends on the targets.
LEMMA TargetSeen ==
    ASSUME ConfigInv, NEW t \in Target, NEW row \in TargetRow,
           target' = [target EXCEPT ![t] = row],
           UNCHANGED <<conf, entries, nextEntry, fpr, recs, req, said>>
    PROVE  ConfigInv'
  <1>1. TypeInv /\ RoundsInv /\ VerdictsInv
    BY DEF ConfigInv
  <1>2. TypeInv'
    BY <1>1 DEF TypeInv, TablesInv, StepOfKind
  <1>3. RoundsInv'
    BY <1>1 DEF RoundsInv, EntriesInv, SeesRules, Rules, SeesEntries, InForce
  <1>4. VerdictsInv'
    <2>1. \A d \in Client : GateInv(req[d])'
      BY <1>1 DEF VerdictsInv, GateInv, Rated
    <2> QED
      BY <2>1, VerdictsQuiet
  <1> QED
    BY <1>2, <1>3, <1>4 DEF ConfigInv

LEMMA CreateTargetKeeps ==
    ASSUME ConfigInv, NEW t \in Target, NEW d \in Domain, CreateTarget(t, d)
    PROVE  ConfigInv'
  <1>1. PICK row : row = [domain |-> d, enabled |-> TRUE, deleted |-> FALSE]
    OBVIOUS
  <1>2. row \in TargetRow
    BY <1>1 DEF TargetRow
  <1> QED
    BY <1>1, <1>2, TargetSeen DEF CreateTarget

LEMMA UpdateTargetKeeps ==
    ASSUME ConfigInv, NEW t \in Target, NEW d \in Domain, NEW on \in BOOLEAN, UpdateTarget(t, d, on)
    PROVE  ConfigInv'
  <1>1. PICK old : old = target[t]
    OBVIOUS
  <1>2. old \in TargetRow /\ target \in [Target -> TargetRow \cup {None}]
    BY <1>1 DEF ConfigInv, TypeInv, TablesInv, UpdateTarget
  <1>3. PICK row : row = [old EXCEPT !.domain = d, !.enabled = on]
    OBVIOUS
  <1>4. row \in TargetRow
    BY <1>2, <1>3 DEF TargetRow
  <1>5. target' = [target EXCEPT ![t] = row]
    <2>1. target' = [target EXCEPT ![t].domain = d, ![t].enabled = on]
      BY DEF UpdateTarget
    <2> QED
      BY <1>1, <1>2, <1>3, <2>1
  <1> QED
    BY <1>4, <1>5, TargetSeen DEF UpdateTarget

LEMMA DeleteTargetKeeps ==
    ASSUME ConfigInv, NEW t \in Target, DeleteTarget(t)
    PROVE  ConfigInv'
  <1>1. PICK old : old = target[t]
    OBVIOUS
  <1>2. old \in TargetRow
    BY <1>1 DEF ConfigInv, TypeInv, TablesInv, DeleteTarget
  <1>3. PICK row : row = [old EXCEPT !.deleted = TRUE]
    OBVIOUS
  <1>4. row \in TargetRow
    BY <1>2, <1>3 DEF TargetRow
  <1>5. target' = [target EXCEPT ![t] = row]
    BY <1>1, <1>3 DEF DeleteTarget
  <1> QED
    BY <1>4, <1>5, TargetSeen DEF DeleteTarget

\* The windows and the blacklist change; an entry that comes has an id of its own.
LEMMA EntriesSeen ==
    ASSUME ConfigInv, entries' \subseteq EntryRow, nextEntry' \in Nat, EntriesInv',
           \A e \in entries' : e \in entries \/ e.id \notin InForce(entries),
           req' = SeeEntries(InForce(entries')),
           UNCHANGED <<conf, target, fpr, recs, said>>
    PROVE  ConfigInv'
  <1>1. TypeInv /\ RoundsInv /\ VerdictsInv
    BY DEF ConfigInv
  <1>2. TablesInv'
    BY <1>1 DEF TypeInv, TablesInv
  <1>3. PICK on : on = InForce(entries')
    OBVIOUS
  <1>4. on \in Ids
    BY <1>3 DEF InForce, EntryRow, Ids
  <1>5. ASSUME NEW d \in Client
        PROVE  /\ req'[d] \in Request
               /\ req[d].kind = "round" => req'[d].must = req[d].must \cap on /\ req'[d].may = req[d].may \cup on
               /\ req'[d].pc = req[d].pc /\ req'[d].kind = req[d].kind /\ req'[d].d = req[d].d
               /\ req'[d].cfg = req[d].cfg /\ req'[d].ctx = req[d].ctx
               /\ req'[d].had = req[d].had /\ req'[d].key = req[d].key
               /\ req'[d].read = req[d].read /\ req'[d].rate = req[d].rate /\ req'[d].old = req[d].old
               /\ req'[d].fp = req[d].fp /\ req'[d].severity = req[d].severity
    <2>1. PICK m : m = req[d]
      OBVIOUS
    <2>2. m \in Request
      BY <1>1, <2>1 DEF TypeInv
    <2>3. CASE m.kind = "round"
      <3>1. PICK i, u : i = m.must \cap on /\ u = m.may \cup on
        OBVIOUS
      <3>2. req'[d] = [m EXCEPT !.must = i, !.may = u]
        BY <1>3, <2>1, <2>3, <3>1 DEF SeeEntries
      <3>3. i \in Ids /\ u \in Ids
        BY <1>4, <2>2, <3>1 DEF Request, Ids
      <3>4. PICK n : n = [m EXCEPT !.must = i, !.may = u]
        OBVIOUS
      <3>5. n \in Request
        BY <2>2, <3>3, <3>4 DEF Request
      <3>6. /\ n.must = i /\ n.may = u
            /\ n.pc = m.pc /\ n.kind = m.kind /\ n.d = m.d /\ n.cfg = m.cfg /\ n.ctx = m.ctx
            /\ n.had = m.had /\ n.key = m.key /\ n.read = m.read /\ n.rate = m.rate /\ n.old = m.old
            /\ n.fp = m.fp /\ n.severity = m.severity
        BY <2>2, <3>4 DEF Request
      <3> QED
        BY <2>1, <3>1, <3>2, <3>4, <3>5, <3>6
    <2>4. CASE m.kind # "round"
      <3>1. req'[d] = m
        BY <2>1, <2>4 DEF SeeEntries
      <3> QED
        BY <2>1, <2>2, <2>4, <3>1
    <2> QED
      BY <2>3, <2>4
  <1>6. TypeInv'
    <2>1. \A d \in Client : StepOfKind(req[d])'
      BY <1>1, <1>5 DEF TypeInv, StepOfKind
    <2>2. req' = [d \in Client |-> req'[d]]
      BY DEF SeeEntries
    <2> QED
      BY <1>2, <1>5, <2>1, <2>2 DEF TypeInv
  <1>7. RoundsInv'
    <2>2. \A d \in Client : SeesRules(req[d])'
      BY <1>1, <1>5 DEF RoundsInv, SeesRules, Rules
    <2>3. ASSUME NEW d \in Client, req[d].kind = "round"
          PROVE  /\ req'[d].must \subseteq on /\ on \subseteq req'[d].may
                 /\ req'[d].pc \in {"blacklist", "fpr", "verify", "emit"} => req'[d].ctx \subseteq req'[d].may
                 /\ req'[d].pc = "blacklist" =>
                        \A e \in entries' : e.table = "window" /\ e.id \in req'[d].must => e.id \in req'[d].ctx
                 /\ req'[d].pc \in {"fpr", "verify", "emit"} => req'[d].must \subseteq req'[d].ctx
      <3>1. PICK m : m = req[d]
        OBVIOUS
      <3>2. /\ m.must \subseteq InForce(entries)
            /\ m.pc \in {"blacklist", "fpr", "verify", "emit"} => m.ctx \subseteq m.may
            /\ m.pc = "blacklist" => \A e \in entries : e.table = "window" /\ e.id \in m.must => e.id \in m.ctx
            /\ m.pc \in {"fpr", "verify", "emit"} => m.must \subseteq m.ctx
        BY <1>1, <2>3, <3>1 DEF RoundsInv, SeesEntries
      <3>3. req'[d].must = m.must \cap on /\ req'[d].may = m.may \cup on /\ req'[d].pc = m.pc /\ req'[d].ctx = m.ctx
        BY <1>5, <2>3, <3>1
      <3> QED
        BY <3>2, <3>3
    <2>4. \A d \in Client : SeesEntries(req[d])'
      BY <1>3, <1>5, <2>3 DEF SeesEntries
    <2> QED
      BY <2>2, <2>4 DEF RoundsInv
  <1>8. VerdictsInv'
    <2>1. \A d \in Client : GateInv(req[d])'
      BY <1>1, <1>5 DEF VerdictsInv, GateInv, Rated
    <2> QED
      BY <1>5, <2>1, VerdictsQuiet
  <1> QED
    BY <1>6, <1>7, <1>8 DEF ConfigInv

LEMMA InsertKeeps ==
    ASSUME ConfigInv, NEW table \in {"window", "blacklist"}, NEW on \in BOOLEAN,
           table = "window" => on, Insert(table, on)
    PROVE  ConfigInv'
  <1>1. entries \subseteq EntryRow /\ nextEntry \in Nat /\ EntriesInv
    BY DEF ConfigInv, TypeInv, TablesInv, RoundsInv
  <1>2. PICK x : x = [id |-> nextEntry, table |-> table, enabled |-> on]
    OBVIOUS
  <1>3. x \in EntryRow /\ x.id = nextEntry /\ (x.table = "window" => x.enabled)
    BY <1>1, <1>2 DEF EntryRow
  <1>4. entries' = entries \cup {x} /\ nextEntry' = nextEntry + 1
    BY <1>2 DEF Insert
  <1>5. entries' \subseteq EntryRow /\ nextEntry' \in Nat
    BY <1>1, <1>3, <1>4
  <1>6. \A e \in entries : e.id < nextEntry /\ e.id \in Nat
    BY <1>1 DEF EntriesInv, EntryRow
  <1>7. EntriesInv'
    <2>1. \A e \in entries' : e.id < nextEntry' /\ (e.table = "window" => e.enabled)
      BY <1>1, <1>3, <1>4, <1>6 DEF EntriesInv
    <2>2. \A e, f \in entries' : e.id = f.id => e = f
      BY <1>1, <1>3, <1>4, <1>6 DEF EntriesInv
    <2> QED
      BY <2>1, <2>2 DEF EntriesInv
  <1>8. \A e \in entries' : e \in entries \/ e.id \notin InForce(entries)
    BY <1>1, <1>3, <1>4, <1>6 DEF InForce
  <1> QED
    BY <1>5, <1>7, <1>8, EntriesSeen DEF Insert

LEMMA RemoveKeeps ==
    ASSUME ConfigInv, NEW e, NEW table, Remove(e, table)
    PROVE  ConfigInv'
  <1>1. entries \subseteq EntryRow /\ nextEntry \in Nat /\ EntriesInv
    BY DEF ConfigInv, TypeInv, TablesInv, RoundsInv
  <1>2. entries' \subseteq entries /\ nextEntry' = nextEntry
    BY DEF Remove
  <1>3. EntriesInv'
    BY <1>1, <1>2 DEF EntriesInv
  <1> QED
    BY <1>1, <1>2, <1>3, EntriesSeen DEF Remove

\* Everything that a request could see stays.
LEMMA NothingSeen ==
    ASSUME ConfigInv, UNCHANGED <<conf, target, entries, nextEntry, fpr, recs, req, said>>
    PROVE  ConfigInv'
  <1>1. TypeInv /\ RoundsInv /\ VerdictsInv
    BY DEF ConfigInv
  <1>2. TypeInv'
    BY <1>1 DEF TypeInv, TablesInv, StepOfKind
  <1>3. RoundsInv'
    BY <1>1 DEF RoundsInv, EntriesInv, SeesRules, Rules, SeesEntries, InForce
  <1>4. VerdictsInv'
    <2>1. \A d \in Client : GateInv(req[d])'
      BY <1>1 DEF VerdictsInv, GateInv, Rated
    <2> QED
      BY <2>1, VerdictsQuiet
  <1> QED
    BY <1>2, <1>3, <1>4 DEF ConfigInv

-----------------------------------------------------------------------------
(***************************************************************************)
(* Verdicts: sent, counted, answered.                                      *)
(***************************************************************************)
LEMMA RatioNat ==
    ASSUME NEW f \in Nat, NEW t \in Nat, t > 0
    PROVE  Ratio(f, t) \in Nat
  <1>1. t \div 2 \in Nat
    OBVIOUS
  <1>2. PICK r \in Nat : r = t \div 2
    BY <1>1
  <1>3. PICK m \in Nat : m = 10000 * f + r
    OBVIOUS
  <1>4. m \div t \in Nat
    OBVIOUS
  <1> QED
    BY <1>2, <1>3, <1>4 DEF Ratio

One(fp, b) == IF fp = b THEN 1 ELSE 0

\* A verdict more, of its kind and of no other.
LEMMA CountFacts ==
    ASSUME NEW v \in Verdicts, NEW fp \in BOOLEAN,
           NEW w, w = [all |-> v.all + 1, false |-> IF fp THEN v.false + 1 ELSE v.false]
    PROVE  /\ w \in Verdicts /\ w.all = v.all + 1
           /\ \A b \in BOOLEAN : Of(w, b) = Of(v, b) + One(fp, b)
           /\ v.false <= v.all => w.false <= w.all
           /\ v.all - v.false <= w.all - w.false
           /\ v.false <= v.all /\ w.false = w.all => v.false = v.all
  <1>1. v.all \in Nat /\ v.false \in Nat
    BY DEF Verdicts
  <1>2. CASE fp = TRUE
    <2>1. w.all = v.all + 1 /\ w.false = v.false + 1 /\ w \in Verdicts
      BY <1>1, <1>2 DEF Verdicts
    <2>2. One(fp, TRUE) = 1 /\ One(fp, FALSE) = 0
      BY <1>2 DEF One
    <2>3. Of(w, TRUE) = Of(v, TRUE) + 1 /\ Of(w, FALSE) = Of(v, FALSE) + 0
      BY <1>1, <2>1 DEF Of
    <2>4. \A b \in BOOLEAN : Of(w, b) = Of(v, b) + One(fp, b)
      BY <2>2, <2>3
    <2> QED
      BY <1>1, <2>1, <2>4
  <1>3. CASE fp = FALSE
    <2>1. w.all = v.all + 1 /\ w.false = v.false /\ w \in Verdicts
      BY <1>1, <1>3 DEF Verdicts
    <2>2. One(fp, TRUE) = 0 /\ One(fp, FALSE) = 1
      BY <1>3 DEF One
    <2>3. Of(w, TRUE) = Of(v, TRUE) + 0 /\ Of(w, FALSE) = Of(v, FALSE) + 1
      BY <1>1, <2>1 DEF Of
    <2>4. \A b \in BOOLEAN : Of(w, b) = Of(v, b) + One(fp, b)
      BY <2>2, <2>3
    <2> QED
      BY <1>1, <2>1, <2>4
  <1> QED
    BY <1>2, <1>3

\* The same of a row of the table.
LEMMA CountedFacts ==
    ASSUME NEW x \in MaybeRate, NEW fp \in BOOLEAN,
           NEW y, y = Counted(x, IF fp THEN 1 ELSE 0)
    PROVE  /\ y \in FprRow /\ y # None /\ y.total > 0 /\ y.fpr = Ratio(y.fp, y.total)
           /\ \A b \in BOOLEAN : RowOf(y, b) = RowOf(x, b) + One(fp, b)
  <1>1. PICK f, t : f = FpOf(x) /\ t = TotalOf(x)
    OBVIOUS
  <1>2. f \in Nat /\ t \in Nat
    BY <1>1 DEF MaybeRate, FprRow, FpOf, TotalOf
  <1>3. PICK i : i = IF fp THEN 1 ELSE 0
    OBVIOUS
  <1>4. i \in Nat
    BY <1>3
  <1>5. y = [fp |-> f + i, total |-> t + 1, fpr |-> Ratio(f + i, t + 1)]
    <2>1. CASE x = None
      <3>1. f = 0 /\ t = 0
        BY <1>1, <2>1 DEF FpOf, TotalOf
      <3>2. f + i = i /\ t + 1 = 1
        BY <1>4, <3>1
      <3>3. y = [fp |-> i, total |-> 1, fpr |-> Ratio(i, 1)]
        BY <1>3, <2>1 DEF Counted
      <3> QED
        BY <3>2, <3>3
    <2>2. CASE x # None
      <3>1. f = x.fp /\ t = x.total
        BY <1>1, <2>2 DEF FpOf, TotalOf
      <3>2. y = [fp |-> x.fp + i, total |-> x.total + 1, fpr |-> Ratio(x.fp + i, x.total + 1)]
        BY <1>3, <2>2 DEF Counted
      <3> QED
        BY <3>1, <3>2
    <2> QED
      BY <2>1, <2>2
  <1>6. PICK g, u : g = f + i /\ u = t + 1
    OBVIOUS
  <1>7. g \in Nat /\ u \in Nat /\ u > 0
    BY <1>2, <1>4, <1>6
  <1>8. Ratio(g, u) \in Nat
    BY <1>7, RatioNat
  <1>9. y = [fp |-> g, total |-> u, fpr |-> Ratio(g, u)]
    BY <1>5, <1>6
  <1>10. y.fp = g /\ y.total = u /\ y.fpr = Ratio(g, u)
    BY <1>9
  <1>11. y \in FprRow
    BY <1>7, <1>8, <1>9 DEF FprRow
  <1>12. None \notin FprRow
    BY ConfigurationAssumption DEF FprRow
  <1>13. y # None
    BY <1>11, <1>12
  <1>14. FpOf(y) = g /\ TotalOf(y) = u
    BY <1>10, <1>13 DEF FpOf, TotalOf
  <1>15. CASE fp = TRUE
    <2>1. i = 1
      BY <1>3, <1>15
    <2>2. One(fp, TRUE) = 1 /\ One(fp, FALSE) = 0
      BY <1>15 DEF One
    <2>3. RowOf(y, TRUE) = RowOf(x, TRUE) + 1 /\ RowOf(y, FALSE) = RowOf(x, FALSE) + 0
      BY <1>1, <1>2, <1>6, <1>14, <2>1 DEF RowOf
    <2>4. \A b \in BOOLEAN : RowOf(y, b) = RowOf(x, b) + One(fp, b)
      BY <2>2, <2>3
    <2> QED
      BY <1>7, <1>10, <1>11, <1>13, <2>4
  <1>16. CASE fp = FALSE
    <2>1. i = 0
      BY <1>3, <1>16
    <2>2. One(fp, TRUE) = 0 /\ One(fp, FALSE) = 1
      BY <1>16 DEF One
    <2>3. RowOf(y, TRUE) = RowOf(x, TRUE) + 0 /\ RowOf(y, FALSE) = RowOf(x, FALSE) + 1
      BY <1>1, <1>2, <1>6, <1>14, <2>1 DEF RowOf
    <2>4. \A b \in BOOLEAN : RowOf(y, b) = RowOf(x, b) + One(fp, b)
      BY <2>2, <2>3
    <2> QED
      BY <1>7, <1>10, <1>11, <1>13, <2>4
  <1> QED
    BY <1>15, <1>16

\* The request of a verdict goes on.
LEMMA VerdictStep ==
    ASSUME ConfigInv, NEW c \in Client, NEW n \in Request, StepOfKind(n), n.pc \in {"idle", "count", "resolve"},
           req' = [req EXCEPT ![c] = n], UNCHANGED <<conf, target, entries, nextEntry, recs>>,
           TablesInv', CountsInv',
           \A k \in GroupKey :
               /\ said.answered[k].all <= said'.answered[k].all
               /\ said.sent[k].all - said.sent[k].false <= said'.sent[k].all - said'.sent[k].false
               /\ said'.sent[k].false = said'.sent[k].all => said.sent[k].false = said.sent[k].all
    PROVE  ConfigInv'
  <1>1. TypeInv /\ RoundsInv /\ VerdictsInv
    BY DEF ConfigInv
  <1>2. \A d \in Client : req'[d] = IF d = c THEN n ELSE req[d]
    BY <1>1 DEF TypeInv
  <1>3. TypeInv'
    BY <1>1, <1>2 DEF TypeInv, StepOfKind
  <1>4. SeesRules(n)' /\ SeesEntries(n)' /\ GateInv(n)'
    BY DEF StepOfKind, SeesRules, SeesEntries, GateInv
  <1>5. RoundsInv'
    <2>1. EntriesInv'
      BY <1>1 DEF RoundsInv, EntriesInv
    <2>2. \A d \in Client : SeesRules(req[d])'
      BY <1>1, <1>2, <1>4 DEF RoundsInv, SeesRules, Rules
    <2>3. \A d \in Client : SeesEntries(req[d])'
      BY <1>1, <1>2, <1>4 DEF RoundsInv, SeesEntries, InForce
    <2> QED
      BY <2>1, <2>2, <2>3 DEF RoundsInv
  <1>6. ASSUME NEW d \in Client PROVE GateInv(req[d])'
    <2>1. CASE d = c
      BY <1>2, <1>4, <2>1
    <2>2. CASE d # c
      <3>1. PICK l : l = req[d]
        OBVIOUS
      <3>2. req'[d] = l
        BY <1>2, <2>2, <3>1
      <3>3. l \in Request /\ StepOfKind(l) /\ GateInv(l)
        BY <1>1, <3>1 DEF TypeInv, VerdictsInv
      <3>4. CASE l.kind = "round"
        <4>1. PICK k \in GroupKey : k = l.read
          BY <3>3, <3>4 DEF StepOfKind
        <4>2. PICK a, s : a = said.answered[k] /\ s = said.sent[k]
          OBVIOUS
        <4>3. PICK x, y : x = said'.answered[k] /\ y = said'.sent[k]
          OBVIOUS
        <4>4. a.all \in Nat /\ s.all \in Nat /\ s.false \in Nat
          BY <1>1, <4>2, VerdictNumbers
        <4>5. x.all \in Nat /\ y.all \in Nat /\ y.false \in Nat
          BY <4>3 DEF TablesInv, Verdicts
        <4>6. /\ a.all <= x.all /\ s.all - s.false <= y.all - y.false
              /\ y.false = y.all => s.false = s.all
          BY <4>2, <4>3
        <4>7. l.old <= a.all /\ l.old \in Nat
          BY <3>3, <3>4, <4>1, <4>2 DEF GateInv, Request
        <4>8. l.old <= x.all
          BY <4>4, <4>5, <4>6, <4>7
        <4>9. l.pc = "verify" => TotalOf(l.rate) - FpOf(l.rate) <= s.all - s.false
          BY <3>3, <4>1, <4>2 DEF GateInv, Rated
        <4>10. TotalOf(l.rate) \in Nat /\ FpOf(l.rate) \in Nat
          BY <3>3 DEF Request, MaybeRate, FprRow, FpOf, TotalOf
        <4>11. l.pc = "verify" => TotalOf(l.rate) - FpOf(l.rate) <= y.all - y.false
          BY <4>4, <4>5, <4>6, <4>9, <4>10
        <4>12. Rated(req[d])' <=> /\ l.old <= TotalOf(l.rate)
                                  /\ FpOf(l.rate) <= TotalOf(l.rate)
                                  /\ TotalOf(l.rate) - FpOf(l.rate) <= y.all - y.false
                                  /\ l.rate # None => l.rate.total > 0 /\ l.rate.fpr = Ratio(l.rate.fp, l.rate.total)
          BY <3>2, <4>1, <4>3 DEF Rated
        <4>13. l.pc = "verify" => Rated(req[d])'
          BY <3>3, <4>11, <4>12 DEF GateInv, Rated
        <4>14. l.pc = "emit" /\ l.old >= MinSamples /\ y.false = y.all => l.severity = "warning"
          BY <3>3, <4>1, <4>2, <4>6 DEF GateInv
        <4> QED
          BY <3>2, <4>1, <4>3, <4>8, <4>13, <4>14 DEF GateInv
      <3>5. CASE l.kind # "round"
        BY <3>2, <3>3, <3>5 DEF GateInv, StepOfKind
      <3> QED
        BY <3>4, <3>5
    <2> QED
      BY <2>1, <2>2
  <1> QED
    BY <1>3, <1>5, <1>6 DEF ConfigInv, VerdictsInv

\* What CountsInv says of one key and one kind.
Balance(k, b) ==
    /\ IsFiniteSet(UnderWay("count", k, b)) /\ IsFiniteSet(UnderWay("resolve", k, b))
    /\ RowOf(fpr[k], b) \in Nat
    /\ RowOf(fpr[k], b) + Cardinality(UnderWay("count", k, b)) <= Of(said.sent[k], b)
    /\ Of(said.answered[k], b) + Cardinality(UnderWay("resolve", k, b)) <= RowOf(fpr[k], b)

LEMMA CountsParts ==
    CountsInv <=> /\ \A k \in GroupKey : /\ said.sent[k].false <= said.sent[k].all
                                         /\ said.answered[k].false <= said.answered[k].all
                                         /\ fpr[k] # None => fpr[k].total > 0 /\ fpr[k].fpr = Ratio(fpr[k].fp, fpr[k].total)
                  /\ \A k \in GroupKey, b \in BOOLEAN : Balance(k, b)
  BY DEF CountsInv, Balance

LEMMA Sent ==
    ASSUME NEW W, NEW c, IsFiniteSet(W), c \notin W, NEW r \in Int, NEW s \in Int, r + Cardinality(W) <= s
    PROVE  IsFiniteSet(W \cup {c}) /\ r + Cardinality(W \cup {c}) <= s + 1
  <1>1. Cardinality(W) \in Nat
    BY FS_CardinalityType
  <1>2. IsFiniteSet(W \cup {c}) /\ Cardinality(W \cup {c}) = Cardinality(W) + 1
    BY FS_AddElement
  <1> QED
    BY <1>1, <1>2

LEMMA Settled ==
    ASSUME NEW W, NEW c, IsFiniteSet(W), c \in W, NEW r \in Int, NEW s \in Int, r + Cardinality(W) <= s
    PROVE  IsFiniteSet(W \ {c}) /\ r + 1 + Cardinality(W \ {c}) <= s
  <1>1. Cardinality(W) \in Nat
    BY FS_CardinalityType
  <1>2. IsFiniteSet(W \ {c}) /\ Cardinality(W \ {c}) = Cardinality(W) - 1
    BY FS_RemoveElement
  <1> QED
    BY <1>1, <1>2

\* A verdict is sent, and is not counted yet.
LEMMA ResolveProblemKeeps ==
    ASSUME ConfigInv, NEW c \in Client, NEW k \in recs, NEW fp \in BOOLEAN, ResolveProblem(c, k, fp)
    PROVE  ConfigInv'
  <1>1. TypeInv /\ TablesInv /\ VerdictsInv /\ CountsInv /\ k \in GroupKey /\ req[c].pc = "idle"
    BY DEF ConfigInv, TypeInv, TablesInv, VerdictsInv, ResolveProblem, At
  <1>2. PICK n : n = [Idle EXCEPT !.pc = "count", !.kind = "verdict", !.key = k, !.fp = fp]
    OBVIOUS
  <1>3. Idle \in Request /\ k \in MaybeKey
    BY <1>1, IdleFacts DEF MaybeKey
  <1>4. n \in Request /\ n.pc = "count" /\ n.kind = "verdict" /\ n.key = k /\ n.fp = fp
    BY <1>2, <1>3 DEF Request, Steps, Kinds
  <1>5. StepOfKind(n)
    BY <1>1, <1>4 DEF StepOfKind
  <1>6. /\ req' = [req EXCEPT ![c] = n] /\ UNCHANGED <<conf, target, entries, nextEntry, fpr, recs>>
        /\ said' = [said EXCEPT !.sent = Count(said.sent, k, fp)]
    BY <1>2 DEF ResolveProblem, Become
  <1>7. PICK v, w : v = said.sent[k] /\ w = [all |-> v.all + 1, false |-> IF fp THEN v.false + 1 ELSE v.false]
    OBVIOUS
  <1>8. v \in Verdicts
    BY <1>1, <1>7 DEF TablesInv
  <1>9. /\ w \in Verdicts /\ w.all = v.all + 1
        /\ \A b \in BOOLEAN : Of(w, b) = Of(v, b) + One(fp, b)
        /\ v.false <= v.all => w.false <= w.all
        /\ v.all - v.false <= w.all - w.false
        /\ v.false <= v.all /\ w.false = w.all => v.false = v.all
    BY <1>7, <1>8, CountFacts
  <1>10. said'.answered = said.answered /\ said'.sent = [said.sent EXCEPT ![k] = w]
    <2>1. PICK s : s = Count(said.sent, k, fp)
      OBVIOUS
    <2>2. s = [said.sent EXCEPT ![k] = w]
      BY <1>7, <2>1 DEF Count
    <2> QED
      BY <1>1, <1>6, <2>1, <2>2 DEF TablesInv
  <1>11. \A j \in GroupKey : said'.sent[j] = IF j = k THEN w ELSE said.sent[j]
    BY <1>1, <1>10 DEF TablesInv
  <1>12. TablesInv'
    <2>1. said' \in [sent : [GroupKey -> Verdicts], answered : [GroupKey -> Verdicts]]
      <3>1. PICK s : s = Count(said.sent, k, fp)
        OBVIOUS
      <3>2. s = [said.sent EXCEPT ![k] = w]
        BY <1>7, <3>1 DEF Count
      <3>3. s \in [GroupKey -> Verdicts]
        BY <1>1, <1>9, <3>2 DEF TablesInv
      <3> QED
        BY <1>1, <1>6, <3>1, <3>3 DEF TablesInv
    <2> QED
      BY <1>1, <1>6, <2>1 DEF TablesInv
  <1>13. \A d \in Client : req'[d] = IF d = c THEN n ELSE req[d]
    BY <1>1, <1>6 DEF TypeInv
  <1>14. \A j \in GroupKey : said.sent[j].false <= said.sent[j].all
    BY <1>1 DEF CountsInv
  <1>15. ASSUME NEW j \in GroupKey, NEW b \in BOOLEAN
         PROVE  Balance(j, b)'
    <2>1. Balance(j, b)
      BY <1>1, CountsParts
    <2>2. UnderWay("resolve", j, b)' = UnderWay("resolve", j, b)
      BY <1>1, <1>4, <1>13 DEF UnderWay
    <2>3. CASE j = k /\ fp = b
      <3>1. UnderWay("count", j, b)' = UnderWay("count", j, b) \cup {c} /\ c \notin UnderWay("count", j, b)
        BY <1>1, <1>4, <1>13, <2>3 DEF UnderWay
      <3>2. Of(said.sent[j], b)' = Of(said.sent[j], b) + 1
        BY <1>7, <1>9, <1>11, <2>3 DEF One
      <3>3. Of(said.sent[j], b) \in Int
        BY <1>1, VerdictNumbers
      <3>4. PICK W, r, s : W = UnderWay("count", j, b) /\ r = RowOf(fpr[j], b) /\ s = Of(said.sent[j], b)
        OBVIOUS
      <3>5. IsFiniteSet(W \cup {c}) /\ r + Cardinality(W \cup {c}) <= s + 1
        <4>1. IsFiniteSet(W) /\ c \notin W /\ r \in Int /\ s \in Int /\ r + Cardinality(W) <= s
          BY <2>1, <3>1, <3>3, <3>4 DEF Balance
        <4> QED
          BY <4>1, Sent
      <3> QED
        BY <1>6, <1>10, <2>1, <2>2, <3>1, <3>2, <3>4, <3>5 DEF Balance
    <2>4. CASE ~(j = k /\ fp = b)
      <3>1. UnderWay("count", j, b)' = UnderWay("count", j, b)
        BY <1>1, <1>4, <1>13, <2>4 DEF UnderWay
      <3>2. Of(said.sent[j], b)' = Of(said.sent[j], b)
        <4>1. CASE j = k
          <5>1. One(fp, b) = 0
            BY <2>4, <4>1 DEF One
          <5>2. Of(v, b) \in Int
            BY <1>1, <1>7, VerdictNumbers
          <5> QED
            BY <1>7, <1>9, <1>11, <4>1, <5>1, <5>2
        <4>2. CASE j # k
          BY <1>11, <4>2
        <4> QED
          BY <4>1, <4>2
      <3> QED
        BY <1>6, <1>10, <2>1, <2>2, <3>1, <3>2 DEF Balance
    <2> QED
      BY <2>3, <2>4
  <1>16. CountsInv'
    <2>1. \A j \in GroupKey : /\ said.answered[j].false <= said.answered[j].all
                              /\ fpr[j] # None => fpr[j].total > 0 /\ fpr[j].fpr = Ratio(fpr[j].fp, fpr[j].total)
      BY <1>1 DEF CountsInv
    <2>2. \A j \in GroupKey : said'.sent[j].false <= said'.sent[j].all
      BY <1>7, <1>9, <1>11, <1>14
    <2> QED
      BY <1>6, <1>10, <1>15, <2>1, <2>2 DEF CountsInv, Balance
  <1>17. \A j \in GroupKey :
             /\ said.answered[j].all <= said'.answered[j].all
             /\ said.sent[j].all - said.sent[j].false <= said'.sent[j].all - said'.sent[j].false
             /\ said'.sent[j].false = said'.sent[j].all => said.sent[j].false = said.sent[j].all
    <2> SUFFICES ASSUME NEW j \in GroupKey
                 PROVE  /\ said.answered[j].all <= said'.answered[j].all
                        /\ said.sent[j].all - said.sent[j].false <= said'.sent[j].all - said'.sent[j].false
                        /\ said'.sent[j].false = said'.sent[j].all => said.sent[j].false = said.sent[j].all
      OBVIOUS
    <2>1. said.answered[j].all \in Nat /\ said.sent[j].all \in Nat /\ said.sent[j].false \in Nat
      BY <1>1, VerdictNumbers
    <2>2. CASE j = k
      BY <1>7, <1>9, <1>10, <1>11, <1>14, <2>1, <2>2
    <2>3. CASE j # k
      BY <1>10, <1>11, <2>1, <2>3
    <2> QED
      BY <2>2, <2>3
  <1> QED
    BY <1>4, <1>5, <1>6, <1>12, <1>16, <1>17, VerdictStep

\* A verdict is counted, and is not answered yet.
LEMMA WriteFprKeeps ==
    ASSUME ConfigInv, NEW c \in Client, WriteFpr(c)
    PROVE  ConfigInv'
  <1>1. TypeInv /\ TablesInv /\ VerdictsInv /\ CountsInv
    BY DEF ConfigInv, TypeInv, VerdictsInv
  <1>2. PICK l : l = req[c]
    OBVIOUS
  <1>3. l \in Request /\ StepOfKind(l) /\ l.pc = "count"
    BY <1>1, <1>2 DEF TypeInv, WriteFpr, At
  <1>4. PICK k, fp : k = l.key /\ fp = l.fp
    OBVIOUS
  <1>5. l.kind = "verdict" /\ k \in GroupKey /\ fp \in BOOLEAN
    BY <1>3, <1>4 DEF StepOfKind, Request
  <1>6. PICK n : n = [l EXCEPT !.pc = "resolve"]
    OBVIOUS
  <1>7. n \in Request /\ n.pc = "resolve" /\ n.kind = "verdict" /\ n.key = k /\ n.fp = fp
    BY <1>3, <1>4, <1>5, <1>6 DEF Request, Steps
  <1>8. StepOfKind(n)
    BY <1>5, <1>7 DEF StepOfKind
  <1>9. PICK x, y : x = fpr[k] /\ y = Counted(x, IF fp THEN 1 ELSE 0)
    OBVIOUS
  <1>10. /\ req' = [req EXCEPT ![c] = n] /\ UNCHANGED <<conf, target, entries, nextEntry, recs, said>>
         /\ fpr' = [fpr EXCEPT ![k] = y]
    BY <1>2, <1>4, <1>6, <1>9 DEF WriteFpr, Become
  <1>11. x \in MaybeRate
    BY <1>1, <1>5, <1>9, VerdictNumbers
  <1>12. /\ y \in FprRow /\ y # None /\ y.total > 0 /\ y.fpr = Ratio(y.fp, y.total)
         /\ \A b \in BOOLEAN : RowOf(y, b) = RowOf(x, b) + One(fp, b)
    BY <1>5, <1>9, <1>11, CountedFacts
  <1>13. \A j \in GroupKey : fpr'[j] = IF j = k THEN y ELSE fpr[j]
    BY <1>1, <1>10 DEF TablesInv
  <1>14. TablesInv'
    <2>1. y \in MaybeRate
      BY <1>12 DEF MaybeRate
    <2> QED
      BY <1>1, <1>5, <1>10, <2>1 DEF TablesInv
  <1>15. \A d \in Client : req'[d] = IF d = c THEN n ELSE req[d]
    BY <1>1, <1>10 DEF TypeInv
  <1>16. ASSUME NEW j \in GroupKey, NEW b \in BOOLEAN
         PROVE  Balance(j, b)'
    <2>1. Balance(j, b)
      BY <1>1, CountsParts
    <2>2. CASE j = k /\ fp = b
      <3>1. /\ UnderWay("count", j, b)' = UnderWay("count", j, b) \ {c} /\ c \in UnderWay("count", j, b)
            /\ UnderWay("resolve", j, b)' = UnderWay("resolve", j, b) \cup {c} /\ c \notin UnderWay("resolve", j, b)
        BY <1>2, <1>3, <1>4, <1>7, <1>15, <2>2 DEF UnderWay
      <3>2. RowOf(fpr[j], b)' = RowOf(fpr[j], b) + 1
        BY <1>9, <1>12, <1>13, <2>2 DEF One
      <3>3. Of(said.sent[j], b) \in Int /\ Of(said.answered[j], b) \in Int
        BY <1>1, VerdictNumbers
      <3>4. PICK W, V, r, s, a : /\ W = UnderWay("count", j, b) /\ V = UnderWay("resolve", j, b)
                                 /\ r = RowOf(fpr[j], b) /\ s = Of(said.sent[j], b) /\ a = Of(said.answered[j], b)
        OBVIOUS
      <3>5. /\ IsFiniteSet(W) /\ IsFiniteSet(V) /\ c \in W /\ c \notin V
            /\ r \in Nat /\ r \in Int /\ s \in Int /\ a \in Int /\ r + Cardinality(W) <= s /\ a + Cardinality(V) <= r
        BY <2>1, <3>1, <3>3, <3>4 DEF Balance
      <3>6. IsFiniteSet(W \ {c}) /\ r + 1 + Cardinality(W \ {c}) <= s
        BY <3>5, Settled
      <3>7. IsFiniteSet(V \cup {c}) /\ a + Cardinality(V \cup {c}) <= r + 1
        BY <3>5, Sent
      <3>8. r + 1 \in Nat
        BY <3>5
      <3> QED
        BY <1>10, <3>1, <3>2, <3>4, <3>6, <3>7, <3>8 DEF Balance
    <2>3. CASE ~(j = k /\ fp = b)
      <3>1. UnderWay("count", j, b)' = UnderWay("count", j, b) /\ UnderWay("resolve", j, b)' = UnderWay("resolve", j, b)
        BY <1>2, <1>3, <1>4, <1>7, <1>15, <2>3 DEF UnderWay
      <3>2. RowOf(fpr[j], b)' = RowOf(fpr[j], b)
        <4>1. CASE j = k
          <5>1. One(fp, b) = 0
            BY <2>3, <4>1 DEF One
          <5>2. RowOf(x, b) \in Nat
            BY <1>9, <2>1, <4>1 DEF Balance
          <5> QED
            BY <1>9, <1>12, <1>13, <4>1, <5>1, <5>2
        <4>2. CASE j # k
          BY <1>13, <4>2
        <4> QED
          BY <4>1, <4>2
      <3> QED
        BY <1>10, <2>1, <3>1, <3>2 DEF Balance
    <2> QED
      BY <2>2, <2>3
  <1>17. CountsInv'
    <2>1. \A j \in GroupKey : /\ said.answered[j].false <= said.answered[j].all
                              /\ said.sent[j].false <= said.sent[j].all
      BY <1>1 DEF CountsInv
    <2>2. \A j \in GroupKey : fpr'[j] # None => fpr'[j].total > 0 /\ fpr'[j].fpr = Ratio(fpr'[j].fp, fpr'[j].total)
      BY <1>1, <1>12, <1>13 DEF CountsInv
    <2> QED
      BY <1>10, <1>16, <2>1, <2>2 DEF CountsInv, Balance
  <1>18. \A j \in GroupKey :
             /\ said.answered[j].all <= said'.answered[j].all
             /\ said.sent[j].all - said.sent[j].false <= said'.sent[j].all - said'.sent[j].false
             /\ said'.sent[j].false = said'.sent[j].all => said.sent[j].false = said.sent[j].all
    BY <1>1, <1>10, VerdictNumbers
  <1> QED
    BY <1>7, <1>8, <1>10, <1>14, <1>17, <1>18, VerdictStep

\* A verdict is answered, and was counted.
LEMMA ResolveKeeps ==
    ASSUME ConfigInv, NEW c \in Client, Resolve(c)
    PROVE  ConfigInv'
  <1>1. TypeInv /\ TablesInv /\ VerdictsInv /\ CountsInv
    BY DEF ConfigInv, TypeInv, VerdictsInv
  <1>2. PICK l : l = req[c]
    OBVIOUS
  <1>3. l \in Request /\ StepOfKind(l) /\ l.pc = "resolve"
    BY <1>1, <1>2 DEF TypeInv, Resolve, At
  <1>4. PICK k, fp : k = l.key /\ fp = l.fp
    OBVIOUS
  <1>5. l.kind = "verdict" /\ k \in GroupKey /\ fp \in BOOLEAN
    BY <1>3, <1>4 DEF StepOfKind, Request
  <1>6. /\ req' = [req EXCEPT ![c] = Idle] /\ UNCHANGED <<conf, target, entries, nextEntry, fpr, recs>>
        /\ said' = [said EXCEPT !.answered = Count(said.answered, k, fp)]
    BY <1>2, <1>4 DEF Resolve, Become
  <1>7. PICK v, w : v = said.answered[k] /\ w = [all |-> v.all + 1, false |-> IF fp THEN v.false + 1 ELSE v.false]
    OBVIOUS
  <1>8. v \in Verdicts
    BY <1>1, <1>5, <1>7 DEF TablesInv
  <1>9. /\ w \in Verdicts /\ w.all = v.all + 1
        /\ \A b \in BOOLEAN : Of(w, b) = Of(v, b) + One(fp, b)
        /\ v.false <= v.all => w.false <= w.all
    BY <1>5, <1>7, <1>8, CountFacts
  <1>10. PICK s : s = Count(said.answered, k, fp)
    OBVIOUS
  <1>11. s = [said.answered EXCEPT ![k] = w]
    BY <1>7, <1>10 DEF Count
  <1>12. said'.sent = said.sent /\ said'.answered = s
    BY <1>1, <1>6, <1>10 DEF TablesInv
  <1>13. \A j \in GroupKey : said'.answered[j] = IF j = k THEN w ELSE said.answered[j]
    BY <1>1, <1>11, <1>12 DEF TablesInv
  <1>14. TablesInv'
    <2>1. s \in [GroupKey -> Verdicts]
      BY <1>1, <1>9, <1>11 DEF TablesInv
    <2>2. said' \in [sent : [GroupKey -> Verdicts], answered : [GroupKey -> Verdicts]]
      BY <1>1, <1>6, <1>10, <2>1 DEF TablesInv
    <2> QED
      BY <1>1, <1>6, <2>2 DEF TablesInv
  <1>15. Idle.pc = "idle" /\ \A d \in Client : req'[d] = IF d = c THEN Idle ELSE req[d]
    BY <1>1, <1>6, IdleFacts DEF TypeInv
  <1>16. ASSUME NEW j \in GroupKey, NEW b \in BOOLEAN
         PROVE  Balance(j, b)'
    <2>1. Balance(j, b)
      BY <1>1, CountsParts
    <2>2. UnderWay("count", j, b)' = UnderWay("count", j, b)
      BY <1>2, <1>3, <1>15 DEF UnderWay
    <2>3. Of(said.answered[j], b) \in Int
      BY <1>1, VerdictNumbers
    <2>4. CASE j = k /\ fp = b
      <3>1. UnderWay("resolve", j, b)' = UnderWay("resolve", j, b) \ {c} /\ c \in UnderWay("resolve", j, b)
        BY <1>2, <1>3, <1>4, <1>15, <2>4 DEF UnderWay
      <3>2. Of(said.answered[j], b)' = Of(said.answered[j], b) + 1
        BY <1>7, <1>9, <1>13, <2>4 DEF One
      <3>3. PICK V, r, a : V = UnderWay("resolve", j, b) /\ r = RowOf(fpr[j], b) /\ a = Of(said.answered[j], b)
        OBVIOUS
      <3>4. IsFiniteSet(V) /\ c \in V /\ r \in Int /\ a \in Int /\ a + Cardinality(V) <= r
        BY <2>1, <2>3, <3>1, <3>3 DEF Balance
      <3>5. IsFiniteSet(V \ {c}) /\ a + 1 + Cardinality(V \ {c}) <= r
        BY <3>4, Settled
      <3> QED
        BY <1>6, <1>12, <2>1, <2>2, <3>1, <3>2, <3>3, <3>5 DEF Balance
    <2>5. CASE ~(j = k /\ fp = b)
      <3>1. UnderWay("resolve", j, b)' = UnderWay("resolve", j, b)
        BY <1>2, <1>3, <1>4, <1>15, <2>5 DEF UnderWay
      <3>2. Of(said.answered[j], b)' = Of(said.answered[j], b)
        <4>1. CASE j = k
          <5>1. One(fp, b) = 0
            BY <2>5, <4>1 DEF One
          <5> QED
            BY <1>7, <1>9, <1>13, <2>3, <4>1, <5>1
        <4>2. CASE j # k
          BY <1>13, <4>2
        <4> QED
          BY <4>1, <4>2
      <3> QED
        BY <1>6, <1>12, <2>1, <2>2, <3>1, <3>2 DEF Balance
    <2> QED
      BY <2>4, <2>5
  <1>17. CountsInv'
    <2>1. \A j \in GroupKey : /\ said.answered[j].false <= said.answered[j].all
                              /\ said.sent[j].false <= said.sent[j].all
                              /\ fpr[j] # None => fpr[j].total > 0 /\ fpr[j].fpr = Ratio(fpr[j].fp, fpr[j].total)
      BY <1>1 DEF CountsInv
    <2>2. \A j \in GroupKey : said'.answered[j].false <= said'.answered[j].all
      BY <1>7, <1>9, <1>13, <2>1
    <2> QED
      BY <1>6, <1>12, <1>16, <2>1, <2>2 DEF CountsInv, Balance
  <1>18. \A j \in GroupKey :
             /\ said.answered[j].all <= said'.answered[j].all
             /\ said.sent[j].all - said.sent[j].false <= said'.sent[j].all - said'.sent[j].false
             /\ said'.sent[j].false = said'.sent[j].all => said.sent[j].false = said.sent[j].all
    <2> SUFFICES ASSUME NEW j \in GroupKey
                 PROVE  /\ said.answered[j].all <= said'.answered[j].all
                        /\ said.sent[j].all - said.sent[j].false <= said'.sent[j].all - said'.sent[j].false
                        /\ said'.sent[j].false = said'.sent[j].all => said.sent[j].false = said.sent[j].all
      OBVIOUS
    <2>1. said.answered[j].all \in Nat /\ said.sent[j].all \in Nat /\ said.sent[j].false \in Nat
      BY <1>1, VerdictNumbers
    <2> QED
      BY <1>7, <1>9, <1>12, <1>13, <2>1
  <1> QED
    BY <1>6, <1>14, <1>17, <1>18, IdleFacts, VerdictStep

-----------------------------------------------------------------------------
(***************************************************************************)
(* The theorems.                                                           *)
(***************************************************************************)
LEMMA InitConfig ==
    ASSUME Init
    PROVE  ConfigInv
  <1>1. /\ entries = {} /\ nextEntry = 1 /\ fpr = [k \in GroupKey |-> None]
        /\ req = [c \in Client |-> Idle] /\ said = [sent |-> NoVerdicts, answered |-> NoVerdicts]
    BY DEF Init
  <1>2. SeedDomain \in Domain
    BY ConfigurationAssumption
  <1>3. conf \in [Domain -> ConfRow \cup {None}]
    BY DEF Init, ConfRow, Rule
  <1>4. target \in [Target -> TargetRow \cup {None}]
    <2>1. PICK row : row = [domain |-> SeedDomain, enabled |-> TRUE, deleted |-> FALSE]
      OBVIOUS
    <2>2. row \in TargetRow
      BY <1>2, <2>1 DEF TargetRow
    <2>3. target = [t \in Target |-> None] \/ target = [t \in Target |-> row]
      BY <2>1 DEF Init
    <2> QED
      BY <2>2, <2>3
  <1>5. recs \subseteq GroupKey
    BY <1>2 DEF Init, GroupKey, RecordKey
  <1>6. NoVerdicts \in [GroupKey -> Verdicts]
    BY DEF NoVerdicts, Verdicts
  <1>7. TablesInv
    BY <1>1, <1>3, <1>4, <1>5, <1>6 DEF TablesInv, MaybeRate
  <1>8. \A c \in Client : req[c] = Idle
    BY <1>1
  <1>9. TypeInv
    BY <1>1, <1>7, <1>8, IdleFacts DEF TypeInv
  <1>10. RoundsInv
    <2>1. EntriesInv
      BY <1>1 DEF EntriesInv
    <2> QED
      BY <1>8, <2>1, IdleFacts DEF RoundsInv
  <1>11. CountsInv
    <2> SUFFICES ASSUME NEW k \in GroupKey, NEW b \in BOOLEAN
                 PROVE  /\ said.sent[k].false <= said.sent[k].all /\ said.answered[k].false <= said.answered[k].all
                        /\ fpr[k] = None /\ Balance(k, b)
      BY DEF CountsInv, Balance
    <2>1. UnderWay("count", k, b) = {} /\ UnderWay("resolve", k, b) = {}
      BY <1>8, IdleFacts DEF UnderWay
    <2>2. IsFiniteSet({}) /\ Cardinality({}) = 0
      BY FS_EmptySet
    <2>3. /\ said.sent[k].all = 0 /\ said.sent[k].false = 0
          /\ said.answered[k].all = 0 /\ said.answered[k].false = 0 /\ fpr[k] = None
      BY <1>1 DEF NoVerdicts
    <2>4. Of(said.sent[k], b) = 0 /\ Of(said.answered[k], b) = 0 /\ RowOf(fpr[k], b) = 0
      BY <2>3 DEF Of, RowOf, FpOf, TotalOf
    <2> QED
      BY <2>1, <2>2, <2>3, <2>4 DEF Balance
  <1> QED
    BY <1>8, <1>9, <1>10, <1>11, IdleFacts DEF ConfigInv, VerdictsInv

LEMMA NextKeeps ==
    ASSUME ConfigInv, [Next]_vars
    PROVE  ConfigInv'
  <1>1. CASE UNCHANGED vars
    BY <1>1, NothingSeen DEF vars
  <1>2. ASSUME NEW d \in Domain, NEW v \in Config, PutConfig(d, v) PROVE ConfigInv'
    BY <1>2, PutConfigKeeps
  <1>3. ASSUME NEW t \in Target PROVE
            /\ \A d \in Domain : CreateTarget(t, d) => ConfigInv'
            /\ \A d \in Domain, on \in BOOLEAN : UpdateTarget(t, d, on) => ConfigInv'
            /\ DeleteTarget(t) => ConfigInv'
    BY CreateTargetKeeps, UpdateTargetKeeps, DeleteTargetKeeps
  <1>4. CreateMaintenanceWindow => ConfigInv'
    BY InsertKeeps DEF CreateMaintenanceWindow
  <1>5. ASSUME NEW on \in BOOLEAN, CreateBlacklist(on) PROVE ConfigInv'
    BY <1>5, InsertKeeps DEF CreateBlacklist
  <1>6. ASSUME NEW e, UpdateMaintenanceWindow(e) \/ UpdateBlacklist(e) PROVE ConfigInv'
    BY <1>6, NothingSeen DEF UpdateMaintenanceWindow, UpdateBlacklist, Unmatched
  <1>7. ASSUME NEW e, DeleteMaintenanceWindow(e) \/ DeleteBlacklist(e) PROVE ConfigInv'
    BY <1>7, RemoveKeeps DEF DeleteMaintenanceWindow, DeleteBlacklist
  <1>8. ASSUME NEW c \in Client PROVE
            /\ GetConfig(c) => ConfigInv'
            /\ \A d \in Domain : DeleteConfig(c, d) => ConfigInv'
            /\ \A t \in Target : RunMonitor(c, t) => ConfigInv'
            /\ RunAlerts(c) => ConfigInv'
    BY GetConfigKeeps, DeleteConfigKeeps, RunMonitorKeeps, RunAlertsKeeps
  <1>9. ASSUME NEW c \in Client PROVE
            /\ LoadRows(c) => ConfigInv'
            /\ SeedRow(c) => ConfigInv'
            /\ Reload(c) => ConfigInv'
            /\ CheckRefs(c) => ConfigInv'
            /\ DropConfig(c) => ConfigInv'
    BY LoadRowsKeeps, SeedRowKeeps, ReloadKeeps, CheckRefsKeeps, DropConfigKeeps
  <1>10. ASSUME NEW c \in Client PROVE
            /\ LoadWindows(c) => ConfigInv'
            /\ LoadBlacklist(c) => ConfigInv'
            /\ LoadFpr(c) => ConfigInv'
            /\ Verify(c) => ConfigInv'
            /\ Emit(c) => ConfigInv'
    BY LoadWindowsKeeps, LoadBlacklistKeeps, LoadFprKeeps, VerifyKeeps, EmitKeeps
  <1>11. ASSUME NEW c \in Client PROVE
            /\ \A k \in recs, fp \in BOOLEAN : ResolveProblem(c, k, fp) => ConfigInv'
            /\ WriteFpr(c) => ConfigInv'
            /\ Resolve(c) => ConfigInv'
            /\ StoreFails(c) => ConfigInv'
    BY ResolveProblemKeeps, WriteFprKeeps, ResolveKeeps, StoreFailsKeeps
  <1> QED
    BY <1>1, <1>2, <1>3, <1>4, <1>5, <1>6, <1>7, <1>8, <1>9, <1>10, <1>11 DEF Next

LEMMA ConfigCorrect == Spec => []ConfigInv
  <1>1. Init => ConfigInv
    BY InitConfig
  <1>2. ConfigInv /\ [Next]_vars => ConfigInv'
    BY NextKeeps
  <1> QED
    BY <1>1, <1>2, PTL DEF Spec

\* build_context, pipeline/context.py: a round works with rules that its domain had since the
\* round began, with every window and entry that was in force all the while, and with none
\* that never was, for any number of requests that change them in between.
THEOREM ContextIsCurrent == Spec => []RoundReadsCurrent
  <1>1. ConfigInv => RoundReadsCurrent
    BY DEF ConfigInv, RoundsInv, SeesRules, SeesEntries, RoundReadsCurrent
  <1> QED
    BY <1>1, ConfigCorrect, PTL

\* write_fpr, storage/dynamic_config.py: the table counts every verdict answered and none that
\* was not sent, and the rate is their share, for any number of verdicts at the same time.
THEOREM VerdictsAreCounted == Spec => []NoVerdictLost
  <1>1. ConfigInv => NoVerdictLost
    <2> SUFFICES ASSUME ConfigInv, NEW k \in GroupKey
                 PROVE  LET row == IF fpr[k] = None THEN [fp |-> 0, total |-> 0] ELSE fpr[k]
                        IN  /\ said.answered[k].all <= row.total /\ row.total <= said.sent[k].all
                            /\ said.answered[k].false <= row.fp /\ row.fp <= said.sent[k].false
                            /\ fpr[k] # None => fpr[k].fpr = Ratio(row.fp, row.total)
      BY DEF NoVerdictLost
    <2> DEFINE row == IF fpr[k] = None THEN [fp |-> 0, total |-> 0] ELSE fpr[k]
    <2>1. row.fp = FpOf(fpr[k]) /\ row.total = TotalOf(fpr[k])
      BY DEF FpOf, TotalOf
    <2>2. /\ said.sent[k].all \in Nat /\ said.sent[k].false \in Nat
          /\ said.answered[k].all \in Nat /\ said.answered[k].false \in Nat
      BY VerdictNumbers DEF ConfigInv
    <2>3. /\ fpr[k] # None => fpr[k].fpr = Ratio(fpr[k].fp, fpr[k].total)
          /\ FpOf(fpr[k]) \in Nat /\ TotalOf(fpr[k]) \in Nat /\ FpOf(fpr[k]) <= TotalOf(fpr[k])
          /\ said.answered[k].false <= FpOf(fpr[k]) /\ FpOf(fpr[k]) <= said.sent[k].false
          /\ said.answered[k].all - said.answered[k].false <= TotalOf(fpr[k]) - FpOf(fpr[k])
          /\ TotalOf(fpr[k]) - FpOf(fpr[k]) <= said.sent[k].all - said.sent[k].false
      BY CountsFacts
    <2>4. said.answered[k].all <= TotalOf(fpr[k]) /\ TotalOf(fpr[k]) <= said.sent[k].all
      BY <2>2, <2>3
    <2>5. fpr[k] # None => row = fpr[k]
      OBVIOUS
    <2>6. /\ said.answered[k].all <= row.total /\ row.total <= said.sent[k].all
          /\ said.answered[k].false <= row.fp /\ row.fp <= said.sent[k].false
      BY <2>1, <2>3, <2>4
    <2>7. fpr[k] # None => fpr[k].fpr = Ratio(row.fp, row.total)
      BY <2>3, <2>5
    <2> QED
      BY <2>6, <2>7
  <1> QED
    BY <1>1, ConfigCorrect, PTL

\* l3_verify.py, fpr_ok: the round plays a problem down when min_samples verdicts on records of
\* the anomalies that persist were answered before it began and all are false positives, if
\* the representative service of the group is theirs; for any number of samples and services
\* and any threshold.
THEOREM GateReads == Spec => []GateReachesRound
  <1>1. ASSUME ConfigInv, NEW c \in Client, At(c, "emit"), NEW k, req[c].read = k,
               req[c].old >= MinSamples, said.sent[k].false = said.sent[k].all
        PROVE  req[c].severity = "warning"
    BY <1>1 DEF ConfigInv, VerdictsInv, GateInv, At
  <1>2. ConfigInv => GateReachesRound
    BY <1>1 DEF GateReachesRound
  <1> QED
    BY <1>2, ConfigCorrect, PTL
=============================================================================
