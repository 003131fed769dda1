--------------------------- MODULE DetectionFunnel --------------------------
(***************************************************************************)
(* The detection funnel of one domain (pipeline/runner.py, l3_verify.py,   *)
(* emit.py), its counters (storage/detection_state.py, PGDetectionState-   *)
(* Store) and the reconciler that closes recovered problems (reconcile.py).*)
(*                                                                         *)
(* Rounds of one domain may overlap: a manual run or an alert does not     *)
(* wait for the scheduler's round.  Every call of a store is a step of its *)
(* own, so anything may happen between the get and the upsert of a key,    *)
(* between two updates of a sweep and between the reads of the reconciler  *)
(* and its resolve.                                                        *)
(*                                                                         *)
(* Anomalies are metric anomalies, which group_anomalies puts together by  *)
(* service.  write_or_append is one step here; ProblemRecords models what  *)
(* happens inside it, and shows that the group key of an open record is    *)
(* unique and names the identities it lists: a record is its key.          *)
(* Counters saturate at the threshold they are compared with, which is all *)
(* the code tells apart.                                                   *)
(***************************************************************************)
EXTENDS Naturals, FiniteSets

CONSTANTS
    Anomaly,       \* identities of anomalies (fingerprint.anomaly_key)
    Services,      \* a partition of Anomaly: the metrics of each service
    Loads,         \* bound: the anomalies that may be present together
    PollSets,      \* what a round polls: the identities its targets can report
    Round,         \* rounds that may be under way at the same time
    MaxSamples,    \* bound: offending samples of one metric in a round
    Persistence,   \* verify.persistence_rounds
    ResolveAfter,  \* resolve_after_rounds
    MaxRecords,    \* bound: record numbers in use at the same time
    MayAbort,      \* whether a round may be cut short (crash, store error)
    MayClose,      \* whether people close records
    None           \* no row, no record

ASSUME FunnelAssumption ==
    /\ MaxSamples \in Nat \ {0}
    /\ Persistence \in Nat \ {0}
    /\ ResolveAfter \in Nat \ {0}
    /\ MaxRecords \in Nat
    /\ MayAbort \in BOOLEAN /\ MayClose \in BOOLEAN

ASSUME ServicesAssumption == UNION Services = Anomaly

ASSUME NoneAssumption ==
    None \notin 0..Persistence /\ None \notin Anomaly /\ None \notin [Anomaly -> 0..MaxSamples]

VARIABLES
    active,    \* environment: the anomalies present in the monitored system
    cnt,       \* detection_state.consecutive_rounds, None when there is no row
    miss,      \* detection_state.miss_rounds
    key,       \* per record number, the group key of the open record, or None
    run,       \* per round, the locals of run_domain
    recon,     \* the locals of reconcile_once
    appeared,  \* history: rounds in which an anomaly was verified
    steady     \* history: verified by a round and present ever since it collected

vars == <<active, cnt, miss, key, run, recon, appeared, steady>>

-----------------------------------------------------------------------------
Bag == [Anomaly -> 0..MaxSamples]

Keys(b) == {a \in Anomaly : b[a] > 0}

Ids == 1..MaxRecords

OpenIds == {i \in Ids : key[i] # None}

Saturate(n, top) == IF n < top THEN n ELSE top

Done == [pc |-> "idle"]

\* groups: the incidents still to handle; left: the anomalies of the current
\* one still to verify; fresh: what was collected and has not cleared since.
Running ==
    [pc : {"get", "upsert", "emit", "sweep", "miss"},
     groups : SUBSET Bag, group : Bag, left : Bag,
     at : Anomaly \cup {None}, read : 0..Persistence,
     persisted : SUBSET Anomaly, seen : SUBSET Anomaly,
     todo : SUBSET Anomaly, fresh : SUBSET Anomaly]

Locals == {Done} \cup Running

Empty == [a \in Anomaly |-> 0]

Init ==
    /\ active = {}
    /\ cnt = [a \in Anomaly |-> None]
    /\ miss = [a \in Anomaly |-> 0]
    /\ key = [i \in Ids |-> None]
    /\ run = [r \in Round |-> Done]
    /\ recon = [pc |-> "idle", recs |-> {}, at |-> None]
    /\ appeared = [a \in Anomaly |-> 0]
    /\ steady = {}

-----------------------------------------------------------------------------
(***************************************************************************)
(* Environment: an anomaly begins, or clears.                              *)
(***************************************************************************)
Begin(a) ==
    /\ a \notin active /\ active \cup {a} \in Loads
    /\ active' = active \cup {a}
    /\ UNCHANGED <<cnt, miss, key, run, recon, appeared, steady>>

Clear(a) ==
    /\ a \in active /\ active \ {a} \in Loads
    /\ active' = active \ {a}
    /\ steady' = steady \ {a}
    /\ run' = [r \in Round |-> IF run[r] = Done THEN Done
                               ELSE [run[r] EXCEPT !.fresh = @ \ {a}]]
    /\ UNCHANGED <<cnt, miss, key, recon, appeared>>

-----------------------------------------------------------------------------
(***************************************************************************)
(* A round.                                                                *)
(***************************************************************************)
\* What l1_detect makes of the samples of the polled targets: an anomaly for
\* every offending sample, and nothing of the targets that were not polled or
\* did not answer.
Detected(P) == {b \in Bag : Keys(b) = active \cap P}

\* group_anomalies: the anomalies of a service are one incident.
GroupAnomalies(b) ==
    {[a \in Anomaly |-> IF a \in s THEN b[a] ELSE 0] :
        s \in {t \in Services : t \cap Keys(b) # {}}}

\* The head of the loop over the groups: the next one, or the sweep.
Proceed(r, l) ==
    \/ /\ l.groups = {}
       /\ run' = [run EXCEPT ![r] = [l EXCEPT !.pc = "sweep", !.group = Empty,
                                              !.left = Empty, !.persisted = {}]]
    \/ \E g \in l.groups :
         run' = [run EXCEPT ![r] = [l EXCEPT !.pc = "get", !.groups = @ \ {g},
                                             !.group = g, !.left = g, !.persisted = {}]]

\* collect, l0_suppress, l1_detect and group_anomalies.
Collect(r, P) ==
    /\ run[r] = Done
    /\ \E b \in Detected(P) :
         Proceed(r, [pc |-> "get", groups |-> GroupAnomalies(b), group |-> Empty,
                     left |-> Empty, at |-> None, read |-> 0, persisted |-> {},
                     seen |-> {}, todo |-> {}, fresh |-> Keys(b)])
    /\ UNCHANGED <<active, cnt, miss, key, recon, appeared, steady>>

\* Faulty: the count of an earlier round is not found again.
GetNothing(r) ==
    /\ run[r].pc = "get"
    /\ \E a \in Keys(run[r].left) :
         run' = [run EXCEPT ![r].pc = "upsert", ![r].at = a, ![r].seen = @ \cup {a},
                            ![r].read = 0]
    /\ UNCHANGED <<active, cnt, miss, key, recon, appeared, steady>>

\* l3_verify: state_store.get for the next anomaly of the group.
Get(r) ==
    /\ run[r].pc = "get"
    /\ \E a \in Keys(run[r].left) :
         run' = [run EXCEPT ![r].pc = "upsert", ![r].at = a,
                            ![r].seen = @ \cup {a},
                            ![r].read = IF cnt[a] = None THEN 0 ELSE cnt[a]]
    /\ UNCHANGED <<active, cnt, miss, key, recon, appeared, steady>>

\* Faulty: the gate opens one round early.
VerifiedEarly(r, a, n) ==
    [run[r] EXCEPT !.persisted = IF n + 1 >= Persistence THEN @ \cup {a} ELSE @,
                   !.left = [run[r].left EXCEPT ![a] = @ - 1],
                   !.at = None, !.read = 0]

\* The locals of round r once it has upserted the count n for anomaly a.
Verified(r, a, n) ==
    [run[r] EXCEPT !.persisted = IF n >= Persistence THEN @ \cup {a} ELSE @,
                   !.left = [run[r].left EXCEPT ![a] = @ - 1],
                   !.at = None, !.read = 0]

\* l3_verify: increment first, then upsert what was computed from the read.
\* A group none of whose anomalies persists is not emitted.
Upsert(r) ==
    /\ run[r].pc = "upsert"
    /\ LET a == run[r].at
           n == Saturate(run[r].read + 1, Persistence)
           l == Verified(r, a, n)
       IN  /\ cnt' = [cnt EXCEPT ![a] = n]
           /\ miss' = [miss EXCEPT ![a] = 0]
           /\ appeared' = [appeared EXCEPT ![a] =
                IF run[r].left[a] = run[r].group[a] THEN Saturate(@ + 1, Persistence) ELSE @]
           /\ steady' = IF a \in run[r].fresh THEN steady \cup {a} ELSE steady
           /\ \/ /\ Keys(l.left) # {}
                 /\ run' = [run EXCEPT ![r] = [l EXCEPT !.pc = "get"]]
              \/ /\ Keys(l.left) = {} /\ l.persisted # {}
                 /\ run' = [run EXCEPT ![r] = [l EXCEPT !.pc = "emit"]]
              \/ /\ Keys(l.left) = {} /\ l.persisted = {}
                 /\ Proceed(r, l)
    /\ UNCHANGED <<active, key, recon>>

\* The open records write_or_append would grow: the largest of those whose
\* identities are a strict subset of the group's.
Candidates(b) ==
    LET sub == {i \in OpenIds : Keys(key[i]) \subseteq Keys(b) /\ Keys(key[i]) # Keys(b)}
    IN  {i \in sub : \A j \in sub : Cardinality(Keys(key[j])) <= Cardinality(Keys(key[i]))}

\* A record number nobody has in hand.
Unused == {i \in Ids : key[i] = None /\ \A p \in recon.recs : p[1] # i}

\* emit and write_or_append of the whole group, persisted or not.  A merge
\* whose key another open record has raises: run_domain is left, unswept.
Emit(r) ==
    /\ run[r].pc = "emit"
    /\ LET b == run[r].group
           hit == {i \in OpenIds : key[i] = b}
       IN  \/ \E i \in Candidates(b) :
                /\ hit = {}
                /\ key' = [key EXCEPT ![i] = b]
                /\ Proceed(r, run[r])
           \/ /\ Candidates(b) # {} /\ hit # {}
              /\ run' = [run EXCEPT ![r] = Done]
              /\ UNCHANGED key
           \/ /\ Candidates(b) = {} /\ hit # {}
              /\ Proceed(r, run[r])
              /\ UNCHANGED key
           \/ /\ Candidates(b) = {} /\ hit = {}
              /\ \E i \in Unused :
                   /\ \A j \in Unused : i <= j
                   /\ key' = [key EXCEPT ![i] = b]
              /\ Proceed(r, run[r])
    /\ UNCHANGED <<active, cnt, miss, recon, appeared, steady>>

\* Faulty: the keys the round has seen are swept too.
SweepSelectAll(r) ==
    /\ run[r].pc = "sweep"
    /\ LET known == {a \in Anomaly : cnt[a] # None}
       IN  run' = [run EXCEPT ![r] =
                IF known = {} THEN Done ELSE [run[r] EXCEPT !.pc = "miss", !.todo = known]]
    /\ UNCHANGED <<active, cnt, miss, key, recon, appeared, steady>>

\* sweep: the SELECT of the keys of the domain.
SweepSelect(r) ==
    /\ run[r].pc = "sweep"
    /\ LET absent == {a \in Anomaly : cnt[a] # None} \ run[r].seen
       IN  run' = [run EXCEPT ![r] =
                IF absent = {} THEN Done ELSE [run[r] EXCEPT !.pc = "miss", !.todo = absent]]
    /\ UNCHANGED <<active, cnt, miss, key, recon, appeared, steady>>

\* Faulty: jsonb_set with a path of another database writes a field nobody reads.
SweepMissElsewhere(r) ==
    /\ run[r].pc = "miss"
    /\ \E a \in run[r].todo :
         run' = [run EXCEPT ![r] =
                IF run[r].todo = {a} THEN Done ELSE [run[r] EXCEPT !.todo = @ \ {a}]]
    /\ UNCHANGED <<active, cnt, miss, key, recon, appeared, steady>>

\* sweep: the UPDATE of one key that was not seen.
SweepMiss(r) ==
    /\ run[r].pc = "miss"
    /\ \E a \in run[r].todo :
         /\ miss' = [miss EXCEPT ![a] = Saturate(@ + 1, ResolveAfter)]
         /\ run' = [run EXCEPT ![r] =
                IF run[r].todo = {a} THEN Done ELSE [run[r] EXCEPT !.todo = @ \ {a}]]
    /\ UNCHANGED <<active, cnt, key, recon, appeared, steady>>

\* The process dies, or a store call raises: the rest of the round is lost.
Abort(r) ==
    /\ MayAbort
    /\ run[r] # Done
    /\ run' = [run EXCEPT ![r] = Done]
    /\ UNCHANGED <<active, cnt, miss, key, recon, appeared, steady>>

-----------------------------------------------------------------------------
(***************************************************************************)
(* Closing.                                                                *)
(***************************************************************************)
\* A person closes an open record.
HumanClose(i) ==
    /\ MayClose
    /\ key[i] # None
    /\ key' = [key EXCEPT ![i] = None]
    /\ UNCHANGED <<active, cnt, miss, run, recon, appeared, steady>>

\* reconcile_once: the list of open records with their identities.
ReconList ==
    /\ recon.pc = "idle"
    /\ OpenIds # {}
    /\ recon' = [pc |-> "check", recs |-> {<<i, Keys(key[i])>> : i \in OpenIds}, at |-> None]
    /\ UNCHANGED <<active, cnt, miss, key, run, appeared, steady>>

\* The locals of the reconciler when it is through with record p.
Skip(p) ==
    [pc |-> IF recon.recs = {p} THEN "idle" ELSE "check", recs |-> recon.recs \ {p}, at |-> None]

Stale(ks) == \A a \in ks : miss[a] >= ResolveAfter

\* reconcile_once: list_by_domain, and the test of the record's identities.
ReconCheck ==
    /\ recon.pc = "check"
    /\ \E p \in recon.recs :
         recon' = IF Stale(p[2]) THEN [recon EXCEPT !.pc = "resolve", !.at = p] ELSE Skip(p)
    /\ UNCHANGED <<active, cnt, miss, key, run, appeared, steady>>

\* reconcile_once: resolve, whatever became of the record in between.
ReconResolve ==
    /\ recon.pc = "resolve"
    /\ key' = [key EXCEPT ![recon.at[1]] = None]
    /\ recon' = Skip(recon.at)
    /\ UNCHANGED <<active, cnt, miss, run, appeared, steady>>

Work(r) ==
    \/ \E P \in PollSets : Collect(r, P)
    \/ Get(r) \/ Upsert(r) \/ Emit(r) \/ SweepSelect(r) \/ SweepMiss(r)

Reconcile == ReconList \/ ReconCheck \/ ReconResolve

Next ==
    \/ \E a \in Anomaly : Begin(a) \/ Clear(a)
    \/ \E r \in Round, P \in PollSets : Collect(r, P)
    \/ \E r \in Round : Get(r)
    \/ \E r \in Round : Upsert(r)
    \/ \E r \in Round : Emit(r)
    \/ \E r \in Round : SweepSelect(r)
    \/ \E r \in Round : SweepMiss(r)
    \/ \E r \in Round : Abort(r)
    \/ \E i \in Ids : HumanClose(i)
    \/ ReconList \/ ReconCheck \/ ReconResolve

Spec == Init /\ [][Next]_vars

\* The scheduler keeps running rounds and the reconciler keeps running: both
\* loops are restarted by _supervise.
FairSpec == Spec /\ WF_vars(Reconcile) /\ \A r \in Round : WF_vars(Work(r))

-----------------------------------------------------------------------------
(***************************************************************************)
(* Properties.                                                             *)
(***************************************************************************)
TypeOK ==
    /\ active \subseteq Anomaly
    /\ cnt \in [Anomaly -> 0..Persistence \cup {None}]
    /\ miss \in [Anomaly -> 0..ResolveAfter]
    /\ key \in [Ids -> Bag \cup {None}]
    /\ run \in [Round -> Locals]
    /\ recon \in [pc : {"idle", "check", "resolve"}, recs : SUBSET (Ids \X SUBSET Anomaly),
                  at : (Ids \X SUBSET Anomaly) \cup {None}]
    /\ appeared \in [Anomaly -> 0..Persistence]
    /\ steady \subseteq Anomaly

\* l3_verify.py:3-5, "reaches persistence_rounds in the rounds it appeared
\* in": a record is open only if one of its anomalies appeared in that many
\* rounds, however the rounds overlap.
PersistenceGate ==
    \A i \in OpenIds : \E a \in Keys(key[i]) : appeared[a] >= Persistence

\* grouping.py:26-27 names the hazard: an anomaly that a round has verified
\* and that is still there must not look recovered to the reconciler.
LiveNotStale == \A a \in steady : miss[a] < ResolveAfter

\* records.py:479-481: what is present of a service is an open record, and so is a strict
\* subset of it.  The merge of the one into the other raises, in every round, and
\* run_domain is left without handling the other groups and without its sweep.
Jammed ==
    \E s \in Services : \E i, j \in OpenIds :
        /\ Keys(key[i]) = active \cap s
        /\ Keys(key[j]) \subseteq Keys(key[i]) /\ Keys(key[j]) # Keys(key[i])

\* A problem all of whose anomalies are gone is closed in the end, unless one of them comes
\* back (UC-6.7) or the rounds of the domain keep raising.
RecoveredIsClosed ==
    \A i \in Ids :
        (key[i] # None /\ Keys(key[i]) \cap active = {}) ~>
            (key[i] = None \/ Keys(key[i]) \cap active # {} \/ Jammed)

\* An anomaly that stays has an open record again and again, whoever closes it, unless the
\* rounds of the domain keep raising.
LastingIsRecorded ==
    \A a \in Anomaly : []<>(a \notin active \/ (\E i \in OpenIds : a \in Keys(key[i])) \/ Jammed)

-----------------------------------------------------------------------------
(***************************************************************************)
(* Claims of the documentation that the code does not keep; README.md says *)
(* for which constants TLC refutes them.                                   *)
(***************************************************************************)
\* reconcile.py:6, "not closed while a key is still active": the reconciler
\* never closes a record that lists an anomaly still present.
LiveNotClosed ==
    [][\A i \in Ids : recon.pc = "resolve" /\ recon' # recon /\ recon.at[1] = i /\ key[i] # None
            => Keys(key[i]) \cap steady = {}]_vars

\* reconcile.py:1-5 as it stands: a recovered problem is closed, whatever happens to the rest
\* of its domain.
RecoveredIsAlwaysClosed ==
    \A i \in Ids :
        (key[i] # None /\ Keys(key[i]) \cap active = {}) ~>
            (key[i] = None \/ Keys(key[i]) \cap active # {})

\* l3_verify.py:40-43: the key under which a round reads the false-positive
\* rate is the key of the record it emits, under which people write it.
FprKeyAgrees ==
    \A r \in Round : run[r].pc = "emit" => run[r].persisted = Keys(run[r].group)
=============================================================================
