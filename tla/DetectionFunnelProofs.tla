----------------------- MODULE DetectionFunnelProofs ------------------------
(***************************************************************************)
(* Proofs about DetectionFunnel: its types, and the persistence gate for   *)
(* any number of overlapping rounds, any set of anomalies and any          *)
(* partition into services, provided a round reports an anomaly once.      *)
(*                                                                         *)
(* The gate is not inductive.  What is: a stored count never exceeds the   *)
(* number of rounds the anomaly appeared in (CountsHonest), and neither    *)
(* does a count that a round has read and is about to increment, although  *)
(* the stored one may have moved either way since (ReadsHonest).           *)
(*                                                                         *)
(* At the end, that an anomaly which is still there never looks recovered: *)
(* its misses and the rounds that may still add one stay below the limit   *)
(* of the reconciler (StaleInv).                                           *)
(***************************************************************************)
EXTENDS DetectionFunnel, TLAPS, FiniteSetTheorems

CountsHonest == \A a \in Anomaly : cnt[a] # None => cnt[a] <= appeared[a]

\* What holds of the locals of a round under way.
RoundHonest(l, app) ==
    /\ \A a \in Anomaly : l.left[a] <= l.group[a]
    /\ \A a \in l.persisted : l.group[a] > 0 /\ app[a] >= Persistence
    /\ l.pc = "upsert" => l.at \in Anomaly /\ l.left[l.at] > 0 /\ l.read <= app[l.at]
    /\ l.pc = "emit" => l.persisted # {}

ReadsHonest == \A r \in Round : run[r] # Done => RoundHonest(run[r], appeared)

GateInv == TypeOK /\ CountsHonest /\ ReadsHonest /\ PersistenceGate

-----------------------------------------------------------------------------
\* The fields of the locals of a round under way.
LEMMA RunningFields ==
    ASSUME NEW l \in Running
    PROVE  /\ l.pc \in {"get", "upsert", "emit", "sweep", "miss"}
           /\ l.groups \in SUBSET Bag /\ l.group \in Bag /\ l.left \in Bag
           /\ l.at \in Anomaly \cup {None} /\ l.read \in 0..Persistence
           /\ l.persisted \in SUBSET Anomaly /\ l.seen \in SUBSET Anomaly
           /\ l.todo \in SUBSET Anomaly /\ l.fresh \in SUBSET Anomaly
           /\ l # Done
<1>1. l.pc # "idle" BY DEF Running
<1>2. l # Done BY <1>1 DEF Done
<1> QED BY <1>2 DEF Running

\* A saturating increment stays in range, and is monotone.
LEMMA SaturateFacts ==
    ASSUME NEW top \in Nat \ {0}, NEW m \in 0..top, NEW n \in 0..top, m <= n
    PROVE  /\ Saturate(m + 1, top) \in 0..top
           /\ Saturate(m + 1, top) <= Saturate(n + 1, top)
           /\ Saturate(n + 1, top) >= n
BY DEF Saturate

LEMMA EmptyBag == Empty \in Bag /\ \A a \in Anomaly : Empty[a] = 0
BY FunnelAssumption DEF Empty, Bag

\* What the head of the loop over the groups does.
LEMMA ProceedFacts ==
    ASSUME NEW r \in Round, NEW l \in Running, run \in [Round -> Locals], Proceed(r, l)
    PROVE  /\ run' \in [Round -> Locals]
           /\ \A q \in Round : q # r => run'[q] = run[q]
           /\ run'[r] \in Running
           /\ run'[r].pc \in {"get", "sweep"} /\ run'[r].persisted = {}
           /\ run'[r].left = run'[r].group
<1>f. /\ l.groups \in SUBSET Bag /\ l.at \in Anomaly \cup {None}
      /\ l.read \in 0..Persistence /\ l.seen \in SUBSET Anomaly
      /\ l.todo \in SUBSET Anomaly /\ l.fresh \in SUBSET Anomaly
  BY RunningFields
<1>1. CASE l.groups = {} /\ run' = [run EXCEPT ![r] = [l EXCEPT !.pc = "sweep", !.group = Empty,
                                              !.left = Empty, !.persisted = {}]]
  <2> DEFINE m == [l EXCEPT !.pc = "sweep", !.group = Empty, !.left = Empty, !.persisted = {}]
  <2>1. /\ m \in Running /\ m.pc = "sweep" /\ m.persisted = {} /\ m.left = m.group
    BY <1>f, EmptyBag DEF Running
  <2>2. run' = [run EXCEPT ![r] = m] BY <1>1
  <2> HIDE DEF m
  <2> QED BY <2>1, <2>2 DEF Locals
<1>2. CASE \E g \in l.groups :
             run' = [run EXCEPT ![r] = [l EXCEPT !.pc = "get", !.groups = @ \ {g},
                                             !.group = g, !.left = g, !.persisted = {}]]
  <2>0. PICK g \in l.groups :
             run' = [run EXCEPT ![r] = [l EXCEPT !.pc = "get", !.groups = @ \ {g},
                                             !.group = g, !.left = g, !.persisted = {}]]
    BY <1>2
  <2> DEFINE m == [l EXCEPT !.pc = "get", !.groups = @ \ {g},
                                             !.group = g, !.left = g, !.persisted = {}]
  <2>1. /\ m \in Running /\ m.pc = "get" /\ m.persisted = {} /\ m.left = m.group
    BY <1>f DEF Running
  <2>2. run' = [run EXCEPT ![r] = m] BY <2>0
  <2> HIDE DEF m
  <2> QED BY <2>1, <2>2 DEF Locals
<1> QED BY <1>1, <1>2 DEF Proceed

-----------------------------------------------------------------------------
\* What a step that changes at most the locals of one round has to establish.
LEMMA LocalStep ==
    ASSUME GateInv, NEW r \in Round, run' \in [Round -> Locals], appeared' = appeared,
           \A q \in Round : q # r => run'[q] = run[q],
           run'[r] # Done => RoundHonest(run'[r], appeared)
    PROVE  ReadsHonest'
<1> SUFFICES ASSUME NEW q \in Round, run'[q] # Done PROVE RoundHonest(run'[q], appeared')
  BY DEF ReadsHonest
<1>1. RoundHonest(run'[q], appeared)
  <2>1. CASE q = r BY <2>1
  <2>2. CASE q # r
    <3>1. run'[q] = run[q] BY <2>2
    <3>2. RoundHonest(run[q], appeared) BY <3>1 DEF GateInv, ReadsHonest
    <3> QED BY <3>1, <3>2
  <2> QED BY <2>1, <2>2
<1> QED BY <1>1 DEF RoundHonest

\* Everything but the locals of the rounds is as before.
LEMMA Frame ==
    ASSUME GateInv, run' \in [Round -> Locals], ReadsHonest',
           UNCHANGED <<active, cnt, miss, key, recon, appeared, steady>>
    PROVE  GateInv'
BY DEF GateInv, TypeOK, CountsHonest, PersistenceGate, OpenIds, Keys

\* A round that has just proceeded to its next group is honest.
LEMMA ProceedHonest ==
    ASSUME NEW l \in Running, l.pc \in {"get", "sweep"}, l.persisted = {}, l.left = l.group
    PROVE  RoundHonest(l, appeared)
<1>1. l.group \in Bag BY RunningFields
<1>2. \A a \in Anomaly : l.left[a] <= l.group[a] BY <1>1, FunnelAssumption DEF Bag
<1> QED BY <1>2 DEF RoundHonest

LEMMA InitGate ==
    ASSUME Init PROVE GateInv
<1> USE FunnelAssumption, NoneAssumption DEF Init
<1>1. TypeOK
  <2>1. run \in [Round -> Locals] BY DEF Locals
  <2>2. appeared \in [Anomaly -> 0..Persistence] /\ miss \in [Anomaly -> 0..ResolveAfter] OBVIOUS
  <2>3. recon \in [pc : {"idle", "check", "resolve"}, recs : SUBSET (Ids \X SUBSET Anomaly),
                   at : (Ids \X SUBSET Anomaly) \cup {None}]
    OBVIOUS
  <2> QED BY <2>1, <2>2, <2>3 DEF TypeOK
<1>2. CountsHonest /\ ReadsHonest BY DEF CountsHonest, ReadsHonest
<1>3. PersistenceGate BY DEF PersistenceGate, OpenIds
<1> QED BY <1>1, <1>2, <1>3 DEF GateInv

LEMMA CollectGate ==
    ASSUME GateInv, NEW r \in Round, NEW P \in PollSets, Collect(r, P)
    PROVE  GateInv'
<1>1. PICK b \in Detected(P) :
         Proceed(r, [pc |-> "get", groups |-> GroupAnomalies(b), group |-> Empty,
                     left |-> Empty, at |-> None, read |-> 0, persisted |-> {},
                     seen |-> {}, todo |-> {}, fresh |-> Keys(b)])
  BY DEF Collect
<1>2. GroupAnomalies(b) \in SUBSET Bag
  <2>1. b \in [Anomaly -> 0..MaxSamples] BY DEF Detected, Bag
  <2>2. \A t : [a \in Anomaly |-> IF a \in t THEN b[a] ELSE 0] \in [Anomaly -> 0..MaxSamples]
    BY <2>1, FunnelAssumption
  <2> QED BY <2>2 DEF GroupAnomalies, Bag
<1> DEFINE l == [pc |-> "get", groups |-> GroupAnomalies(b), group |-> Empty,
                 left |-> Empty, at |-> None, read |-> 0, persisted |-> {},
                 seen |-> {}, todo |-> {}, fresh |-> Keys(b)]
<1>3. l \in Running BY <1>2, EmptyBag, FunnelAssumption DEF Running, Keys
<1>4. Proceed(r, l) BY <1>1
<1> HIDE DEF l
<1>5. run \in [Round -> Locals] BY DEF GateInv, TypeOK
<1>6. RoundHonest(run'[r], appeared) BY <1>3, <1>4, <1>5, ProceedFacts, ProceedHonest
<1>7. UNCHANGED <<active, cnt, miss, key, recon, appeared, steady>> BY DEF Collect
<1>8. ReadsHonest' BY <1>3, <1>4, <1>5, <1>6, <1>7, ProceedFacts, LocalStep
<1> QED BY <1>3, <1>4, <1>5, <1>7, <1>8, ProceedFacts, Frame

\* A round under way is one whose locals are a record of Running.
LEMMA UnderWay ==
    ASSUME GateInv, NEW r \in Round, run[r].pc # "idle"
    PROVE  run[r] \in Running /\ run[r] # Done /\ RoundHonest(run[r], appeared) /\ run \in [Round -> Locals]
<1>1. run \in [Round -> Locals] BY DEF GateInv, TypeOK
<1>2. run[r] # Done BY DEF Done
<1> QED BY <1>1, <1>2 DEF Locals, GateInv, ReadsHonest

LEMMA GetGate ==
    ASSUME GateInv, NEW r \in Round, Get(r)
    PROVE  GateInv'
<1>1. run[r].pc = "get" BY DEF Get
<1>2. run[r] \in Running /\ RoundHonest(run[r], appeared) /\ run \in [Round -> Locals] BY <1>1, UnderWay
<1>3. PICK a \in Keys(run[r].left) :
         run' = [run EXCEPT ![r].pc = "upsert", ![r].at = a, ![r].seen = @ \cup {a},
                            ![r].read = IF cnt[a] = None THEN 0 ELSE cnt[a]]
  BY DEF Get
<1>4. a \in Anomaly /\ run[r].left[a] > 0 BY DEF Keys
<1> DEFINE n == IF cnt[a] = None THEN 0 ELSE cnt[a]
           m == [run[r] EXCEPT !.pc = "upsert", !.at = a, !.seen = @ \cup {a}, !.read = n]
<1>5. n \in 0..Persistence /\ n <= appeared[a]
  BY <1>4, FunnelAssumption DEF GateInv, TypeOK, CountsHonest
<1>6. run' = [run EXCEPT ![r] = m] BY <1>2, <1>3
<1> HIDE DEF n
<1>7. /\ run[r].groups \in SUBSET Bag /\ run[r].group \in Bag /\ run[r].left \in Bag
      /\ run[r].persisted \in SUBSET Anomaly /\ run[r].seen \in SUBSET Anomaly
      /\ run[r].todo \in SUBSET Anomaly /\ run[r].fresh \in SUBSET Anomaly
  BY <1>2, RunningFields
<1>8. /\ m \in Running /\ m.pc = "upsert" /\ m.at = a /\ m.read = n /\ m.left = run[r].left
      /\ m.group = run[r].group /\ m.persisted = run[r].persisted
  BY <1>2, <1>4, <1>5, <1>7 DEF Running
<1> HIDE DEF m
<1>9. RoundHonest(m, appeared) BY <1>2, <1>4, <1>5, <1>8 DEF RoundHonest
<1>10. run' \in [Round -> Locals] /\ run'[r] = m /\ \A q \in Round : q # r => run'[q] = run[q]
  BY <1>2, <1>6, <1>8 DEF Locals
<1>11. UNCHANGED <<active, cnt, miss, key, recon, appeared, steady>> BY DEF Get
<1>12. ReadsHonest' BY <1>9, <1>10, <1>11, LocalStep
<1> QED BY <1>10, <1>11, <1>12, Frame

\* The counters after the upsert of anomaly a by a round that read an honest
\* count: still honest, and no appearance is forgotten.
LEMMA UpsertCounts ==
    ASSUME MaxSamples = 1, GateInv, NEW r \in Round, Upsert(r)
    PROVE  LET a == run[r].at
               n == Saturate(run[r].read + 1, Persistence)
           IN  /\ a \in Anomaly /\ run[r].group[a] > 0 /\ run[r].left[a] = 1
               /\ n \in 0..Persistence /\ n <= appeared'[a]
               /\ cnt' \in [Anomaly -> 0..Persistence \cup {None}]
               /\ appeared' \in [Anomaly -> 0..Persistence]
               /\ \A x \in Anomaly : appeared'[x] >= appeared[x]
               /\ CountsHonest'
<1> DEFINE a == run[r].at
           n == Saturate(run[r].read + 1, Persistence)
<1>1. run[r].pc = "upsert" BY DEF Upsert
<1>2. run[r] \in Running /\ RoundHonest(run[r], appeared) BY <1>1, UnderWay
<1>3. a \in Anomaly /\ run[r].left[a] > 0 /\ run[r].left[a] <= run[r].group[a] /\ run[r].read <= appeared[a]
  BY <1>1, <1>2 DEF RoundHonest
<1>4. run[r].left[a] \in 0..1 /\ run[r].group[a] \in 0..1 /\ run[r].read \in 0..Persistence
  BY <1>2, <1>3, RunningFields DEF Bag
<1>5. run[r].left[a] = 1 /\ run[r].group[a] = 1 BY <1>3, <1>4
<1>6. appeared \in [Anomaly -> 0..Persistence] /\ cnt \in [Anomaly -> 0..Persistence \cup {None}]
  BY DEF GateInv, TypeOK
<1>7. cnt' = [cnt EXCEPT ![a] = n] BY DEF Upsert
<1>8. appeared' = [appeared EXCEPT ![a] = Saturate(@ + 1, Persistence)]
  BY <1>5 DEF Upsert
<1>9. /\ n \in 0..Persistence /\ n <= Saturate(appeared[a] + 1, Persistence)
      /\ Saturate(appeared[a] + 1, Persistence) \in 0..Persistence
      /\ Saturate(appeared[a] + 1, Persistence) >= appeared[a]
  <2>1. Persistence \in Nat \ {0} BY FunnelAssumption
  <2>2. appeared[a] \in 0..Persistence BY <1>3, <1>6
  <2>3. run[r].read \in 0..Persistence /\ run[r].read <= appeared[a] BY <1>3, <1>4
  <2> HIDE DEF a
  <2> QED BY <2>1, <2>2, <2>3, SaturateFacts
<1> HIDE DEF n
<1>10. appeared' \in [Anomaly -> 0..Persistence] /\ appeared'[a] = Saturate(appeared[a] + 1, Persistence)
       /\ \A x \in Anomaly : x # a => appeared'[x] = appeared[x]
  BY <1>3, <1>6, <1>8, <1>9
<1>11. \A x \in Anomaly : appeared'[x] >= appeared[x] BY <1>6, <1>9, <1>10
<1>12. cnt' \in [Anomaly -> 0..Persistence \cup {None}] BY <1>6, <1>7, <1>9
<1>13. CountsHonest'
  <2>1. \A x \in Anomaly : x # a => cnt'[x] = cnt[x] BY <1>6, <1>7
  <2>2. cnt'[a] = n BY <1>3, <1>6, <1>7
  <2> QED BY <1>9, <1>10, <2>1, <2>2 DEF CountsHonest, GateInv
<1> QED BY <1>3, <1>5, <1>9, <1>10, <1>11, <1>12, <1>13 DEF n

\* Honesty survives further appearances.
LEMMA HonestGrows ==
    ASSUME GateInv, NEW l \in Running, RoundHonest(l, appeared),
           appeared' \in [Anomaly -> 0..Persistence],
           \A x \in Anomaly : appeared'[x] >= appeared[x]
    PROVE  RoundHonest(l, appeared')
<1>1. appeared \in [Anomaly -> 0..Persistence] BY DEF GateInv, TypeOK
<1>2. l.persisted \in SUBSET Anomaly /\ l.read \in 0..Persistence BY RunningFields
<1>3. \A x \in l.persisted : appeared'[x] >= Persistence
  BY <1>1, <1>2, FunnelAssumption DEF RoundHonest
<1>4. l.pc = "upsert" => l.read <= appeared'[l.at]
  BY <1>1, <1>2 DEF RoundHonest
<1> QED BY <1>3, <1>4 DEF RoundHonest

LEMMA UpsertGate ==
    ASSUME MaxSamples = 1, GateInv, NEW r \in Round, Upsert(r)
    PROVE  GateInv'
<1> DEFINE a == run[r].at
           n == Saturate(run[r].read + 1, Persistence)
           l == Verified(r, a, n)
<1>1. run[r].pc = "upsert" BY DEF Upsert
<1>2. run[r] \in Running /\ RoundHonest(run[r], appeared) /\ run \in [Round -> Locals]
  BY <1>1, UnderWay
<1>3. /\ a \in Anomaly /\ run[r].group[a] > 0 /\ run[r].left[a] = 1
      /\ n \in 0..Persistence /\ n <= appeared'[a]
      /\ cnt' \in [Anomaly -> 0..Persistence \cup {None}]
      /\ appeared' \in [Anomaly -> 0..Persistence]
      /\ \A x \in Anomaly : appeared'[x] >= appeared[x]
      /\ CountsHonest'
  BY UpsertCounts
<1>4. RoundHonest(run[r], appeared') BY <1>2, <1>3, HonestGrows
<1> HIDE DEF n, a
\* The new locals, whatever their pc becomes.
<1> DEFINE kept == IF n >= Persistence THEN run[r].persisted \cup {a} ELSE run[r].persisted
           rest == [run[r].left EXCEPT ![a] = @ - 1]
<1>5. /\ run[r].groups \in SUBSET Bag /\ run[r].group \in Bag /\ run[r].left \in Bag
      /\ run[r].persisted \in SUBSET Anomaly /\ run[r].seen \in SUBSET Anomaly
      /\ run[r].todo \in SUBSET Anomaly /\ run[r].fresh \in SUBSET Anomaly
  BY <1>2, RunningFields
<1>6. rest \in Bag /\ \A x \in Anomaly : rest[x] <= run[r].group[x]
  <2>1. run[r].left \in [Anomaly -> 0..1] /\ run[r].group \in [Anomaly -> 0..1] BY <1>5 DEF Bag
  <2>2. rest \in [Anomaly -> 0..1] BY <1>3, <2>1
  <2>3. \A x \in Anomaly : rest[x] <= run[r].left[x] BY <1>3, <2>1
  <2> QED BY <1>2, <2>1, <2>2, <2>3 DEF Bag, RoundHonest
<1>7. kept \in SUBSET Anomaly /\ \A x \in kept : run[r].group[x] > 0 /\ appeared'[x] >= Persistence
  BY <1>3, <1>4, <1>5, FunnelAssumption DEF RoundHonest
<1>8. l = [run[r] EXCEPT !.persisted = kept, !.left = rest, !.at = None, !.read = 0]
  BY <1>2 DEF Verified
<1> HIDE DEF kept, rest
<1>9. /\ l \in Running /\ l.persisted = kept /\ l.left = rest /\ l.group = run[r].group
      /\ l.groups = run[r].groups
  <2>1. run[r].pc \in {"get", "upsert", "emit", "sweep", "miss"} /\ 0 \in 0..Persistence
    BY <1>2, RunningFields, FunnelAssumption
  <2> HIDE DEF l
  <2> QED BY <1>2, <1>5, <1>6, <1>7, <1>8, <2>1 DEF Running
<1>10. /\ cnt' = [cnt EXCEPT ![a] = n] /\ miss' = [miss EXCEPT ![a] = 0]
       /\ steady' = (IF a \in run[r].fresh THEN steady \cup {a} ELSE steady)
       /\ \/ Keys(l.left) # {} /\ run' = [run EXCEPT ![r] = [l EXCEPT !.pc = "get"]]
          \/ l.persisted # {} /\ run' = [run EXCEPT ![r] = [l EXCEPT !.pc = "emit"]]
          \/ Proceed(r, l)
       /\ UNCHANGED <<active, key, recon>>
  BY DEF Upsert, a, n
<1> HIDE DEF l
<1>11. /\ run' \in [Round -> Locals] /\ run'[r] \in Running /\ RoundHonest(run'[r], appeared')
       /\ \A q \in Round : q # r => run'[q] = run[q]
  <2>1. CASE run' = [run EXCEPT ![r] = [l EXCEPT !.pc = "get"]]
    <3> DEFINE m == [l EXCEPT !.pc = "get"]
    <3>1. /\ m \in Running /\ m.pc = "get" /\ m.persisted = kept /\ m.left = rest
          /\ m.group = run[r].group
      BY <1>9 DEF Running
    <3>2. run' = [run EXCEPT ![r] = m] BY <2>1
    <3> HIDE DEF m
    <3>3. RoundHonest(m, appeared') BY <1>6, <1>7, <3>1 DEF RoundHonest
    <3> QED BY <1>2, <3>1, <3>2, <3>3 DEF Locals
  <2>2. CASE l.persisted # {} /\ run' = [run EXCEPT ![r] = [l EXCEPT !.pc = "emit"]]
    <3> DEFINE m == [l EXCEPT !.pc = "emit"]
    <3>1. /\ m \in Running /\ m.pc = "emit" /\ m.persisted = kept /\ m.left = rest
          /\ m.group = run[r].group
      BY <1>9 DEF Running
    <3>2. run' = [run EXCEPT ![r] = m] BY <2>2
    <3> HIDE DEF m
    <3>3. RoundHonest(m, appeared') BY <1>6, <1>7, <1>9, <2>2, <3>1 DEF RoundHonest
    <3> QED BY <1>2, <3>1, <3>2, <3>3 DEF Locals
  <2>3. CASE Proceed(r, l)
    <3>1. /\ run' \in [Round -> Locals] /\ run'[r] \in Running
          /\ \A q \in Round : q # r => run'[q] = run[q]
          /\ run'[r].pc \in {"get", "sweep"} /\ run'[r].persisted = {}
          /\ run'[r].left = run'[r].group
      BY <1>2, <1>9, <2>3, ProceedFacts
    <3>2. \A x \in Anomaly : run'[r].left[x] <= run'[r].group[x]
      BY <3>1, RunningFields, FunnelAssumption DEF Bag
    <3> QED BY <3>1, <3>2 DEF RoundHonest
  <2> QED BY <1>10, <2>1, <2>2, <2>3
<1>12. ReadsHonest'
  <2> SUFFICES ASSUME NEW q \in Round, run'[q] # Done PROVE RoundHonest(run'[q], appeared')
    BY DEF ReadsHonest
  <2>1. CASE q = r BY <1>11, <2>1
  <2>2. CASE q # r
    <3>1. run[q] = run'[q] /\ run[q] \in Running BY <1>2, <1>11, <2>2 DEF Locals
    <3>2. RoundHonest(run[q], appeared) BY <3>1 DEF GateInv, ReadsHonest
    <3> QED BY <1>3, <3>1, <3>2, HonestGrows
  <2> QED BY <2>1, <2>2
<1>13. PersistenceGate'
  <2>1. key' = key /\ OpenIds' = OpenIds BY <1>10 DEF OpenIds
  <2>2. appeared \in [Anomaly -> 0..Persistence] BY DEF GateInv, TypeOK
  <2> QED BY <1>3, <2>1, <2>2, FunnelAssumption DEF GateInv, PersistenceGate, Keys
<1>14. TypeOK'
  <2>1. miss' \in [Anomaly -> 0..ResolveAfter] BY <1>3, <1>10, FunnelAssumption DEF GateInv, TypeOK
  <2>2. steady' \subseteq Anomaly BY <1>3, <1>10 DEF GateInv, TypeOK
  <2> QED BY <1>3, <1>10, <1>11, <2>1, <2>2 DEF GateInv, TypeOK
<1> QED BY <1>3, <1>12, <1>13, <1>14 DEF GateInv

\* The group a round emits has an anomaly that reached the threshold.
LEMMA EmittedPersists ==
    ASSUME GateInv, NEW r \in Round, run[r].pc = "emit"
    PROVE  /\ run[r].group \in Bag
           /\ \E a \in Keys(run[r].group) : appeared[a] >= Persistence
<1>1. run[r] \in Running /\ RoundHonest(run[r], appeared) BY UnderWay
<1>2. run[r].persisted # {} /\ run[r].persisted \in SUBSET Anomaly /\ run[r].group \in Bag
  BY <1>1, RunningFields DEF RoundHonest
<1> QED BY <1>1, <1>2 DEF RoundHonest, Keys

LEMMA EmitGate ==
    ASSUME GateInv, NEW r \in Round, Emit(r)
    PROVE  GateInv'
<1> DEFINE b == run[r].group
<1>1. run[r].pc = "emit" BY DEF Emit
<1>2. run[r] \in Running /\ run \in [Round -> Locals] BY <1>1, UnderWay
<1>3. b \in Bag /\ \E a \in Keys(b) : appeared[a] >= Persistence BY <1>1, EmittedPersists
<1>4. UNCHANGED <<active, cnt, miss, recon, appeared, steady>> BY DEF Emit
<1>5. /\ key' = key \/ \E i \in Ids : key' = [key EXCEPT ![i] = b]
      /\ Proceed(r, run[r]) \/ run' = [run EXCEPT ![r] = Done]
  <2>1. Candidates(b) \subseteq Ids /\ Unused \subseteq Ids BY DEF Candidates, OpenIds, Unused
  <2> QED BY <2>1 DEF Emit
<1>6. /\ run' \in [Round -> Locals]
      /\ \A q \in Round : q # r => run'[q] = run[q]
      /\ run'[r] # Done => RoundHonest(run'[r], appeared)
  <2>1. CASE Proceed(r, run[r]) BY <1>2, <2>1, ProceedFacts, ProceedHonest
  <2>2. CASE run' = [run EXCEPT ![r] = Done] BY <1>2, <2>2 DEF Locals
  <2> QED BY <1>5, <2>1, <2>2
<1>7. ReadsHonest' BY <1>4, <1>6, LocalStep
<1>8. key \in [Ids -> Bag \cup {None}] BY DEF GateInv, TypeOK
<1>9. key' \in [Ids -> Bag \cup {None}] /\ \A i \in Ids : key'[i] = key[i] \/ key'[i] = b
  BY <1>3, <1>5, <1>8
<1>10. PersistenceGate'
  BY <1>3, <1>4, <1>9 DEF GateInv, PersistenceGate, OpenIds, Keys
<1> QED BY <1>4, <1>6, <1>7, <1>9, <1>10 DEF GateInv, TypeOK, CountsHonest

\* sweep, and the end of a round, change no count.
LEMMA SweepGate ==
    ASSUME GateInv, NEW r \in Round, SweepSelect(r) \/ SweepMiss(r) \/ Abort(r)
    PROVE  GateInv'
<1>1. run \in [Round -> Locals] BY DEF GateInv, TypeOK
<1>2. /\ run' \in [Round -> Locals]
      /\ \A q \in Round : q # r => run'[q] = run[q]
      /\ run'[r] # Done => RoundHonest(run'[r], appeared)
  <2>1. CASE run' = [run EXCEPT ![r] = Done] BY <1>1, <2>1 DEF Locals
  <2>2. CASE \E ks \in SUBSET Anomaly : SweepSelect(r) /\ run' = [run EXCEPT ![r] =
                    [run[r] EXCEPT !.pc = "miss", !.todo = ks]]
    <3>1. PICK ks \in SUBSET Anomaly : SweepSelect(r) /\ run' = [run EXCEPT ![r] =
                    [run[r] EXCEPT !.pc = "miss", !.todo = ks]]
      BY <2>2
    <3>2. run[r] \in Running /\ RoundHonest(run[r], appeared) BY <3>1, UnderWay DEF SweepSelect
    <3> DEFINE m == [run[r] EXCEPT !.pc = "miss", !.todo = ks]
    <3>3. /\ m \in Running /\ m.pc = "miss" /\ m.left = run[r].left /\ m.group = run[r].group
          /\ m.persisted = run[r].persisted
      BY <3>2 DEF Running
    <3>4. run' = [run EXCEPT ![r] = m] BY <3>1
    <3> HIDE DEF m
    <3>5. RoundHonest(m, appeared) BY <3>2, <3>3 DEF RoundHonest
    <3> QED BY <1>1, <3>3, <3>4, <3>5 DEF Locals
  <2>3. CASE \E a \in Anomaly : SweepMiss(r) /\ run' = [run EXCEPT ![r] =
                    [run[r] EXCEPT !.todo = @ \ {a}]]
    <3>1. PICK a \in Anomaly : SweepMiss(r) /\ run' = [run EXCEPT ![r] =
                    [run[r] EXCEPT !.todo = @ \ {a}]]
      BY <2>3
    <3>2. run[r].pc = "miss" BY <3>1 DEF SweepMiss
    <3>3. run[r] \in Running /\ RoundHonest(run[r], appeared) BY <3>2, UnderWay
    <3>4. run[r].todo \in SUBSET Anomaly BY <3>3, RunningFields
    <3> DEFINE m == [run[r] EXCEPT !.todo = @ \ {a}]
    <3>5. /\ m \in Running /\ m.pc = "miss" /\ m.left = run[r].left /\ m.group = run[r].group
          /\ m.persisted = run[r].persisted
      BY <3>2, <3>3, <3>4 DEF Running
    <3>6. run' = [run EXCEPT ![r] = m] BY <3>1
    <3> HIDE DEF m
    <3>7. RoundHonest(m, appeared) BY <3>3, <3>2, <3>5 DEF RoundHonest
    <3> QED BY <1>1, <3>5, <3>6, <3>7 DEF Locals
  <2>4. SweepSelect(r) => \/ run' = [run EXCEPT ![r] = Done]
                          \/ \E ks \in SUBSET Anomaly : run' = [run EXCEPT ![r] =
                                [run[r] EXCEPT !.pc = "miss", !.todo = ks]]
    <3> DEFINE absent == {a \in Anomaly : cnt[a] # None} \ run[r].seen
    <3>1. absent \in SUBSET Anomaly OBVIOUS
    <3> QED BY <3>1 DEF SweepSelect
  <2>5. SweepMiss(r) => \/ run' = [run EXCEPT ![r] = Done]
                        \/ \E a \in Anomaly : run' = [run EXCEPT ![r] = [run[r] EXCEPT !.todo = @ \ {a}]]
    <3> SUFFICES ASSUME SweepMiss(r), run' # [run EXCEPT ![r] = Done]
                 PROVE  \E a \in Anomaly : run' = [run EXCEPT ![r] = [run[r] EXCEPT !.todo = @ \ {a}]]
      OBVIOUS
    <3>1. run[r].pc = "miss" BY DEF SweepMiss
    <3>2. run[r].todo \in SUBSET Anomaly BY <3>1, UnderWay, RunningFields
    <3> QED BY <3>2 DEF SweepMiss
  <2> QED BY <2>1, <2>2, <2>3, <2>4, <2>5 DEF Abort
<1>3. UNCHANGED <<active, cnt, key, recon, appeared, steady>> BY DEF SweepSelect, SweepMiss, Abort
<1>4. miss' \in [Anomaly -> 0..ResolveAfter]
  <2>1. miss \in [Anomaly -> 0..ResolveAfter] BY DEF GateInv, TypeOK
  <2>2. \A n \in 0..ResolveAfter : Saturate(n + 1, ResolveAfter) \in 0..ResolveAfter
    BY FunnelAssumption DEF Saturate
  <2> QED BY <2>1, <2>2 DEF SweepSelect, SweepMiss, Abort
<1>5. ReadsHonest' BY <1>2, <1>3, LocalStep
<1> QED BY <1>2, <1>3, <1>4, <1>5 DEF GateInv, TypeOK, CountsHonest, PersistenceGate, OpenIds, Keys

\* The environment touches only what the histories record.
LEMMA EnvironmentGate ==
    ASSUME GateInv, NEW a \in Anomaly, Begin(a) \/ Clear(a)
    PROVE  GateInv'
<1>1. CASE Begin(a)
  <2>1. active' \subseteq Anomaly /\ UNCHANGED <<cnt, miss, key, run, recon, appeared, steady>>
    BY <1>1 DEF Begin, GateInv, TypeOK
  <2> QED BY <2>1 DEF GateInv, TypeOK, CountsHonest, ReadsHonest, PersistenceGate, OpenIds, Keys
<1>2. CASE Clear(a)
  <2>1. run \in [Round -> Locals] BY DEF GateInv, TypeOK
  <2>2. \A r \in Round : /\ run'[r] = Done <=> run[r] = Done
                         /\ run'[r] \in Locals
                         /\ run'[r] # Done => RoundHonest(run'[r], appeared)
    <3> SUFFICES ASSUME NEW r \in Round
                 PROVE  /\ run'[r] = Done <=> run[r] = Done
                        /\ run'[r] \in Locals
                        /\ run'[r] # Done => RoundHonest(run'[r], appeared)
      OBVIOUS
    <3>1. run'[r] = IF run[r] = Done THEN Done ELSE [run[r] EXCEPT !.fresh = @ \ {a}]
      BY <1>2 DEF Clear
    <3>2. CASE run[r] = Done BY <3>1, <3>2 DEF Locals
    <3>3. CASE run[r] # Done
      <4>1. run[r] \in Running /\ RoundHonest(run[r], appeared)
        BY <2>1, <3>3 DEF Locals, GateInv, ReadsHonest
      <4>2. run[r].fresh \in SUBSET Anomaly BY <4>1, RunningFields
      <4> DEFINE m == [run[r] EXCEPT !.fresh = @ \ {a}]
      <4>3. /\ m \in Running /\ m.pc = run[r].pc /\ m.left = run[r].left /\ m.group = run[r].group
            /\ m.persisted = run[r].persisted /\ m.at = run[r].at /\ m.read = run[r].read
        BY <4>1, <4>2 DEF Running
      <4>4. run'[r] = m BY <3>1, <3>3
      <4> HIDE DEF m
      <4>5. RoundHonest(m, appeared) BY <4>1, <4>3 DEF RoundHonest
      <4>6. m # Done BY <4>3, RunningFields
      <4> QED BY <3>3, <4>3, <4>4, <4>5, <4>6 DEF Locals
    <3> QED BY <3>2, <3>3
  <2>3. run' \in [Round -> Locals]
    <3>1. run' = [r \in Round |-> run'[r]] BY <1>2 DEF Clear
    <3> QED BY <2>2, <3>1
  <2>4. /\ active' \subseteq Anomaly /\ steady' \subseteq Anomaly
        /\ UNCHANGED <<cnt, miss, key, recon, appeared>>
    BY <1>2 DEF Clear, GateInv, TypeOK
  <2>5. ReadsHonest' BY <2>2, <2>4 DEF ReadsHonest
  <2> QED BY <2>3, <2>4, <2>5 DEF GateInv, TypeOK, CountsHonest, PersistenceGate, OpenIds, Keys
<1> QED BY <1>1, <1>2

\* Closing a record opens none.
LEMMA ClosingGate ==
    ASSUME GateInv,
           ReconList \/ ReconCheck \/ ReconResolve \/ \E i \in Ids : HumanClose(i)
    PROVE  GateInv'
<1> DEFINE Pair == Ids \X SUBSET Anomaly
<1>1. UNCHANGED <<active, cnt, miss, run, appeared, steady>>
  BY DEF ReconList, ReconCheck, ReconResolve, HumanClose
<1>2. key \in [Ids -> Bag \cup {None}] BY DEF GateInv, TypeOK
<1>3. key' \in [Ids -> Bag \cup {None}] /\ \A i \in Ids : key'[i] \in {key[i], None}
  BY <1>2 DEF ReconList, ReconCheck, ReconResolve, HumanClose
<1>4. PersistenceGate' BY <1>1, <1>3 DEF GateInv, PersistenceGate, OpenIds, Keys
<1>5. /\ recon.pc \in {"idle", "check", "resolve"} /\ recon.recs \in SUBSET Pair
      /\ recon.at \in Pair \cup {None}
      /\ recon \in [pc : {"idle", "check", "resolve"}, recs : SUBSET Pair, at : Pair \cup {None}]
  BY DEF GateInv, TypeOK
<1>6. \A p : Skip(p) \in [pc : {"idle", "check", "resolve"}, recs : SUBSET Pair, at : Pair \cup {None}]
  BY <1>5 DEF Skip
<1>7. recon' \in [pc : {"idle", "check", "resolve"}, recs : SUBSET Pair, at : Pair \cup {None}]
  <2>1. CASE ReconList
    <3>1. {<<i, Keys(key[i])>> : i \in OpenIds} \in SUBSET Pair BY DEF OpenIds, Keys
    <3> QED BY <2>1, <3>1 DEF ReconList
  <2>2. CASE ReconCheck
    <3>1. PICK p \in recon.recs :
             recon' = IF Stale(p[2]) THEN [recon EXCEPT !.pc = "resolve", !.at = p] ELSE Skip(p)
      BY <2>2 DEF ReconCheck
    <3>2. p \in Pair BY <1>5
    <3> HIDE DEF Pair
    <3>3. [recon EXCEPT !.pc = "resolve", !.at = p]
             \in [pc : {"idle", "check", "resolve"}, recs : SUBSET Pair, at : Pair \cup {None}]
      BY <1>5, <3>2
    <3> QED BY <1>6, <3>1, <3>3
  <2>3. CASE ReconResolve BY <1>6, <2>3 DEF ReconResolve
  <2>4. CASE \E i \in Ids : HumanClose(i) BY <1>5, <2>4 DEF HumanClose
  <2> QED BY <2>1, <2>2, <2>3, <2>4
<1> QED BY <1>1, <1>3, <1>4, <1>7 DEF GateInv, TypeOK, CountsHonest, ReadsHonest

-----------------------------------------------------------------------------
\* The persistence gate of l3_verify (l3_verify.py:46-66) for overlapping
\* rounds: when a round reports an anomaly once, no record is open unless one
\* of its anomalies appeared in persistence_rounds rounds, although get and
\* upsert are not atomic and concurrent rounds overwrite each other's counts.
THEOREM GateHolds == MaxSamples = 1 /\ Spec => [](TypeOK /\ PersistenceGate)
<1> SUFFICES ASSUME MaxSamples = 1 PROVE Spec => [](TypeOK /\ PersistenceGate)
  OBVIOUS
<1>1. Init => GateInv BY InitGate
<1>2. GateInv /\ [Next]_vars => GateInv'
  <2> SUFFICES ASSUME GateInv, [Next]_vars PROVE GateInv'
    OBVIOUS
  <2>1. CASE \E a \in Anomaly : Begin(a) \/ Clear(a) BY <2>1, EnvironmentGate
  <2>2. CASE \E r \in Round, P \in PollSets : Collect(r, P) BY <2>2, CollectGate
  <2>3. CASE \E r \in Round : Get(r) BY <2>3, GetGate
  <2>4. CASE \E r \in Round : Upsert(r) BY <2>4, UpsertGate
  <2>5. CASE \E r \in Round : Emit(r) BY <2>5, EmitGate
  <2>6. CASE \E r \in Round : SweepSelect(r) \/ SweepMiss(r) \/ Abort(r) BY <2>6, SweepGate
  <2>7. CASE ReconList \/ ReconCheck \/ ReconResolve \/ \E i \in Ids : HumanClose(i)
    BY <2>7, ClosingGate
  <2>8. CASE UNCHANGED vars
    BY <2>8 DEF vars, GateInv, TypeOK, CountsHonest, ReadsHonest, PersistenceGate, OpenIds, Keys
  <2> QED BY <2>1, <2>2, <2>3, <2>4, <2>5, <2>6, <2>7, <2>8 DEF Next
<1>3. GateInv => TypeOK /\ PersistenceGate BY DEF GateInv
<1> QED BY <1>1, <1>2, <1>3, PTL DEF Spec

-----------------------------------------------------------------------------
(***************************************************************************)
(* An anomaly that is there does not look recovered when every round polls *)
(* every target and not more than resolve_after_rounds rounds overlap.     *)
(*                                                                         *)
(* A round that found the anomaly does not sweep it.  A round that did not *)
(* find it may count one miss, and began before the anomaly was steady: so *)
(* what is inductive is a bound on the misses counted and to be counted.   *)
(***************************************************************************)

\* The anomalies that a round has found and has still to verify.
Ahead(l) == Keys(l.left) \cup UNION {Keys(g) : g \in l.groups}

Orderly(l) ==
    /\ l.fresh \subseteq active
    /\ l.pc \in {"get", "upsert", "emit", "sweep"} => l.fresh \subseteq l.seen \cup Ahead(l)
    /\ l.pc = "upsert" => l.at \in Anomaly /\ l.at \in l.seen /\ l.left[l.at] > 0
    /\ l.pc = "emit" => Keys(l.left) = {}
    /\ l.pc = "sweep" => Ahead(l) = {}
    /\ l.pc = "miss" => l.todo \cap l.fresh = {}

\* A round that may still count a miss of a.
Threatens(l, a) == l # Done /\ a \notin l.fresh /\ (l.pc = "miss" => a \in l.todo)

Threats(a) == {r \in Round : Threatens(run[r], a)}

StaleInv ==
    /\ run \in [Round -> Locals]
    /\ cnt \in [Anomaly -> 0..Persistence \cup {None}]
    /\ miss \in [Anomaly -> Nat]
    /\ active \subseteq Anomaly /\ steady \subseteq active
    /\ \A r \in Round : run[r] # Done => Orderly(run[r])
    /\ \A a \in steady : miss[a] + Cardinality(Threats(a)) < ResolveAfter

\* Round r goes on with the locals m, and the misses stay within the bound.
LEMMA RoundGoesOn ==
    ASSUME StaleInv, NEW r \in Round, NEW m \in Locals, run' = [run EXCEPT ![r] = m],
           m # Done => Orderly(m), UNCHANGED active, steady' \subseteq active,
           cnt' \in [Anomaly -> 0..Persistence \cup {None}], miss' \in [Anomaly -> Nat],
           \A a \in steady' : miss'[a] + Cardinality(Threats(a)') < ResolveAfter
    PROVE  StaleInv'
<1>1. \A q \in Round : run'[q] = IF q = r THEN m ELSE run[q]
  BY DEF StaleInv
<1>2. run' \in [Round -> Locals]
  BY DEF StaleInv
<1>3. \A q \in Round : run'[q] # Done => Orderly(run[q])'
  BY <1>1 DEF StaleInv, Orderly, Ahead
<1> QED
  BY <1>2, <1>3 DEF StaleInv

\* No round becomes a threat to a, and no miss of a is counted.
LEMMA NoNewThreat ==
    ASSUME StaleInv, IsFiniteSet(Round), NEW a \in steady, miss' \in [Anomaly -> Nat], miss'[a] <= miss[a],
           \A q \in Round : Threatens(run'[q], a) => Threatens(run[q], a)
    PROVE  miss'[a] + Cardinality(Threats(a)') < ResolveAfter
<1>1. Threats(a)' \subseteq Threats(a) /\ Threats(a) \subseteq Round
  BY DEF Threats, Threatens
<1>2. IsFiniteSet(Threats(a)) /\ IsFiniteSet(Threats(a)')
  BY <1>1, FS_Subset
<1>3. Cardinality(Threats(a)') <= Cardinality(Threats(a))
  BY <1>1, <1>2, FS_Subset
<1>4. Cardinality(Threats(a)) \in Nat /\ Cardinality(Threats(a)') \in Nat
  BY <1>2, FS_CardinalityType
<1>5. miss[a] + Cardinality(Threats(a)) < ResolveAfter /\ a \in Anomaly /\ ResolveAfter \in Nat
  BY FunnelAssumption DEF StaleInv
<1>6. miss[a] \in Nat /\ miss'[a] \in Nat
  BY <1>5 DEF StaleInv
<1> QED
  BY <1>3, <1>4, <1>5, <1>6

\* Only the locals of r change.
LEMMA QuietStep ==
    ASSUME StaleInv, IsFiniteSet(Round), NEW r \in Round, NEW m \in Locals, run' = [run EXCEPT ![r] = m],
           m # Done => Orderly(m), UNCHANGED <<active, steady, cnt, miss>>,
           \A a \in steady : Threatens(m, a) => Threatens(run[r], a)
    PROVE  StaleInv'
<1>1. /\ steady \subseteq active /\ active \subseteq Anomaly /\ miss \in [Anomaly -> Nat]
      /\ cnt \in [Anomaly -> 0..Persistence \cup {None}]
  BY DEF StaleInv
<1>2. \A q \in Round : run'[q] = IF q = r THEN m ELSE run[q]
  BY DEF StaleInv
<1>3. \A a \in steady : miss'[a] <= miss[a] /\ miss' \in [Anomaly -> Nat]
  BY <1>1
<1>4. \A a \in steady : \A q \in Round : Threatens(run'[q], a) => Threatens(run[q], a)
  BY <1>2
<1>5. \A a \in steady : miss'[a] + Cardinality(Threats(a)') < ResolveAfter
  BY <1>3, <1>4, NoNewThreat
<1> QED
  BY <1>1, <1>5, RoundGoesOn

\* The locals of a round under way.
LEMMA UnderWayOrderly ==
    ASSUME StaleInv, NEW r \in Round, run[r] # Done
    PROVE  run[r] \in Running /\ Orderly(run[r])
  BY DEF StaleInv, Locals

\* The head of the loop over the groups, when the group is dealt with.
LEMMA ProceedOrderly ==
    ASSUME NEW r \in Round, NEW l \in Running, Proceed(r, l), l.fresh \subseteq active,
           l.fresh \subseteq l.seen \cup UNION {Keys(g) : g \in l.groups}
    PROVE  \E m \in Running : /\ run' = [run EXCEPT ![r] = m] /\ Orderly(m)
                              /\ m.fresh = l.fresh /\ m.pc # "miss"
<1>1. CASE l.groups = {} /\ run' = [run EXCEPT ![r] = [l EXCEPT !.pc = "sweep", !.group = Empty,
                                              !.left = Empty, !.persisted = {}]]
  <2>1. PICK m : m = [l EXCEPT !.pc = "sweep", !.group = Empty, !.left = Empty, !.persisted = {}]
    OBVIOUS
  <2>2. m \in Running
    BY <2>1, EmptyBag DEF Running
  <2>3. m.pc = "sweep" /\ m.left = Empty /\ m.groups = {} /\ m.fresh = l.fresh /\ m.seen = l.seen
    BY <1>1, <2>1 DEF Running
  <2>4. Ahead(m) = {}
    BY <2>3, EmptyBag DEF Ahead, Keys
  <2>5. l.fresh \subseteq l.seen
    BY <1>1
  <2>6. Orderly(m)
    BY <2>3, <2>4, <2>5 DEF Orderly
  <2> QED
    BY <1>1, <2>1, <2>2, <2>3, <2>6
<1>2. CASE \E g \in l.groups :
             run' = [run EXCEPT ![r] = [l EXCEPT !.pc = "get", !.groups = @ \ {g},
                                             !.group = g, !.left = g, !.persisted = {}]]
  <2>1. PICK g \in l.groups :
             run' = [run EXCEPT ![r] = [l EXCEPT !.pc = "get", !.groups = @ \ {g},
                                             !.group = g, !.left = g, !.persisted = {}]]
    BY <1>2
  <2>2. PICK gs : gs = l.groups \ {g}
    OBVIOUS
  <2>3. PICK m : m = [l EXCEPT !.pc = "get", !.groups = gs, !.group = g, !.left = g, !.persisted = {}]
    OBVIOUS
  <2>4. g \in Bag /\ gs \in SUBSET Bag
    BY <2>2, RunningFields
  <2>5. m \in Running
    BY <2>3, <2>4 DEF Running
  <2>6. m.pc = "get" /\ m.left = g /\ m.groups = gs /\ m.fresh = l.fresh /\ m.seen = l.seen
    BY <2>3 DEF Running
  <2>7. Ahead(m) = UNION {Keys(x) : x \in l.groups}
    BY <2>2, <2>6 DEF Ahead
  <2>8. Orderly(m)
    BY <2>6, <2>7 DEF Orderly
  <2> QED
    BY <2>1, <2>2, <2>3, <2>5, <2>6, <2>8
<1> QED
  BY <1>1, <1>2 DEF Proceed

\* A round that polls everything finds every anomaly that is there.
LEMMA CollectStale ==
    ASSUME StaleInv, IsFiniteSet(Round), NEW r \in Round, Collect(r, Anomaly)
    PROVE  StaleInv'
<1>1. PICK b \in Detected(Anomaly) :
         Proceed(r, [pc |-> "get", groups |-> GroupAnomalies(b), group |-> Empty,
                     left |-> Empty, at |-> None, read |-> 0, persisted |-> {},
                     seen |-> {}, todo |-> {}, fresh |-> Keys(b)])
  BY DEF Collect
<1>2. PICK gs : gs = GroupAnomalies(b)
  OBVIOUS
<1>3. gs \in SUBSET Bag
  <2>1. b \in [Anomaly -> 0..MaxSamples] BY DEF Detected, Bag
  <2>2. \A t : [a \in Anomaly |-> IF a \in t THEN b[a] ELSE 0] \in [Anomaly -> 0..MaxSamples]
    BY <2>1, FunnelAssumption
  <2> QED BY <1>2, <2>2 DEF GroupAnomalies, Bag
<1>4. PICK ks : ks = Keys(b)
  OBVIOUS
<1>5. ks = active /\ ks \in SUBSET Anomaly
  BY <1>4 DEF Detected, StaleInv
<1>6. PICK l : l = [pc |-> "get", groups |-> gs, group |-> Empty, left |-> Empty, at |-> None, read |-> 0,
                    persisted |-> {}, seen |-> {}, todo |-> {}, fresh |-> ks]
  OBVIOUS
<1>7. l \in Running
  BY <1>3, <1>5, <1>6, EmptyBag, FunnelAssumption DEF Running
<1>8. Proceed(r, l)
  BY <1>1, <1>2, <1>4, <1>6
<1>9. ks \subseteq UNION {Keys(g) : g \in gs}
  <2> SUFFICES ASSUME NEW a \in ks PROVE \E g \in gs : a \in Keys(g)
    OBVIOUS
  <2>1. a \in Anomaly /\ b[a] > 0
    BY <1>4 DEF Keys
  <2>2. PICK s \in Services : a \in s
    BY <2>1, ServicesAssumption
  <2>3. PICK g : g = [x \in Anomaly |-> IF x \in s THEN b[x] ELSE 0]
    OBVIOUS
  <2>4. g \in gs
    BY <1>2, <1>4, <2>2, <2>3 DEF GroupAnomalies
  <2>5. a \in Keys(g)
    BY <2>1, <2>2, <2>3 DEF Keys
  <2> QED
    BY <2>4, <2>5
<1>10. l.fresh = ks /\ l.seen = {} /\ l.groups = gs
  BY <1>6
<1>11. PICK m \in Running : run' = [run EXCEPT ![r] = m] /\ Orderly(m) /\ m.fresh = ks /\ m.pc # "miss"
  BY <1>5, <1>7, <1>8, <1>9, <1>10, ProceedOrderly
<1>12. \A a \in steady : ~Threatens(m, a)
  BY <1>5, <1>11 DEF Threatens, StaleInv
<1> QED
  BY <1>11, <1>12, QuietStep DEF Collect, Locals

LEMMA GetStale ==
    ASSUME StaleInv, IsFiniteSet(Round), NEW r \in Round, Get(r)
    PROVE  StaleInv'
<1>1. PICK l : l = run[r]
  OBVIOUS
<1>2. l \in Running /\ Orderly(l) /\ l.pc = "get"
  BY <1>1, UnderWayOrderly DEF Get, Done
<1>3. PICK a \in Keys(l.left) :
         run' = [run EXCEPT ![r].pc = "upsert", ![r].at = a, ![r].seen = @ \cup {a},
                            ![r].read = IF cnt[a] = None THEN 0 ELSE cnt[a]]
  BY <1>1 DEF Get
<1>4. a \in Anomaly /\ l.left[a] > 0
  BY DEF Keys
<1>5. PICK n, s : n = (IF cnt[a] = None THEN 0 ELSE cnt[a]) /\ s = l.seen \cup {a}
  OBVIOUS
<1>6. n \in 0..Persistence /\ s \in SUBSET Anomaly
  BY <1>2, <1>4, <1>5, RunningFields, FunnelAssumption DEF StaleInv
<1>7. PICK m : m = [l EXCEPT !.pc = "upsert", !.at = a, !.seen = s, !.read = n]
  OBVIOUS
<1>8. run' = [run EXCEPT ![r] = m]
  BY <1>1, <1>3, <1>5, <1>7 DEF StaleInv
<1>9. m \in Running
  BY <1>2, <1>4, <1>6, <1>7 DEF Running
<1>10. m.pc = "upsert" /\ m.at = a /\ m.seen = s /\ m.left = l.left /\ m.groups = l.groups /\ m.fresh = l.fresh
  BY <1>2, <1>7 DEF Running
<1>11. Orderly(m)
  <2>1. Ahead(m) = Ahead(l)
    BY <1>10 DEF Ahead
  <2> QED
    BY <1>2, <1>4, <1>5, <1>10, <2>1 DEF Orderly
<1>12. \A x \in steady : Threatens(m, x) => Threatens(l, x)
  BY <1>2, <1>10, RunningFields DEF Threatens
<1> QED
  BY <1>1, <1>8, <1>9, <1>11, <1>12, QuietStep DEF Get, Locals

LEMMA EmitStale ==
    ASSUME StaleInv, IsFiniteSet(Round), NEW r \in Round, Emit(r)
    PROVE  StaleInv'
<1>1. PICK l : l = run[r]
  OBVIOUS
<1>2. l \in Running /\ Orderly(l) /\ l.pc = "emit" /\ l # Done
  BY <1>1, UnderWayOrderly DEF Emit, Done
<1>3. UNCHANGED <<active, cnt, miss, steady>>
  BY DEF Emit
<1>4. CASE run' = [run EXCEPT ![r] = Done]
  BY <1>3, <1>4, QuietStep DEF Locals, Threatens
<1>5. CASE Proceed(r, l)
  <2>1. l.fresh \subseteq active /\ l.fresh \subseteq l.seen \cup UNION {Keys(g) : g \in l.groups}
    BY <1>2 DEF Orderly, Ahead
  <2>2. PICK m \in Running : run' = [run EXCEPT ![r] = m] /\ Orderly(m) /\ m.fresh = l.fresh /\ m.pc # "miss"
    BY <1>2, <1>5, <2>1, ProceedOrderly
  <2>3. \A x \in steady : Threatens(m, x) => Threatens(l, x)
    BY <1>2, <2>2 DEF Threatens
  <2> QED
    BY <1>1, <1>3, <2>2, <2>3, QuietStep DEF Locals
<1> QED
  BY <1>1, <1>4, <1>5 DEF Emit

LEMMA SweepStale ==
    ASSUME StaleInv, IsFiniteSet(Round), NEW r \in Round, SweepSelect(r) \/ Abort(r)
    PROVE  StaleInv'
<1>1. PICK l : l = run[r]
  OBVIOUS
<1>2. UNCHANGED <<active, cnt, miss, steady>>
  BY DEF SweepSelect, Abort
<1>3. CASE run' = [run EXCEPT ![r] = Done]
  BY <1>2, <1>3, QuietStep DEF Locals, Threatens
<1>4. CASE SweepSelect(r) /\ run' # [run EXCEPT ![r] = Done]
  <2>1. l \in Running /\ Orderly(l) /\ l.pc = "sweep" /\ l # Done
    BY <1>1, <1>4, UnderWayOrderly DEF SweepSelect, Done
  <2>2. PICK ks : ks = {a \in Anomaly : cnt[a] # None} \ l.seen
    OBVIOUS
  <2>3. PICK m : m = [l EXCEPT !.pc = "miss", !.todo = ks]
    OBVIOUS
  <2>4. run' = [run EXCEPT ![r] = m]
    BY <1>1, <1>4, <2>2, <2>3 DEF SweepSelect
  <2>5. ks \in SUBSET Anomaly
    BY <2>2
  <2>6. m \in Running
    BY <2>1, <2>3, <2>5 DEF Running
  <2>7. m.pc = "miss" /\ m.todo = ks /\ m.fresh = l.fresh
    BY <2>1, <2>3 DEF Running
  <2>8. Orderly(m)
    BY <2>1, <2>2, <2>7 DEF Orderly
  <2>9. \A x \in steady : Threatens(m, x) => Threatens(l, x)
    BY <2>1, <2>7 DEF Threatens
  <2> QED
    BY <1>1, <1>2, <2>4, <2>6, <2>8, <2>9, QuietStep DEF Locals
<1> QED
  BY <1>3, <1>4 DEF Abort

\* A miss is counted, and the round that counts it is a threat no longer.
LEMMA SweepMissStale ==
    ASSUME StaleInv, IsFiniteSet(Round), NEW r \in Round, SweepMiss(r)
    PROVE  StaleInv'
<1>1. PICK l : l = run[r]
  OBVIOUS
<1>2. l \in Running /\ Orderly(l) /\ l.pc = "miss" /\ l # Done
  BY <1>1, UnderWayOrderly DEF SweepMiss, Done
<1>3. UNCHANGED <<active, cnt, steady>> /\ steady \subseteq active /\ active \subseteq Anomaly
  BY DEF SweepMiss, StaleInv
<1>4. PICK a \in l.todo :
        /\ miss' = [miss EXCEPT ![a] = Saturate(@ + 1, ResolveAfter)]
        /\ run' = [run EXCEPT ![r] = IF l.todo = {a} THEN Done ELSE [l EXCEPT !.todo = @ \ {a}]]
  BY <1>1 DEF SweepMiss
<1>5. a \in Anomaly /\ a \notin l.fresh
  BY <1>2, RunningFields DEF Orderly
<1>6. /\ miss' \in [Anomaly -> Nat] /\ miss'[a] <= miss[a] + 1 /\ miss[a] \in Nat /\ miss'[a] \in Nat
      /\ \A x \in Anomaly : x # a => miss'[x] = miss[x]
  <2>1. miss \in [Anomaly -> Nat] /\ ResolveAfter \in Nat
    BY FunnelAssumption DEF StaleInv
  <2>2. \A n \in Nat : Saturate(n + 1, ResolveAfter) \in Nat /\ Saturate(n + 1, ResolveAfter) <= n + 1
    BY <2>1 DEF Saturate
  <2>3. miss[a] \in Nat
    BY <1>5, <2>1
  <2> QED
    BY <1>4, <1>5, <2>1, <2>2, <2>3
<1>7. PICK m : m = IF l.todo = {a} THEN Done ELSE [l EXCEPT !.todo = @ \ {a}]
  OBVIOUS
<1>8. /\ m \in Locals /\ (m # Done => Orderly(m)) /\ ~Threatens(m, a)
      /\ \A x \in Anomaly : Threatens(m, x) => Threatens(l, x)
  <2>1. CASE m = Done
    BY <2>1 DEF Locals, Threatens
  <2>2. CASE m # Done
    <3>1. PICK ks : ks = l.todo \ {a}
      OBVIOUS
    <3>2. m = [l EXCEPT !.todo = ks] /\ ks \in SUBSET Anomaly
      BY <1>2, <1>7, <2>2, <3>1, RunningFields
    <3>3. m \in Running
      BY <1>2, <3>2 DEF Running
    <3>4. m.pc = "miss" /\ m.todo = ks /\ m.fresh = l.fresh
      BY <1>2, <3>2 DEF Running
    <3>5. Orderly(m)
      BY <1>2, <3>1, <3>4 DEF Orderly
    <3> QED
      BY <1>2, <3>1, <3>3, <3>4, <3>5 DEF Threatens, Locals
  <2> QED
    BY <2>1, <2>2
<1>9. run' = [run EXCEPT ![r] = m] /\ \A q \in Round : run'[q] = IF q = r THEN m ELSE run[q]
  BY <1>4, <1>7 DEF StaleInv
<1>10. ASSUME NEW x \in steady
       PROVE  miss'[x] + Cardinality(Threats(x)') < ResolveAfter
  <2>0. x \in Anomaly
    BY <1>3
  <2>1. CASE x # a
    <3>1. miss'[x] = miss[x] /\ miss[x] \in Nat
      BY <1>6, <2>0, <2>1 DEF StaleInv
    <3>2. \A q \in Round : Threatens(run'[q], x) => Threatens(run[q], x)
      BY <1>1, <1>8, <1>9, <2>0
    <3>3. miss'[x] <= miss[x]
      BY <3>1
    <3> QED
      BY <1>6, <3>2, <3>3, NoNewThreat
  <2>2. CASE x = a
    <3>1. Threatens(l, a)
      BY <1>2, <1>5 DEF Threatens
    <3>2. Threats(a)' = Threats(a) \ {r} /\ r \in Threats(a) /\ Threats(a) \subseteq Round
      BY <1>1, <1>8, <1>9, <3>1 DEF Threats
    <3>3. IsFiniteSet(Threats(a))
      BY <3>2, FS_Subset
    <3>4. Cardinality(Threats(a)') = Cardinality(Threats(a)) - 1 /\ Cardinality(Threats(a)) \in Nat
      BY <3>2, <3>3, FS_RemoveElement, FS_CardinalityType
    <3>5. miss[a] + Cardinality(Threats(a)) < ResolveAfter /\ ResolveAfter \in Nat
      BY <2>2, FunnelAssumption DEF StaleInv
    <3> QED
      BY <1>6, <2>2, <3>4, <3>5
  <2> QED
    BY <2>1, <2>2
<1> QED
  BY <1>3, <1>6, <1>8, <1>9, <1>10, RoundGoesOn DEF StaleInv

\* An anomaly becomes steady: its misses are forgotten, and the round that
\* verified it is no threat.
LEMMA UpsertStale ==
    ASSUME StaleInv, IsFiniteSet(Round), Cardinality(Round) <= ResolveAfter, NEW r \in Round, Upsert(r)
    PROVE  StaleInv'
<1>1. PICK o : o = run[r]
  OBVIOUS
<1>2. o \in Running /\ Orderly(o) /\ o.pc = "upsert" /\ o # Done
  BY <1>1, UnderWayOrderly DEF Upsert, Done
<1>3. PICK a, n : a = o.at /\ n = Saturate(o.read + 1, Persistence)
  OBVIOUS
<1>4. a \in Anomaly /\ a \in o.seen /\ o.left[a] > 0
  BY <1>2, <1>3 DEF Orderly
<1>5. n \in 0..Persistence
  <2>1. o.read \in 0..Persistence /\ Persistence \in Nat \ {0}
    BY <1>2, RunningFields, FunnelAssumption
  <2> QED
    BY <1>3, <2>1 DEF Saturate
<1>6. PICK l : l = Verified(r, a, n)
  OBVIOUS
<1>7. PICK kept, rest : /\ kept = (IF n >= Persistence THEN o.persisted \cup {a} ELSE o.persisted)
                        /\ rest = [o.left EXCEPT ![a] = @ - 1]
  OBVIOUS
<1>8. l = [o EXCEPT !.persisted = kept, !.left = rest, !.at = None, !.read = 0]
  BY <1>1, <1>6, <1>7 DEF Verified
<1>9. kept \in SUBSET Anomaly
  BY <1>2, <1>4, <1>7, RunningFields
<1>10. rest \in Bag /\ \A x \in Anomaly : x # a => rest[x] = o.left[x]
  <2>1. o.left \in [Anomaly -> 0..MaxSamples] /\ MaxSamples \in Nat
    BY <1>2, RunningFields, FunnelAssumption DEF Bag
  <2>2. o.left[a] - 1 \in 0..MaxSamples
    BY <1>4, <2>1
  <2> QED
    BY <1>4, <1>7, <2>1, <2>2 DEF Bag
<1>11. 0 \in 0..Persistence /\ None \in Anomaly \cup {None}
  BY FunnelAssumption
<1>12. l \in Running
  BY <1>2, <1>8, <1>9, <1>10, <1>11 DEF Running
<1>13. /\ l.left = rest /\ l.groups = o.groups /\ l.fresh = o.fresh /\ l.seen = o.seen /\ l.persisted = kept
  BY <1>2, <1>8 DEF Running
<1>14. o.fresh \subseteq active /\ o.fresh \subseteq o.seen \cup Ahead(l)
  <2>1. Ahead(o) \subseteq Ahead(l) \cup {a}
    BY <1>10, <1>13 DEF Ahead, Keys
  <2> QED
    BY <1>2, <1>4, <2>1 DEF Orderly
<1>15. /\ cnt' = [cnt EXCEPT ![a] = n] /\ miss' = [miss EXCEPT ![a] = 0]
       /\ steady' = (IF a \in o.fresh THEN steady \cup {a} ELSE steady)
       /\ \/ Keys(l.left) # {} /\ run' = [run EXCEPT ![r] = [l EXCEPT !.pc = "get"]]
          \/ Keys(l.left) = {} /\ run' = [run EXCEPT ![r] = [l EXCEPT !.pc = "emit"]]
          \/ Keys(l.left) = {} /\ Proceed(r, l)
       /\ UNCHANGED active
  BY <1>1, <1>3, <1>6 DEF Upsert
<1>16. PICK m \in Running : run' = [run EXCEPT ![r] = m] /\ Orderly(m) /\ m.fresh = o.fresh /\ m.pc # "miss"
  <2>1. CASE run' = [run EXCEPT ![r] = [l EXCEPT !.pc = "get"]]
    <3>1. PICK m : m = [l EXCEPT !.pc = "get"]
      OBVIOUS
    <3>2. m \in Running /\ m.pc = "get" /\ m.fresh = l.fresh /\ m.seen = l.seen /\ m.left = l.left /\ m.groups = l.groups
      BY <1>12, <3>1 DEF Running
    <3>3. Ahead(m) = Ahead(l)
      BY <3>2 DEF Ahead
    <3>4. Orderly(m)
      BY <1>13, <1>14, <3>2, <3>3 DEF Orderly
    <3> QED
      BY <1>13, <2>1, <3>1, <3>2, <3>4
  <2>2. CASE Keys(l.left) = {} /\ run' = [run EXCEPT ![r] = [l EXCEPT !.pc = "emit"]]
    <3>1. PICK m : m = [l EXCEPT !.pc = "emit"]
      OBVIOUS
    <3>2. m \in Running /\ m.pc = "emit" /\ m.fresh = l.fresh /\ m.seen = l.seen /\ m.left = l.left /\ m.groups = l.groups
      BY <1>12, <3>1 DEF Running
    <3>3. Ahead(m) = Ahead(l)
      BY <3>2 DEF Ahead
    <3>4. Orderly(m)
      BY <1>13, <1>14, <2>2, <3>2, <3>3 DEF Orderly
    <3> QED
      BY <1>13, <2>2, <3>1, <3>2, <3>4
  <2>3. CASE Keys(l.left) = {} /\ Proceed(r, l)
    <3>1. l.fresh \subseteq active /\ l.fresh \subseteq l.seen \cup UNION {Keys(g) : g \in l.groups}
      BY <1>13, <1>14, <2>3 DEF Ahead
    <3> QED
      BY <1>12, <1>13, <2>3, <3>1, ProceedOrderly
  <2> QED
    BY <1>15, <2>1, <2>2, <2>3
<1>17. /\ miss' \in [Anomaly -> Nat] /\ cnt' \in [Anomaly -> 0..Persistence \cup {None}]
       /\ steady' \subseteq active /\ miss'[a] = 0 /\ \A x \in Anomaly : x # a => miss'[x] = miss[x]
  BY <1>4, <1>5, <1>14, <1>15 DEF StaleInv
<1>18. \A q \in Round : run'[q] = IF q = r THEN m ELSE run[q]
  BY <1>16 DEF StaleInv
<1>19. ASSUME NEW x \in steady'
       PROVE  miss'[x] + Cardinality(Threats(x)') < ResolveAfter
  <2>0. x \in Anomaly
    BY <1>17 DEF StaleInv
  <2>1. CASE x \in steady
    <3>1. miss[x] \in Nat /\ miss'[x] <= miss[x]
      BY <1>17, <2>0 DEF StaleInv
    <3>2. \A q \in Round : Threatens(run'[q], x) => Threatens(run[q], x)
      BY <1>1, <1>2, <1>16, <1>18 DEF Threatens
    <3> QED
      BY <1>17, <2>1, <3>1, <3>2, NoNewThreat
  <2>2. CASE x \notin steady
    <3>1. x = a /\ a \in o.fresh
      BY <1>15, <2>2
    <3>2. ~Threatens(run'[r], a)
      BY <1>16, <1>18, <3>1 DEF Threatens
    <3>3. Threats(a)' \subseteq Round \ {r}
      BY <3>2 DEF Threats
    <3>4. IsFiniteSet(Round \ {r}) /\ Cardinality(Round \ {r}) = Cardinality(Round) - 1
      BY FS_RemoveElement
    <3>5. IsFiniteSet(Threats(a)') /\ Cardinality(Threats(a)') <= Cardinality(Round \ {r})
      BY <3>3, <3>4, FS_Subset
    <3>6. Cardinality(Round) \in Nat /\ Cardinality(Threats(a)') \in Nat /\ ResolveAfter \in Nat
      BY <3>5, FS_CardinalityType, FunnelAssumption
    <3> QED
      BY <1>17, <3>1, <3>4, <3>5, <3>6
  <2> QED
    BY <2>1, <2>2
<1> QED
  BY <1>15, <1>16, <1>17, <1>19, RoundGoesOn DEF Locals

\* An anomaly that clears is steady no more.
LEMMA ClearStale ==
    ASSUME StaleInv, IsFiniteSet(Round), NEW a \in Anomaly, Clear(a)
    PROVE  StaleInv'
<1>1. /\ active' = active \ {a} /\ steady' = steady \ {a} /\ UNCHANGED <<cnt, miss>>
      /\ run' = [r \in Round |-> IF run[r] = Done THEN Done ELSE [run[r] EXCEPT !.fresh = @ \ {a}]]
  BY DEF Clear
<1>2. ASSUME NEW r \in Round
      PROVE  /\ run'[r] \in Locals
             /\ run'[r] # Done => Orderly(run[r])'
             /\ \A x \in steady' : Threatens(run'[r], x) => Threatens(run[r], x)
  <2>1. CASE run[r] = Done
    BY <1>1, <2>1 DEF Locals, Threatens
  <2>2. CASE run[r] # Done
    <3>1. PICK l, f : l = run[r] /\ f = l.fresh \ {a}
      OBVIOUS
    <3>2. l \in Running /\ Orderly(l)
      BY <2>2, <3>1, UnderWayOrderly
    <3>3. PICK m : m = [l EXCEPT !.fresh = f]
      OBVIOUS
    <3>4. run'[r] = m
      BY <1>1, <2>2, <3>1, <3>3
    <3>5. f \in SUBSET Anomaly
      BY <3>1, <3>2, RunningFields
    <3>6. m \in Running
      BY <3>2, <3>3, <3>5 DEF Running
    <3>7. /\ m.fresh = f /\ m.pc = l.pc /\ m.seen = l.seen /\ m.left = l.left /\ m.groups = l.groups
          /\ m.at = l.at /\ m.todo = l.todo
      BY <3>2, <3>3 DEF Running
    <3>8. Ahead(m) = Ahead(l)
      BY <3>7 DEF Ahead
    <3>9. Orderly(m)'
      BY <1>1, <3>1, <3>2, <3>7, <3>8 DEF Orderly
    <3>10. \A x \in steady' : Threatens(m, x) => Threatens(l, x)
      BY <1>1, <3>1, <3>2, <3>7, RunningFields DEF Threatens
    <3> QED
      BY <3>1, <3>4, <3>6, <3>9, <3>10 DEF Locals
  <2> QED
    BY <2>1, <2>2
<1>3. run' \in [Round -> Locals]
  BY <1>1, <1>2
<1>4. /\ active' \subseteq Anomaly /\ steady' \subseteq active' /\ miss' \in [Anomaly -> Nat]
      /\ cnt' \in [Anomaly -> 0..Persistence \cup {None}]
  BY <1>1 DEF StaleInv
<1>5. ASSUME NEW x \in steady'
      PROVE  miss'[x] + Cardinality(Threats(x)') < ResolveAfter
  <2>1. x \in steady /\ x \in Anomaly
    BY <1>1 DEF StaleInv
  <2>2. miss[x] \in Nat /\ miss'[x] = miss[x]
    BY <1>1, <2>1 DEF StaleInv
  <2>3. miss'[x] <= miss[x]
    BY <2>2
  <2> QED
    BY <1>2, <1>4, <2>1, <2>3, NoNewThreat
<1> QED
  BY <1>2, <1>3, <1>4, <1>5 DEF StaleInv

\* What does not touch the rounds and their counts.
LEMMA ElsewhereStale ==
    ASSUME StaleInv, active \subseteq active', active' \subseteq Anomaly, UNCHANGED <<cnt, miss, run, steady>>
    PROVE  StaleInv'
<1>1. \A r \in Round : run'[r] # Done => Orderly(run[r])'
  BY DEF StaleInv, Orderly, Ahead
<1>2. \A a \in steady : Threats(a)' = Threats(a)
  BY DEF Threats
<1> QED
  BY <1>1, <1>2 DEF StaleInv

\* grouping.py:26-27 and reconcile.py: an anomaly that a round verified and that is still there
\* never looks recovered, for any anomalies and services, when every round polls every target
\* and at most resolve_after_rounds rounds are under way at the same time.
THEOREM LiveIsNotStale ==
    /\ IsFiniteSet(Round) /\ Cardinality(Round) <= ResolveAfter
    /\ \A P \in PollSets : P = Anomaly
    /\ Spec
    => []LiveNotStale
<1> SUFFICES ASSUME IsFiniteSet(Round), Cardinality(Round) <= ResolveAfter, \A P \in PollSets : P = Anomaly
             PROVE  Spec => []LiveNotStale
  OBVIOUS
<1>1. Init => StaleInv
  <2> SUFFICES ASSUME Init PROVE StaleInv
    OBVIOUS
  <2>1. run = [r \in Round |-> Done] /\ active = {} /\ steady = {}
    BY DEF Init
  <2>2. run \in [Round -> Locals]
    BY <2>1 DEF Locals
  <2> QED
    BY <2>1, <2>2, NoneAssumption, FunnelAssumption DEF Init, StaleInv
<1>2. StaleInv /\ [Next]_vars => StaleInv'
  <2> SUFFICES ASSUME StaleInv, [Next]_vars PROVE StaleInv'
    OBVIOUS
  <2>1. ASSUME NEW a \in Anomaly, Begin(a) PROVE StaleInv'
    BY <2>1, ElsewhereStale DEF Begin, StaleInv
  <2>2. ASSUME NEW a \in Anomaly, Clear(a) PROVE StaleInv'
    BY <2>2, ClearStale
  <2>3. CASE \E r \in Round, P \in PollSets : Collect(r, P)
    BY <2>3, CollectStale
  <2>4. CASE \E r \in Round : Get(r)
    BY <2>4, GetStale
  <2>5. CASE \E r \in Round : Upsert(r)
    BY <2>5, UpsertStale
  <2>6. CASE \E r \in Round : Emit(r)
    BY <2>6, EmitStale
  <2>7. CASE \E r \in Round : SweepSelect(r) \/ Abort(r)
    BY <2>7, SweepStale
  <2>8. CASE \E r \in Round : SweepMiss(r)
    BY <2>8, SweepMissStale
  <2>9. CASE ReconList \/ ReconCheck \/ ReconResolve \/ \E i \in Ids : HumanClose(i)
    BY <2>9, ElsewhereStale DEF ReconList, ReconCheck, ReconResolve, HumanClose, StaleInv
  <2>10. CASE UNCHANGED vars
    BY <2>10, ElsewhereStale DEF vars, StaleInv
  <2> QED
    BY <2>1, <2>2, <2>3, <2>4, <2>5, <2>6, <2>7, <2>8, <2>9, <2>10 DEF Next
<1>3. StaleInv => LiveNotStale
  <2> SUFFICES ASSUME StaleInv, NEW a \in steady PROVE miss[a] < ResolveAfter
    BY DEF LiveNotStale
  <2>1. Threats(a) \subseteq Round
    BY DEF Threats
  <2>2. Cardinality(Threats(a)) \in Nat
    BY <2>1, FS_Subset, FS_CardinalityType
  <2>3. miss[a] \in Nat /\ ResolveAfter \in Nat /\ miss[a] + Cardinality(Threats(a)) < ResolveAfter
    BY FunnelAssumption DEF StaleInv
  <2> QED
    BY <2>2, <2>3
<1> QED
  BY <1>1, <1>2, <1>3, PTL DEF Spec
=============================================================================
