------------------------- MODULE CollectRoundsProofs -------------------------
(***************************************************************************)
(* What rounds keep true for any workers, events, page size and faults.    *)
(*                                                                         *)
(* The watermark: CollectInv says that every event before it was examined, *)
(* is in the hands of a round at work or among the losses (WatermarkInv),  *)
(* and of every worker that the time it took from the watermark, from a    *)
(* row or from a page keeps being such a time (LocalOK), whoever moves the *)
(* watermark meanwhile, in whichever direction.                            *)
(*                                                                         *)
(* The rows: StatusInv says how far a round has got in both tables for     *)
(* every place its worker may be at.                                       *)
(*                                                                         *)
(* The last section is about the lease that decides whose scheduler starts *)
(* rounds.                                                                 *)
(***************************************************************************)
EXTENDS CollectRounds, SchedulerLease, TLAPS, FiniteSetTheorems, NaturalsInduction, WellFoundedInduction

TypeInv ==
    /\ now \in Time
    /\ ts \in [Event -> Time \cup {None}]
    /\ wm \in Time \cup {None}
    /\ target \in [Rounds -> Row \cup {NoRow}]
    /\ round \in [Rounds -> RoundStatus]
    /\ work \in [Worker -> {Idle} \cup Busy]
    /\ examined \in [Event -> 0..2]
    /\ history \in [lost : SUBSET Event, unrecovered : Nat]

\* The places where the watermark has gone past the page.
Kept == {"snapshot", "gathered", "status", "funnel"}

Held(e) == \E w \in Worker : work[w].pc \in Kept /\ e \in work[w].page

\* The events that are accounted for.
Covered == {e \in Event : examined[e] > 0 \/ Held(e) \/ e \in history.lost}

\* With the timestamps T, all events before t are among C.
BelowIn(T, C, t) == \A e \in Event : T[e] # None /\ T[e] < t => e \in C

\* A page with locals l: with an event it has all earlier ones of the window, and it is
\* full, or it has everything since ref.
PageOK(l, T) ==
    /\ l.page # {}
    /\ \A e \in l.page : T[e] # None
    /\ \A e \in Event, f \in l.page :
         T[e] # None /\ T[e] < T[f] => e \in l.page \/ (l.ref # None /\ T[e] < l.ref)
    /\ l.ref # None =>
         /\ \A e \in l.page : l.ref <= T[e]
         /\ \/ Cardinality(l.page) >= PageSize
            \/ \A e \in Event : T[e] # None /\ l.ref <= T[e] /\ T[e] < l.at => e \in l.page

HasRound == {"createTarget", "watermark", "request", "advance", "snapshot", "gathered", "status",
             "funnel", "final", "failed"}

HasRow == {"watermark", "request", "advance", "snapshot", "gathered", "status"}

HasPage == {"advance", "snapshot", "gathered", "status", "funnel"}

\* The locals l of a worker, at the time n, with the timestamps T, the watermark m, the
\* rows tg and the events C accounted for.
LocalOK(l, n, T, m, tg, C) ==
    /\ l.at <= n /\ l.ended <= n
    /\ l.pc \in {"interrupt", "readRound", "interruptRound"} => l.ref \in Rounds
    /\ l.pc = "interrupt" => tg[l.ref] \in Row
    /\ l.pc = "rewind" => l.ref \in Time /\ l.ref <= n
    /\ l.pc \in HasRound => l.id \in Rounds
    /\ l.pc \in HasRow => tg[l.id] \in Row
    /\ l.pc \notin HasPage => l.page = {}
    /\ l.pc \in {"request", "advance"} /\ l.ref # None =>
         m # None /\ l.ref \in Time /\ l.ref <= n /\ BelowIn(T, C, l.ref)
    /\ l.pc = "advance" => PageOK(l, T)

\* A row of a collection that went well.
OkRow(x, n) == x.status = "ok" => x.finished \in Time /\ x.finished <= n

WatermarkInv == wm # None => wm <= now /\ BelowIn(ts, Covered, wm)

CollectInv ==
    /\ TypeInv
    /\ \A e \in Event : ts[e] # None => ts[e] <= now
    /\ WatermarkInv
    /\ \A i \in Rounds : OkRow(target[i], now)
    /\ \A w \in Worker : work[w] # Idle => LocalOK(work[w], now, ts, wm, target, Covered)

-----------------------------------------------------------------------------
(***************************************************************************)
(* Constants, fields, and the latest event of a page.                      *)
(***************************************************************************)
LEMMA Constants ==
    /\ PageSize \in Nat \ {0} /\ IsFiniteSet(Event) /\ None \notin Nat
    /\ Time = 0..MaxTime /\ MaxTime \in Nat /\ Time \subseteq Nat /\ None \notin Time
    /\ Rounds = 1..MaxRounds /\ MaxRounds \in Nat /\ Rounds \subseteq Nat /\ None \notin Rounds
  BY RoundsAssumption DEF Time, Rounds

LEMMA BusyFields ==
    ASSUME NEW l \in Busy
    PROVE  /\ l.at \in Time /\ l.id \in 0..MaxRounds /\ l.ref \in Nat \cup {None}
           /\ l.page \in SUBSET Event /\ l.ok \in BOOLEAN /\ l.ended \in Time
           /\ l.pc # "idle" /\ l # Idle
<1>1. /\ l.at \in Time /\ l.id \in 0..MaxRounds /\ l.ref \in Nat \cup {None}
      /\ l.page \in SUBSET Event /\ l.ok \in BOOLEAN /\ l.ended \in Time /\ l.pc # "idle"
  BY DEF Busy
<1>2. Idle.pc = "idle" BY DEF Idle
<1> QED BY <1>1, <1>2

LEMMA RowFields ==
    ASSUME NEW x \in Row
    PROVE  /\ x.status \in {"running", "ok", "failed", "interrupted"}
           /\ x.started \in Time /\ x.finished \in Time \cup {None}
  BY DEF Row

\* A worker at a place is at work.
LEMMA UnderWay ==
    ASSUME TypeInv, NEW w \in Worker, work[w].pc # "idle"
    PROVE  work[w] \in Busy /\ work[w] # Idle
<1>1. Idle.pc = "idle" BY DEF Idle
<1> QED BY <1>1 DEF TypeInv

LEMMA LeastExists ==
    ASSUME NEW S \in SUBSET Nat, S # {}
    PROVE  \E x \in S : \A y \in S : x <= y
<1>1. IsWellFoundedOn(OpToRel(<, Nat), Nat) BY NatLessThanWellFounded
<1>2. \E x \in S : \A y \in S : ~(<<y, x>> \in OpToRel(<, Nat)) BY <1>1, WFMin
<1>3. PICK x \in S : \A y \in S : ~(<<y, x>> \in OpToRel(<, Nat)) BY <1>2
<1>4. \A y \in S : ~(y < x)
  <2> SUFFICES ASSUME NEW y \in S, y < x PROVE FALSE OBVIOUS
  <2>1. y \in Nat /\ x \in Nat OBVIOUS
  <2>2. <<y, x>> \in OpToRel(<, Nat) BY <2>1, Zenon DEF OpToRel
  <2> QED BY <1>3, <2>2
<1> QED BY <1>4

LEMMA MaxIsLargest ==
    ASSUME NEW S \in SUBSET Nat, S # {}, NEW b \in Nat, \A x \in S : x <= b
    PROVE  Max(S) \in S /\ \A y \in S : y <= Max(S)
<1> DEFINE T == {b - x : x \in S}
<1>1. T \in SUBSET Nat OBVIOUS
<1>2. T # {} OBVIOUS
<1> HIDE DEF T
<1>3. PICK z \in T : \A y \in T : z <= y BY <1>1, <1>2, LeastExists
<1> USE DEF T
<1>4. PICK x \in S : z = b - x OBVIOUS
<1>5. \A y \in S : b - x <= b - y BY <1>3, <1>4
<1>6. \E m \in S : \A y \in S : m >= y BY <1>5
<1>7. Max(S) \in S /\ \A y \in S : Max(S) >= y BY <1>6 DEF Max
<1> QED BY <1>7

-----------------------------------------------------------------------------
(***************************************************************************)
(* What a worker knows does not depend on the others.                      *)
(***************************************************************************)
LEMMA BelowGrows ==
    ASSUME NEW T, NEW C, NEW C2, C \subseteq C2, NEW t, BelowIn(T, C, t)
    PROVE  BelowIn(T, C2, t)
  BY DEF BelowIn

\* A worker beside a step of another: more events are accounted for, the watermark may
\* move but is not taken away, and rows stay rows.
LEMMA LocalKeeps ==
    ASSUME NEW l \in Busy, NEW n, NEW T, NEW m, NEW m2, NEW tg, NEW tg2, NEW C, NEW C2,
           C \subseteq C2, m2 = None => m = None,
           \A i \in Rounds : tg[i] \in Row => tg2[i] \in Row,
           LocalOK(l, n, T, m, tg, C)
    PROVE  LocalOK(l, n, T, m2, tg2, C2)
<1>1. /\ l.at <= n /\ l.ended <= n
      /\ l.pc \in {"interrupt", "readRound", "interruptRound"} => l.ref \in Rounds
      /\ l.pc \in HasRound => l.id \in Rounds
      /\ l.pc \notin HasPage => l.page = {}
      /\ l.pc = "advance" => PageOK(l, T)
  BY DEF LocalOK
<1>2. l.pc = "interrupt" => tg2[l.ref] \in Row BY DEF LocalOK
<1>3. l.pc = "rewind" => l.ref \in Time /\ l.ref <= n BY DEF LocalOK
<1>4. l.pc \in HasRow => tg2[l.id] \in Row BY DEF LocalOK, HasRow, HasRound
<1>5. l.pc \in {"request", "advance"} /\ l.ref # None =>
        m2 # None /\ l.ref \in Time /\ l.ref <= n /\ BelowIn(T, C2, l.ref)
  BY BelowGrows DEF LocalOK
<1> QED BY <1>1, <1>2, <1>3, <1>4, <1>5 DEF LocalOK

\* An event that was accounted for is, after a step of w that drops no event of its page.
LEMMA CoveredGrows ==
    ASSUME TypeInv, NEW w \in Worker,
           \A q \in Worker : q # w => work'[q] = work[q],
           \A e \in Event : examined[e] > 0 => examined'[e] > 0,
           history.lost \subseteq history'.lost,
           work[w].pc \in Kept => \A e \in work[w].page :
               \/ work'[w].pc \in Kept /\ e \in work'[w].page
               \/ examined'[e] > 0
               \/ e \in history'.lost
    PROVE  Covered \subseteq Covered'
<1> SUFFICES ASSUME NEW e \in Event, examined[e] > 0 \/ Held(e) \/ e \in history.lost
             PROVE  examined'[e] > 0 \/ Held(e)' \/ e \in history'.lost
  BY DEF Covered
<1>1. CASE examined[e] > 0 BY <1>1
<1>2. CASE e \in history.lost BY <1>2
<1>3. CASE Held(e)
  <2>1. PICK q \in Worker : work[q].pc \in Kept /\ e \in work[q].page BY <1>3 DEF Held
  <2>2. CASE q = w BY <2>1, <2>2 DEF Held
  <2>3. CASE q # w BY <2>1, <2>3 DEF Held
  <2> QED BY <2>2, <2>3
<1> QED BY <1>1, <1>2, <1>3

\* A step of worker w.
LEMMA WorkerStep ==
    ASSUME CollectInv, NEW w \in Worker, TypeInv', now' = now, ts' = ts,
           \A q \in Worker : q # w => work'[q] = work[q],
           Covered \subseteq Covered',
           wm' = None => wm = None,
           wm' # None => wm' <= now /\ BelowIn(ts, Covered', wm'),
           \A i \in Rounds : target[i] \in Row => target'[i] \in Row,
           \A i \in Rounds : target'[i] = target[i] \/ OkRow(target'[i], now),
           work'[w] # Idle => LocalOK(work'[w], now, ts, wm', target', Covered')
    PROVE  CollectInv'
<1>1. \A e \in Event : ts'[e] # None => ts'[e] <= now' BY DEF CollectInv
<1>2. WatermarkInv' BY DEF WatermarkInv
<1>3. ASSUME NEW i \in Rounds PROVE OkRow(target'[i], now')
  <2>1. CASE target'[i] = target[i]
    <3>1. OkRow(target[i], now) BY DEF CollectInv
    <3> QED BY <2>1, <3>1
  <2> QED BY <2>1
<1>4. ASSUME NEW q \in Worker, work'[q] # Idle
      PROVE  LocalOK(work'[q], now', ts', wm', target', Covered')
  <2>1. CASE q = w BY <1>4, <2>1
  <2>2. CASE q # w
    <3>1. work'[q] = work[q] BY <2>2
    <3>2. work[q] \in Busy BY <1>4, <3>1 DEF CollectInv, TypeInv
    <3>3. LocalOK(work[q], now, ts, wm, target, Covered) BY <1>4, <3>1 DEF CollectInv
    <3>4. LocalOK(work[q], now, ts, wm', target', Covered') BY <3>2, <3>3, LocalKeeps
    <3> QED BY <3>1, <3>4
  <2> QED BY <2>1, <2>2
<1> QED BY <1>1, <1>2, <1>3, <1>4 DEF CollectInv

-----------------------------------------------------------------------------
(***************************************************************************)
(* Steps that change the locals of a worker only.                          *)
(***************************************************************************)
Places == {"orphan", "interrupt", "readRound", "interruptRound", "findOk", "rewind",
           "create", "createTarget", "watermark", "request", "advance", "snapshot", "gathered",
           "status", "funnel", "final", "failed"}

LEMMA LocalStep ==
    ASSUME CollectInv, NEW w \in Worker, NEW l \in Busy, work' = [work EXCEPT ![w] = l],
           work[w].pc \in Kept => l.pc \in Kept /\ work[w].page \subseteq l.page,
           UNCHANGED <<now, ts, wm, target, examined>>,
           round' \in [Rounds -> RoundStatus],
           history' \in [lost : SUBSET Event, unrecovered : Nat], history'.lost = history.lost,
           LocalOK(l, now, ts, wm, target, Covered)
    PROVE  CollectInv'
<1>1. TypeInv BY DEF CollectInv
<1>2. work'[w] = l /\ \A q \in Worker : q # w => work'[q] = work[q] BY <1>1 DEF TypeInv
<1>3. l # Idle BY BusyFields
<1>4. Covered \subseteq Covered' BY <1>1, <1>2, <1>3, CoveredGrows
<1>5. work' \in [Worker -> {Idle} \cup Busy] BY <1>1 DEF TypeInv
<1>6. TypeInv' BY <1>1, <1>5 DEF TypeInv
<1>7. wm' # None => wm' <= now /\ BelowIn(ts, Covered', wm')
  BY <1>4, BelowGrows DEF CollectInv, WatermarkInv
<1>8. \A i \in Rounds : target[i] \in Row => target'[i] \in Row OBVIOUS
<1>9. LocalOK(l, now, ts, wm', target', Covered') BY <1>4, <1>8, LocalKeeps
<1>10. \A i \in Rounds : target'[i] = target[i] \/ OkRow(target'[i], now) OBVIOUS
<1>11. (wm' = None => wm = None) /\ (work'[w] # Idle => LocalOK(work'[w], now, ts, wm', target', Covered'))
  BY <1>2, <1>9
<1>12. now' = now /\ ts' = ts OBVIOUS
<1> QED BY <1>2, <1>4, <1>6, <1>7, <1>8, <1>10, <1>11, <1>12, WorkerStep

\* The locals of w at another place.
LEMMA Moved ==
    ASSUME NEW k \in Busy, NEW pc \in Places
    PROVE  LET l == [k EXCEPT !.pc = pc]
           IN  /\ l \in Busy /\ l.pc = pc /\ l.at = k.at /\ l.id = k.id /\ l.ref = k.ref
               /\ l.page = k.page /\ l.ok = k.ok /\ l.ended = k.ended
  BY DEF Busy, Places

\* A worker that begins.
LEMMA Begun ==
    ASSUME TypeInv, NEW pc \in Places
    PROVE  /\ Begin(pc) \in Busy /\ Begin(pc).pc = pc /\ Begin(pc).at = now
           /\ Begin(pc).ended = now /\ Begin(pc).page = {}
<1>1. 0 \in 0..MaxRounds BY RoundsAssumption
<1> QED BY <1>1 DEF TypeInv, Begin, Busy, Places

LEMMA BeginStep ==
    ASSUME CollectInv, NEW w \in Worker, work[w] = Idle, NEW pc \in {"orphan", "create"},
           work' = [work EXCEPT ![w] = Begin(pc)],
           UNCHANGED <<now, ts, wm, target, round, examined, history>>
    PROVE  CollectInv'
<1>1. TypeInv BY DEF CollectInv
<1>2. PICK l : l = Begin(pc) OBVIOUS
<1>3. pc \in Places BY DEF Places
<1>4. l \in Busy /\ l.pc = pc /\ l.at = now /\ l.ended = now /\ l.page = {}
  BY <1>1, <1>2, <1>3, Begun
<1>5. now <= now BY <1>1, Constants DEF TypeInv
<1>6. LocalOK(l, now, ts, wm, target, Covered)
  BY <1>4, <1>5 DEF LocalOK, HasRound, HasRow, HasPage
<1>7. round' \in [Rounds -> RoundStatus] /\ history' \in [lost : SUBSET Event, unrecovered : Nat]
      /\ history'.lost = history.lost
  BY <1>1 DEF TypeInv
<1>8. work[w].pc \in Kept => l.pc \in Kept /\ work[w].page \subseteq l.page BY DEF Kept, Idle
<1> QED BY <1>2, <1>4, <1>6, <1>7, <1>8, LocalStep

LEMMA StutterStep ==
    ASSUME CollectInv, UNCHANGED <<now, ts, wm, target, round, work, examined, history>>
    PROVE  CollectInv'
<1>1. Covered' = Covered BY DEF Covered, Held
<1>2. TypeInv' BY DEF CollectInv, TypeInv
<1> QED BY <1>1, <1>2 DEF CollectInv, WatermarkInv

LEMMA TickKeeps ==
    ASSUME CollectInv, NEW s \in Scheduler, Tick(s)
    PROVE  CollectInv'
<1>1. s \in Worker BY DEF Worker
<1>2. /\ work[s] = Idle /\ (work' = work \/ work' = [work EXCEPT ![s] = Begin("orphan")])
      /\ UNCHANGED <<now, ts, wm, target, round, examined, history>>
  BY DEF Tick
<1>3. CASE work' = work BY <1>2, <1>3, StutterStep
<1>4. CASE work' = [work EXCEPT ![s] = Begin("orphan")]
  <2>1. work[s] = Idle BY DEF Tick
  <2> QED BY <1>1, <1>2, <1>4, <2>1, BeginStep
<1> QED BY <1>2, <1>3, <1>4

LEMMA RunMonitorKeeps ==
    ASSUME CollectInv, NEW m \in Manual, RunMonitor(m)
    PROVE  CollectInv'
<1>1. m \in Worker BY DEF Worker
<1>2. /\ work[m] = Idle /\ work' = [work EXCEPT ![m] = Begin("create")]
      /\ UNCHANGED <<now, ts, wm, target, round, examined, history>>
  BY DEF RunMonitor
<1> QED BY <1>1, <1>2, BeginStep

\* A worker that goes on to a place where it has nothing to know.
LEMMA GoOn ==
    ASSUME CollectInv, NEW w \in Worker, work[w].pc # "idle", work[w].page = {},
           work[w].pc \notin Kept, NEW pc \in {"create", "findOk"}, GoTo(w, pc),
           UNCHANGED <<now, ts, wm, target, examined>>,
           round' \in [Rounds -> RoundStatus],
           history' \in [lost : SUBSET Event, unrecovered : Nat], history'.lost = history.lost
    PROVE  CollectInv'
<1>1. TypeInv BY DEF CollectInv
<1>2. work[w] \in Busy /\ work[w] # Idle BY <1>1, UnderWay
<1>3. PICK l : l = [work[w] EXCEPT !.pc = pc] OBVIOUS
<1>4. pc \in Places BY DEF Places
<1>5. l \in Busy /\ l.pc = pc /\ l.at = work[w].at /\ l.page = {} /\ l.ended = work[w].ended
  BY <1>2, <1>3, <1>4, Moved
<1>6. work' = [work EXCEPT ![w] = l] BY <1>1, <1>3 DEF GoTo, TypeInv
<1>7. work[w].at <= now /\ work[w].ended <= now BY <1>2 DEF CollectInv, LocalOK
<1>8. LocalOK(l, now, ts, wm, target, Covered)
  BY <1>5, <1>7 DEF LocalOK, HasRound, HasRow, HasPage
<1> QED BY <1>5, <1>6, <1>8, LocalStep

\* What is known of a worker at a place.
LEMMA Here ==
    ASSUME CollectInv, NEW w \in Worker, work[w].pc # "idle"
    PROVE  /\ work[w] \in Busy /\ work[w] # Idle
           /\ LocalOK(work[w], now, ts, wm, target, Covered)
           /\ work[w].at <= now /\ work[w].ended <= now
<1>1. TypeInv BY DEF CollectInv
<1>2. work[w] \in Busy /\ work[w] # Idle BY <1>1, UnderWay
<1>3. LocalOK(work[w], now, ts, wm, target, Covered) BY <1>2 DEF CollectInv
<1>4. work[w].at <= now /\ work[w].ended <= now BY <1>3 DEF LocalOK
<1> QED BY <1>2, <1>3, <1>4

LEMMA StatusOfRow ==
    ASSUME NEW x \in Row \cup {NoRow}, x.status # "none"
    PROVE  x \in Row
  BY DEF NoRow

LEMMA SameRest ==
    ASSUME CollectInv, UNCHANGED <<round, history>>
    PROVE  /\ round' \in [Rounds -> RoundStatus]
           /\ history' \in [lost : SUBSET Event, unrecovered : Nat] /\ history'.lost = history.lost
  BY DEF CollectInv, TypeInv

LEMMA FindOrphanKeeps ==
    ASSUME CollectInv, NEW s \in Scheduler, FindOrphan(s)
    PROVE  CollectInv'
<1>1. s \in Worker /\ work[s].pc = "orphan" BY DEF Worker, FindOrphan, At
<1>2. TypeInv BY DEF CollectInv
<1>3. /\ work[s] \in Busy /\ work[s] # Idle /\ LocalOK(work[s], now, ts, wm, target, Covered)
      /\ work[s].at <= now /\ work[s].ended <= now
  BY <1>1, Here
<1>4. work[s].page = {} BY <1>1, <1>3 DEF LocalOK, HasPage
<1>5. UNCHANGED <<now, ts, wm, target, round, examined, history>> BY DEF FindOrphan
<1>6. /\ round' \in [Rounds -> RoundStatus]
      /\ history' \in [lost : SUBSET Event, unrecovered : Nat] /\ history'.lost = history.lost
  BY <1>5, SameRest
<1>7. CASE GoTo(s, "create") BY <1>1, <1>4, <1>5, <1>6, <1>7, GoOn DEF Kept
<1>8. ASSUME NEW i \in Latest("running"), work' = [work EXCEPT ![s].pc = "interrupt", ![s].ref = i]
      PROVE  CollectInv'
  <2>1. i \in Rounds /\ target[i].status = "running" BY DEF Latest
  <2>2. target[i] \in Row \cup {NoRow} BY <1>2, <2>1 DEF TypeInv
  <2>3. target[i] \in Row BY <2>1, <2>2, StatusOfRow
  <2>4. PICK l : l = [work[s] EXCEPT !.pc = "interrupt", !.ref = i] OBVIOUS
  <2>5. "interrupt" \in Places /\ i \in Nat \cup {None} BY <2>1, Constants DEF Places
  <2>6. /\ l \in Busy /\ l.pc = "interrupt" /\ l.at = work[s].at /\ l.ref = i
        /\ l.page = {} /\ l.ended = work[s].ended
    BY <1>3, <1>4, <2>4, <2>5, BusyFields DEF Busy, Places
  <2>7. work' = [work EXCEPT ![s] = l] BY <1>1, <1>2, <1>8, <2>4 DEF TypeInv
  <2>8. LocalOK(l, now, ts, wm, target, Covered)
    BY <1>3, <2>1, <2>3, <2>6 DEF LocalOK, HasRound, HasRow, HasPage
  <2>9. work[s].pc \in Kept => l.pc \in Kept /\ work[s].page \subseteq l.page BY <1>1 DEF Kept
  <2> QED BY <1>1, <1>5, <1>6, <2>6, <2>7, <2>8, <2>9, LocalStep
<1> QED BY <1>7, <1>8 DEF FindOrphan

LEMMA ReadRoundKeeps ==
    ASSUME CollectInv, NEW s \in Scheduler, ReadRound(s)
    PROVE  CollectInv'
<1>1. s \in Worker /\ work[s].pc = "readRound" BY DEF Worker, ReadRound, At
<1>2. TypeInv BY DEF CollectInv
<1>3. /\ work[s] \in Busy /\ work[s] # Idle /\ LocalOK(work[s], now, ts, wm, target, Covered)
      /\ work[s].at <= now /\ work[s].ended <= now
  BY <1>1, Here
<1>4. work[s].page = {} /\ work[s].ref \in Rounds BY <1>1, <1>3 DEF LocalOK, HasPage
<1>5. UNCHANGED <<now, ts, wm, target, round, examined, history>> BY DEF ReadRound
<1>6. /\ round' \in [Rounds -> RoundStatus]
      /\ history' \in [lost : SUBSET Event, unrecovered : Nat] /\ history'.lost = history.lost
  BY <1>5, SameRest
<1>7. CASE GoTo(s, "findOk") BY <1>1, <1>4, <1>5, <1>6, <1>7, GoOn DEF Kept
<1>8. CASE GoTo(s, "interruptRound")
  <2>1. PICK l : l = [work[s] EXCEPT !.pc = "interruptRound"] OBVIOUS
  <2>2. "interruptRound" \in Places BY DEF Places
  <2>3. /\ l \in Busy /\ l.pc = "interruptRound" /\ l.at = work[s].at /\ l.ref = work[s].ref
        /\ l.page = {} /\ l.ended = work[s].ended
    BY <1>3, <1>4, <2>1, <2>2, Moved
  <2>4. work' = [work EXCEPT ![s] = l] BY <1>1, <1>2, <1>8, <2>1 DEF TypeInv, GoTo
  <2>5. LocalOK(l, now, ts, wm, target, Covered)
    BY <1>3, <1>4, <2>3 DEF LocalOK, HasRound, HasRow, HasPage
  <2>6. work[s].pc \in Kept => l.pc \in Kept /\ work[s].page \subseteq l.page BY <1>1 DEF Kept
  <2> QED BY <1>1, <1>5, <1>6, <2>3, <2>4, <2>5, <2>6, LocalStep
<1> QED BY <1>7, <1>8 DEF ReadRound

LEMMA InterruptRoundKeeps ==
    ASSUME CollectInv, NEW s \in Scheduler, InterruptRound(s)
    PROVE  CollectInv'
<1>1. s \in Worker /\ work[s].pc = "interruptRound" BY DEF Worker, InterruptRound, At
<1>2. TypeInv BY DEF CollectInv
<1>3. LocalOK(work[s], now, ts, wm, target, Covered) BY <1>1, Here
<1>4. work[s].page = {} /\ work[s].ref \in Rounds BY <1>1, <1>3 DEF LocalOK, HasPage
<1>5. /\ UNCHANGED <<now, ts, wm, target, examined, history>> /\ GoTo(s, "findOk")
      /\ round' = [round EXCEPT ![work[s].ref] = "interrupted"]
  BY DEF InterruptRound
<1>6. /\ round' \in [Rounds -> RoundStatus]
      /\ history' \in [lost : SUBSET Event, unrecovered : Nat] /\ history'.lost = history.lost
  BY <1>2, <1>5 DEF TypeInv, RoundStatus
<1> QED BY <1>1, <1>4, <1>5, <1>6, GoOn DEF Kept

LEMMA RecoverFailsKeeps ==
    ASSUME CollectInv, NEW s \in Scheduler, RecoverFails(s)
    PROVE  CollectInv'
<1>1. /\ s \in Worker /\ work[s].pc # "idle"
      /\ work[s].pc \in {"orphan", "interrupt", "readRound", "interruptRound", "findOk", "rewind"}
  BY DEF Worker, RecoverFails
<1>2. TypeInv BY DEF CollectInv
<1>3. LocalOK(work[s], now, ts, wm, target, Covered) BY <1>1, Here
<1>4. work[s].page = {} BY <1>1, <1>3 DEF LocalOK, HasPage
<1>5. /\ UNCHANGED <<now, ts, wm, target, round, examined>> /\ GoTo(s, "create")
      /\ history' = [history EXCEPT !.unrecovered = @ + 1]
  BY DEF RecoverFails
<1>6. history' \in [lost : SUBSET Event, unrecovered : Nat] /\ history'.lost = history.lost
  BY <1>2, <1>5 DEF TypeInv
<1>7. round' \in [Rounds -> RoundStatus] BY <1>2, <1>5 DEF TypeInv
<1>8. work[s].pc \notin Kept BY <1>1 DEF Kept
<1> QED BY <1>1, <1>4, <1>5, <1>6, <1>7, <1>8, GoOn

LEMMA FindOkKeeps ==
    ASSUME CollectInv, NEW s \in Scheduler, FindOk(s)
    PROVE  CollectInv'
<1>1. s \in Worker /\ work[s].pc = "findOk" BY DEF Worker, FindOk, At
<1>2. TypeInv BY DEF CollectInv
<1>3. /\ work[s] \in Busy /\ work[s] # Idle /\ LocalOK(work[s], now, ts, wm, target, Covered)
      /\ work[s].at <= now /\ work[s].ended <= now
  BY <1>1, Here
<1>4. work[s].page = {} BY <1>1, <1>3 DEF LocalOK, HasPage
<1>5. UNCHANGED <<now, ts, wm, target, round, examined, history>> BY DEF FindOk
<1>6. /\ round' \in [Rounds -> RoundStatus]
      /\ history' \in [lost : SUBSET Event, unrecovered : Nat] /\ history'.lost = history.lost
  BY <1>5, SameRest
<1>7. CASE GoTo(s, "create") BY <1>1, <1>4, <1>5, <1>6, <1>7, GoOn DEF Kept
<1>8. ASSUME NEW i \in Latest("ok"),
             work' = [work EXCEPT ![s].pc = "rewind", ![s].ref = target[i].finished]
      PROVE  CollectInv'
  <2>1. i \in Rounds /\ target[i].status = "ok" BY DEF Latest
  <2>2. PICK t : t = target[i].finished OBVIOUS
  <2>3. OkRow(target[i], now) BY <2>1 DEF CollectInv
  <2>4. t \in Time /\ t <= now BY <2>1, <2>2, <2>3 DEF OkRow
  <2>5. PICK l : l = [work[s] EXCEPT !.pc = "rewind", !.ref = t] OBVIOUS
  <2>6. "rewind" \in Places /\ t \in Nat \cup {None} BY <2>4, Constants DEF Places
  <2>7. /\ l \in Busy /\ l.pc = "rewind" /\ l.at = work[s].at /\ l.ref = t
        /\ l.page = {} /\ l.ended = work[s].ended
    BY <1>3, <1>4, <2>5, <2>6, BusyFields DEF Busy, Places
  <2>8. work' = [work EXCEPT ![s] = l] BY <1>1, <1>2, <1>8, <2>2, <2>5 DEF TypeInv
  <2>9. LocalOK(l, now, ts, wm, target, Covered)
    BY <1>3, <2>4, <2>7 DEF LocalOK, HasRound, HasRow, HasPage
  <2>10. work[s].pc \in Kept => l.pc \in Kept /\ work[s].page \subseteq l.page BY <1>1 DEF Kept
  <2> QED BY <1>1, <1>5, <1>6, <2>7, <2>8, <2>9, <2>10, LocalStep
<1> QED BY <1>7, <1>8 DEF FindOk

LEMMA CreateRoundKeeps ==
    ASSUME CollectInv, NEW w \in Worker, CreateRound(w)
    PROVE  CollectInv'
<1>1. work[w].pc = "create" BY DEF CreateRound, At
<1>2. TypeInv BY DEF CollectInv
<1>3. /\ work[w] \in Busy /\ work[w] # Idle /\ LocalOK(work[w], now, ts, wm, target, Covered)
      /\ work[w].at <= now /\ work[w].ended <= now
  BY <1>1, Here
<1>4. work[w].page = {} BY <1>1, <1>3 DEF LocalOK, HasPage
<1>5. UNCHANGED <<now, ts, wm, target, examined, history>> BY DEF CreateRound
<1>6. PICK i \in Rounds : /\ round' = [round EXCEPT ![i] = "running"]
                          /\ work' = [work EXCEPT ![w].pc = "createTarget", ![w].id = i]
  BY DEF CreateRound
<1>7. /\ round' \in [Rounds -> RoundStatus]
      /\ history' \in [lost : SUBSET Event, unrecovered : Nat] /\ history'.lost = history.lost
  BY <1>2, <1>5, <1>6 DEF TypeInv, RoundStatus
<1>8. PICK l : l = [work[w] EXCEPT !.pc = "createTarget", !.id = i] OBVIOUS
<1>9. i \in 0..MaxRounds BY Constants
<1>10. /\ l \in Busy /\ l.pc = "createTarget" /\ l.at = work[w].at /\ l.id = i
       /\ l.page = {} /\ l.ended = work[w].ended
  BY <1>3, <1>4, <1>8, <1>9, BusyFields DEF Busy
<1>11. work' = [work EXCEPT ![w] = l] BY <1>2, <1>6, <1>8 DEF TypeInv
<1>12. LocalOK(l, now, ts, wm, target, Covered)
  BY <1>3, <1>10 DEF LocalOK, HasRound, HasRow, HasPage
<1>13. work[w].pc \in Kept => l.pc \in Kept /\ work[w].page \subseteq l.page BY <1>1 DEF Kept
<1> QED BY <1>5, <1>7, <1>10, <1>11, <1>12, <1>13, LocalStep

\* The window starts at the watermark: all events before it are accounted for.
LEMMA ReadWatermarkKeeps ==
    ASSUME CollectInv, NEW w \in Worker, ReadWatermark(w)
    PROVE  CollectInv'
<1>1. work[w].pc = "watermark" BY DEF ReadWatermark, At
<1>2. TypeInv BY DEF CollectInv
<1>3. /\ work[w] \in Busy /\ work[w] # Idle /\ LocalOK(work[w], now, ts, wm, target, Covered)
      /\ work[w].at <= now /\ work[w].ended <= now
  BY <1>1, Here
<1>4. work[w].page = {} /\ work[w].id \in Rounds /\ target[work[w].id] \in Row
  BY <1>1, <1>3 DEF LocalOK, HasPage, HasRound, HasRow
<1>5. UNCHANGED <<now, ts, wm, target, round, examined, history>> BY DEF ReadWatermark
<1>6. /\ round' \in [Rounds -> RoundStatus]
      /\ history' \in [lost : SUBSET Event, unrecovered : Nat] /\ history'.lost = history.lost
  BY <1>5, SameRest
<1>7. PICK t : t = IF wm = None \/ WatermarkIsFuture(work[w].at) THEN None ELSE wm OBVIOUS
<1>8. t # None => wm # None /\ t = wm BY <1>7
<1>9. t # None => t \in Time /\ t <= now /\ BelowIn(ts, Covered, t)
  BY <1>2, <1>8 DEF CollectInv, WatermarkInv, TypeInv
<1>10. t \in Nat \cup {None} BY <1>9, Constants
<1>11. PICK l : l = [work[w] EXCEPT !.pc = "request", !.ref = t] OBVIOUS
<1>12. /\ l \in Busy /\ l.pc = "request" /\ l.at = work[w].at /\ l.id = work[w].id /\ l.ref = t
       /\ l.page = {} /\ l.ended = work[w].ended
  BY <1>3, <1>4, <1>10, <1>11, BusyFields DEF Busy
<1>13. work' = [work EXCEPT ![w] = l] BY <1>2, <1>7, <1>11 DEF TypeInv, ReadWatermark
<1>14. LocalOK(l, now, ts, wm, target, Covered)
  BY <1>3, <1>4, <1>8, <1>9, <1>12 DEF LocalOK, HasRound, HasRow, HasPage
<1>15. work[w].pc \in Kept => l.pc \in Kept /\ work[w].page \subseteq l.page BY <1>1 DEF Kept
<1> QED BY <1>5, <1>6, <1>12, <1>13, <1>14, <1>15, LocalStep

\* The locals of a degraded collection.
LEMMA DegradedLocals ==
    ASSUME TypeInv, NEW w \in Worker, work[w] \in Busy
    PROVE  /\ Degraded(w) \in Busy /\ Degraded(w).pc = "gathered" /\ Degraded(w).at = work[w].at
           /\ Degraded(w).id = work[w].id /\ Degraded(w).page = {} /\ Degraded(w).ok = FALSE
           /\ Degraded(w).ended = work[w].ended
  BY DEF Degraded, Busy

LEMMA SourceFailsKeeps ==
    ASSUME CollectInv, NEW w \in Worker, SourceFails(w)
    PROVE  CollectInv'
<1>1. work[w].pc \in {"watermark", "request", "advance"} BY DEF SourceFails
<1>2. TypeInv BY DEF CollectInv
<1>3. /\ work[w] \in Busy /\ work[w] # Idle /\ LocalOK(work[w], now, ts, wm, target, Covered)
      /\ work[w].at <= now /\ work[w].ended <= now
  BY <1>1, Here
<1>4. work[w].id \in Rounds /\ target[work[w].id] \in Row
  BY <1>1, <1>3 DEF LocalOK, HasRound, HasRow
<1>5. UNCHANGED <<now, ts, wm, target, round, examined, history>> BY DEF SourceFails
<1>6. /\ round' \in [Rounds -> RoundStatus]
      /\ history' \in [lost : SUBSET Event, unrecovered : Nat] /\ history'.lost = history.lost
  BY <1>5, SameRest
<1>7. PICK l : l = Degraded(w) OBVIOUS
<1>8. /\ l \in Busy /\ l.pc = "gathered" /\ l.at = work[w].at /\ l.id = work[w].id
      /\ l.page = {} /\ l.ok = FALSE /\ l.ended = work[w].ended
  BY <1>2, <1>3, <1>7, DegradedLocals
<1>9. LocalOK(l, now, ts, wm, target, Covered)
  BY <1>3, <1>4, <1>8 DEF LocalOK, HasRound, HasRow, HasPage
<1>10. work' = [work EXCEPT ![w] = l] BY <1>7 DEF SourceFails
<1>11. work[w].pc \in Kept => l.pc \in Kept /\ work[w].page \subseteq l.page BY <1>1 DEF Kept
<1> QED BY <1>5, <1>6, <1>8, <1>9, <1>10, <1>11, LocalStep

-----------------------------------------------------------------------------
(***************************************************************************)
(* Steps that write a row of the target.                                   *)
(***************************************************************************)
LEMMA RowStep ==
    ASSUME CollectInv, NEW w \in Worker, NEW l \in Busy, work' = [work EXCEPT ![w] = l],
           work[w].pc \in Kept => l.pc \in Kept /\ work[w].page \subseteq l.page,
           UNCHANGED <<now, ts, wm, round, examined, history>>,
           NEW i \in Rounds, NEW x \in Row, target' = [target EXCEPT ![i] = x],
           OkRow(x, now),
           LocalOK(l, now, ts, wm, target', Covered)
    PROVE  CollectInv'
<1>1. TypeInv BY DEF CollectInv
<1>2. work'[w] = l /\ \A q \in Worker : q # w => work'[q] = work[q] BY <1>1 DEF TypeInv
<1>3. l # Idle BY BusyFields
<1>4. Covered \subseteq Covered' BY <1>1, <1>2, <1>3, CoveredGrows
<1>5. work' \in [Worker -> {Idle} \cup Busy] /\ target' \in [Rounds -> Row \cup {NoRow}]
  BY <1>1 DEF TypeInv
<1>6. TypeInv' BY <1>1, <1>5 DEF TypeInv
<1>7. wm' # None => wm' <= now /\ BelowIn(ts, Covered', wm')
  BY <1>4, BelowGrows DEF CollectInv, WatermarkInv
<1>8. \A j \in Rounds : target'[j] = IF j = i THEN x ELSE target[j] BY <1>1 DEF TypeInv
<1>9. \A j \in Rounds : target[j] \in Row => target'[j] \in Row BY <1>8
<1>10. LocalOK(l, now, ts, wm', target', Covered')
  <2>1. PICK tg : tg = target' OBVIOUS
  <2>2. LocalOK(l, now, ts, wm, tg, Covered) BY <2>1
  <2>3. LocalOK(l, now, ts, wm, tg, Covered') BY <1>4, <2>2, LocalKeeps
  <2> QED BY <2>1, <2>3
<1>11. \A j \in Rounds : target'[j] = target[j] \/ OkRow(target'[j], now)
  BY <1>8
<1>12. (wm' = None => wm = None) /\ (work'[w] # Idle => LocalOK(work'[w], now, ts, wm', target', Covered'))
  BY <1>2, <1>10
<1>13. now' = now /\ ts' = ts OBVIOUS
<1> QED BY <1>2, <1>4, <1>6, <1>7, <1>9, <1>11, <1>12, <1>13, WorkerStep

LEMMA InterruptTargetKeeps ==
    ASSUME CollectInv, NEW s \in Scheduler, InterruptTarget(s)
    PROVE  CollectInv'
<1>1. s \in Worker /\ work[s].pc = "interrupt" BY DEF Worker, InterruptTarget, At
<1>2. TypeInv BY DEF CollectInv
<1>3. /\ work[s] \in Busy /\ work[s] # Idle /\ LocalOK(work[s], now, ts, wm, target, Covered)
      /\ work[s].at <= now /\ work[s].ended <= now
  BY <1>1, Here
<1>4. PICK i : i = work[s].ref OBVIOUS
<1>5. work[s].page = {} /\ i \in Rounds /\ target[i] \in Row
  BY <1>1, <1>3, <1>4 DEF LocalOK, HasPage
<1>6. UNCHANGED <<now, ts, wm, round, examined, history>> BY DEF InterruptTarget
<1>7. PICK x : x = [target[i] EXCEPT !.status = "interrupted", !.finished = work[s].at] OBVIOUS
<1>8. x \in Row /\ x.status = "interrupted" BY <1>3, <1>5, <1>7, BusyFields DEF Row
<1>9. OkRow(x, now) BY <1>8 DEF OkRow
<1>10. target' = [target EXCEPT ![i] = x] BY <1>2, <1>4, <1>5, <1>7 DEF InterruptTarget, TypeInv
<1>11. PICK l : l = [work[s] EXCEPT !.pc = "readRound"] OBVIOUS
<1>12. "readRound" \in Places BY DEF Places
<1>13. /\ l \in Busy /\ l.pc = "readRound" /\ l.at = work[s].at /\ l.ref = i
       /\ l.page = {} /\ l.ended = work[s].ended
  BY <1>3, <1>4, <1>5, <1>11, <1>12, Moved
<1>14. work' = [work EXCEPT ![s] = l] BY <1>1, <1>2, <1>11 DEF TypeInv, GoTo, InterruptTarget
<1>15. LocalOK(l, now, ts, wm, target', Covered)
  BY <1>3, <1>5, <1>13 DEF LocalOK, HasRound, HasRow, HasPage
<1>16. work[s].pc \in Kept => l.pc \in Kept /\ work[s].page \subseteq l.page BY <1>1 DEF Kept
<1> QED BY <1>1, <1>5, <1>6, <1>8, <1>9, <1>10, <1>13, <1>14, <1>15, <1>16, RowStep

LEMMA CreateTargetKeeps ==
    ASSUME CollectInv, NEW w \in Worker, CreateTarget(w)
    PROVE  CollectInv'
<1>1. work[w].pc = "createTarget" BY DEF CreateTarget, At
<1>2. TypeInv BY DEF CollectInv
<1>3. /\ work[w] \in Busy /\ work[w] # Idle /\ LocalOK(work[w], now, ts, wm, target, Covered)
      /\ work[w].at <= now /\ work[w].ended <= now
  BY <1>1, Here
<1>4. PICK i : i = work[w].id OBVIOUS
<1>5. work[w].page = {} /\ i \in Rounds BY <1>1, <1>3, <1>4 DEF LocalOK, HasPage, HasRound
<1>6. UNCHANGED <<now, ts, wm, round, examined, history>> BY DEF CreateTarget
<1>7. PICK x : x = [status |-> "running", started |-> work[w].at, finished |-> None] OBVIOUS
<1>8. x \in Row /\ x.status = "running" BY <1>3, <1>7, BusyFields DEF Row
<1>9. OkRow(x, now) BY <1>8 DEF OkRow
<1>10. target' = [target EXCEPT ![i] = x] BY <1>4, <1>7 DEF CreateTarget
<1>11. target'[i] \in Row BY <1>2, <1>5, <1>8, <1>10 DEF TypeInv
<1>12. PICK l : l = [work[w] EXCEPT !.pc = "watermark"] OBVIOUS
<1>13. "watermark" \in Places BY DEF Places
<1>14. /\ l \in Busy /\ l.pc = "watermark" /\ l.at = work[w].at /\ l.id = i
       /\ l.page = {} /\ l.ended = work[w].ended
  BY <1>3, <1>4, <1>5, <1>12, <1>13, Moved
<1>15. work' = [work EXCEPT ![w] = l] BY <1>2, <1>12 DEF TypeInv, GoTo, CreateTarget
<1>16. LocalOK(l, now, ts, wm, target', Covered)
  BY <1>3, <1>5, <1>11, <1>14 DEF LocalOK, HasRound, HasRow, HasPage
<1>17. work[w].pc \in Kept => l.pc \in Kept /\ work[w].page \subseteq l.page BY <1>1 DEF Kept
<1> QED BY <1>5, <1>6, <1>8, <1>9, <1>10, <1>14, <1>15, <1>16, <1>17, RowStep

\* A row that says ok carries the end of a collection, whose time is safe to rewind to.
LEMMA TargetStatusKeeps ==
    ASSUME CollectInv, NEW w \in Worker, TargetStatus(w)
    PROVE  CollectInv'
<1>1. work[w].pc = "status" BY DEF TargetStatus, At
<1>2. TypeInv BY DEF CollectInv
<1>3. /\ work[w] \in Busy /\ work[w] # Idle /\ LocalOK(work[w], now, ts, wm, target, Covered)
      /\ work[w].at <= now /\ work[w].ended <= now
  BY <1>1, Here
<1>4. PICK i : i = work[w].id OBVIOUS
<1>5. i \in Rounds /\ target[i] \in Row BY <1>1, <1>3, <1>4 DEF LocalOK, HasRound, HasRow
<1>6. UNCHANGED <<now, ts, wm, round, examined, history>> BY DEF TargetStatus
<1>7. PICK v : v = IF work[w].ok THEN "ok" ELSE "failed" OBVIOUS
<1>8. PICK x : x = [target[i] EXCEPT !.status = v, !.finished = work[w].ended] OBVIOUS
<1>9. v \in {"ok", "failed"} /\ work[w].ended \in Time /\ (v = "ok" => work[w].ok)
  BY <1>3, <1>7, BusyFields
<1>10. x \in Row /\ x.status = v /\ x.finished = work[w].ended BY <1>5, <1>8, <1>9 DEF Row
<1>12. OkRow(x, now) BY <1>3, <1>9, <1>10 DEF OkRow
<1>13. target' = [target EXCEPT ![i] = x]
  BY <1>2, <1>4, <1>5, <1>7, <1>8 DEF TargetStatus, TypeInv
<1>14. PICK l : l = [work[w] EXCEPT !.pc = "funnel"] OBVIOUS
<1>15. "funnel" \in Places BY DEF Places
<1>16. /\ l \in Busy /\ l.pc = "funnel" /\ l.at = work[w].at /\ l.id = i
       /\ l.page = work[w].page /\ l.ended = work[w].ended
  BY <1>3, <1>4, <1>5, <1>14, <1>15, Moved
<1>17. work' = [work EXCEPT ![w] = l] BY <1>2, <1>14 DEF TypeInv, GoTo, TargetStatus
<1>18. LocalOK(l, now, ts, wm, target', Covered)
  BY <1>3, <1>5, <1>16 DEF LocalOK, HasRound, HasRow, HasPage
<1>19. work[w].pc \in Kept => l.pc \in Kept /\ work[w].page \subseteq l.page BY <1>16 DEF Kept
<1> QED BY <1>5, <1>6, <1>10, <1>12, <1>13, <1>16, <1>17, <1>18, <1>19, RowStep

-----------------------------------------------------------------------------
(***************************************************************************)
(* Steps that end a round, move the watermark or hand over the page.       *)
(***************************************************************************)
\* A worker that ends with its page lost, or with none.
LEMMA EndStep ==
    ASSUME CollectInv, NEW w \in Worker, work' = [work EXCEPT ![w] = Idle],
           UNCHANGED <<now, ts, wm, target, examined>>,
           round' \in [Rounds -> RoundStatus],
           history' \in [lost : SUBSET Event, unrecovered : Nat],
           history.lost \subseteq history'.lost,
           work[w] # Idle => work[w].page \subseteq history'.lost
    PROVE  CollectInv'
<1>1. TypeInv BY DEF CollectInv
<1>2. work'[w] = Idle /\ \A q \in Worker : q # w => work'[q] = work[q] BY <1>1 DEF TypeInv
<1>3. Covered \subseteq Covered'
  <2>1. work[w].pc \in Kept => work[w] # Idle BY DEF Kept, Idle
  <2> QED BY <1>1, <1>2, <2>1, CoveredGrows
<1>4. work' \in [Worker -> {Idle} \cup Busy] BY <1>1 DEF TypeInv
<1>5. TypeInv' BY <1>1, <1>4 DEF TypeInv
<1>6. wm' # None => wm' <= now /\ BelowIn(ts, Covered', wm')
  BY <1>3, BelowGrows DEF CollectInv, WatermarkInv
<1>7. /\ \A i \in Rounds : target[i] \in Row => target'[i] \in Row
      /\ \A i \in Rounds : target'[i] = target[i] \/ OkRow(target'[i], now)
      /\ (wm' = None => wm = None) /\ now' = now /\ ts' = ts
  OBVIOUS
<1>8. work'[w] # Idle => LocalOK(work'[w], now, ts, wm', target', Covered') BY <1>2
<1> QED BY <1>2, <1>3, <1>5, <1>6, <1>7, <1>8, WorkerStep

LEMMA LostType ==
    ASSUME TypeInv, NEW P \in SUBSET Event, Lose(P)
    PROVE  /\ history' \in [lost : SUBSET Event, unrecovered : Nat]
           /\ history'.lost = history.lost \cup P
  BY DEF TypeInv, Lose

LEMMA CrashKeeps ==
    ASSUME CollectInv, NEW w \in Worker, Crash(w)
    PROVE  CollectInv'
<1>1. TypeInv BY DEF CollectInv
<1>2. /\ work[w] # Idle /\ Lose(work[w].page) /\ work' = [work EXCEPT ![w] = Idle]
      /\ UNCHANGED <<now, ts, wm, target, round, examined>>
  BY DEF Crash
<1>3. work[w] \in Busy BY <1>1, <1>2 DEF TypeInv
<1>4. work[w].page \in SUBSET Event BY <1>3, BusyFields
<1>5. /\ history' \in [lost : SUBSET Event, unrecovered : Nat]
      /\ history'.lost = history.lost \cup work[w].page
  BY <1>1, <1>2, <1>4, LostType
<1>6. round' \in [Rounds -> RoundStatus] BY <1>1, <1>2 DEF TypeInv
<1>7. history.lost \subseteq history'.lost /\ (work[w] # Idle => work[w].page \subseteq history'.lost)
  BY <1>5
<1> QED BY <1>2, <1>5, <1>6, <1>7, EndStep

LEMMA StoreFailsKeeps ==
    ASSUME CollectInv, NEW w \in Worker, StoreFails(w)
    PROVE  CollectInv'
<1>1. TypeInv BY DEF CollectInv
<1>2. /\ work[w].pc # "idle" /\ Lose(work[w].page) /\ work' = [work EXCEPT ![w] = Idle]
      /\ UNCHANGED <<now, ts, wm, target, round, examined>>
  BY DEF StoreFails, Leave
<1>3. work[w] \in Busy BY <1>1, <1>2, UnderWay
<1>4. work[w].page \in SUBSET Event BY <1>3, BusyFields
<1>5. /\ history' \in [lost : SUBSET Event, unrecovered : Nat]
      /\ history'.lost = history.lost \cup work[w].page
  BY <1>1, <1>2, <1>4, LostType
<1>6. round' \in [Rounds -> RoundStatus] BY <1>1, <1>2 DEF TypeInv
<1>7. history.lost \subseteq history'.lost /\ (work[w] # Idle => work[w].page \subseteq history'.lost)
  BY <1>5
<1> QED BY <1>2, <1>5, <1>6, <1>7, EndStep

LEMMA FinalStatusKeeps ==
    ASSUME CollectInv, NEW w \in Worker, FinalStatus(w)
    PROVE  CollectInv'
<1>1. TypeInv BY DEF CollectInv
<1>2. /\ work[w].pc \in {"final", "failed"} /\ work[w].pc # "idle"
      /\ work' = [work EXCEPT ![w] = Idle]
      /\ UNCHANGED <<now, ts, wm, target, examined, history>>
  BY DEF FinalStatus, Leave
<1>3. LocalOK(work[w], now, ts, wm, target, Covered) BY <1>2, Here
<1>4. work[w].page = {} /\ work[w].id \in Rounds BY <1>2, <1>3 DEF LocalOK, HasPage, HasRound
<1>5. PICK v : v = IF At(w, "failed") THEN "failed" ELSE IF work[w].ok THEN "success" ELSE "partial"
  OBVIOUS
<1>6. v \in RoundStatus BY <1>5 DEF RoundStatus
<1>7. round' \in [Rounds -> RoundStatus] BY <1>1, <1>4, <1>5, <1>6 DEF FinalStatus, TypeInv
<1>8. history' \in [lost : SUBSET Event, unrecovered : Nat] /\ history.lost \subseteq history'.lost
  BY <1>1, <1>2 DEF TypeInv
<1>9. work[w] # Idle => work[w].page \subseteq history'.lost BY <1>4
<1> QED BY <1>2, <1>7, <1>8, <1>9, EndStep

\* The funnel has the page, or it is lost with the round.
LEMMA PageGoes ==
    ASSUME CollectInv, NEW w \in Worker, At(w, "funnel"), NEW pc \in {"final", "failed"},
           work' = [work EXCEPT ![w].pc = pc, ![w].page = {}],
           UNCHANGED <<now, ts, wm, target, round>>,
           examined' \in [Event -> 0..2], \A e \in Event : examined[e] > 0 => examined'[e] > 0,
           history' \in [lost : SUBSET Event, unrecovered : Nat], history.lost \subseteq history'.lost,
           \A e \in work[w].page : examined'[e] > 0 \/ e \in history'.lost
    PROVE  CollectInv'
<1>1. TypeInv BY DEF CollectInv
<1>2. work[w].pc = "funnel" BY DEF At
<1>3. /\ work[w] \in Busy /\ work[w] # Idle /\ LocalOK(work[w], now, ts, wm, target, Covered)
      /\ work[w].at <= now /\ work[w].ended <= now
  BY <1>2, Here
<1>4. work[w].id \in Rounds BY <1>2, <1>3 DEF LocalOK, HasRound
<1>5. PICK l : l = [work[w] EXCEPT !.pc = pc, !.page = {}] OBVIOUS
<1>6. /\ l \in Busy /\ l.pc = pc /\ l.at = work[w].at /\ l.id = work[w].id
      /\ l.page = {} /\ l.ended = work[w].ended
  BY <1>3, <1>5 DEF Busy
<1>7. work'[w] = l /\ \A q \in Worker : q # w => work'[q] = work[q] BY <1>1, <1>5 DEF TypeInv
<1>8. work' \in [Worker -> {Idle} \cup Busy] BY <1>1, <1>5, <1>6 DEF TypeInv
<1>9. TypeInv' BY <1>1, <1>8 DEF TypeInv
<1>10. work[w].pc \in Kept => \A e \in work[w].page :
           (work'[w].pc \in Kept /\ e \in work'[w].page) \/ examined'[e] > 0 \/ e \in history'.lost
  OBVIOUS
<1>11. Covered \subseteq Covered' BY <1>1, <1>7, <1>10, CoveredGrows
<1>12. wm' # None => wm' <= now /\ BelowIn(ts, Covered', wm')
  BY <1>11, BelowGrows DEF CollectInv, WatermarkInv
<1>13. LocalOK(l, now, ts, wm', target', Covered')
  BY <1>3, <1>4, <1>6 DEF LocalOK, HasRound, HasRow, HasPage
<1>14. /\ \A i \in Rounds : target[i] \in Row => target'[i] \in Row
       /\ \A i \in Rounds : target'[i] = target[i] \/ OkRow(target'[i], now)
       /\ (wm' = None => wm = None) /\ now' = now /\ ts' = ts
  OBVIOUS
<1>15. work'[w] # Idle => LocalOK(work'[w], now, ts, wm', target', Covered') BY <1>7, <1>13
<1> QED BY <1>7, <1>9, <1>11, <1>12, <1>14, <1>15, WorkerStep

LEMMA RunDomainKeeps ==
    ASSUME CollectInv, NEW w \in Worker, RunDomain(w)
    PROVE  CollectInv'
<1>1. TypeInv BY DEF CollectInv
<1>2. /\ At(w, "funnel") /\ work[w].pc # "idle"
      /\ work' = [work EXCEPT ![w].pc = "final", ![w].page = {}]
      /\ UNCHANGED <<now, ts, wm, target, round, history>>
  BY DEF RunDomain, At
<1>3. work[w].page \in SUBSET Event BY <1>1, <1>2, UnderWay, BusyFields
<1>4. examined' = [e \in Event |->
          IF e \in work[w].page /\ examined[e] < 2 THEN examined[e] + 1 ELSE examined[e]]
  BY DEF RunDomain
<1>5. ASSUME NEW e \in Event
      PROVE  /\ examined'[e] \in 0..2 /\ (examined[e] > 0 => examined'[e] > 0)
             /\ (e \in work[w].page => examined'[e] > 0)
  <2>1. examined[e] \in 0..2 BY <1>1 DEF TypeInv
  <2> QED BY <1>4, <2>1
<1>6. examined' \in [Event -> 0..2] BY <1>4, <1>5
<1>7. /\ history' \in [lost : SUBSET Event, unrecovered : Nat] /\ history.lost \subseteq history'.lost
  BY <1>1, <1>2 DEF TypeInv
<1>8. \A e \in work[w].page : examined'[e] > 0 \/ e \in history'.lost BY <1>3, <1>5
<1>9. \A e \in Event : examined[e] > 0 => examined'[e] > 0 BY <1>5
<1> QED BY <1>2, <1>6, <1>7, <1>8, <1>9, PageGoes

LEMMA RunDomainFailsKeeps ==
    ASSUME CollectInv, NEW w \in Worker, RunDomainFails(w)
    PROVE  CollectInv'
<1>1. TypeInv BY DEF CollectInv
<1>2. /\ At(w, "funnel") /\ work[w].pc # "idle" /\ Lose(work[w].page)
      /\ work' = [work EXCEPT ![w].pc = "failed", ![w].page = {}]
      /\ UNCHANGED <<now, ts, wm, target, round, examined>>
  BY DEF RunDomainFails, At
<1>3. work[w].page \in SUBSET Event BY <1>1, <1>2, UnderWay, BusyFields
<1>4. /\ history' \in [lost : SUBSET Event, unrecovered : Nat]
      /\ history'.lost = history.lost \cup work[w].page
  BY <1>1, <1>2, <1>3, LostType
<1>5. examined' \in [Event -> 0..2] /\ \A e \in Event : examined[e] > 0 => examined'[e] > 0
  BY <1>1, <1>2 DEF TypeInv
<1>6. history.lost \subseteq history'.lost /\ \A e \in work[w].page : examined'[e] > 0 \/ e \in history'.lost
  BY <1>4
<1> QED BY <1>2, <1>4, <1>5, <1>6, PageGoes

\* A step of w that sets the watermark to a time before which all is accounted for.
LEMMA WatermarkStep ==
    ASSUME CollectInv, NEW w \in Worker, work[w].pc # "idle",
           NEW l \in Busy, work' = [work EXCEPT ![w] = l],
           NEW t \in Time, t <= now, wm' = t,
           UNCHANGED <<now, ts, target, round, examined>>,
           history' \in [lost : SUBSET Event, unrecovered : Nat], history.lost \subseteq history'.lost,
           work[w].pc \notin Kept,
           BelowIn(ts, Covered', t),
           l.at <= now, l.ended <= now, l.pc \in {"create", "snapshot"},
           l.pc = "create" => l.page = {},
           l.pc = "snapshot" => l.id \in Rounds /\ target[l.id] \in Row
    PROVE  CollectInv'
<1>1. TypeInv BY DEF CollectInv
<1>2. work'[w] = l /\ \A q \in Worker : q # w => work'[q] = work[q] BY <1>1 DEF TypeInv
<1>5. Covered \subseteq Covered' BY <1>1, <1>2, CoveredGrows
<1>6. work' \in [Worker -> {Idle} \cup Busy] BY <1>1 DEF TypeInv
<1>7. TypeInv' BY <1>1, <1>6 DEF TypeInv
<1>8. t # None BY Constants
<1>9. LocalOK(l, now, ts, wm', target', Covered')
  BY <1>8 DEF LocalOK, HasRound, HasRow, HasPage, Kept
<1>10. /\ \A i \in Rounds : target[i] \in Row => target'[i] \in Row
       /\ \A i \in Rounds : target'[i] = target[i] \/ OkRow(target'[i], now)
       /\ (wm' = None => wm = None) /\ now' = now /\ ts' = ts
       /\ (wm' # None => wm' <= now /\ BelowIn(ts, Covered', wm'))
  BY <1>8
<1>11. work'[w] # Idle => LocalOK(work'[w], now, ts, wm', target', Covered') BY <1>2, <1>9
<1> QED BY <1>2, <1>5, <1>7, <1>10, <1>11, WorkerStep

\* The recovery may set the watermark back or forward; what it jumps over is lost.
LEMMA RewindKeeps ==
    ASSUME CollectInv, NEW s \in Scheduler, Rewind(s)
    PROVE  CollectInv'
<1>1. s \in Worker /\ work[s].pc = "rewind" BY DEF Worker, Rewind, At
<1>2. TypeInv BY DEF CollectInv
<1>3. /\ work[s] \in Busy /\ work[s] # Idle /\ LocalOK(work[s], now, ts, wm, target, Covered)
      /\ work[s].at <= now /\ work[s].ended <= now
  BY <1>1, Here
<1>4. PICK t : t = work[s].ref OBVIOUS
<1>5. work[s].page = {} /\ t \in Time /\ t <= now
  BY <1>1, <1>3, <1>4 DEF LocalOK, HasPage
<1>6. PICK J : J = {e \in Event : ts[e] # None /\ (wm = None \/ wm <= ts[e]) /\ ts[e] < t} OBVIOUS
<1>7. /\ wm' = t /\ Lose(J) /\ GoTo(s, "create")
      /\ UNCHANGED <<now, ts, target, round, examined>>
  BY <1>4, <1>6 DEF Rewind
<1>8. J \in SUBSET Event BY <1>6
<1>9. /\ history' \in [lost : SUBSET Event, unrecovered : Nat] /\ history'.lost = history.lost \cup J
  BY <1>2, <1>7, <1>8, LostType
<1>10. PICK l : l = [work[s] EXCEPT !.pc = "create"] OBVIOUS
<1>11. "create" \in Places BY DEF Places
<1>12. /\ l \in Busy /\ l.pc = "create" /\ l.at = work[s].at
       /\ l.page = {} /\ l.ended = work[s].ended
  BY <1>3, <1>5, <1>10, <1>11, Moved
<1>13. work' = [work EXCEPT ![s] = l] BY <1>1, <1>2, <1>7, <1>10 DEF TypeInv, GoTo
<1>14. Covered \subseteq Covered'
  <2>1. \A q \in Worker : q # s => work'[q] = work[q] BY <1>2, <1>13 DEF TypeInv
  <2>2. \A e \in Event : examined[e] > 0 => examined'[e] > 0 BY <1>7
  <2>3. history.lost \subseteq history'.lost BY <1>9
  <2>4. work[s].pc \notin Kept BY <1>1 DEF Kept
  <2> QED BY <1>1, <1>2, <2>1, <2>2, <2>3, <2>4, CoveredGrows
<1>15. BelowIn(ts, Covered', t)
  <2> SUFFICES ASSUME NEW e \in Event, ts[e] # None, ts[e] < t PROVE e \in Covered' BY DEF BelowIn
  <2>1. CASE wm = None
    <3>1. e \in history'.lost BY <1>6, <1>9, <2>1
    <3> QED BY <3>1 DEF Covered
  <2>2. CASE wm # None
    <3>1. ts[e] \in Nat /\ wm \in Nat BY <1>2, <2>2, Constants DEF TypeInv
    <3>2. CASE ts[e] < wm BY <1>14, <2>2, <3>2 DEF CollectInv, WatermarkInv, BelowIn
    <3>3. CASE wm <= ts[e]
      <4>1. e \in history'.lost BY <1>6, <1>9, <2>2, <3>3
      <4> QED BY <4>1 DEF Covered
    <3> QED BY <3>1, <3>2, <3>3
  <2> QED BY <2>1, <2>2
<1>16. /\ l.at <= now /\ l.ended <= now /\ l.pc \in {"create", "snapshot"} /\ (l.pc = "create" => l.page = {})
       /\ (l.pc = "snapshot" => l.id \in Rounds /\ target[l.id] \in Row)
       /\ work[s].pc # "idle" /\ work[s].pc \notin Kept /\ history.lost \subseteq history'.lost
  BY <1>1, <1>3, <1>5, <1>9, <1>12 DEF Kept
<1> QED BY <1>1, <1>5, <1>7, <1>9, <1>12, <1>13, <1>15, <1>16, WatermarkStep

\* The latest event of a page.
LEMMA LatestOfPage ==
    ASSUME CollectInv, NEW w \in Worker, At(w, "advance")
    PROVE  \E f \in work[w].page :
             /\ Max({ts[e] : e \in work[w].page}) = ts[f] /\ ts[f] \in Time /\ ts[f] <= now
             /\ \A e \in work[w].page : ts[e] <= ts[f]
<1>1. work[w].pc = "advance" BY DEF At
<1>2. TypeInv BY DEF CollectInv
<1>3. work[w] \in Busy /\ LocalOK(work[w], now, ts, wm, target, Covered) BY <1>1, Here
<1>4. PICK P : P = work[w].page OBVIOUS
<1>5. P \in SUBSET Event BY <1>3, <1>4, BusyFields
<1>6. PageOK(work[w], ts) BY <1>1, <1>3 DEF LocalOK
<1>7. P # {} /\ \A e \in P : ts[e] # None BY <1>4, <1>6 DEF PageOK
<1>8. \A e \in P : ts[e] \in Time /\ ts[e] <= now BY <1>2, <1>5, <1>7 DEF CollectInv, TypeInv
<1>9. PICK S : S = {ts[e] : e \in P} OBVIOUS
<1>10. S \in SUBSET Nat /\ S # {} /\ now \in Nat /\ \A x \in S : x <= now
  BY <1>2, <1>7, <1>8, <1>9, Constants DEF TypeInv
<1>11. Max(S) \in S /\ \A y \in S : y <= Max(S) BY <1>10, MaxIsLargest
<1>12. PICK f \in P : Max(S) = ts[f] BY <1>9, <1>11
<1>13. \A e \in P : ts[e] <= ts[f] BY <1>9, <1>11, <1>12
<1> QED BY <1>4, <1>8, <1>9, <1>12, <1>13

LEMMA AdvanceWatermarkKeeps ==
    ASSUME CollectInv, NEW w \in Worker, AdvanceWatermark(w)
    PROVE  CollectInv'
<1>1. At(w, "advance") /\ work[w].pc = "advance" BY DEF AdvanceWatermark, At
<1>2. TypeInv BY DEF CollectInv
<1>3. /\ work[w] \in Busy /\ work[w] # Idle /\ LocalOK(work[w], now, ts, wm, target, Covered)
      /\ work[w].at <= now /\ work[w].ended <= now
  BY <1>1, Here
<1>4. work[w].id \in Rounds /\ target[work[w].id] \in Row BY <1>1, <1>3 DEF LocalOK, HasRow, HasRound
<1>5. PICK f \in work[w].page :
          /\ Max({ts[e] : e \in work[w].page}) = ts[f] /\ ts[f] \in Time /\ ts[f] <= now
          /\ \A e \in work[w].page : ts[e] <= ts[f]
  BY <1>1, LatestOfPage
<1>6. PICK t : t = ts[f] OBVIOUS
<1>7. /\ wm' = t /\ GoTo(w, "snapshot") /\ UNCHANGED <<now, ts, target, round, examined, history>>
  BY <1>5, <1>6 DEF AdvanceWatermark
<1>8. PICK l : l = [work[w] EXCEPT !.pc = "snapshot"] OBVIOUS
<1>9. "snapshot" \in Places BY DEF Places
<1>10. /\ l \in Busy /\ l.pc = "snapshot" /\ l.id = work[w].id /\ l.at = work[w].at
       /\ l.page = work[w].page /\ l.ended = work[w].ended
  BY <1>3, <1>8, <1>9, Moved
<1>11. work' = [work EXCEPT ![w] = l] BY <1>2, <1>7, <1>8 DEF TypeInv, GoTo
<1>12. work'[w] = l /\ \A q \in Worker : q # w => work'[q] = work[q] BY <1>2, <1>11 DEF TypeInv
<1>13. work[w].pc \notin Kept BY <1>1 DEF Kept
<1>14. history' \in [lost : SUBSET Event, unrecovered : Nat] /\ history.lost \subseteq history'.lost
  BY <1>2, <1>7 DEF TypeInv
<1>15. Covered \subseteq Covered' BY <1>2, <1>7, <1>12, <1>13, <1>14, CoveredGrows
<1>16. \A e \in Event : e \in work[w].page => e \in Covered' BY <1>10, <1>12 DEF Covered, Held, Kept
<1>17. BelowIn(ts, Covered', t)
  <2> SUFFICES ASSUME NEW e \in Event, ts[e] # None, ts[e] < t PROVE e \in Covered' BY DEF BelowIn
  <2>1. PageOK(work[w], ts) BY <1>1, <1>3 DEF LocalOK
  <2>2. e \in work[w].page \/ (work[w].ref # None /\ ts[e] < work[w].ref) BY <1>5, <1>6, <2>1 DEF PageOK
  <2>3. CASE e \in work[w].page BY <1>16, <2>3
  <2>4. CASE work[w].ref # None /\ ts[e] < work[w].ref
    <3>1. BelowIn(ts, Covered, work[w].ref) BY <1>1, <1>3, <2>4 DEF LocalOK
    <3> QED BY <1>15, <2>4, <3>1 DEF BelowIn
  <2> QED BY <2>2, <2>3, <2>4
<1>18. /\ l.pc \in {"create", "snapshot"} /\ (l.pc = "create" => l.page = {})
       /\ (l.pc = "snapshot" => l.id \in Rounds /\ target[l.id] \in Row)
       /\ work[w].pc # "idle" /\ t \in Time /\ t <= now /\ l.at <= now /\ l.ended <= now
  BY <1>1, <1>3, <1>4, <1>5, <1>6, <1>10
<1> QED BY <1>7, <1>10, <1>11, <1>13, <1>14, <1>17, <1>18, WatermarkStep

LEMMA WriteSnapshotKeeps ==
    ASSUME CollectInv, NEW w \in Worker, WriteSnapshot(w)
    PROVE  CollectInv'
<1>1. work[w].pc = "snapshot" BY DEF WriteSnapshot, At
<1>2. TypeInv BY DEF CollectInv
<1>3. /\ work[w] \in Busy /\ work[w] # Idle /\ LocalOK(work[w], now, ts, wm, target, Covered)
      /\ work[w].at <= now /\ work[w].ended <= now
  BY <1>1, Here
<1>4. work[w].id \in Rounds /\ target[work[w].id] \in Row BY <1>1, <1>3 DEF LocalOK, HasRound, HasRow
<1>5. UNCHANGED <<now, ts, wm, target, round, examined, history>> BY DEF WriteSnapshot
<1>6. /\ round' \in [Rounds -> RoundStatus]
      /\ history' \in [lost : SUBSET Event, unrecovered : Nat] /\ history'.lost = history.lost
  BY <1>5, SameRest
<1>7. PICK l : l = [work[w] EXCEPT !.pc = "gathered"] OBVIOUS
<1>8. "gathered" \in Places BY DEF Places
<1>9. /\ l \in Busy /\ l.pc = "gathered" /\ l.at = work[w].at /\ l.id = work[w].id
      /\ l.page = work[w].page /\ l.ended = work[w].ended
  BY <1>3, <1>7, <1>8, Moved
<1>10. work' = [work EXCEPT ![w] = l] BY <1>2, <1>7 DEF TypeInv, GoTo, WriteSnapshot
<1>11. LocalOK(l, now, ts, wm, target, Covered)
  BY <1>3, <1>4, <1>9 DEF LocalOK, HasRound, HasRow, HasPage, Kept
<1>12. l.pc \in Kept /\ work[w].page \subseteq l.page BY <1>9 DEF Kept
<1> QED BY <1>5, <1>6, <1>9, <1>10, <1>11, <1>12, LocalStep

\* The clock is read: the time goes with the locals.
LEMMA EndCollectKeeps ==
    ASSUME CollectInv, NEW w \in Worker, EndCollect(w)
    PROVE  CollectInv'
<1>1. work[w].pc = "gathered" BY DEF EndCollect, At
<1>2. TypeInv BY DEF CollectInv
<1>3. /\ work[w] \in Busy /\ work[w] # Idle /\ LocalOK(work[w], now, ts, wm, target, Covered)
      /\ work[w].at <= now /\ work[w].ended <= now
  BY <1>1, Here
<1>4. work[w].id \in Rounds /\ target[work[w].id] \in Row BY <1>1, <1>3 DEF LocalOK, HasRound, HasRow
<1>5. UNCHANGED <<now, ts, wm, target, round, examined, history>> BY DEF EndCollect
<1>6. /\ round' \in [Rounds -> RoundStatus]
      /\ history' \in [lost : SUBSET Event, unrecovered : Nat] /\ history'.lost = history.lost
  BY <1>5, SameRest
<1>7. now \in Time /\ now <= now BY <1>2, Constants DEF TypeInv
<1>8. PICK l : l = [work[w] EXCEPT !.pc = "status", !.ended = now] OBVIOUS
<1>9. /\ l \in Busy /\ l.pc = "status" /\ l.at = work[w].at /\ l.id = work[w].id
      /\ l.page = work[w].page /\ l.ended = now
  BY <1>3, <1>7, <1>8 DEF Busy
<1>10. work' = [work EXCEPT ![w] = l] BY <1>2, <1>8 DEF TypeInv, EndCollect
<1>11. LocalOK(l, now, ts, wm, target, Covered)
  BY <1>3, <1>4, <1>7, <1>9 DEF LocalOK, HasRound, HasRow, HasPage, Kept
<1>12. l.pc \in Kept /\ work[w].page \subseteq l.page BY <1>9 DEF Kept
<1> QED BY <1>5, <1>6, <1>9, <1>10, <1>11, <1>12, LocalStep

\* A snapshot that cannot be written: the page is among the losses.
LEMMA SnapshotFailsKeeps ==
    ASSUME CollectInv, NEW w \in Worker, SnapshotFails(w)
    PROVE  CollectInv'
<1>1. work[w].pc = "snapshot" BY DEF SnapshotFails, At
<1>2. TypeInv BY DEF CollectInv
<1>3. /\ work[w] \in Busy /\ work[w] # Idle /\ LocalOK(work[w], now, ts, wm, target, Covered)
      /\ work[w].at <= now /\ work[w].ended <= now
  BY <1>1, Here
<1>4. work[w].id \in Rounds /\ target[work[w].id] \in Row BY <1>1, <1>3 DEF LocalOK, HasRound, HasRow
<1>5. /\ UNCHANGED <<now, ts, wm, target, round, examined>> /\ Lose(work[w].page)
      /\ work' = [work EXCEPT ![w] = Degraded(w)]
  BY DEF SnapshotFails
<1>6. work[w].page \in SUBSET Event BY <1>3, BusyFields
<1>7. /\ history' \in [lost : SUBSET Event, unrecovered : Nat]
      /\ history'.lost = history.lost \cup work[w].page
  BY <1>2, <1>5, <1>6, LostType
<1>8. PICK l : l = Degraded(w) OBVIOUS
<1>9. /\ l \in Busy /\ l.pc = "gathered" /\ l.at = work[w].at /\ l.id = work[w].id
      /\ l.page = {} /\ l.ended = work[w].ended
  BY <1>2, <1>3, <1>8, DegradedLocals
<1>10. work'[w] = l /\ \A q \in Worker : q # w => work'[q] = work[q] BY <1>2, <1>5, <1>8 DEF TypeInv
<1>11. work' \in [Worker -> {Idle} \cup Busy] BY <1>2, <1>5, <1>8, <1>9 DEF TypeInv
<1>12. TypeInv' BY <1>2, <1>5, <1>7, <1>11 DEF TypeInv
<1>13. Covered \subseteq Covered' BY <1>2, <1>5, <1>7, <1>10, CoveredGrows
<1>14. wm' # None => wm' <= now /\ BelowIn(ts, Covered', wm')
  BY <1>5, <1>13, BelowGrows DEF CollectInv, WatermarkInv
<1>15. LocalOK(l, now, ts, wm', target', Covered')
  BY <1>3, <1>4, <1>5, <1>9 DEF LocalOK, HasRound, HasRow, HasPage
<1>16. /\ \A i \in Rounds : target[i] \in Row => target'[i] \in Row
       /\ \A i \in Rounds : target'[i] = target[i] \/ OkRow(target'[i], now)
       /\ (wm' = None => wm = None) /\ now' = now /\ ts' = ts
  BY <1>5
<1>17. work'[w] # Idle => LocalOK(work'[w], now, ts, wm', target', Covered') BY <1>10, <1>15
<1> QED BY <1>10, <1>12, <1>13, <1>14, <1>16, <1>17, WorkerStep

\* What a page of the window is.
LEMMA PageOfWindow ==
    ASSUME CollectInv, NEW k \in Busy, k.ref # None => k.ref \in Time,
           NEW p \in Pages(Window(k.ref, k.at)), NEW l, l.ref = k.ref, l.at = k.at, l.page = p
    PROVE  /\ p \in SUBSET Event
           /\ p # {} => PageOK(l, ts)
<1>1. TypeInv BY DEF CollectInv
<1>2. PICK H : H = Window(k.ref, k.at) OBVIOUS
<1>3. \A e : e \in H <=> e \in Event /\ ts[e] # None
                       /\ (k.ref = None \/ (k.ref <= ts[e] /\ ts[e] <= k.at))
  BY <1>2 DEF Window
<1>4. H \in SUBSET Event BY <1>3
<1>5. p \in SUBSET H /\ \A e \in p, g \in H \ p : ts[e] <= ts[g] BY <1>2 DEF Pages
<1>6. Cardinality(p) = IF Cardinality(H) < PageSize THEN Cardinality(H) ELSE PageSize
  BY <1>2 DEF Pages
<1>7. IsFiniteSet(H) BY <1>4, Constants, FS_Subset
<1>8. IsFiniteSet(p) /\ (Cardinality(H) = Cardinality(p) => H = p) BY <1>5, <1>7, FS_Subset
<1>9. Cardinality(H) \in Nat /\ Cardinality(p) \in Nat BY <1>7, <1>8, FS_CardinalityType
<1>10. Cardinality(p) >= PageSize \/ p = H BY <1>6, <1>8, <1>9, Constants
<1>11. \A e \in Event : ts[e] # None => ts[e] \in Nat BY <1>1, Constants DEF TypeInv
<1>12. k.at \in Nat /\ (k.ref # None => k.ref \in Nat) BY BusyFields, Constants
<1>14. ASSUME p # {} PROVE PageOK(l, ts)
  <2>1. \A e \in p : ts[e] # None BY <1>3, <1>5
  <2>2. ASSUME NEW e \in Event, NEW g \in p, ts[e] # None, ts[e] < ts[g]
        PROVE  e \in p \/ (k.ref # None /\ ts[e] < k.ref)
    <3>1. ts[e] \in Nat /\ ts[g] \in Nat BY <1>4, <1>5, <1>11, <2>1, <2>2
    <3>2. CASE e \in H \ p BY <1>5, <3>1, <3>2, <2>2
    <3>3. CASE e \notin H
      <4>1. k.ref # None /\ ~(k.ref <= ts[e] /\ ts[e] <= k.at) BY <1>3, <2>2, <3>3
      <4>2. ts[g] <= k.at BY <1>3, <1>5, <4>1
      <4> QED BY <1>12, <2>2, <3>1, <4>1, <4>2
    <3> QED BY <3>2, <3>3
  <2>3. ASSUME k.ref # None
        PROVE  /\ \A e \in p : k.ref <= ts[e]
               /\ \/ Cardinality(p) >= PageSize
                  \/ \A e \in Event : ts[e] # None /\ k.ref <= ts[e] /\ ts[e] < k.at => e \in p
    <3>1. \A e \in p : k.ref <= ts[e] BY <1>3, <1>5, <2>3
    <3>2. ASSUME NEW e \in Event, p = H, ts[e] # None, k.ref <= ts[e], ts[e] < k.at PROVE e \in p
      <4>1. ts[e] <= k.at BY <1>11, <1>12, <3>2
      <4> QED BY <1>3, <3>2, <4>1
    <3> QED BY <1>10, <3>1, <3>2
  <2> QED BY <1>14, <2>1, <2>2, <2>3 DEF PageOK
<1> QED BY <1>4, <1>5, <1>14

LEMMA RequestKeeps ==
    ASSUME CollectInv, NEW w \in Worker, Request(w)
    PROVE  CollectInv'
<1>1. work[w].pc = "request" BY DEF Request, At
<1>2. TypeInv BY DEF CollectInv
<1>3. /\ work[w] \in Busy /\ work[w] # Idle /\ LocalOK(work[w], now, ts, wm, target, Covered)
      /\ work[w].at <= now /\ work[w].ended <= now
  BY <1>1, Here
<1>4. /\ work[w].page = {} /\ work[w].id \in Rounds /\ target[work[w].id] \in Row
      /\ (work[w].ref # None => wm # None /\ work[w].ref \in Time /\ work[w].ref <= now
                                /\ BelowIn(ts, Covered, work[w].ref))
  BY <1>1, <1>3 DEF LocalOK, HasPage, HasRound, HasRow
<1>5. UNCHANGED <<now, ts, wm, target, round, examined, history>> BY DEF Request
<1>6. /\ round' \in [Rounds -> RoundStatus]
      /\ history' \in [lost : SUBSET Event, unrecovered : Nat] /\ history'.lost = history.lost
  BY <1>5, SameRest
<1>7. PICK p \in Pages(Window(work[w].ref, work[w].at)) :
          work' = [work EXCEPT ![w].pc = IF p = {} THEN "snapshot" ELSE "advance", ![w].page = p]
  BY DEF Request
<1>8. PICK k : k = work[w] OBVIOUS
<1>9. PICK v : v = IF p = {} THEN "snapshot" ELSE "advance" OBVIOUS
<1>10. PICK l : l = [k EXCEPT !.pc = v, !.page = p] OBVIOUS
<1>11. v \in {"snapshot", "advance"} /\ (v = "snapshot" <=> p = {}) BY <1>9
<1>12. now \in Time /\ now <= now BY <1>2, Constants DEF TypeInv
<1>13. l.ref = k.ref /\ l.at = k.at /\ l.page = p /\ l.pc = v /\ l.id = k.id /\ l.ended = k.ended
  BY <1>3, <1>8, <1>10 DEF Busy
<1>14. /\ k \in Busy /\ p \in Pages(Window(k.ref, k.at)) /\ (k.ref # None => k.ref \in Time)
  BY <1>3, <1>4, <1>8
<1>15. /\ p \in SUBSET Event
       /\ p # {} => PageOK(l, ts)
  BY <1>13, <1>14, PageOfWindow
<1>16. l \in Busy BY <1>3, <1>8, <1>10, <1>11, <1>12, <1>15 DEF Busy
<1>17. work' = [work EXCEPT ![w] = l] BY <1>2, <1>7, <1>8, <1>9, <1>10 DEF TypeInv
<1>19. LocalOK(l, now, ts, wm, target, Covered)
  BY <1>3, <1>4, <1>8, <1>11, <1>12, <1>13, <1>15 DEF LocalOK, HasRound, HasRow, HasPage, Kept
<1>20. work[w].pc \in Kept => l.pc \in Kept /\ work[w].page \subseteq l.page BY <1>1 DEF Kept
<1> QED BY <1>5, <1>6, <1>16, <1>17, <1>19, <1>20, LocalStep

-----------------------------------------------------------------------------
(***************************************************************************)
(* The clock and the events.                                               *)
(***************************************************************************)
LEMMA AdvanceKeeps ==
    ASSUME CollectInv, Advance
    PROVE  CollectInv'
<1>1. TypeInv BY DEF CollectInv
<1>2. now \in Nat /\ now' = now + 1 /\ now < MaxTime BY <1>1, Constants DEF Advance, TypeInv
<1>3. UNCHANGED <<ts, wm, target, round, work, examined, history>> BY DEF Advance
<1>4. now' \in Time BY <1>2, Constants
<1>5. TypeInv' BY <1>1, <1>3, <1>4 DEF TypeInv
<1>6. Covered' = Covered BY <1>3 DEF Covered, Held
<1>7. \A t \in Nat : t <= now => t <= now' BY <1>2
<1>8. \A e \in Event : ts[e] # None => ts[e] <= now'
  <2> SUFFICES ASSUME NEW e \in Event, ts[e] # None PROVE ts[e] <= now' OBVIOUS
  <2>1. ts[e] \in Nat /\ ts[e] <= now BY <1>1, Constants DEF TypeInv, CollectInv
  <2> QED BY <1>7, <2>1
<1>9. WatermarkInv'
  <2>1. wm # None => wm \in Nat /\ wm <= now /\ BelowIn(ts, Covered, wm)
    BY <1>1, Constants DEF TypeInv, CollectInv, WatermarkInv
  <2> QED BY <1>3, <1>6, <1>7, <2>1 DEF WatermarkInv
<1>10. ASSUME NEW i \in Rounds PROVE OkRow(target[i], now')
  <2>1. OkRow(target[i], now) BY DEF CollectInv
  <2> QED BY <1>7, <2>1, Constants DEF OkRow
<1>11. ASSUME NEW q \in Worker, work[q] # Idle PROVE LocalOK(work[q], now', ts, wm, target, Covered)
  <2>1. LocalOK(work[q], now, ts, wm, target, Covered) BY <1>11 DEF CollectInv
  <2>2. work[q] \in Busy BY <1>1, <1>11 DEF TypeInv
  <2>3. work[q].at \in Nat /\ work[q].ended \in Nat BY <2>2, BusyFields, Constants
  <2> QED BY <1>7, <2>1, <2>3, Constants DEF LocalOK
<1> QED BY <1>3, <1>5, <1>6, <1>8, <1>9, <1>10, <1>11 DEF CollectInv

\* An event happens at a time no round has passed.
LEMMA OccurKeeps ==
    ASSUME CollectInv, NEW g \in Event, Occur(g)
    PROVE  CollectInv'
<1>1. TypeInv BY DEF CollectInv
<1>2. now \in Time /\ now \in Nat /\ now # None BY <1>1, Constants DEF TypeInv
<1>3. ts[g] = None /\ ts' = [ts EXCEPT ![g] = now] BY DEF Occur
<1>4. UNCHANGED <<now, wm, target, round, work, examined, history>> BY DEF Occur
<1>5. PICK T : T = ts' OBVIOUS
<1>6. T \in [Event -> Time \cup {None}] /\ \A e \in Event : T[e] = IF e = g THEN now ELSE ts[e]
  BY <1>1, <1>2, <1>3, <1>5 DEF TypeInv
<1>7. TypeInv' BY <1>1, <1>4, <1>5, <1>6 DEF TypeInv
<1>8. Covered' = Covered BY <1>4 DEF Covered, Held
<1>9. \A e \in Event : T[e] # None => T[e] \in Nat /\ T[e] <= now
  BY <1>1, <1>2, <1>6, Constants DEF TypeInv, CollectInv
<1>10. ASSUME NEW t \in Nat, t <= now, BelowIn(ts, Covered, t) PROVE BelowIn(T, Covered, t)
  BY <1>2, <1>6, <1>10 DEF BelowIn
<1>11. ASSUME NEW l \in Busy, l.at <= now, l.ref # None => l.ref \in Time, PageOK(l, ts) PROVE PageOK(l, T)
  <2>1. l.page \in SUBSET Event /\ l.at \in Nat /\ (l.ref # None => l.ref \in Nat) BY <1>11, BusyFields, Constants
  <2>2. l.page # {} /\ \A e \in l.page : ts[e] # None BY <1>11 DEF PageOK
  <2>3. \A e \in l.page : e # g /\ T[e] = ts[e] BY <1>3, <1>6, <2>1, <2>2
  <2>4. ASSUME NEW e \in Event, NEW f \in l.page, T[e] # None, T[e] < T[f]
        PROVE  e \in l.page \/ (l.ref # None /\ T[e] < l.ref)
    <3>1. T[f] \in Nat /\ T[f] <= now BY <1>9, <2>1, <2>2, <2>3
    <3>2. e # g BY <1>2, <1>6, <2>4, <3>1
    <3>3. T[e] = ts[e] /\ T[f] = ts[f] BY <1>6, <2>3, <3>2
    <3> QED BY <1>11, <2>4, <3>3 DEF PageOK
  <2>5. ASSUME l.ref # None
        PROVE  /\ \A e \in l.page : l.ref <= T[e]
               /\ \/ Cardinality(l.page) >= PageSize
                  \/ \A e \in Event : T[e] # None /\ l.ref <= T[e] /\ T[e] < l.at => e \in l.page
    <3>1. \A e \in l.page : l.ref <= T[e] BY <1>11, <2>3, <2>5 DEF PageOK
    <3>2. \/ Cardinality(l.page) >= PageSize
          \/ \A e \in Event : ts[e] # None /\ l.ref <= ts[e] /\ ts[e] < l.at => e \in l.page
      BY <1>11, <2>5 DEF PageOK
    <3>3. \A e \in Event : T[e] # None /\ T[e] < l.at => T[e] = ts[e]
      BY <1>2, <1>6, <1>11, <2>1
    <3> QED BY <3>1, <3>2, <3>3
  <2> QED BY <2>2, <2>3, <2>4, <2>5 DEF PageOK
<1>12. (wm # None => wm <= now /\ BelowIn(T, Covered, wm))
  <2>1. wm # None => wm \in Nat /\ wm <= now /\ BelowIn(ts, Covered, wm)
    BY <1>1, Constants DEF TypeInv, CollectInv, WatermarkInv
  <2> QED BY <1>10, <2>1
<1>13. ASSUME NEW i \in Rounds PROVE OkRow(target[i], now)
  <2>1. OkRow(target[i], now) BY DEF CollectInv
  <2> QED BY <1>10, <2>1, Constants DEF OkRow
<1>14. ASSUME NEW q \in Worker, work[q] # Idle PROVE LocalOK(work[q], now, T, wm, target, Covered)
  <2>1. PICK l : l = work[q] OBVIOUS
  <2>2. LocalOK(l, now, ts, wm, target, Covered) BY <1>14, <2>1 DEF CollectInv
  <2>3. l \in Busy BY <1>1, <1>14, <2>1 DEF TypeInv
  <2>5. l.at <= now /\ l.ended <= now BY <2>2 DEF LocalOK
  <2>6. l.pc = "rewind" => l.ref \in Time /\ l.ref <= now
    BY <1>10, <2>2, Constants DEF LocalOK
  <2>7. l.pc \in {"request", "advance"} /\ l.ref # None =>
          wm # None /\ l.ref \in Time /\ l.ref <= now /\ BelowIn(T, Covered, l.ref)
    BY <1>10, <2>2, Constants DEF LocalOK
  <2>8. l.pc = "advance" => PageOK(l, ts) BY <2>2 DEF LocalOK
  <2>9. l.pc = "advance" => PageOK(l, T) BY <1>11, <2>3, <2>5, <2>7, <2>8
  <2>11. LocalOK(l, now, T, wm, target, Covered)
    BY <2>2, <2>5, <2>6, <2>7, <2>9 DEF LocalOK
  <2> QED BY <2>1, <2>11
<1>15. WatermarkInv' BY <1>4, <1>5, <1>8, <1>12 DEF WatermarkInv
<1> QED BY <1>4, <1>5, <1>7, <1>8, <1>9, <1>13, <1>14, <1>15 DEF CollectInv

-----------------------------------------------------------------------------
LEMMA InitCollect == Init => CollectInv
<1> SUFFICES ASSUME Init PROVE CollectInv OBVIOUS
<1>1. now = 0 /\ now \in Time BY Constants DEF Init
<1>2. history = [lost |-> {}, unrecovered |-> 0] BY DEF Init
<1>3. TypeInv BY <1>1, <1>2 DEF Init, TypeInv, RoundStatus
<1>4. \A e \in Event : ts[e] = None BY DEF Init
<1>5. wm = None /\ \A w \in Worker : work[w] = Idle BY DEF Init
<1>6. \A i \in Rounds : target[i].status = "none" BY DEF Init, NoRow
<1>7. \A i \in Rounds : OkRow(target[i], now) BY <1>6 DEF OkRow
<1> QED BY <1>3, <1>4, <1>5, <1>7 DEF CollectInv, WatermarkInv

LEMMA NextCollect ==
    ASSUME CollectInv, [Next]_vars
    PROVE  CollectInv'
<1>1. CASE UNCHANGED vars
  <2>1. UNCHANGED <<now, ts, wm, target, round, work, examined, history>> BY <1>1 DEF vars
  <2> QED BY <2>1, StutterStep
<1>2. CASE Advance BY <1>2, AdvanceKeeps
<1>3. CASE \E e \in Event : Occur(e) BY <1>3, OccurKeeps
<1>4. CASE \E w \in Worker : Crash(w) BY <1>4, CrashKeeps
<1>5. CASE \E s \in Scheduler : Tick(s) BY <1>5, TickKeeps
<1>6. CASE \E s \in Scheduler : FindOrphan(s) BY <1>6, FindOrphanKeeps
<1>7. CASE \E s \in Scheduler : InterruptTarget(s) BY <1>7, InterruptTargetKeeps
<1>8. CASE \E s \in Scheduler : ReadRound(s) BY <1>8, ReadRoundKeeps
<1>9. CASE \E s \in Scheduler : InterruptRound(s) BY <1>9, InterruptRoundKeeps
<1>10. CASE \E s \in Scheduler : FindOk(s) BY <1>10, FindOkKeeps
<1>11. CASE \E s \in Scheduler : Rewind(s) BY <1>11, RewindKeeps
<1>12. CASE \E s \in Scheduler : RecoverFails(s) BY <1>12, RecoverFailsKeeps
<1>13. CASE \E m \in Manual : RunMonitor(m) BY <1>13, RunMonitorKeeps
<1>14. CASE \E w \in Worker : CreateRound(w) BY <1>14, CreateRoundKeeps
<1>15. CASE \E w \in Worker : CreateTarget(w) BY <1>15, CreateTargetKeeps
<1>16. CASE \E w \in Worker : ReadWatermark(w) BY <1>16, ReadWatermarkKeeps
<1>17. CASE \E w \in Worker : Request(w) BY <1>17, RequestKeeps
<1>18. CASE \E w \in Worker : SourceFails(w) BY <1>18, SourceFailsKeeps
<1>19. CASE \E w \in Worker : AdvanceWatermark(w) BY <1>19, AdvanceWatermarkKeeps
<1>25. CASE \E w \in Worker : WriteSnapshot(w) BY <1>25, WriteSnapshotKeeps
<1>26. CASE \E w \in Worker : SnapshotFails(w) BY <1>26, SnapshotFailsKeeps
<1>27. CASE \E w \in Worker : EndCollect(w) BY <1>27, EndCollectKeeps
<1>20. CASE \E w \in Worker : TargetStatus(w) BY <1>20, TargetStatusKeeps
<1>21. CASE \E w \in Worker : RunDomain(w) BY <1>21, RunDomainKeeps
<1>22. CASE \E w \in Worker : RunDomainFails(w) BY <1>22, RunDomainFailsKeeps
<1>23. CASE \E w \in Worker : FinalStatus(w) BY <1>23, FinalStatusKeeps
<1>24. CASE \E w \in Worker : StoreFails(w) BY <1>24, StoreFailsKeeps
<1> QED BY <1>1, <1>2, <1>3, <1>4, <1>5, <1>6, <1>7, <1>8, <1>9, <1>10, <1>11, <1>12, <1>13,
           <1>14, <1>15, <1>16, <1>17, <1>18, <1>19, <1>20, <1>21, <1>22, <1>23, <1>24,
           <1>25, <1>26, <1>27 DEF Next

LEMMA CollectCorrect == Spec => []CollectInv
<1>1. CollectInv /\ [Next]_vars => CollectInv' BY NextCollect
<1> QED BY <1>1, InitCollect, PTL DEF Spec

LEMMA NothingSkipped == CollectInv => NoEventSkipped
<1> SUFFICES ASSUME CollectInv, NEW w \in Worker, At(w, "request"), NEW e \in Event,
                    ts[e] # None, ts[e] <= work[w].at
             PROVE  \/ e \in Window(work[w].ref, work[w].at)
                    \/ examined[e] > 0 \/ InHand(e)
                    \/ e \in history.lost
  BY DEF NoEventSkipped
<1>1. work[w].pc = "request" BY DEF At
<1>2. LocalOK(work[w], now, ts, wm, target, Covered) BY <1>1, Here
<1>3. CASE work[w].ref = None BY <1>3 DEF Window
<1>4. CASE work[w].ref # None
  <2>1. work[w].ref \in Nat /\ BelowIn(ts, Covered, work[w].ref)
    BY <1>1, <1>2, <1>4, Constants DEF LocalOK
  <2>2. ts[e] \in Nat BY Constants DEF CollectInv, TypeInv
  <2>3. CASE ts[e] < work[w].ref
    <3>1. e \in Covered BY <2>1, <2>3 DEF BelowIn
    <3>2. Held(e) => InHand(e) BY DEF Held, InHand, Kept, Idle
    <3> QED BY <3>1, <3>2 DEF Covered
  <2>4. CASE work[w].ref <= ts[e] BY <2>4 DEF Window
  <2> QED BY <2>1, <2>2, <2>3, <2>4
<1> QED BY <1>3, <1>4

\* An event that a round no longer asks for was seen by the funnel, is in the hands of a
\* round at work, or is among the losses of rounds that died or failed: for any number of
\* replicas and manual runs at once, any page size and any faults (the range filter and
\* the watermark of http_logs.py, and the recovery of scheduler.py).
THEOREM NothingIsSkipped == Spec => []NoEventSkipped
  BY CollectCorrect, NothingSkipped, PTL

-----------------------------------------------------------------------------
\* A worker that goes from its page to the end of the collection moves the watermark.
LEMMA WhoAdvances ==
    ASSUME CollectInv, Next, NEW w \in Worker, At(w, "advance"), work'[w].pc = "snapshot"
    PROVE  AdvanceWatermark(w)
<1>1. work \in [Worker -> {Idle} \cup Busy] BY DEF CollectInv, TypeInv
<1>2. work[w].pc = "advance" /\ work[w] # Idle BY DEF At, Idle
<1>3. Idle.pc = "idle" BY DEF Idle
<1>4. work'[w] # work[w] /\ work'[w] # Idle BY <1>2, <1>3
<1>5. ASSUME NEW q \in Worker, Crash(q) PROVE FALSE BY <1>1, <1>4, <1>5 DEF Crash
<1>6. ASSUME NEW s \in Scheduler, Tick(s) PROVE FALSE BY <1>1, <1>2, <1>4, <1>6 DEF Tick
<1>7. ASSUME NEW s \in Scheduler, RecoverFails(s) PROVE FALSE
  BY <1>1, <1>2, <1>4, <1>7 DEF RecoverFails, GoTo
<1>8. ASSUME NEW s \in Scheduler,
             FindOrphan(s) \/ InterruptTarget(s) \/ ReadRound(s) \/ InterruptRound(s) \/ FindOk(s) \/ Rewind(s)
      PROVE  FALSE
  <2>1. work[s].pc # "advance"
    BY <1>8 DEF FindOrphan, InterruptTarget, ReadRound, InterruptRound, FindOk, Rewind, At
  <2>2. s # w BY <1>2, <2>1
  <2> QED BY <1>1, <1>4, <1>8, <2>2
        DEF FindOrphan, InterruptTarget, ReadRound, InterruptRound, FindOk, Rewind, GoTo
<1>9. ASSUME NEW m \in Manual, RunMonitor(m) PROVE FALSE BY <1>1, <1>2, <1>4, <1>9 DEF RunMonitor
<1>10. ASSUME NEW q \in Worker,
              CreateRound(q) \/ CreateTarget(q) \/ ReadWatermark(q) \/ Request(q)
              \/ WriteSnapshot(q) \/ SnapshotFails(q) \/ EndCollect(q)
       PROVE  FALSE
  <2>1. work[q].pc # "advance"
    BY <1>10 DEF CreateRound, CreateTarget, ReadWatermark, Request, WriteSnapshot, SnapshotFails, EndCollect, At
  <2>2. q # w BY <1>2, <2>1
  <2> QED BY <1>1, <1>4, <1>10, <2>2
        DEF CreateRound, CreateTarget, ReadWatermark, Request, WriteSnapshot, SnapshotFails, EndCollect, GoTo
<1>15. ASSUME NEW q \in Worker, SourceFails(q) PROVE FALSE
  <2>1. work' = [work EXCEPT ![q] = Degraded(q)] BY <1>15 DEF SourceFails
  <2>2. q = w BY <1>1, <1>4, <2>1
  <2>3. work[w] \in Busy BY <1>1, <1>2
  <2>4. Degraded(w).pc = "gathered" BY <2>3, DegradedLocals DEF CollectInv
  <2> QED BY <1>1, <2>1, <2>2, <2>4
<1>11. ASSUME NEW q \in Worker,
              TargetStatus(q) \/ RunDomain(q) \/ RunDomainFails(q) \/ FinalStatus(q) \/ StoreFails(q)
       PROVE  FALSE
  <2>1. work[q].pc # "advance"
    BY <1>11 DEF TargetStatus, RunDomain, RunDomainFails, FinalStatus, StoreFails, At
  <2>2. q # w BY <1>2, <2>1
  <2> QED BY <1>1, <1>4, <1>11, <2>2
        DEF TargetStatus, RunDomain, RunDomainFails, FinalStatus, StoreFails, GoTo, Leave
<1>12. ASSUME NEW q \in Worker, AdvanceWatermark(q) PROVE q = w
  BY <1>1, <1>4, <1>12 DEF AdvanceWatermark, GoTo
<1>13. Advance => work' = work BY DEF Advance
<1>14. ASSUME NEW e \in Event, Occur(e) PROVE FALSE BY <1>4, <1>14 DEF Occur
<1> QED BY <1>4, <1>5, <1>6, <1>7, <1>8, <1>9, <1>10, <1>11, <1>12, <1>13, <1>14, <1>15 DEF Next

LEMMA PageGoesFurther ==
    ASSUME CollectInv, NEW w \in Worker, AdvanceWatermark(w), work[w].ref # None
    PROVE  \/ wm' > work[w].ref
           \/ \A e \in Event : ts[e] # None => ts[e] <= work[w].ref \/ ts[e] >= work[w].at
           \/ Cardinality({e \in Event : ts[e] = work[w].ref}) >= PageSize
<1>1. At(w, "advance") /\ work[w].pc = "advance" BY DEF AdvanceWatermark, At
<1>2. work[w] \in Busy /\ LocalOK(work[w], now, ts, wm, target, Covered) BY <1>1, Here
<1>3. PICK f \in work[w].page :
          /\ Max({ts[e] : e \in work[w].page}) = ts[f] /\ ts[f] \in Time /\ ts[f] <= now
          /\ \A e \in work[w].page : ts[e] <= ts[f]
  BY <1>1, LatestOfPage
<1>4. wm' = ts[f] BY <1>3 DEF AdvanceWatermark
<1>5. PICK r : r = work[w].ref OBVIOUS
<1>6. PICK P : P = work[w].page OBVIOUS
<1>7. r \in Nat /\ PageOK(work[w], ts) BY <1>1, <1>2, <1>5, Constants DEF LocalOK
<1>8. P \in SUBSET Event /\ work[w].at \in Nat BY <1>2, <1>6, BusyFields, Constants
<1>9. \A e \in Event : ts[e] # None => ts[e] \in Nat BY Constants DEF CollectInv, TypeInv
<1>10. \A e \in P : ts[e] # None /\ r <= ts[e] BY <1>5, <1>6, <1>7 DEF PageOK
<1>11. CASE ts[f] > r BY <1>4, <1>5, <1>11
<1>12. CASE ~(ts[f] > r)
  <2>1. ts[f] \in Nat BY <1>3, Constants
  <2>2. \A e \in P : ts[e] = r
    <3> SUFFICES ASSUME NEW e \in P PROVE ts[e] = r OBVIOUS
    <3>1. ts[e] \in Nat /\ ts[e] <= ts[f] /\ r <= ts[e] BY <1>3, <1>6, <1>8, <1>9, <1>10
    <3> QED BY <1>7, <1>12, <2>1, <3>1
  <2>3. CASE Cardinality(P) >= PageSize
    <3>1. PICK S : S = {e \in Event : ts[e] = r} OBVIOUS
    <3>2. P \in SUBSET S /\ S \in SUBSET Event BY <1>8, <2>2, <3>1
    <3>3. IsFiniteSet(S) BY <3>2, Constants, FS_Subset
    <3>4. IsFiniteSet(P) /\ Cardinality(P) <= Cardinality(S) BY <3>2, <3>3, FS_Subset
    <3>5. Cardinality(P) \in Nat /\ Cardinality(S) \in Nat BY <3>3, <3>4, FS_CardinalityType
    <3>6. Cardinality(S) >= PageSize BY <2>3, <3>4, <3>5, Constants
    <3> QED BY <1>5, <3>1, <3>6
  <2>4. CASE \A e \in Event : ts[e] # None /\ r <= ts[e] /\ ts[e] < work[w].at => e \in P
    <3> SUFFICES ASSUME NEW e \in Event, ts[e] # None PROVE ts[e] <= r \/ ts[e] >= work[w].at
      BY <1>5
    <3>1. ts[e] \in Nat BY <1>9
    <3> QED BY <1>7, <1>8, <2>2, <2>4, <3>1
  <2>5. \/ Cardinality(P) >= PageSize
        \/ \A e \in Event : ts[e] # None /\ r <= ts[e] /\ ts[e] < work[w].at => e \in P
    BY <1>5, <1>6, <1>7 DEF PageOK
  <2> QED BY <2>3, <2>4, <2>5
<1> QED BY <1>11, <1>12

\* A page that is cut at its size (http_logs.py) still takes the watermark further, unless
\* nothing is left in the window or one instant fills a page by itself: for any page size,
\* and whatever overlaps the collection.
THEOREM PagesGoFurther == Spec => PageMovesOn
<1>1. ASSUME CollectInv, Next, NEW w \in Worker, At(w, "advance"), work'[w].pc = "snapshot", work[w].ref # None
      PROVE  \/ wm' > work[w].ref
             \/ \A e \in Event : ts[e] # None => ts[e] <= work[w].ref \/ ts[e] >= work[w].at
             \/ Cardinality({e \in Event : ts[e] = work[w].ref}) >= PageSize
  <2>1. AdvanceWatermark(w) BY <1>1, WhoAdvances
  <2> QED BY <1>1, <2>1, PageGoesFurther
<1>2. CollectInv /\ [Next]_vars =>
        [\A w \in Worker :
            At(w, "advance") /\ work'[w].pc = "snapshot" /\ work[w].ref # None =>
                \/ wm' > work[w].ref
                \/ \A e \in Event : ts[e] # None => ts[e] <= work[w].ref \/ ts[e] >= work[w].at
                \/ Cardinality({e \in Event : ts[e] = work[w].ref}) >= PageSize]_vars
  BY <1>1
<1> QED BY <1>2, CollectCorrect, PTL DEF Spec, PageMovesOn

-----------------------------------------------------------------------------
(***************************************************************************)
(* The rows of rounds that do not overlap, as the lease of the scheduler   *)
(* has it while nobody runs the target by hand.                            *)
(***************************************************************************)
\* The rows of the round, or of the orphan, that a worker with locals l is at.
RowsOK(l, rd, tg) ==
    /\ l.pc \in HasRound => rd[l.id] = "running"
    /\ l.pc = "createTarget" => tg[l.id] = NoRow
    /\ l.pc \in HasRow => tg[l.id].status = "running"
    /\ l.pc \in {"funnel", "final", "failed"} => tg[l.id].status = IF l.ok THEN "ok" ELSE "failed"
    /\ l.pc = "interrupt" => tg[l.ref].status = "running"
    /\ l.pc \in {"readRound", "interruptRound"} => tg[l.ref].status = "interrupted"

StatusInv ==
    /\ StatusesAgree
    /\ \A i \in Rounds : round[i] = "none" => target[i] = NoRow
    /\ \A w \in Worker : work[w] # Idle => RowsOK(work[w], round, target)

Running == {i \in Rounds : target[i].status = "running"}

\* The places between a recovery that succeeded and the row of the next round, where
\* nothing is running but what earlier recoveries left.
Recovered == {"readRound", "interruptRound", "findOk", "rewind", "create", "createTarget"}

RunningInv ==
    /\ Cardinality(Running) <= 1 + history.unrecovered
    /\ \A w \in Worker : work[w].pc \in Recovered => Cardinality(Running) <= history.unrecovered

\* At most one worker.
Alone == \A v, w \in Worker : v = w

\* Steps that write no row.
LEMMA SameRows ==
    ASSUME StatusInv, Alone, NEW w \in Worker, UNCHANGED <<target, round>>,
           work'[w] # Idle => RowsOK(work'[w], round, target)
    PROVE  StatusInv'
<1>1. StatusesAgree' BY DEF StatusInv, StatusesAgree
<1>2. \A i \in Rounds : round'[i] = "none" => target'[i] = NoRow BY DEF StatusInv
<1>3. \A q \in Worker : work'[q] # Idle => RowsOK(work'[q], round', target') BY DEF Alone
<1> QED BY <1>1, <1>2, <1>3 DEF StatusInv

\* Steps that do not touch the worker.
LEMMA SameWork ==
    ASSUME StatusInv, UNCHANGED <<target, round, work>>
    PROVE  StatusInv'
<1>1. StatusesAgree' BY DEF StatusInv, StatusesAgree
<1> QED BY <1>1 DEF StatusInv

LEMMA RecoveryStatus ==
    ASSUME CollectInv, StatusInv, Alone, NEW s \in Scheduler,
           Tick(s) \/ FindOrphan(s) \/ ReadRound(s) \/ FindOk(s) \/ Rewind(s) \/ RecoverFails(s)
    PROVE  StatusInv'
<1>1. s \in Worker BY DEF Worker
<1>2. TypeInv /\ work \in [Worker -> {Idle} \cup Busy] BY DEF CollectInv, TypeInv
<1>3. UNCHANGED <<target, round>> BY DEF Tick, FindOrphan, ReadRound, FindOk, Rewind, RecoverFails
<1>4. CASE Tick(s)
  <2>1. work' = work \/ work' = [work EXCEPT ![s] = Begin("orphan")] BY <1>4 DEF Tick
  <2>2. CASE work' = work BY <1>3, <2>2, SameWork
  <2>3. CASE work' = [work EXCEPT ![s] = Begin("orphan")]
    <3>1. work'[s].pc = "orphan" BY <1>1, <1>2, <2>3 DEF Begin
    <3>2. RowsOK(work'[s], round, target) BY <3>1 DEF RowsOK, HasRound, HasRow
    <3> QED BY <1>1, <1>3, <3>2, SameRows
  <2> QED BY <2>1, <2>2, <2>3
<1>5. ASSUME work[s].pc # "idle", NEW pc, pc \in {"create", "findOk", "rewind"}, work'[s].pc = pc PROVE StatusInv'
  <2>1. RowsOK(work'[s], round, target) BY <1>5 DEF RowsOK, HasRound, HasRow
  <2> QED BY <1>1, <1>3, <2>1, SameRows
<1>6. CASE FindOrphan(s)
  <2>1. work[s].pc = "orphan" BY <1>6 DEF FindOrphan, At
  <2>2. work[s] \in Busy BY <1>1, <1>2, <2>1, UnderWay
  <2>3. CASE GoTo(s, "create")
    <3>1. work'[s].pc = "create" BY <1>1, <1>2, <2>2, <2>3 DEF GoTo, Busy
    <3> QED BY <1>5, <2>1, <3>1
  <2>4. ASSUME NEW i \in Latest("running"), work' = [work EXCEPT ![s].pc = "interrupt", ![s].ref = i]
        PROVE  StatusInv'
    <3>1. target[i].status = "running" BY DEF Latest
    <3>2. work'[s].pc = "interrupt" /\ work'[s].ref = i BY <1>1, <1>2, <2>2, <2>4 DEF Busy
    <3>3. RowsOK(work'[s], round, target) BY <3>1, <3>2 DEF RowsOK, HasRound, HasRow
    <3> QED BY <1>1, <1>3, <3>3, SameRows
  <2> QED BY <1>6, <2>3, <2>4 DEF FindOrphan
<1>7. CASE ReadRound(s)
  <2>1. work[s].pc = "readRound" BY <1>7 DEF ReadRound, At
  <2>2. work[s] \in Busy BY <1>1, <1>2, <2>1, UnderWay
  <2>3. CASE GoTo(s, "findOk")
    <3>1. work'[s].pc = "findOk" BY <1>1, <1>2, <2>2, <2>3 DEF GoTo, Busy
    <3> QED BY <1>5, <2>1, <3>1
  <2>4. CASE GoTo(s, "interruptRound")
    <3>1. target[work[s].ref].status = "interrupted"
      BY <1>1, <2>1, <2>2, BusyFields DEF StatusInv, RowsOK
    <3>2. work'[s].pc = "interruptRound" /\ work'[s].ref = work[s].ref
      BY <1>1, <1>2, <2>2, <2>4 DEF GoTo, Busy
    <3>3. RowsOK(work'[s], round, target) BY <3>1, <3>2 DEF RowsOK, HasRound, HasRow
    <3> QED BY <1>1, <1>3, <3>3, SameRows
  <2> QED BY <1>7, <2>3, <2>4 DEF ReadRound
<1>8. CASE FindOk(s)
  <2>1. work[s].pc = "findOk" BY <1>8 DEF FindOk, At
  <2>2. work[s] \in Busy BY <1>1, <1>2, <2>1, UnderWay
  <2>3. CASE GoTo(s, "create")
    <3>1. work'[s].pc = "create" BY <1>1, <1>2, <2>2, <2>3 DEF GoTo, Busy
    <3> QED BY <1>5, <2>1, <3>1
  <2>4. ASSUME NEW i \in Latest("ok"),
               work' = [work EXCEPT ![s].pc = "rewind", ![s].ref = target[i].finished]
        PROVE  StatusInv'
    <3>1. work'[s].pc = "rewind" BY <1>1, <1>2, <2>2, <2>4 DEF Busy
    <3> QED BY <1>5, <2>1, <3>1
  <2> QED BY <1>8, <2>3, <2>4 DEF FindOk
<1>9. CASE Rewind(s) \/ RecoverFails(s)
  <2>1. work[s].pc # "idle" /\ GoTo(s, "create") BY <1>9 DEF Rewind, RecoverFails, At
  <2>2. work[s] \in Busy BY <1>1, <1>2, <2>1, UnderWay
  <2>3. work'[s].pc = "create" BY <1>1, <1>2, <2>1, <2>2 DEF GoTo, Busy
  <2> QED BY <1>5, <2>1, <2>3
<1> QED BY <1>4, <1>6, <1>7, <1>8, <1>9

\* The steps of a collection.
Collecting(w) ==
    \/ ReadWatermark(w) \/ Request(w) \/ SourceFails(w) \/ AdvanceWatermark(w)
    \/ WriteSnapshot(w) \/ SnapshotFails(w) \/ EndCollect(w)

LEMMA CollectingGoesOn ==
    ASSUME CollectInv, NEW w \in Worker, Collecting(w)
    PROVE  /\ work[w].pc \in HasRow /\ work'[w].pc \in HasRow /\ work'[w].id = work[w].id
           /\ UNCHANGED <<target, round>> /\ history'.unrecovered = history.unrecovered
<1>1. TypeInv /\ work \in [Worker -> {Idle} \cup Busy] BY DEF CollectInv, TypeInv
<1>2. UNCHANGED <<target, round>>
  BY DEF Collecting, ReadWatermark, Request, SourceFails, AdvanceWatermark, WriteSnapshot, SnapshotFails,
         EndCollect
<1>3. work[w].pc \in {"watermark", "request", "advance", "snapshot", "gathered"}
  BY DEF Collecting, ReadWatermark, Request, SourceFails, AdvanceWatermark, WriteSnapshot, SnapshotFails,
         EndCollect, At
<1>4. work[w] \in Busy BY <1>1, <1>3, UnderWay
<1>5. \A P : Lose(P) => history'.unrecovered = history.unrecovered BY <1>1 DEF TypeInv, Lose
<1>6. history'.unrecovered = history.unrecovered
  BY <1>5 DEF Collecting, ReadWatermark, Request, SourceFails, AdvanceWatermark, WriteSnapshot,
              SnapshotFails, EndCollect
<1>7. Degraded(w).pc = "gathered" /\ Degraded(w).id = work[w].id BY <1>1, <1>4, DegradedLocals
<1>8. work'[w].pc \in {"request", "advance", "snapshot", "gathered", "status"} /\ work'[w].id = work[w].id
  <2>1. CASE ReadWatermark(w) BY <1>1, <1>4, <2>1 DEF ReadWatermark, Busy
  <2>2. CASE Request(w)
    <3>1. PICK p, v : /\ work' = [work EXCEPT ![w].pc = v, ![w].page = p]
                      /\ v \in {"snapshot", "advance"}
      BY <2>2 DEF Request
    <3> QED BY <1>1, <1>4, <3>1 DEF Busy
  <2>3. CASE SourceFails(w) \/ SnapshotFails(w) BY <1>1, <1>7, <2>3 DEF SourceFails, SnapshotFails
  <2>4. CASE AdvanceWatermark(w) BY <1>1, <1>4, <2>4 DEF AdvanceWatermark, GoTo, Busy
  <2>5. CASE WriteSnapshot(w) BY <1>1, <1>4, <2>5 DEF WriteSnapshot, GoTo, Busy
  <2>6. CASE EndCollect(w) BY <1>1, <1>4, <2>6 DEF EndCollect, Busy
  <2> QED BY <2>1, <2>2, <2>3, <2>4, <2>5, <2>6 DEF Collecting
<1> QED BY <1>2, <1>3, <1>6, <1>8 DEF HasRow

LEMMA CollectionStatus ==
    ASSUME CollectInv, StatusInv, Alone, NEW w \in Worker, Collecting(w)
    PROVE  StatusInv'
<1>1. /\ work[w].pc \in HasRow /\ work'[w].pc \in HasRow /\ work'[w].id = work[w].id
      /\ UNCHANGED <<target, round>>
  BY CollectingGoesOn
<1>2. work[w].pc # "idle" BY <1>1 DEF HasRow
<1>3. work[w] # Idle BY <1>2 DEF Idle
<1>4. RowsOK(work[w], round, target) BY <1>3 DEF StatusInv
<1>5. round[work[w].id] = "running" /\ target[work[w].id].status = "running"
  BY <1>1, <1>4 DEF RowsOK, HasRound, HasRow
<1>6. RowsOK(work'[w], round, target) BY <1>1, <1>5 DEF RowsOK, HasRound, HasRow
<1> QED BY <1>1, <1>6, SameRows

LEMMA EndStatus ==
    ASSUME CollectInv, StatusInv, Alone, NEW w \in Worker,
           RunDomain(w) \/ RunDomainFails(w) \/ StoreFails(w) \/ Crash(w)
    PROVE  StatusInv'
<1>1. TypeInv /\ work \in [Worker -> {Idle} \cup Busy] BY DEF CollectInv, TypeInv
<1>2. UNCHANGED <<target, round>> BY DEF RunDomain, RunDomainFails, StoreFails, Crash
<1>3. CASE StoreFails(w) \/ Crash(w)
  <2>1. work'[w] = Idle BY <1>1, <1>3 DEF StoreFails, Crash, Leave
  <2> QED BY <1>2, <2>1, SameRows
<1>4. CASE RunDomain(w) \/ RunDomainFails(w)
  <2>1. work[w].pc = "funnel" BY <1>4 DEF RunDomain, RunDomainFails, At
  <2>2. work[w] \in Busy /\ work[w] # Idle BY <1>1, <2>1, UnderWay
  <2>3. RowsOK(work[w], round, target) BY <2>2 DEF StatusInv
  <2>4. PICK v : v = IF work[w].ok THEN "ok" ELSE "failed" OBVIOUS
  <2>5. round[work[w].id] = "running" /\ target[work[w].id].status = v
    BY <2>1, <2>3, <2>4 DEF RowsOK, HasRound
  <2>6. work'[w].pc \in {"final", "failed"} /\ work'[w].id = work[w].id /\ work'[w].ok = work[w].ok
    <3>1. CASE RunDomain(w) BY <1>1, <2>2, <3>1 DEF RunDomain, Busy
    <3>2. CASE RunDomainFails(w) BY <1>1, <2>2, <3>2 DEF RunDomainFails, Busy
    <3> QED BY <1>4, <3>1, <3>2
  <2>7. RowsOK(work'[w], round, target) BY <2>4, <2>5, <2>6 DEF RowsOK, HasRound, HasRow
  <2> QED BY <1>2, <2>7, SameRows
<1> QED BY <1>3, <1>4

\* Steps that write a row of the target whose round is running.
LEMMA WriteRow ==
    ASSUME TypeInv, StatusInv, Alone, NEW w \in Worker, NEW i \in Rounds, NEW x,
           target' = [target EXCEPT ![i] = x], round' = round, round[i] = "running",
           work'[w] # Idle => RowsOK(work'[w], round, target')
    PROVE  StatusInv'
<1>1. \A j \in Rounds : target'[j] = IF j = i THEN x ELSE target[j] BY DEF TypeInv
<1>2. StatusesAgree'
  <2> SUFFICES ASSUME NEW j \in Rounds
               PROVE  /\ round[j] = "success" => target'[j].status = "ok"
                      /\ round[j] = "partial" => target'[j].status = "failed"
                      /\ target'[j].status = "running" => round[j] = "running"
                      /\ round[j] = "interrupted" => target'[j].status = "interrupted"
    BY DEF StatusesAgree
  <2> QED BY <1>1 DEF StatusInv, StatusesAgree
<1>3. \A j \in Rounds : round'[j] = "none" => target'[j] = NoRow BY <1>1 DEF StatusInv
<1>4. \A q \in Worker : work'[q] # Idle => RowsOK(work'[q], round', target') BY DEF Alone
<1> QED BY <1>2, <1>3, <1>4 DEF StatusInv

\* Steps that write the row of a round whose target has the status for it.
LEMMA WriteRound ==
    ASSUME TypeInv, StatusInv, Alone, NEW w \in Worker, NEW i \in Rounds, NEW v,
           round' = [round EXCEPT ![i] = v], target' = target,
           v = "success" => target[i].status = "ok",
           v = "partial" => target[i].status = "failed",
           v = "interrupted" => target[i].status = "interrupted",
           target[i].status = "running" => v = "running",
           v # "none",
           work'[w] # Idle => RowsOK(work'[w], round', target)
    PROVE  StatusInv'
<1>1. \A j \in Rounds : round'[j] = IF j = i THEN v ELSE round[j] BY DEF TypeInv
<1>2. StatusesAgree'
  <2> SUFFICES ASSUME NEW j \in Rounds
               PROVE  /\ round'[j] = "success" => target[j].status = "ok"
                      /\ round'[j] = "partial" => target[j].status = "failed"
                      /\ target[j].status = "running" => round'[j] = "running"
                      /\ round'[j] = "interrupted" => target[j].status = "interrupted"
    BY DEF StatusesAgree
  <2> QED BY <1>1 DEF StatusInv, StatusesAgree
<1>3. \A j \in Rounds : round'[j] = "none" => target'[j] = NoRow BY <1>1 DEF StatusInv
<1>4. \A q \in Worker : work'[q] # Idle => RowsOK(work'[q], round', target') BY DEF Alone
<1> QED BY <1>2, <1>3, <1>4 DEF StatusInv

LEMMA InterruptTargetStatus ==
    ASSUME CollectInv, StatusInv, Alone, NEW s \in Scheduler, InterruptTarget(s)
    PROVE  StatusInv'
<1>1. s \in Worker /\ work[s].pc = "interrupt" BY DEF Worker, InterruptTarget, At
<1>2. TypeInv /\ work \in [Worker -> {Idle} \cup Busy] BY DEF CollectInv, TypeInv
<1>3. work[s] \in Busy /\ work[s] # Idle /\ LocalOK(work[s], now, ts, wm, target, Covered)
  BY <1>1, Here
<1>4. PICK i : i = work[s].ref OBVIOUS
<1>5. i \in Rounds /\ target[i] \in Row BY <1>1, <1>3, <1>4 DEF LocalOK
<1>6. target[i].status = "running" BY <1>1, <1>3, <1>4 DEF StatusInv, RowsOK
<1>7. round[i] = "running" BY <1>5, <1>6 DEF StatusInv, StatusesAgree
<1>8. PICK x : x = [target[i] EXCEPT !.status = "interrupted", !.finished = work[s].at] OBVIOUS
<1>9. target' = [target EXCEPT ![i] = x] /\ x.status = "interrupted" /\ round' = round
  BY <1>2, <1>4, <1>5, <1>8 DEF InterruptTarget, TypeInv, Row
<1>10. work'[s].pc = "readRound" /\ work'[s].ref = i
  BY <1>1, <1>2, <1>3, <1>4 DEF InterruptTarget, GoTo, Busy
<1>11. target'[i].status = "interrupted" BY <1>2, <1>5, <1>9 DEF TypeInv
<1>12. RowsOK(work'[s], round, target') BY <1>10, <1>11 DEF RowsOK, HasRound, HasRow
<1> QED BY <1>1, <1>2, <1>5, <1>7, <1>9, <1>12, WriteRow

LEMMA CreateTargetStatus ==
    ASSUME CollectInv, StatusInv, Alone, NEW w \in Worker, CreateTarget(w)
    PROVE  StatusInv'
<1>1. work[w].pc = "createTarget" BY DEF CreateTarget, At
<1>2. TypeInv /\ work \in [Worker -> {Idle} \cup Busy] BY DEF CollectInv, TypeInv
<1>3. work[w] \in Busy /\ work[w] # Idle /\ LocalOK(work[w], now, ts, wm, target, Covered)
  BY <1>1, Here
<1>4. PICK i : i = work[w].id OBVIOUS
<1>5. i \in Rounds BY <1>1, <1>3, <1>4 DEF LocalOK, HasRound
<1>6. round[i] = "running" BY <1>1, <1>3, <1>4 DEF StatusInv, RowsOK, HasRound
<1>7. PICK x : x = [status |-> "running", started |-> work[w].at, finished |-> None] OBVIOUS
<1>8. target' = [target EXCEPT ![i] = x] /\ x.status = "running" /\ round' = round
  BY <1>4, <1>7 DEF CreateTarget
<1>9. work'[w].pc = "watermark" /\ work'[w].id = i
  BY <1>2, <1>3, <1>4 DEF CreateTarget, GoTo, Busy
<1>10. target'[i].status = "running" BY <1>2, <1>5, <1>8 DEF TypeInv
<1>11. RowsOK(work'[w], round, target') BY <1>6, <1>9, <1>10 DEF RowsOK, HasRound, HasRow
<1> QED BY <1>2, <1>5, <1>6, <1>8, <1>11, WriteRow

LEMMA TargetStatusStatus ==
    ASSUME CollectInv, StatusInv, Alone, NEW w \in Worker, TargetStatus(w)
    PROVE  StatusInv'
<1>1. work[w].pc = "status" BY DEF TargetStatus, At
<1>2. TypeInv /\ work \in [Worker -> {Idle} \cup Busy] BY DEF CollectInv, TypeInv
<1>3. work[w] \in Busy /\ work[w] # Idle /\ LocalOK(work[w], now, ts, wm, target, Covered)
  BY <1>1, Here
<1>4. PICK i : i = work[w].id OBVIOUS
<1>5. i \in Rounds /\ target[i] \in Row BY <1>1, <1>3, <1>4 DEF LocalOK, HasRound, HasRow
<1>6. round[i] = "running" BY <1>1, <1>3, <1>4 DEF StatusInv, RowsOK, HasRound
<1>7. PICK v : v = IF work[w].ok THEN "ok" ELSE "failed" OBVIOUS
<1>8. PICK x : x = [target[i] EXCEPT !.status = v, !.finished = work[w].ended] OBVIOUS
<1>9. target' = [target EXCEPT ![i] = x] /\ x.status = v /\ round' = round
  BY <1>2, <1>4, <1>5, <1>7, <1>8 DEF TargetStatus, TypeInv, Row
<1>10. work'[w].pc = "funnel" /\ work'[w].id = i /\ work'[w].ok = work[w].ok
  BY <1>2, <1>3, <1>4 DEF TargetStatus, GoTo, Busy
<1>11. target'[i].status = v BY <1>2, <1>5, <1>9 DEF TypeInv
<1>12. RowsOK(work'[w], round, target') BY <1>6, <1>7, <1>10, <1>11 DEF RowsOK, HasRound, HasRow
<1> QED BY <1>2, <1>5, <1>6, <1>9, <1>12, WriteRow

LEMMA InterruptRoundStatus ==
    ASSUME CollectInv, StatusInv, Alone, NEW s \in Scheduler, InterruptRound(s)
    PROVE  StatusInv'
<1>1. s \in Worker /\ work[s].pc = "interruptRound" BY DEF Worker, InterruptRound, At
<1>2. TypeInv /\ work \in [Worker -> {Idle} \cup Busy] BY DEF CollectInv, TypeInv
<1>3. work[s] \in Busy /\ work[s] # Idle /\ LocalOK(work[s], now, ts, wm, target, Covered)
  BY <1>1, Here
<1>4. PICK i : i = work[s].ref OBVIOUS
<1>5. i \in Rounds BY <1>1, <1>3, <1>4 DEF LocalOK
<1>6. target[i].status = "interrupted" BY <1>1, <1>3, <1>4 DEF StatusInv, RowsOK
<1>7. round' = [round EXCEPT ![i] = "interrupted"] /\ target' = target BY <1>4 DEF InterruptRound
<1>8. work'[s].pc = "findOk" BY <1>1, <1>2, <1>3 DEF InterruptRound, GoTo, Busy
<1>9. RowsOK(work'[s], round', target) BY <1>8 DEF RowsOK, HasRound, HasRow
<1> QED BY <1>1, <1>2, <1>5, <1>6, <1>7, <1>9, WriteRound

LEMMA CreateRoundStatus ==
    ASSUME CollectInv, StatusInv, Alone, NEW w \in Worker, CreateRound(w)
    PROVE  StatusInv'
<1>1. work[w].pc = "create" BY DEF CreateRound, At
<1>2. TypeInv /\ work \in [Worker -> {Idle} \cup Busy] BY DEF CollectInv, TypeInv
<1>3. work[w] \in Busy /\ work[w] # Idle BY <1>1, Here
<1>4. PICK i \in Rounds : /\ round[i] = "none" /\ round' = [round EXCEPT ![i] = "running"]
                          /\ work' = [work EXCEPT ![w].pc = "createTarget", ![w].id = i]
  BY DEF CreateRound
<1>5. target' = target /\ target[i] = NoRow BY <1>4 DEF CreateRound, StatusInv
<1>6. NoRow.status = "none" BY DEF NoRow
<1>7. work'[w].pc = "createTarget" /\ work'[w].id = i BY <1>2, <1>3, <1>4 DEF Busy
<1>8. round'[i] = "running" BY <1>2, <1>4 DEF TypeInv
<1>9. RowsOK(work'[w], round', target) BY <1>5, <1>7, <1>8 DEF RowsOK, HasRound, HasRow
<1> QED BY <1>2, <1>4, <1>5, <1>6, <1>9, WriteRound

LEMMA FinalStatusStatus ==
    ASSUME CollectInv, StatusInv, Alone, NEW w \in Worker, FinalStatus(w)
    PROVE  StatusInv'
<1>1. work[w].pc \in {"final", "failed"} BY DEF FinalStatus
<1>2. TypeInv /\ work \in [Worker -> {Idle} \cup Busy] BY DEF CollectInv, TypeInv
<1>3. work[w] \in Busy /\ work[w] # Idle /\ LocalOK(work[w], now, ts, wm, target, Covered)
  BY <1>1, Here
<1>4. PICK i : i = work[w].id OBVIOUS
<1>5. i \in Rounds BY <1>1, <1>3, <1>4 DEF LocalOK, HasRound
<1>6. RowsOK(work[w], round, target) BY <1>3 DEF StatusInv
<1>7. PICK v : v = IF At(w, "failed") THEN "failed" ELSE IF work[w].ok THEN "success" ELSE "partial"
  OBVIOUS
<1>8. round' = [round EXCEPT ![i] = v] /\ target' = target BY <1>4, <1>7 DEF FinalStatus
<1>9. work'[w] = Idle BY <1>2 DEF FinalStatus, Leave
<1>10. target[i].status = IF work[w].ok THEN "ok" ELSE "failed" BY <1>1, <1>4, <1>6 DEF RowsOK
<1>11. target[i].status # "running" BY <1>10
<1>12. /\ v # "none" /\ v # "interrupted"
       /\ (v = "success" => target[i].status = "ok") /\ (v = "partial" => target[i].status = "failed")
  BY <1>1, <1>7, <1>10 DEF At
<1> QED BY <1>2, <1>5, <1>8, <1>9, <1>11, <1>12, WriteRound

LEMMA InitStatus == Init => StatusInv
<1> SUFFICES ASSUME Init PROVE StatusInv OBVIOUS
<1>1. \A i \in Rounds : round[i] = "none" /\ target[i] = NoRow BY DEF Init
<1>2. NoRow.status = "none" BY DEF NoRow
<1>3. \A w \in Worker : work[w] = Idle BY DEF Init
<1> QED BY <1>1, <1>2, <1>3 DEF StatusInv, StatusesAgree

LEMMA NextStatus ==
    ASSUME Alone, CollectInv, StatusInv, [Next]_vars
    PROVE  StatusInv'
<1>1. CASE UNCHANGED vars
  <2>1. UNCHANGED <<target, round, work>> BY <1>1 DEF vars
  <2> QED BY <2>1, SameWork
<1>2. CASE Advance
  <2>1. UNCHANGED <<target, round, work>> BY <1>2 DEF Advance
  <2> QED BY <2>1, SameWork
<1>3. ASSUME NEW e \in Event, Occur(e) PROVE StatusInv'
  <2>1. UNCHANGED <<target, round, work>> BY <1>3 DEF Occur
  <2> QED BY <2>1, SameWork
<1>4. ASSUME NEW s \in Scheduler,
             Tick(s) \/ FindOrphan(s) \/ ReadRound(s) \/ FindOk(s) \/ Rewind(s) \/ RecoverFails(s)
      PROVE  StatusInv'
  BY <1>4, RecoveryStatus
<1>5. ASSUME NEW s \in Scheduler, InterruptTarget(s) PROVE StatusInv' BY <1>5, InterruptTargetStatus
<1>6. ASSUME NEW s \in Scheduler, InterruptRound(s) PROVE StatusInv' BY <1>6, InterruptRoundStatus
<1>7. ASSUME NEW m \in Manual, RunMonitor(m) PROVE StatusInv'
  <2>1. m \in Worker /\ work \in [Worker -> {Idle} \cup Busy] BY DEF Worker, CollectInv, TypeInv
  <2>2. work'[m].pc = "create" /\ UNCHANGED <<target, round>> BY <1>7, <2>1 DEF RunMonitor, Begin
  <2>3. RowsOK(work'[m], round, target) BY <2>2 DEF RowsOK, HasRound, HasRow
  <2> QED BY <2>1, <2>2, <2>3, SameRows
<1>8. ASSUME NEW w \in Worker, CreateRound(w) PROVE StatusInv' BY <1>8, CreateRoundStatus
<1>9. ASSUME NEW w \in Worker, CreateTarget(w) PROVE StatusInv' BY <1>9, CreateTargetStatus
<1>10. ASSUME NEW w \in Worker, Collecting(w) PROVE StatusInv'
  BY <1>10, CollectionStatus
<1>11. ASSUME NEW w \in Worker, TargetStatus(w) PROVE StatusInv' BY <1>11, TargetStatusStatus
<1>12. ASSUME NEW w \in Worker, RunDomain(w) \/ RunDomainFails(w) \/ StoreFails(w) \/ Crash(w)
       PROVE  StatusInv'
  BY <1>12, EndStatus
<1>13. ASSUME NEW w \in Worker, FinalStatus(w) PROVE StatusInv' BY <1>13, FinalStatusStatus
<1> QED BY <1>1, <1>2, <1>3, <1>4, <1>5, <1>6, <1>7, <1>8, <1>9, <1>10, <1>11, <1>12, <1>13 DEF Next, Collecting

\* The two tables tell one story: a round is a success only if its target was collected, a
\* partial one only if it was not, a row that is running has a round that is, and a round
\* is interrupted only after its target.  For one worker at a time (the lease), whenever
\* it dies, whichever store call fails, and whatever the recovery finds (poller.py and
\* scheduler.py).  A manual run beside the scheduler's breaks it.
THEOREM TablesAgree ==
    ASSUME \A v, w \in Worker : v = w
    PROVE  Spec => []StatusesAgree
<1>1. Alone BY DEF Alone
<1>2. CollectInv /\ StatusInv /\ [Next]_vars => StatusInv' BY <1>1, NextStatus
<1>3. StatusInv => StatusesAgree BY DEF StatusInv
<1> QED BY <1>2, <1>3, InitStatus, CollectCorrect, PTL DEF Spec

-----------------------------------------------------------------------------
(***************************************************************************)
(* How many rows are running.                                              *)
(***************************************************************************)
LEMMA RunningIsFinite == Running \in SUBSET Rounds /\ IsFiniteSet(Running) /\ Cardinality(Running) \in Nat
<1>1. Running \in SUBSET Rounds BY DEF Running
<1>2. IsFiniteSet(Rounds)
  <2>1. MaxRounds \in Int /\ 1 \in Int BY Constants
  <2>2. IsFiniteSet(1..MaxRounds) BY <2>1, FS_Interval
  <2> QED BY <2>2 DEF Rounds
<1>3. IsFiniteSet(Running) BY <1>1, <1>2, FS_Subset
<1> QED BY <1>1, <1>3, FS_CardinalityType

LEMMA Unrecovered ==
    ASSUME TypeInv
    PROVE  history.unrecovered \in Nat
  BY DEF TypeInv

\* Steps that start no row and do not enter the places after a recovery.
LEMMA NoMoreRunning ==
    ASSUME TypeInv, RunningInv, Alone, NEW w \in Worker, Running' \subseteq Running,
           history'.unrecovered = history.unrecovered,
           work'[w].pc \in Recovered => work[w].pc \in Recovered
    PROVE  RunningInv'
<1>1. PICK S : S = Running OBVIOUS
<1>2. PICK R : R = Running' OBVIOUS
<1>3. R \in SUBSET S /\ IsFiniteSet(S) /\ Cardinality(S) \in Nat BY <1>1, <1>2, RunningIsFinite
<1>4. IsFiniteSet(R) /\ Cardinality(R) <= Cardinality(S) BY <1>3, FS_Subset
<1>5. Cardinality(R) \in Nat BY <1>4, FS_CardinalityType
<1>6. history.unrecovered \in Nat BY Unrecovered
<1>7. Cardinality(R) <= 1 + history'.unrecovered
  <2>1. Cardinality(S) <= 1 + history.unrecovered BY <1>1 DEF RunningInv
  <2> QED BY <1>3, <1>4, <1>5, <1>6, <2>1
<1>8. ASSUME NEW q \in Worker, work'[q].pc \in Recovered PROVE Cardinality(R) <= history'.unrecovered
  <2>1. q = w BY DEF Alone
  <2>2. Cardinality(S) <= history.unrecovered BY <1>1, <1>8, <2>1 DEF RunningInv
  <2> QED BY <1>3, <1>4, <1>5, <1>6, <2>2
<1> QED BY <1>2, <1>7, <1>8 DEF RunningInv

\* Some row is the latest of those that are running.
LEMMA LatestExists ==
    ASSUME TypeInv, Latest("running") = {}
    PROVE  Running = {}
<1> SUFFICES ASSUME Running # {} PROVE FALSE OBVIOUS
<1>1. PICK S : S = {target[i].started : i \in Running} OBVIOUS
<1>2. \A i \in Running : target[i].started \in Time
  <2> SUFFICES ASSUME NEW i \in Running PROVE target[i].started \in Time OBVIOUS
  <2>1. i \in Rounds /\ target[i].status = "running" BY DEF Running
  <2>2. target[i] \in Row \cup {NoRow} BY <2>1 DEF TypeInv
  <2>3. target[i] \in Row BY <2>1, <2>2, StatusOfRow
  <2> QED BY <2>3, RowFields
<1>3. S \in SUBSET Nat /\ S # {} /\ MaxTime \in Nat /\ \A x \in S : x <= MaxTime
  BY <1>1, <1>2, Constants
<1>4. Max(S) \in S /\ \A y \in S : y <= Max(S) BY <1>3, MaxIsLargest
<1>5. PICK i \in Running : target[i].started = Max(S) BY <1>1, <1>4
<1>6. \A j \in Running : target[j].started <= target[i].started BY <1>1, <1>4, <1>5
<1>7. i \in Latest("running") BY <1>6 DEF Latest, Running
<1> QED BY <1>7

\* Steps of w that write no row of the target.
LEMMA PlacesStep ==
    ASSUME CollectInv, NEW w \in Worker,
           \/ Tick(w) \/ ReadRound(w) \/ InterruptRound(w) \/ FindOk(w) \/ Rewind(w)
           \/ CreateRound(w) \/ Collecting(w)
           \/ RunDomain(w) \/ RunDomainFails(w) \/ FinalStatus(w) \/ StoreFails(w) \/ Crash(w)
    PROVE  /\ target' = target /\ history'.unrecovered = history.unrecovered
           /\ work'[w].pc \in Recovered => work[w].pc \in Recovered
<1>1. TypeInv /\ work \in [Worker -> {Idle} \cup Busy] BY DEF CollectInv, TypeInv
<1>2. \A P : Lose(P) => history'.unrecovered = history.unrecovered BY <1>1 DEF TypeInv, Lose
<1>3. Idle.pc = "idle" BY DEF Idle
<1>4. CASE Tick(w)
  <2>1. work'[w] = work[w] \/ work'[w] = Begin("orphan") BY <1>1, <1>4 DEF Tick
  <2>2. Begin("orphan").pc = "orphan" BY DEF Begin
  <2> QED BY <1>4, <2>1, <2>2 DEF Tick, Recovered
<1>5. CASE ReadRound(w) \/ InterruptRound(w) \/ FindOk(w) \/ Rewind(w) \/ CreateRound(w)
  <2>1. work[w].pc \in Recovered
    BY <1>5 DEF ReadRound, InterruptRound, FindOk, Rewind, CreateRound, At, Recovered
  <2>2. target' = target BY <1>5 DEF ReadRound, InterruptRound, FindOk, Rewind, CreateRound
  <2>3. history'.unrecovered = history.unrecovered
    BY <1>2, <1>5 DEF ReadRound, InterruptRound, FindOk, Rewind, CreateRound
  <2> QED BY <2>1, <2>2, <2>3
<1>6. CASE Collecting(w)
  <2>1. work'[w].pc \in HasRow /\ target' = target /\ history'.unrecovered = history.unrecovered
    BY <1>6, CollectingGoesOn
  <2> QED BY <2>1 DEF Recovered, HasRow
<1>7. CASE RunDomain(w) \/ RunDomainFails(w)
  <2>1. work[w].pc = "funnel" BY <1>7 DEF RunDomain, RunDomainFails, At
  <2>2. work[w] \in Busy BY <1>1, <2>1, UnderWay
  <2>3. work'[w].pc \in {"final", "failed"}
    <3>1. CASE RunDomain(w) BY <1>1, <2>2, <3>1 DEF RunDomain, Busy
    <3>2. CASE RunDomainFails(w) BY <1>1, <2>2, <3>2 DEF RunDomainFails, Busy
    <3> QED BY <1>7, <3>1, <3>2
  <2>4. target' = target /\ history'.unrecovered = history.unrecovered
    BY <1>2, <1>7 DEF RunDomain, RunDomainFails
  <2> QED BY <2>3, <2>4 DEF Recovered
<1>8. CASE FinalStatus(w) \/ StoreFails(w) \/ Crash(w)
  <2>1. work'[w] = Idle BY <1>1, <1>8 DEF FinalStatus, StoreFails, Crash, Leave
  <2>2. target' = target /\ history'.unrecovered = history.unrecovered
    BY <1>2, <1>8 DEF FinalStatus, StoreFails, Crash
  <2> QED BY <1>3, <2>1, <2>2 DEF Recovered
<1> QED BY <1>4, <1>5, <1>6, <1>7, <1>8

LEMMA FindOrphanRunning ==
    ASSUME CollectInv, RunningInv, Alone, NEW s \in Scheduler, FindOrphan(s)
    PROVE  RunningInv'
<1>1. s \in Worker /\ work[s].pc = "orphan" BY DEF Worker, FindOrphan, At
<1>2. TypeInv /\ work \in [Worker -> {Idle} \cup Busy] BY DEF CollectInv, TypeInv
<1>3. work[s] \in Busy BY <1>1, <1>2, UnderWay
<1>4. UNCHANGED <<target, history>> BY DEF FindOrphan
<1>5. Running' = Running BY <1>4 DEF Running
<1>6. ASSUME Latest("running") = {} PROVE RunningInv'
  <2>1. Running = {} BY <1>2, <1>6, LatestExists
  <2>2. Cardinality(Running') = 0 BY <1>5, <2>1, FS_EmptySet
  <2>3. history.unrecovered \in Nat BY <1>2, Unrecovered
  <2>4. Cardinality(Running') <= 1 + history'.unrecovered /\ Cardinality(Running') <= history'.unrecovered
    BY <1>4, <2>2, <2>3
  <2> QED BY <2>4 DEF RunningInv
<1>7. ASSUME NEW i \in Latest("running"), work' = [work EXCEPT ![s].pc = "interrupt", ![s].ref = i]
      PROVE  RunningInv'
  <2>1. work'[s].pc = "interrupt" BY <1>1, <1>2, <1>3, <1>7 DEF Busy
  <2>2. /\ history'.unrecovered = history.unrecovered /\ Running' \subseteq Running
        /\ (work'[s].pc \in Recovered => work[s].pc \in Recovered)
    BY <1>4, <1>5, <2>1 DEF Recovered
  <2> QED BY <1>1, <1>2, <2>2, NoMoreRunning
<1> QED BY <1>6, <1>7 DEF FindOrphan

\* The recovery takes away the row it found.
LEMMA InterruptTargetRunning ==
    ASSUME CollectInv, StatusInv, RunningInv, Alone, NEW s \in Scheduler, InterruptTarget(s)
    PROVE  RunningInv'
<1>1. s \in Worker /\ work[s].pc = "interrupt" BY DEF Worker, InterruptTarget, At
<1>2. TypeInv BY DEF CollectInv
<1>3. work[s] \in Busy /\ work[s] # Idle /\ LocalOK(work[s], now, ts, wm, target, Covered)
  BY <1>1, Here
<1>4. PICK i : i = work[s].ref OBVIOUS
<1>5. i \in Rounds /\ target[i] \in Row BY <1>1, <1>3, <1>4 DEF LocalOK
<1>6. target[i].status = "running" BY <1>1, <1>3, <1>4 DEF StatusInv, RowsOK
<1>7. PICK x : x = [target[i] EXCEPT !.status = "interrupted", !.finished = work[s].at] OBVIOUS
<1>8. target' = [target EXCEPT ![i] = x] /\ x.status = "interrupted" /\ history' = history
  BY <1>2, <1>4, <1>5, <1>7 DEF InterruptTarget, TypeInv, Row
<1>9. \A j \in Rounds : target'[j] = IF j = i THEN x ELSE target[j] BY <1>2, <1>8 DEF TypeInv
<1>10. Running' = Running \ {i} /\ i \in Running BY <1>5, <1>6, <1>8, <1>9 DEF Running
<1>11. PICK S : S = Running OBVIOUS
<1>12. IsFiniteSet(S) /\ Cardinality(S) \in Nat /\ i \in S BY <1>10, <1>11, RunningIsFinite
<1>13. Cardinality(S \ {i}) = Cardinality(S) - 1 BY <1>12, FS_RemoveElement
<1>14. Cardinality(S) <= 1 + history.unrecovered BY <1>11 DEF RunningInv
<1>15. history.unrecovered \in Nat BY <1>2, Unrecovered
<1>16. Cardinality(S \ {i}) <= history.unrecovered /\ Cardinality(S \ {i}) <= 1 + history.unrecovered
  BY <1>12, <1>13, <1>14, <1>15
<1>17. Cardinality(Running') <= history'.unrecovered /\ Cardinality(Running') <= 1 + history'.unrecovered
  BY <1>8, <1>10, <1>11, <1>16
<1> QED BY <1>17 DEF RunningInv

LEMMA RecoverFailsRunning ==
    ASSUME CollectInv, RunningInv, NEW s \in Scheduler, RecoverFails(s)
    PROVE  RunningInv'
<1>1. TypeInv BY DEF CollectInv
<1>2. history.unrecovered \in Nat BY <1>1, Unrecovered
<1>3. history'.unrecovered = history.unrecovered + 1 /\ target' = target
  BY <1>1 DEF RecoverFails, TypeInv
<1>4. Running' = Running BY <1>3 DEF Running
<1>5. Cardinality(Running) \in Nat BY RunningIsFinite
<1>6. Cardinality(Running) <= 1 + history.unrecovered BY DEF RunningInv
<1>7. Cardinality(Running') <= history'.unrecovered /\ Cardinality(Running') <= 1 + history'.unrecovered
  BY <1>2, <1>3, <1>4, <1>5, <1>6
<1> QED BY <1>7 DEF RunningInv

LEMMA CreateTargetRunning ==
    ASSUME CollectInv, RunningInv, Alone, NEW w \in Worker, CreateTarget(w)
    PROVE  RunningInv'
<1>1. work[w].pc = "createTarget" BY DEF CreateTarget, At
<1>2. TypeInv /\ work \in [Worker -> {Idle} \cup Busy] BY DEF CollectInv, TypeInv
<1>3. work[w] \in Busy /\ work[w] # Idle /\ LocalOK(work[w], now, ts, wm, target, Covered)
  BY <1>1, Here
<1>4. PICK i : i = work[w].id OBVIOUS
<1>5. i \in Rounds BY <1>1, <1>3, <1>4 DEF LocalOK, HasRound
<1>6. PICK x : x = [status |-> "running", started |-> work[w].at, finished |-> None] OBVIOUS
<1>7. target' = [target EXCEPT ![i] = x] /\ x.status = "running" /\ history' = history
  BY <1>4, <1>6 DEF CreateTarget
<1>8. \A j \in Rounds : target'[j] = IF j = i THEN x ELSE target[j] BY <1>2, <1>7 DEF TypeInv
<1>9. Running' = Running \cup {i} BY <1>5, <1>7, <1>8 DEF Running
<1>10. PICK S : S = Running OBVIOUS
<1>11. IsFiniteSet(S) /\ Cardinality(S) \in Nat BY <1>10, RunningIsFinite
<1>12. Cardinality(S \cup {i}) <= Cardinality(S) + 1 /\ Cardinality(S \cup {i}) \in Nat
  <2>1. Cardinality(S \cup {i}) = IF i \in S THEN Cardinality(S) ELSE Cardinality(S) + 1
    BY <1>11, FS_AddElement
  <2> QED BY <1>11, <2>1
<1>13. Cardinality(S) <= history.unrecovered BY <1>1, <1>10 DEF RunningInv, Recovered
<1>14. history.unrecovered \in Nat BY <1>2, Unrecovered
<1>15. Cardinality(S \cup {i}) <= 1 + history.unrecovered BY <1>11, <1>12, <1>13, <1>14
<1>16. Cardinality(Running') <= 1 + history'.unrecovered BY <1>7, <1>9, <1>10, <1>15
<1>17. work'[w].pc = "watermark" BY <1>2, <1>3 DEF CreateTarget, GoTo, Busy
<1>18. \A q \in Worker : work'[q].pc \notin Recovered BY <1>17 DEF Alone, Recovered
<1> QED BY <1>16, <1>18 DEF RunningInv

LEMMA TargetStatusRunning ==
    ASSUME CollectInv, RunningInv, Alone, NEW w \in Worker, TargetStatus(w)
    PROVE  RunningInv'
<1>1. work[w].pc = "status" BY DEF TargetStatus, At
<1>2. TypeInv /\ work \in [Worker -> {Idle} \cup Busy] BY DEF CollectInv, TypeInv
<1>3. work[w] \in Busy /\ work[w] # Idle /\ LocalOK(work[w], now, ts, wm, target, Covered)
  BY <1>1, Here
<1>4. PICK i : i = work[w].id OBVIOUS
<1>5. i \in Rounds /\ target[i] \in Row BY <1>1, <1>3, <1>4 DEF LocalOK, HasRound, HasRow
<1>6. PICK v : v = IF work[w].ok THEN "ok" ELSE "failed" OBVIOUS
<1>7. PICK x : x = [target[i] EXCEPT !.status = v, !.finished = work[w].ended] OBVIOUS
<1>8. target' = [target EXCEPT ![i] = x] /\ x.status # "running" /\ history' = history
  BY <1>2, <1>4, <1>5, <1>6, <1>7 DEF TargetStatus, TypeInv, Row
<1>9. \A j \in Rounds : target'[j] = IF j = i THEN x ELSE target[j] BY <1>2, <1>8 DEF TypeInv
<1>10. Running' \subseteq Running BY <1>8, <1>9 DEF Running
<1>11. work'[w].pc = "funnel" BY <1>2, <1>3 DEF TargetStatus, GoTo, Busy
<1>12. /\ history'.unrecovered = history.unrecovered
       /\ (work'[w].pc \in Recovered => work[w].pc \in Recovered)
  BY <1>8, <1>11 DEF Recovered
<1> QED BY <1>2, <1>10, <1>12, NoMoreRunning

LEMMA InitRunning == Init => RunningInv
<1> SUFFICES ASSUME Init PROVE RunningInv OBVIOUS
<1>1. NoRow.status = "none" /\ Idle.pc = "idle" BY DEF NoRow, Idle
<1>2. Running = {} BY <1>1 DEF Init, Running
<1>3. Cardinality(Running) = 0 BY <1>2, FS_EmptySet
<1>4. history.unrecovered = 0 BY DEF Init
<1>5. \A w \in Worker : work[w].pc = "idle" BY <1>1 DEF Init
<1> QED BY <1>3, <1>4, <1>5 DEF RunningInv, Recovered

LEMMA NextRunning ==
    ASSUME Alone, Manual = {}, CollectInv, StatusInv, RunningInv, [Next]_vars
    PROVE  RunningInv'
<1>1. TypeInv BY DEF CollectInv
<1>2. CASE UNCHANGED <<target, work, history>>
  <2>1. Running' = Running BY <1>2 DEF Running
  <2> QED BY <1>2, <2>1 DEF RunningInv
<1>3. CASE UNCHANGED vars BY <1>2, <1>3 DEF vars
<1>4. CASE Advance BY <1>2, <1>4 DEF Advance
<1>5. ASSUME NEW e \in Event, Occur(e) PROVE RunningInv' BY <1>2, <1>5 DEF Occur
<1>6. ASSUME NEW w \in Worker,
             \/ Tick(w) \/ ReadRound(w) \/ InterruptRound(w) \/ FindOk(w) \/ Rewind(w)
             \/ CreateRound(w) \/ Collecting(w)
             \/ RunDomain(w) \/ RunDomainFails(w) \/ FinalStatus(w) \/ StoreFails(w) \/ Crash(w)
      PROVE  RunningInv'
  <2>1. /\ target' = target /\ history'.unrecovered = history.unrecovered
        /\ (work'[w].pc \in Recovered => work[w].pc \in Recovered)
    BY <1>6, PlacesStep
  <2>2. Running' \subseteq Running BY <2>1 DEF Running
  <2> QED BY <1>1, <2>1, <2>2, NoMoreRunning
<1>7. ASSUME NEW s \in Scheduler, FindOrphan(s) PROVE RunningInv' BY <1>7, FindOrphanRunning
<1>8. ASSUME NEW s \in Scheduler, InterruptTarget(s) PROVE RunningInv' BY <1>8, InterruptTargetRunning
<1>9. ASSUME NEW s \in Scheduler, RecoverFails(s) PROVE RunningInv' BY <1>9, RecoverFailsRunning
<1>10. ASSUME NEW w \in Worker, CreateTarget(w) PROVE RunningInv' BY <1>10, CreateTargetRunning
<1>11. ASSUME NEW w \in Worker, TargetStatus(w) PROVE RunningInv' BY <1>11, TargetStatusRunning
<1>12. Scheduler \subseteq Worker BY DEF Worker
<1> QED BY <1>3, <1>4, <1>5, <1>6, <1>7, <1>8, <1>9, <1>10, <1>11, <1>12 DEF Next, Collecting

\* The recovery before every round keeps the target free of leftovers: one row of the
\* target is running at most, and one more for every recovery that failed, whenever the
\* process dies and whichever store call fails.  For the scheduler under its lease, and
\* no manual runs, which look for no orphan.
THEOREM LeftoversAreCleared ==
    ASSUME \A v, w \in Worker : v = w, Manual = {}
    PROVE  Spec => []AtMostOneRunning
<1>1. Alone BY DEF Alone
<1>2. CollectInv /\ StatusInv /\ [Next]_vars => StatusInv' BY <1>1, NextStatus
<1>3. CollectInv /\ StatusInv /\ RunningInv /\ [Next]_vars => RunningInv' BY <1>1, NextRunning
<1>4. RunningInv => AtMostOneRunning BY DEF RunningInv, AtMostOneRunning, Running
<1> QED BY <1>2, <1>3, <1>4, InitStatus, InitRunning, CollectCorrect, PTL DEF Spec

-----------------------------------------------------------------------------
(***************************************************************************)
(* The lease that decides whose scheduler starts the rounds: when sleep    *)
(* and work fit in the TTL and no tick raises, it excludes, for any number *)
(* of replicas, whoever crashes and restarts, and implements               *)
(* ExclusiveScheduler.                                                     *)
(*                                                                         *)
(* The invariant bounds what is left of the lease of a replica that is up: *)
(* a full TTL at the last renew, less the time it slept and worked since.  *)
(* It is never used up, so nobody else can take the row.                   *)
(***************************************************************************)
\* The condition under which the lease excludes.
Fits == MaxSleep + MaxWork < TTL /\ TickMayRaise = FALSE

\* What is known of replica r.
Holds(r) ==
    /\ mode[r] # "down" => age[r] <= MaxAge(mode[r])
    /\ mode[r] = "work" => holder = r
    /\ holder = r => mode[r] # "down"
    /\ holder = r /\ mode[r] = "sleep" => left + age[r] >= TTL
    /\ holder = r /\ mode[r] = "work" => left + age[r] >= TTL - MaxSleep

LeaseInv == LeaseTypeOK /\ \A r \in Replica : Holds(r)

-----------------------------------------------------------------------------
\* A replica that is up and holds the lease has time left, so try_acquire gives
\* the row to nobody else.
LEMMA HolderHasTime ==
    ASSUME Fits, LeaseInv, NEW r \in Replica, holder = r
    PROVE  left > 0 /\ ~Acquirable
<1>1. /\ TTL \in Nat /\ MaxSleep \in Nat /\ MaxWork \in Nat
      /\ left \in Int /\ age[r] \in Nat /\ mode[r] \in {"down", "sleep", "work"}
  BY TimeAssumption DEF LeaseInv, LeaseTypeOK
<1>2. Holds(r)
  BY DEF LeaseInv
<1>3. left > 0
  <2>1. CASE mode[r] = "sleep"
    BY <1>1, <1>2, <2>1 DEF Holds, MaxAge, Fits
  <2>2. CASE mode[r] = "work"
    BY <1>1, <1>2, <2>2 DEF Holds, MaxAge, Fits
  <2>3. mode[r] # "down"
    BY <1>2 DEF Holds
  <2> QED
    BY <1>1, <2>1, <2>2, <2>3
<1>4. holder # NoLease
  BY RowAssumption
<1> QED
  BY <1>1, <1>3, <1>4 DEF Acquirable

LEMMA LeaseBegins == Fits /\ LeaseInit => LeaseInv
<1> SUFFICES ASSUME Fits, LeaseInit PROVE LeaseInv
  OBVIOUS
<1>1. LeaseTypeOK
  BY TimeAssumption DEF LeaseInit, LeaseTypeOK
<1>2. ASSUME NEW r \in Replica PROVE Holds(r)
  BY <1>2, TimeAssumption, RowAssumption DEF LeaseInit, Holds, MaxAge
<1> QED
  BY <1>1, <1>2 DEF LeaseInv

\* Entering a mode changes one replica and leaves the others where they are.
LEMMA EnterFacts ==
    ASSUME LeaseTypeOK, NEW r \in Replica, NEW m \in {"down", "sleep", "work"}, Enter(r, m)
    PROVE  /\ mode' \in [Replica -> {"down", "sleep", "work"}]
           /\ age' \in [Replica -> Nat]
           /\ mode'[r] = m /\ age'[r] = 0
           /\ \A s \in Replica \ {r} : mode'[s] = mode[s] /\ age'[s] = age[s]
  BY DEF Enter, LeaseTypeOK

LEMMA AcquireInv ==
    ASSUME Fits, LeaseInv, NEW r \in Replica, TryAcquire(r)
    PROVE  LeaseInv'
<1>0. /\ LeaseTypeOK /\ mode[r] = "sleep"
      /\ TTL \in Nat /\ TTL > 0 /\ MaxSleep \in Nat /\ MaxWork \in Nat
  BY TimeAssumption DEF LeaseInv, TryAcquire, LeaseTypeOK
<1>1. ASSUME NEW s \in Replica PROVE Holds(s) /\ age[s] \in Nat /\ left \in -1..TTL
  BY <1>1, <1>0 DEF LeaseInv, LeaseTypeOK
<1>2. CASE Acquirable /\ holder' = r /\ left' = TTL /\ Enter(r, "work")
  <2>1. LeaseTypeOK'
    BY <1>0, <1>2, EnterFacts DEF LeaseTypeOK
  <2>2. ASSUME NEW s \in Replica PROVE Holds(s)'
    <3>1. holder # s
      BY <1>2, HolderHasTime, <2>2
    <3>2. CASE s = r
      BY <1>0, <1>2, <3>2, EnterFacts, TimeAssumption DEF Holds, MaxAge
    <3>3. CASE s # r
      BY <1>0, <1>1, <1>2, <3>1, <3>3, EnterFacts DEF Holds, MaxAge
    <3> QED
      BY <3>2, <3>3
  <2> QED
    BY <2>1, <2>2 DEF LeaseInv
<1>3. CASE ~Acquirable /\ holder = r /\ Enter(r, "work") /\ UNCHANGED <<holder, left>>
  <2>1. LeaseTypeOK'
    BY <1>0, <1>3, EnterFacts DEF LeaseTypeOK
  <2>2. ASSUME NEW s \in Replica PROVE Holds(s)'
    <3>1. CASE s = r
      <4>1. left + age[r] >= TTL /\ age[r] <= MaxSleep
        BY <1>0, <1>1, <1>3 DEF Holds, MaxAge
      <4> QED
        BY <1>0, <1>1, <1>3, <3>1, <4>1, EnterFacts DEF Holds, MaxAge
    <3>2. CASE s # r
      BY <1>0, <1>1, <1>3, <3>2, EnterFacts DEF Holds, MaxAge
    <3> QED
      BY <3>1, <3>2
  <2> QED
    BY <2>1, <2>2 DEF LeaseInv
<1>4. CASE ~Acquirable /\ holder # r /\ Enter(r, "sleep") /\ UNCHANGED <<holder, left>>
  <2>1. LeaseTypeOK'
    BY <1>0, <1>4, EnterFacts DEF LeaseTypeOK
  <2>2. ASSUME NEW s \in Replica PROVE Holds(s)'
    <3>1. CASE s = r
      BY <1>0, <1>4, <3>1, EnterFacts DEF Holds, MaxAge
    <3>2. CASE s # r
      BY <1>0, <1>1, <1>4, <3>2, EnterFacts DEF Holds, MaxAge
    <3> QED
      BY <3>1, <3>2
  <2> QED
    BY <2>1, <2>2 DEF LeaseInv
<1> QED
  BY <1>2, <1>3, <1>4 DEF TryAcquire

LEMMA RenewInv ==
    ASSUME Fits, LeaseInv, NEW r \in Replica, Renew(r)
    PROVE  LeaseInv'
<1>0. /\ LeaseTypeOK /\ mode[r] = "work" /\ Enter(r, "sleep") /\ holder' = holder
      /\ TTL \in Nat /\ MaxSleep \in Nat /\ MaxWork \in Nat
  BY TimeAssumption DEF LeaseInv, Renew
<1>1. ASSUME NEW s \in Replica PROVE Holds(s) /\ age[s] \in Nat
  BY <1>1, <1>0 DEF LeaseInv, LeaseTypeOK
<1>2. holder = r
  BY <1>0, <1>1 DEF Holds
<1>3. left' = TTL
  BY <1>2, HolderHasTime DEF Renew
<1>4. LeaseTypeOK'
  BY <1>0, <1>3, EnterFacts DEF LeaseTypeOK
<1>5. ASSUME NEW s \in Replica PROVE Holds(s)'
  <2>1. CASE s = r
    BY <1>0, <1>3, <2>1, EnterFacts DEF Holds, MaxAge
  <2>2. CASE s # r
    BY <1>0, <1>1, <1>2, <2>2, EnterFacts DEF Holds, MaxAge
  <2> QED
    BY <2>1, <2>2
<1> QED
  BY <1>4, <1>5 DEF LeaseInv

LEMMA FaultInv ==
    ASSUME Fits, LeaseInv, NEW r \in Replica, Die(r) \/ Start(r)
    PROVE  LeaseInv'
<1>0. LeaseTypeOK /\ TTL \in Nat /\ MaxSleep \in Nat /\ MaxWork \in Nat /\ left' = left
  BY TimeAssumption DEF LeaseInv, Die, Start
<1>1. ASSUME NEW s \in Replica PROVE Holds(s) /\ age[s] \in Nat
  BY <1>1, <1>0 DEF LeaseInv, LeaseTypeOK
<1>2. CASE Die(r)
  <2>1. Enter(r, "down") /\ holder' = IF holder = r THEN Gone ELSE holder
    BY <1>2 DEF Die
  <2>2. LeaseTypeOK'
    BY <1>0, <2>1, EnterFacts DEF LeaseTypeOK
  <2>3. ASSUME NEW s \in Replica PROVE Holds(s)'
    <3>1. CASE s = r
      BY <1>0, <2>1, <3>1, EnterFacts, RowAssumption DEF Holds
    <3>2. CASE s # r
      BY <1>0, <1>1, <2>1, <3>2, EnterFacts, RowAssumption DEF Holds, MaxAge
    <3> QED
      BY <3>1, <3>2
  <2> QED
    BY <2>2, <2>3 DEF LeaseInv
<1>3. CASE Start(r)
  <2>1. Enter(r, "sleep") /\ holder' = holder /\ mode[r] = "down"
    BY <1>3 DEF Start
  <2>2. LeaseTypeOK'
    BY <1>0, <2>1, EnterFacts DEF LeaseTypeOK
  <2>3. ASSUME NEW s \in Replica PROVE Holds(s)'
    <3>1. CASE s = r
      BY <1>0, <1>1, <2>1, <3>1, EnterFacts DEF Holds, MaxAge
    <3>2. CASE s # r
      BY <1>0, <1>1, <2>1, <3>2, EnterFacts DEF Holds, MaxAge
    <3> QED
      BY <3>1, <3>2
  <2> QED
    BY <2>2, <2>3 DEF LeaseInv
<1> QED
  BY <1>2, <1>3

LEMMA AdvanceInv ==
    ASSUME Fits, LeaseInv, TimePasses
    PROVE  LeaseInv'
<1>0. /\ LeaseTypeOK /\ TTL \in Nat /\ MaxSleep \in Nat /\ MaxWork \in Nat
      /\ holder' = holder /\ mode' = mode
      /\ left' = IF left < 0 THEN -1 ELSE left - 1
  BY TimeAssumption DEF LeaseInv, TimePasses
<1>1. ASSUME NEW s \in Replica
      PROVE  /\ Holds(s) /\ age[s] \in Nat
             /\ mode[s] # "down" => age[s] < MaxAge(mode[s]) /\ age'[s] = age[s] + 1
  BY <1>1, <1>0 DEF LeaseInv, LeaseTypeOK, TimePasses
<1>2. LeaseTypeOK'
  BY <1>0 DEF LeaseTypeOK, TimePasses
<1>3. ASSUME NEW s \in Replica PROVE Holds(s)'
  <2>1. mode[s] # "down" => age'[s] <= MaxAge(mode[s])
    BY <1>0, <1>1 DEF MaxAge
  <2>2. holder = s => left' = left - 1 /\ left \in Int
    BY <1>0, HolderHasTime DEF LeaseTypeOK
  <2> QED
    BY <1>0, <1>1, <2>1, <2>2 DEF Holds, MaxAge
<1> QED
  BY <1>2, <1>3 DEF LeaseInv

LEMMA LeaseStep == Fits /\ LeaseInv /\ [LeaseNext]_leaseVars => LeaseInv'
<1> SUFFICES ASSUME Fits, LeaseInv, [LeaseNext]_leaseVars PROVE LeaseInv'
  OBVIOUS
<1>1. ASSUME NEW r \in Replica, TryAcquire(r) PROVE LeaseInv'
  BY <1>1, AcquireInv
<1>2. ASSUME NEW r \in Replica, Renew(r) PROVE LeaseInv'
  BY <1>2, RenewInv
<1>3. ASSUME NEW r \in Replica, RaiseTick(r) PROVE LeaseInv'
  BY <1>3 DEF RaiseTick, Fits
<1>4. ASSUME NEW r \in Replica, Die(r) \/ Start(r) PROVE LeaseInv'
  BY <1>4, FaultInv
<1>5. CASE TimePasses
  BY <1>5, AdvanceInv
<1>6. CASE UNCHANGED leaseVars
  BY <1>6 DEF leaseVars, LeaseInv, LeaseTypeOK, Holds, MaxAge
<1> QED
  BY <1>1, <1>2, <1>3, <1>4, <1>5, <1>6 DEF LeaseNext

-----------------------------------------------------------------------------
\* _app.py:70: with ticks that fit in the TTL at most one replica is inside a
\* tick, for any number of replicas that crash and restart at any time.
THEOREM LeaseExcludes == Fits /\ LeaseSpec => [](LeaseTypeOK /\ AtMostOneWorking)
<1> SUFFICES ASSUME Fits PROVE LeaseSpec => [](LeaseTypeOK /\ AtMostOneWorking)
  OBVIOUS
<1>1. LeaseInv => LeaseTypeOK /\ AtMostOneWorking
  BY DEF LeaseInv, Holds, AtMostOneWorking, Working
<1>2. LeaseInit => LeaseInv
  BY LeaseBegins
<1>3. LeaseInv /\ [LeaseNext]_leaseVars => LeaseInv'
  BY LeaseStep
<1> QED
  BY <1>1, <1>2, <1>3, PTL DEF LeaseSpec

\* scheduler.py:5: under the same condition a replica that is up keeps its lease.
THEOREM HolderKeepsLease == Fits /\ LeaseSpec => HolderStable
<1> SUFFICES ASSUME Fits PROVE LeaseSpec => HolderStable
  OBVIOUS
<1>1. LeaseInv /\ [LeaseNext]_leaseVars
        => [\A r \in Replica : holder = r /\ mode'[r] # "down" => holder' = r]_leaseVars
  <2> SUFFICES ASSUME LeaseInv, LeaseNext,
                      NEW r \in Replica, holder = r, mode'[r] # "down"
               PROVE  holder' = r
    OBVIOUS
  <2>1. ~Acquirable
    BY HolderHasTime
  <2>2. ASSUME NEW s \in Replica, TryAcquire(s) PROVE holder' = r
    BY <2>1, <2>2 DEF TryAcquire
  <2>3. ASSUME NEW s \in Replica, Die(s) PROVE holder' = r
    <3>1. mode'[s] = "down"
      BY <2>3 DEF Die, Enter, LeaseInv, LeaseTypeOK
    <3> QED
      BY <2>3, <3>1 DEF Die
  <2>4. ASSUME NEW s \in Replica, Renew(s) \/ RaiseTick(s) \/ Start(s) PROVE holder' = r
    BY <2>4 DEF Renew, RaiseTick, Start
  <2>5. CASE TimePasses
    BY <2>5 DEF TimePasses
  <2> QED
    BY <2>2, <2>3, <2>4, <2>5 DEF LeaseNext
<1>2. LeaseInit => LeaseInv
  BY LeaseBegins
<1>3. LeaseInv /\ [LeaseNext]_leaseVars => LeaseInv'
  BY LeaseStep
<1> QED
  BY <1>1, <1>2, <1>3, PTL DEF LeaseSpec, HolderStable

-----------------------------------------------------------------------------
\* A tick starts only while nobody is inside one.
LEMMA BeginAlone ==
    ASSUME Fits, LeaseInv, NEW r \in Replica, TryAcquire(r), mode'[r] = "work"
    PROVE  Working = {} /\ Working' = {r}
<1>0. mode[r] = "sleep" /\ LeaseTypeOK
  BY DEF TryAcquire, LeaseInv
<1>1. Enter(r, "work") /\ (Acquirable \/ holder = r)
  BY <1>0, EnterFacts DEF TryAcquire
<1>2. ASSUME NEW s \in Replica PROVE mode[s] # "work"
  <2>1. mode[s] = "work" => holder = s
    BY <1>2 DEF LeaseInv, Holds
  <2> QED
    BY <1>0, <1>1, <2>1, HolderHasTime
<1>3. \A s \in Replica : mode'[s] = "work" <=> s = r
  BY <1>0, <1>1, <1>2, EnterFacts
<1> QED
  BY <1>2, <1>3 DEF Working

\* The lease implements the promise of UC-6.9: an entry into a tick is a Begin
\* of the abstract specification, its end or a crash inside it an End.
THEOREM LeaseRefines == Fits /\ LeaseSpec => ImplementsExclusive
<1> SUFFICES ASSUME Fits PROVE LeaseSpec => ImplementsExclusive
  OBVIOUS
<1>1. LeaseInit => Abstract!Init
  BY DEF LeaseInit, Abstract!Init, Working
<1>2. LeaseInv /\ [LeaseNext]_leaseVars => [Abstract!Next]_Working
  <2> SUFFICES ASSUME LeaseInv, [LeaseNext]_leaseVars PROVE [Abstract!Next]_Working
    OBVIOUS
  <2>0. LeaseTypeOK
    BY DEF LeaseInv
  <2>1. ASSUME NEW r \in Replica, TryAcquire(r) PROVE [Abstract!Next]_Working
    <3>1. CASE mode'[r] = "work"
      BY <2>1, <3>1, BeginAlone DEF Abstract!Next, Abstract!Begin
    <3>2. CASE mode'[r] # "work"
      <4>1. Enter(r, "sleep") /\ mode[r] = "sleep"
        BY <2>0, <2>1, <3>2, EnterFacts DEF TryAcquire
      <4> QED
        BY <2>0, <4>1, EnterFacts DEF Working
    <3> QED
      BY <3>1, <3>2
  <2>2. ASSUME NEW r \in Replica, mode[r] = "work",
               NEW m \in {"sleep", "down"}, Enter(r, m)
        PROVE  Abstract!Next
    <3>1. r \in Working /\ Working' = Working \ {r}
      BY <2>0, <2>2, EnterFacts DEF Working
    <3> QED
      BY <3>1 DEF Abstract!Next, Abstract!End
  <2>3. ASSUME NEW r \in Replica, mode[r] # "work",
               NEW m \in {"sleep", "down"}, Enter(r, m)
        PROVE  UNCHANGED Working
    BY <2>0, <2>3, EnterFacts DEF Working
  <2>4. ASSUME NEW r \in Replica, Renew(r) \/ RaiseTick(r) \/ Die(r) \/ Start(r)
        PROVE  [Abstract!Next]_Working
    BY <2>2, <2>3, <2>4 DEF Renew, RaiseTick, Die, Start
  <2>5. CASE TimePasses
    BY <2>5 DEF TimePasses, Working
  <2>6. CASE UNCHANGED leaseVars
    BY <2>6 DEF leaseVars, Working
  <2> QED
    BY <2>1, <2>4, <2>5, <2>6 DEF LeaseNext
<1>3. LeaseInit => LeaseInv
  BY LeaseBegins
<1>4. LeaseInv /\ [LeaseNext]_leaseVars => LeaseInv'
  BY LeaseStep
<1> QED
  BY <1>1, <1>2, <1>3, <1>4, PTL DEF LeaseSpec, ImplementsExclusive, Abstract!Spec
=============================================================================
