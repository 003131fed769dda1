---------------------------- MODULE CollectRounds ----------------------------
(***************************************************************************)
(* Rounds of one monitor target that keeps logs in Elasticsearch: the      *)
(* scheduler's group with its orphan recovery (scheduler.py), run_round    *)
(* (poller.py), the incremental collection behind a watermark              *)
(* (collectors/http_logs.py, storage/watermarks.py), and the rows that say *)
(* how far a round got (storage/rounds.py).                                *)
(*                                                                         *)
(* Every store call and the request to the source is a step.  A manual run *)
(* (router/monitors.py) takes no lease, looks for no orphan and overlaps   *)
(* the scheduler's round.  A process may die between any two steps; its    *)
(* rows stay.  The source answers exactly: an event is visible from the    *)
(* moment it carries.  Time is counted in units of the resolution of       *)
(* last_ts and of format_time_param, so several events may share a unit.   *)
(* DetectionFunnel models what run_domain does with the page.              *)
(***************************************************************************)
EXTENDS Naturals, FiniteSets, FiniteSetsExt

CONSTANTS
    Scheduler,  \* replicas that run the scheduler's group of this target
    Manual,     \* requests for a manual run
    Event,      \* log events
    PageSize,   \* source_config.size
    Interval,   \* schedule.interval_sec and its jitter
    Tolerance,  \* how far ahead a watermark may be (watermark_is_future)
    Faults,     \* which faults may happen, of FaultKinds
    MaxTime,    \* bound on the clock
    MaxRounds,  \* bound on the number of rounds
    None

FaultKinds == {"crash", "store", "source", "snapshot", "funnel", "recover"}

ASSUME RoundsAssumption ==
    /\ PageSize \in Nat \ {0} /\ IsFiniteSet(Event)
    /\ Interval \in Nat /\ Tolerance \in Nat
    /\ MaxTime \in Nat /\ MaxRounds \in Nat
    /\ Faults \subseteq FaultKinds
    /\ None \notin Nat
    /\ Scheduler \cap Manual = {}

VARIABLES
    now,       \* the clock
    ts,        \* per event, its timestamp, or None when it has not happened
    wm,        \* collect_watermark.last_ts, or None
    target,    \* detection_round_target, by round number
    round,     \* detection_round.status, by round number
    work,      \* per worker, the locals of _run_group and run_round
    nextRun,   \* per scheduler, _next_run of the target
    examined,  \* history: in how many rounds run_domain saw an event, up to 2
    history    \* lost: events of rounds that died or failed, and events a recovery
               \* jumped over; unrecovered: the recoveries that failed

vars == <<now, ts, wm, target, round, work, nextRun, examined, history>>

-----------------------------------------------------------------------------
Worker == Scheduler \cup Manual

Time == 0..MaxTime

Rounds == 1..MaxRounds

NoRow == [status |-> "none"]

Row == [status : {"running", "ok", "failed", "interrupted"},
        started : Time, finished : Time \cup {None}]

RoundStatus == {"none", "running", "success", "partial", "failed", "interrupted"}

Idle == [pc |-> "idle"]

\* at: the time of the trigger; id: the round; ref: the orphan, then the time
\* to rewind to, then the start of the window; ended: collect_ended.
Busy == [pc : {"orphan", "interrupt", "readRound", "interruptRound", "findOk", "rewind",
               "create", "createTarget", "watermark", "request", "advance", "snapshot",
               "gathered", "status", "funnel", "final", "failed"},
         at : Time, id : 0..MaxRounds, ref : Nat \cup {None},
         page : SUBSET Event, ok : BOOLEAN, ended : Time]

Begin(pc) == [pc |-> pc, at |-> now, id |-> 0, ref |-> None, page |-> {}, ok |-> TRUE, ended |-> now]

Init ==
    /\ now = 0
    /\ ts = [e \in Event |-> None]
    /\ wm = None
    /\ target = [i \in Rounds |-> NoRow]
    /\ round = [i \in Rounds |-> "none"]
    /\ work = [w \in Worker |-> Idle]
    /\ nextRun = [s \in Scheduler |-> None]
    /\ examined = [e \in Event |-> 0]
    /\ history = [lost |-> {}, unrecovered |-> 0]

At(w, pc) == work[w].pc = pc

GoTo(w, pc) == work' = [work EXCEPT ![w].pc = pc]

Lose(events) == history' = [history EXCEPT !.lost = @ \cup events]

\* The last statement of _run_group, or the end of the manual run.
Leave(w) ==
    /\ work' = [work EXCEPT ![w] = Idle]
    /\ nextRun' = [s \in Scheduler |-> IF s = w THEN work[w].at + Interval ELSE nextRun[s]]

-----------------------------------------------------------------------------
(***************************************************************************)
(* Environment.                                                            *)
(***************************************************************************)
Advance ==
    /\ now < MaxTime
    /\ now' = now + 1
    /\ UNCHANGED <<ts, wm, target, round, work, nextRun, examined, history>>

Occur(e) ==
    /\ ts[e] = None
    /\ ts' = [ts EXCEPT ![e] = now]
    /\ UNCHANGED <<now, wm, target, round, work, nextRun, examined, history>>

\* The process of w dies; its successor knows nothing of _next_run.
Crash(w) ==
    /\ "crash" \in Faults
    /\ work[w] # Idle
    /\ Lose(work[w].page)
    /\ work' = [work EXCEPT ![w] = Idle]
    /\ nextRun' = [s \in Scheduler |-> IF s = w THEN None ELSE nextRun[s]]
    /\ UNCHANGED <<now, ts, wm, target, round, examined>>

-----------------------------------------------------------------------------
(***************************************************************************)
(* The scheduler's group.                                                  *)
(***************************************************************************)
\* _due_targets: a target seen for the first time waits an interval.
Tick(s) ==
    /\ work[s] = Idle
    /\ LET next == IF nextRun[s] = None THEN now + Interval ELSE nextRun[s]
       IN  /\ nextRun' = [nextRun EXCEPT ![s] = next]
           /\ work' = IF next <= now THEN [work EXCEPT ![s] = Begin("orphan")] ELSE work
    /\ UNCHANGED <<now, ts, wm, target, round, examined, history>>

\* latest_target: ORDER BY started_at DESC LIMIT 1.
Latest(status) ==
    {i \in Rounds : /\ target[i].status = status
                    /\ \A j \in Rounds : target[j].status = status => target[j].started <= target[i].started}

\* _recover_orphan, one store call at a time.
FindOrphan(s) ==
    /\ At(s, "orphan")
    /\ \/ /\ Latest("running") = {}
          /\ GoTo(s, "create")
       \/ \E i \in Latest("running") :
            work' = [work EXCEPT ![s].pc = "interrupt", ![s].ref = i]
    /\ UNCHANGED <<now, ts, wm, target, round, nextRun, examined, history>>

\* Faulty: only the row of the round is marked.
InterruptTargetNot(s) ==
    /\ At(s, "interrupt")
    /\ GoTo(s, "readRound")
    /\ UNCHANGED <<now, ts, wm, target, round, nextRun, examined, history>>

InterruptTarget(s) ==
    /\ At(s, "interrupt")
    /\ target' = [target EXCEPT ![work[s].ref].status = "interrupted",
                                ![work[s].ref].finished = work[s].at]
    /\ GoTo(s, "readRound")
    /\ UNCHANGED <<now, ts, wm, round, nextRun, examined, history>>

ReadRound(s) ==
    /\ At(s, "readRound")
    /\ GoTo(s, IF round[work[s].ref] = "running" THEN "interruptRound" ELSE "findOk")
    /\ UNCHANGED <<now, ts, wm, target, round, nextRun, examined, history>>

InterruptRound(s) ==
    /\ At(s, "interruptRound")
    /\ round' = [round EXCEPT ![work[s].ref] = "interrupted"]
    /\ GoTo(s, "findOk")
    /\ UNCHANGED <<now, ts, wm, target, nextRun, examined, history>>

FindOk(s) ==
    /\ At(s, "findOk")
    /\ \/ /\ Latest("ok") = {}
          /\ GoTo(s, "create")
       \/ \E i \in Latest("ok") :
            work' = [work EXCEPT ![s].pc = "rewind", ![s].ref = target[i].finished]
    /\ UNCHANGED <<now, ts, wm, target, round, nextRun, examined, history>>

Rewind(s) ==
    /\ At(s, "rewind")
    /\ wm' = work[s].ref
    /\ Lose({e \in Event : ts[e] # None /\ (wm = None \/ wm <= ts[e]) /\ ts[e] < work[s].ref})
    /\ GoTo(s, "create")
    /\ UNCHANGED <<now, ts, target, round, nextRun, examined>>

\* A store call of the recovery fails: the round is run all the same.
RecoverFails(s) ==
    /\ "recover" \in Faults
    /\ work[s].pc \in {"orphan", "interrupt", "readRound", "interruptRound", "findOk", "rewind"}
    /\ history' = [history EXCEPT !.unrecovered = @ + 1]
    /\ GoTo(s, "create")
    /\ UNCHANGED <<now, ts, wm, target, round, nextRun, examined>>

-----------------------------------------------------------------------------
(***************************************************************************)
(* run_round.                                                              *)
(***************************************************************************)
RunMonitor(m) ==
    /\ work[m] = Idle
    /\ work' = [work EXCEPT ![m] = Begin("create")]
    /\ UNCHANGED <<now, ts, wm, target, round, nextRun, examined, history>>

CreateRound(w) ==
    /\ At(w, "create")
    /\ \E i \in Rounds :
         /\ round[i] = "none"
         /\ \A j \in Rounds : round[j] = "none" => i <= j
         /\ round' = [round EXCEPT ![i] = "running"]
         /\ work' = [work EXCEPT ![w].pc = "createTarget", ![w].id = i]
    /\ UNCHANGED <<now, ts, wm, target, nextRun, examined, history>>

CreateTarget(w) ==
    /\ At(w, "createTarget")
    /\ target' = [target EXCEPT ![work[w].id] =
            [status |-> "running", started |-> work[w].at, finished |-> None]]
    /\ GoTo(w, "watermark")
    /\ UNCHANGED <<now, ts, wm, round, nextRun, examined, history>>

\* A watermark further ahead than the clocks may differ.
WatermarkIsFuture(at) == wm > at + Tolerance

\* collect: no watermark, or one in the future, means no window.
ReadWatermark(w) ==
    /\ At(w, "watermark")
    /\ work' = [work EXCEPT ![w].pc = "request",
            ![w].ref = IF wm = None \/ WatermarkIsFuture(work[w].at) THEN None ELSE wm]
    /\ UNCHANGED <<now, ts, wm, target, round, nextRun, examined, history>>

\* Faulty: the range filter excludes its lower end.
WindowAfter(start, at) ==
    {e \in Event : ts[e] # None /\ (start = None \/ (start < ts[e] /\ ts[e] <= at))}

\* The range filter of _build_body: both ends included.
Window(start, at) ==
    {e \in Event : ts[e] # None /\ (start = None \/ (start <= ts[e] /\ ts[e] <= at))}

\* Faulty: the page is one hit short.
PagesShort(hits) ==
    {p \in SUBSET hits :
        /\ Cardinality(p) = IF Cardinality(hits) < PageSize THEN Cardinality(hits) ELSE PageSize - 1
        /\ \A e \in p, f \in hits \ p : ts[e] <= ts[f]}

\* What the source answers: the first PageSize hits in the order of time.
Pages(hits) ==
    {p \in SUBSET hits :
        /\ Cardinality(p) = IF Cardinality(hits) < PageSize THEN Cardinality(hits) ELSE PageSize
        /\ \A e \in p, f \in hits \ p : ts[e] <= ts[f]}

\* collect: the request.  A page with nothing in it moves no watermark.
Request(w) ==
    /\ At(w, "request")
    /\ \E p \in Pages(Window(work[w].ref, work[w].at)) :
         work' = [work EXCEPT ![w].pc = IF p = {} THEN "snapshot" ELSE "advance", ![w].page = p]
    /\ UNCHANGED <<now, ts, wm, target, round, nextRun, examined, history>>

\* What is left of a collection that raised: _one returns no signals.
Degraded(w) == [work[w] EXCEPT !.pc = "gathered", !.page = {}, !.ok = FALSE]

\* The source answers with an error, or a call of the watermark's store raises.
SourceFails(w) ==
    /\ "source" \in Faults
    /\ work[w].pc \in {"watermark", "request", "advance"}
    /\ work' = [work EXCEPT ![w] = Degraded(w)]
    /\ UNCHANGED <<now, ts, wm, target, round, nextRun, examined, history>>

\* Faulty: the watermark is set to the end of the window.
AdvanceToWindowEnd(w) ==
    /\ At(w, "advance")
    /\ wm' = work[w].at
    /\ GoTo(w, "snapshot")
    /\ UNCHANGED <<now, ts, target, round, nextRun, examined, history>>

\* collect: the watermark goes to the latest event of the page.
AdvanceWatermark(w) ==
    /\ At(w, "advance")
    /\ wm' = Max({ts[e] : e \in work[w].page})
    /\ GoTo(w, "snapshot")
    /\ UNCHANGED <<now, ts, target, round, nextRun, examined, history>>

\* collect: the snapshot is written after the watermark, of an empty page too.
WriteSnapshot(w) ==
    /\ At(w, "snapshot")
    /\ GoTo(w, "gathered")
    /\ UNCHANGED <<now, ts, wm, target, round, nextRun, examined, history>>

SnapshotFails(w) ==
    /\ "snapshot" \in Faults
    /\ At(w, "snapshot")
    /\ Lose(work[w].page)
    /\ work' = [work EXCEPT ![w] = Degraded(w)]
    /\ UNCHANGED <<now, ts, wm, target, round, nextRun, examined>>

\* run_round: the clock is read when every target of the round was gathered.
EndCollect(w) ==
    /\ At(w, "gathered")
    /\ work' = [work EXCEPT ![w].pc = "status", ![w].ended = now]
    /\ UNCHANGED <<now, ts, wm, target, round, nextRun, examined, history>>

\* run_round: how the collection of the target ended.
TargetStatus(w) ==
    /\ At(w, "status")
    /\ target' = [target EXCEPT ![work[w].id].status = IF work[w].ok THEN "ok" ELSE "failed",
                                ![work[w].id].finished = work[w].ended]
    /\ GoTo(w, "funnel")
    /\ UNCHANGED <<now, ts, wm, round, nextRun, examined, history>>

\* build_context and run_domain, on what was collected.
RunDomain(w) ==
    /\ At(w, "funnel")
    /\ examined' = [e \in Event |->
            IF e \in work[w].page /\ examined[e] < 2 THEN examined[e] + 1 ELSE examined[e]]
    /\ work' = [work EXCEPT ![w].pc = "final", ![w].page = {}]
    /\ UNCHANGED <<now, ts, wm, target, round, nextRun, history>>

RunDomainFails(w) ==
    /\ "funnel" \in Faults
    /\ At(w, "funnel")
    /\ Lose(work[w].page)
    /\ work' = [work EXCEPT ![w].pc = "failed", ![w].page = {}]
    /\ UNCHANGED <<now, ts, wm, target, round, nextRun, examined>>

\* Faulty: a degraded round counts as a success.
FinalStatusSuccess(w) ==
    /\ work[w].pc \in {"final", "failed"}
    /\ round' = [round EXCEPT ![work[w].id] = IF At(w, "failed") THEN "failed" ELSE "success"]
    /\ Leave(w)
    /\ UNCHANGED <<now, ts, wm, target, examined, history>>

\* run_round: the status of the round.
FinalStatus(w) ==
    /\ work[w].pc \in {"final", "failed"}
    /\ round' = [round EXCEPT ![work[w].id] =
            IF At(w, "failed") THEN "failed" ELSE IF work[w].ok THEN "success" ELSE "partial"]
    /\ Leave(w)
    /\ UNCHANGED <<now, ts, wm, target, examined, history>>

\* A store call of run_round itself raises: nothing more is written.
StoreFails(w) ==
    /\ "store" \in Faults
    /\ work[w].pc \in {"create", "createTarget", "status", "final", "failed"}
    /\ Lose(work[w].page)
    /\ Leave(w)
    /\ UNCHANGED <<now, ts, wm, target, round, examined>>

Next ==
    \/ Advance
    \/ \E e \in Event : Occur(e)
    \/ \E w \in Worker : Crash(w)
    \/ \E s \in Scheduler : Tick(s)
    \/ \E s \in Scheduler : FindOrphan(s)
    \/ \E s \in Scheduler : InterruptTarget(s)
    \/ \E s \in Scheduler : ReadRound(s)
    \/ \E s \in Scheduler : InterruptRound(s)
    \/ \E s \in Scheduler : FindOk(s)
    \/ \E s \in Scheduler : Rewind(s)
    \/ \E s \in Scheduler : RecoverFails(s)
    \/ \E m \in Manual : RunMonitor(m)
    \/ \E w \in Worker : CreateRound(w)
    \/ \E w \in Worker : CreateTarget(w)
    \/ \E w \in Worker : ReadWatermark(w)
    \/ \E w \in Worker : Request(w)
    \/ \E w \in Worker : SourceFails(w)
    \/ \E w \in Worker : AdvanceWatermark(w)
    \/ \E w \in Worker : WriteSnapshot(w)
    \/ \E w \in Worker : SnapshotFails(w)
    \/ \E w \in Worker : EndCollect(w)
    \/ \E w \in Worker : TargetStatus(w)
    \/ \E w \in Worker : RunDomain(w)
    \/ \E w \in Worker : RunDomainFails(w)
    \/ \E w \in Worker : FinalStatus(w)
    \/ \E w \in Worker : StoreFails(w)

Spec == Init /\ [][Next]_vars

-----------------------------------------------------------------------------
(***************************************************************************)
(* Properties.                                                             *)
(***************************************************************************)
TypeOK ==
    /\ now \in Time
    /\ ts \in [Event -> Time \cup {None}]
    /\ wm \in Time \cup {None}
    /\ target \in [Rounds -> Row \cup {NoRow}]
    /\ round \in [Rounds -> RoundStatus]
    /\ work \in [Worker -> {Idle} \cup Busy]
    /\ nextRun \in [Scheduler -> Nat \cup {None}]
    /\ examined \in [Event -> 0..2]
    /\ history \in [lost : SUBSET Event, unrecovered : 0..MaxTime]

\* The rounds whose process is still at work on them.
Live == {i \in Rounds : \E w \in Worker : work[w] # Idle /\ work[w].id = i}

InHand(e) == \E w \in Worker : work[w] # Idle /\ e \in work[w].page

\* scheduler.py:12 and :115, "no data is lost": an event that a round no longer
\* asks for was seen by the funnel, is in the hands of a round at work, or belongs
\* to the losses of a round that died or failed with its page, or of a recovery.
NoEventSkipped ==
    \A w \in Worker : At(w, "request") =>
        \A e \in Event : ts[e] # None /\ ts[e] <= work[w].at =>
            \/ e \in Window(work[w].ref, work[w].at)
            \/ examined[e] > 0 \/ InHand(e)
            \/ e \in history.lost

\* http_logs.py:73, a page that is cut at size: while older events wait, every page
\* takes the watermark further, unless one instant fills a page by itself.
PageMovesOn ==
    [][\A w \in Worker :
        At(w, "advance") /\ work'[w].pc = "snapshot" /\ work[w].ref # None =>
            \/ wm' > work[w].ref
            \/ \A e \in Event : ts[e] # None => ts[e] <= work[w].ref \/ ts[e] >= work[w].at
            \/ Cardinality({e \in Event : ts[e] = work[w].ref}) >= PageSize]_vars

\* The recovery before every round keeps the target free of leftovers: whenever
\* processes die, one row of the target is running at most, and one more for every
\* recovery that failed.
AtMostOneRunning ==
    Cardinality({i \in Rounds : target[i].status = "running"}) <= 1 + history.unrecovered

\* The two tables tell one story: a round ends as a success only if its target
\* was collected, and one left behind by a dead process is not half closed the
\* wrong way round.
StatusesAgree ==
    \A i \in Rounds :
        /\ round[i] = "success" => target[i].status = "ok"
        /\ round[i] = "partial" => target[i].status = "failed"
        /\ target[i].status = "running" => round[i] = "running"
        /\ round[i] = "interrupted" => target[i].status = "interrupted"

-----------------------------------------------------------------------------
(***************************************************************************)
(* Claims of the documentation that the code does not keep; README.md says *)
(* for which constants TLC refutes them.                                   *)
(***************************************************************************)
\* scheduler.py:112 and :114, "the watermark is rolled back": the recovery never
\* moves the watermark forward, past events nobody has collected.
RecoveryRollsBack ==
    [][\A s \in Scheduler : At(s, "rewind") /\ work'[s].pc = "create" /\ wm # None
            => wm' <= wm]_vars

\* watermarks.py:27 and UC-3.5: the watermark goes back when a recovery rolls it
\* back, and never by a collection.  It does by overlapping ones.
WatermarkNeverBack ==
    [][wm # None /\ wm' < wm => \E s \in Scheduler : At(s, "rewind")]_vars

\* UC-3.5, "the second round has no signals": no event goes through the funnel
\* in two rounds.
ExaminedOnce == \A e \in Event : examined[e] < 2

\* scheduler.py:11, "still running (left behind by a crash)": a round whose
\* process is at work is not marked as interrupted.
LiveNotInterrupted == \A i \in Live : target[i].status # "interrupted"

\* scheduler.py:116, "the round level orphan is cleared too": after the recovery
\* no round is left running that nobody works on.
RoundOrphansCleared ==
    \A s \in Scheduler : At(s, "create") =>
        \A i \in Rounds : round[i] = "running" => i \in Live
=============================================================================
