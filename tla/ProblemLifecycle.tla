-------------------------- MODULE ProblemLifecycle --------------------------
(***************************************************************************)
(* The life of one problem record: the HTTP handlers of router/problems.py *)
(* that people and agentflow call, and the reconciler, which all read the  *)
(* record, test it, and then change the record, the false-positive table   *)
(* and agentflow one call at a time.  Requests overlap; a request may fail *)
(* between two of its calls, and an answer of agentflow may be lost after  *)
(* it did what it was asked.                                               *)
(*                                                                         *)
(* A handler is its test of the record as read, and the list of the calls  *)
(* it makes if the test passes.  A request that is refused changes nothing *)
(* and is left out.  Evidence is the list of entries the handlers read     *)
(* again; texts, snapshots and times are left out, and so is the service   *)
(* that keeps diagnosis sessions, except that it hands them out.           *)
(***************************************************************************)
EXTENDS Naturals, Sequences, FiniteSets

CONSTANTS
    Client,     \* requests that may be under way at the same time
    Ops,        \* the operations clients use
    Faults,     \* which of "abort" and "lost" may happen
    MaxCalls,   \* bound: requests that pass their test
    None

ASSUME LifecycleAssumption ==
    /\ IsFiniteSet(Client)
    /\ Faults \subseteq {"abort", "lost"}
    /\ MaxCalls \in Nat
    /\ None \notin {"run", "manual"} \X Nat

VARIABLES
    state,      \* problem_record.state
    evidence,   \* problem_record.evidence
    fpr,        \* fpr_table.total of the record's group key
    tickets,    \* agentflow: the tickets created for the record
    runs,       \* agentflow: the number of runs started for the record
    call,       \* per client, its request: what it still does, what it got
    calls       \* the number of requests so far

vars == <<state, evidence, fpr, tickets, runs, call, calls>>

-----------------------------------------------------------------------------
Terminal == {"resolved", "closed", "escalated"}

\* A ticket is made by a run's ticket node, one for each run, or by us.
Ticket == {"run", "manual"} \X (1..MaxCalls)

Status == {"resolved", "failed"}

Entry == [type : {"run", "approval"}, id : 1..MaxCalls]
         \cup [type : {"session", "decision"}, id : {None}]
         \cup [type : {"escalation"}, id : Ticket]
         \cup [type : {"status"}, id : Ticket \X Status]

Idle == [op |-> "idle"]

Effect == {"fpr", "resolve", "close", "escalate", "ticket", "readTicket", "run", "flip",
           "bindRun", "session", "bindSession", "escalation", "decision", "report", "approval"}

Init ==
    /\ state = "pending"
    /\ evidence = <<>>
    /\ fpr = 0
    /\ tickets = {}
    /\ runs = 0
    /\ call = [c \in Client |-> Idle]
    /\ calls = 0

OfType(t) == {i \in DOMAIN evidence : evidence[i].type = t}

\* _created_ticket: the ticket of the first escalation in the evidence.
CreatedTicket ==
    LET found == OfType("escalation")
    IN  IF found = {} THEN None
        ELSE evidence[CHOOSE i \in found : \A j \in found : i <= j].id

\* _latest_agent_run: the last run bound to the record.
LatestRun ==
    LET found == OfType("run")
    IN  IF found = {} THEN None
        ELSE evidence[CHOOSE i \in found : \A j \in found : i >= j].id

\* The head of every handler: records.get, the tests in guard, and then todo.
Begin(c, op, guard, todo, got) ==
    /\ op \in Ops
    /\ call[c] = Idle
    /\ calls < MaxCalls
    /\ guard
    /\ calls' = calls + 1
    /\ call' = [call EXCEPT ![c] = [op |-> op, todo |-> todo, got |-> got]]
    /\ UNCHANGED <<state, evidence, fpr, tickets, runs>>

-----------------------------------------------------------------------------
(***************************************************************************)
(* The handlers.                                                           *)
(***************************************************************************)
\* No test of the state.
ResolveProblem(c) == Begin(c, "resolve", TRUE, <<"fpr", "resolve">>, None)

IgnoreProblem(c) == Begin(c, "ignore", TRUE, <<"close">>, None)

\* Faulty: the state is set before the evidence is written.
EscalateProblemStateFirst(c) ==
    Begin(c, "escalate", CreatedTicket = None /\ state \notin Terminal,
          <<"ticket", "escalate", "escalation">>, None)

EscalateProblem(c) ==
    Begin(c, "escalate", CreatedTicket = None /\ state \notin Terminal,
          <<"ticket", "escalation", "escalate">>, None)

\* records.find_by_ticket: the evidence names the ticket.
HoldsTicket(t) ==
    \E i \in DOMAIN evidence :
        \/ evidence[i].type = "escalation" /\ evidence[i].id = t
        \/ evidence[i].type = "status" /\ evidence[i].id[1] = t

AlreadyReported(t, s) ==
    \E i \in DOMAIN evidence : evidence[i].type = "status" /\ evidence[i].id = <<t, s>>

\* Faulty: a report that was seen before is recorded again.
ReportTicketStatusAgain(c, t, s) ==
    Begin(c, "report", HoldsTicket(t),
          IF s = "resolved" /\ state = "escalated" THEN <<"report", "resolve">> ELSE <<"report">>,
          <<t, s>>)

\* report_ticket_status: agentflow reports on a ticket, once or many times.
ReportTicketStatus(c, t, s) ==
    Begin(c, "report", HoldsTicket(t) /\ ~AlreadyReported(t, s),
          IF s = "resolved" /\ state = "escalated" THEN <<"report", "resolve">> ELSE <<"report">>,
          <<t, s>>)

AnalyzeProblem(c, rerun) ==
    Begin(c, "analyze", state \notin Terminal /\ (state = "pending" \/ rerun),
          IF state = "pending" THEN <<"run", "flip">> ELSE <<"run", "bindRun">>, None)

DiagnoseProblem(c) ==
    Begin(c, "diagnose", state \notin Terminal /\ OfType("session") = {},
          <<"session", "bindSession">>, None)

\* _decide_agentflow: the record has a run.
DecideAgentflow(d) ==
    CASE d = "escalate" /\ CreatedTicket # None -> <<"escalation", "escalate">>
      [] d = "escalate" /\ CreatedTicket = None -> <<"readTicket", "escalation", "escalate">>
      [] d = "reject"         -> <<"run", "bindRun", "decision">>
      [] d = "false_positive" -> <<"fpr", "resolve", "decision">>
      [] d = "ignore"         -> <<"close", "decision">>

\* decide_problem_diagnosis: the record has only a diagnosis session.
DecideSession(d) ==
    CASE d = "escalate" /\ CreatedTicket # None -> <<"escalation", "escalate">>
      [] d = "escalate" /\ CreatedTicket = None -> <<"ticket", "escalation", "escalate">>
      [] d = "reject"         -> <<"decision">>
      [] d = "false_positive" -> <<"fpr", "resolve", "decision">>
      [] d = "ignore"         -> <<"close", "decision">>

\* What the handler has in hand from the start: the ticket that exists, or
\* the run whose ticket is to be read.
DecideGot(d) ==
    IF d # "escalate" THEN None
    ELSE IF CreatedTicket # None THEN CreatedTicket
    ELSE IF LatestRun # None THEN <<"run", LatestRun>> ELSE None

DecideDiagnosis(c, d) ==
    Begin(c, "decide",
          state \notin Terminal /\ (LatestRun # None \/ OfType("session") # {}),
          IF LatestRun # None THEN DecideAgentflow(d) ELSE DecideSession(d), DecideGot(d))

\* record_run_decision: the outcome of an approval in agentflow, told once or
\* many times; it does not change the state.
RecordRunDecision(c, r) ==
    Begin(c, "approval", \A i \in OfType("approval") : evidence[i].id # r, <<"approval">>, r)

\* Reconciler.reconcile_once lists an open record whose anomalies are gone.
AutoResolve(c) == Begin(c, "auto", state \notin Terminal, <<"resolve">>, None)

-----------------------------------------------------------------------------
(***************************************************************************)
(* The calls.                                                              *)
(***************************************************************************)
Doing(c, effects) == call[c] # Idle /\ Head(call[c].todo) \in effects

\* The request goes on with what it got, or is over.
Continue(c, got) ==
    call' = [call EXCEPT ![c] =
        IF Len(call[c].todo) = 1 THEN Idle
        ELSE [op |-> call[c].op, todo |-> Tail(call[c].todo), got |-> got]]

Fail(c) == call' = [call EXCEPT ![c] = Idle]

\* DynamicConfigStore.write_fpr: one upsert.
WriteFpr(c) ==
    /\ Doing(c, {"fpr"})
    /\ fpr' = fpr + 1
    /\ Continue(c, call[c].got)
    /\ UNCHANGED <<state, evidence, tickets, runs, calls>>

StateOf(effect) ==
    CASE effect = "resolve" -> "resolved" [] effect = "close" -> "closed" [] effect = "escalate" -> "escalated"

\* resolve, close, mark_escalated: an UPDATE that tests only state <> target.
SetTerminalState(c) ==
    /\ Doing(c, {"resolve", "close", "escalate"})
    /\ state' = StateOf(Head(call[c].todo))
    /\ Continue(c, call[c].got)
    /\ UNCHANGED <<evidence, fpr, tickets, runs, calls>>

\* What an outbound call of agentflow comes to: done and answered, done and
\* the answer lost, or not done (Abort).
Answered(c, got) == Continue(c, got) \/ ("lost" \in Faults /\ Fail(c))

\* _agentflow_create_ticket: a new ticket with a number we draw.
CreateTicket(c) ==
    /\ Doing(c, {"ticket"})
    /\ LET t == <<"manual", Cardinality({u \in tickets : u[1] = "manual"}) + 1>>
       IN  /\ tickets' = tickets \cup {t}
           /\ Answered(c, t)
    /\ UNCHANGED <<state, evidence, fpr, runs, calls>>

\* _read_escalation_ticket: the gate is passed and the run's ticket node has
\* made its ticket, which it makes once.
ReadTicket(c) ==
    /\ Doing(c, {"readTicket"})
    /\ tickets' = tickets \cup {call[c].got}
    /\ Answered(c, call[c].got)
    /\ UNCHANGED <<state, evidence, fpr, runs, calls>>

\* POST /run of analyze_problem and of a rejection.
StartRun(c) ==
    /\ Doing(c, {"run"})
    /\ runs' = runs + 1
    /\ Answered(c, runs + 1)
    /\ UNCHANGED <<state, evidence, fpr, tickets, calls>>

\* POST /diagnose/logs.
StartSession(c) ==
    /\ Doing(c, {"session"})
    /\ Answered(c, None)
    /\ UNCHANGED <<state, evidence, fpr, tickets, runs, calls>>

\* Faulty: the UPDATE does not test that the record is still pending.
MarkInProgressAlways(c) ==
    /\ Doing(c, {"flip"})
    /\ state' = "in_progress"
    /\ evidence' = Append(evidence, [type |-> "run", id |-> call[c].got])
    /\ Continue(c, None)
    /\ UNCHANGED <<fpr, tickets, runs, calls>>

\* mark_in_progress: one UPDATE sets the state and binds the run, if the
\* record is still pending; if not, the request fails and the run is left.
MarkInProgress(c) ==
    /\ Doing(c, {"flip"})
    /\ \/ /\ state = "pending"
          /\ state' = "in_progress"
          /\ evidence' = Append(evidence, [type |-> "run", id |-> call[c].got])
          /\ Continue(c, None)
       \/ /\ state # "pending"
          /\ Fail(c)
          /\ UNCHANGED <<state, evidence>>
    /\ UNCHANGED <<fpr, tickets, runs, calls>>

NewEntry(effect, got) ==
    CASE effect = "bindRun"     -> [type |-> "run", id |-> got]
      [] effect = "bindSession" -> [type |-> "session", id |-> None]
      [] effect = "escalation"  -> [type |-> "escalation", id |-> got]
      [] effect = "decision"    -> [type |-> "decision", id |-> None]
      [] effect = "report"      -> [type |-> "status", id |-> got]
      [] effect = "approval"    -> [type |-> "approval", id |-> got]

\* append_evidence: unconditional.
AppendEvidence(c) ==
    /\ Doing(c, {"bindRun", "bindSession", "escalation", "decision", "report", "approval"})
    /\ evidence' = Append(evidence, NewEntry(Head(call[c].todo), call[c].got))
    /\ Continue(c, call[c].got)
    /\ UNCHANGED <<state, fpr, tickets, runs, calls>>

\* The process dies, the store fails, or agentflow refuses.
Abort(c) ==
    /\ "abort" \in Faults
    /\ call[c] # Idle
    /\ Fail(c)
    /\ UNCHANGED <<state, evidence, fpr, tickets, runs, calls>>

Decisions == {"escalate", "reject", "false_positive", "ignore"}

Next ==
    \/ \E c \in Client : ResolveProblem(c)
    \/ \E c \in Client : IgnoreProblem(c)
    \/ \E c \in Client : EscalateProblem(c)
    \/ \E c \in Client, t \in tickets, s \in Status : ReportTicketStatus(c, t, s)
    \/ \E c \in Client, rerun \in BOOLEAN : AnalyzeProblem(c, rerun)
    \/ \E c \in Client : DiagnoseProblem(c)
    \/ \E c \in Client, d \in Decisions : DecideDiagnosis(c, d)
    \/ \E c \in Client, r \in 1..runs : RecordRunDecision(c, r)
    \/ \E c \in Client : AutoResolve(c)
    \/ \E c \in Client : WriteFpr(c)
    \/ \E c \in Client : SetTerminalState(c)
    \/ \E c \in Client : CreateTicket(c)
    \/ \E c \in Client : ReadTicket(c)
    \/ \E c \in Client : StartRun(c)
    \/ \E c \in Client : StartSession(c)
    \/ \E c \in Client : MarkInProgress(c)
    \/ \E c \in Client : AppendEvidence(c)
    \/ \E c \in Client : Abort(c)

Spec == Init /\ [][Next]_vars

-----------------------------------------------------------------------------
(***************************************************************************)
(* Properties.                                                             *)
(***************************************************************************)
TypeOK ==
    /\ state \in {"pending", "in_progress"} \cup Terminal
    /\ evidence \in Seq(Entry)
    /\ fpr \in 0..MaxCalls
    /\ tickets \subseteq Ticket
    /\ runs \in 0..MaxCalls
    /\ \A c \in Client : call[c] # Idle => call[c].todo \in Seq(Effect) \ {<<>>}
    /\ calls \in 0..MaxCalls

\* problems.py:306-307 and _apply_escalated_state: an escalated problem always
\* names the ticket it became, whatever failed or overlapped on the way.
EscalatedHoldsTicket == state = "escalated" => CreatedTicket # None

\* A closed problem is not reopened, neither by an analysis that started
\* before it was closed nor by one whose run answers late.
TerminalNeverReopens == [][(state \in Terminal) => state' \in Terminal]_vars

\* What agentflow tells, once or many times: a status of a ticket, the outcome of an approval.
Told == {e \in {evidence[i] : i \in DOMAIN evidence} : e.type \in {"status", "approval"}}

Copies(e) == {i \in DOMAIN evidence : evidence[i] = e}

\* problems.py:324-326, "idempotence must be done here", as far as reading before writing can
\* do it: what is told any number of times is recorded at most once for each of the requests
\* that may be under way together, because none begins after the first one wrote.
ToldIsBounded == \A e \in Told : Cardinality(Copies(e)) <= Cardinality(Client)

-----------------------------------------------------------------------------
(***************************************************************************)
(* Claims that TLC refutes; see README.md.                                 *)
(***************************************************************************)
\* problems.py:371-372, "the verdict of a person has priority ... a late report
\* would overwrite the judgement just made".
HumanVerdictStands ==
    [][\A c \in Client :
        call[c] # Idle /\ call'[c] # call[c] /\ call[c].op = "report" /\ state' # state
            => state = "escalated"]_vars

\* problems.py:324-326 and 717 as they stand: what is told again is recorded once.
RecordedOnce == \A e \in Told : Cardinality(Copies(e)) = 1

\* problems.py:279-284, the idempotence guard: no ticket is created for a problem
\* that has one on record.
NoSecondTicket == [][CreatedTicket # None => tickets' = tickets]_vars
=============================================================================
