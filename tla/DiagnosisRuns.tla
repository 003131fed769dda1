---------------------------- MODULE DiagnosisRuns ----------------------------
(***************************************************************************)
(* A problem record and its agentflow runs: the page of a diagnosis        *)
(* (get_problem_diagnosis of router/problems.py, diagnosis/), the decisions*)
(* on it (_decide_agentflow), analyses started again, and escalations that *)
(* pass the diagnosis by (escalate_problem).                               *)
(*                                                                         *)
(* agentflow is another program: it works on a run until the run waits for *)
(* approval, takes the first answer, makes a ticket when it was approved,  *)
(* and lets a run that nobody answers expire.  A run can be waiting for    *)
(* its worker after the gate was answered, with the status it had.  It     *)
(* makes the tickets that are asked for directly too.                      *)
(*                                                                         *)
(* A call of the store or of agentflow is a step.  ProblemLifecycle has    *)
(* the handlers that do not look at the runs.  Runs are numbers, in the    *)
(* order they were started; "running" is queued and paused as well.        *)
(***************************************************************************)
EXTENDS Integers, Sequences, FiniteSets

CONSTANTS
    Client,        \* requests under way at the same time
    Advice,        \* what people ask for when they reject a plan
    NodeApproval,  \* the id of the approval node that the code knows ...
    GateNames,     \* ... and the ids that it has in the workflows
    MaxRuns,       \* bound: runs of the record
    MaxRequests,   \* bound: requests in a behaviour
    Workloads,     \* bound: the sets of kinds of requests of one behaviour
    None

ASSUME RunsAssumption ==
    /\ NodeApproval \in GateNames
    /\ MaxRuns \in Nat \ {0} /\ MaxRequests \in Nat
    /\ IsFiniteSet(Client)
    /\ None \notin Advice /\ None \notin {"run", "direct"} \X Nat

VARIABLES
    state,     \* of the record
    evidence,  \* of the record
    run,       \* the runs, in agentflow
    tickets,   \* the tickets, in agentflow
    req,       \* per client, the locals of its request
    requests,  \* requests so far
    kinds      \* the kinds of requests of this behaviour

vars == <<state, evidence, run, tickets, req, requests, kinds>>

Terminal == {"resolved", "closed", "escalated"}

Over == {"success", "failed", "cancelled"}

\* The run is on its way to the gate; review_feedback is the advice.
NewRun(node, advice) ==
    [status |-> "running", gate |-> "ahead", node |-> node, plan |-> FALSE, ticket |-> "none", advice |-> advice]

Binding(r) ==
    [type |-> "agent_run", run |-> r, decision |-> None, advice |-> None, ticket |-> None, answer |-> "none"]

\* read and waited are history: the run was read; it has been waiting since the request began.
Idle ==
    [pc |-> "idle", op |-> None, run |-> None, advice |-> None, past |-> None, ticket |-> None,
     gate |-> None, answer |-> "none", new |-> None, todo |-> {}, seen |-> {}, status |-> "none",
     read |-> FALSE, waited |-> FALSE]

\* The first analysis has been started.
Init ==
    /\ state = "in_progress"
    /\ evidence = <<Binding(1)>>
    /\ \E node \in GateNames : run = <<NewRun(node, None)>>
    /\ tickets = {}
    /\ req = [c \in Client |-> Idle]
    /\ requests = 0
    /\ kinds \in Workloads

-----------------------------------------------------------------------------
(***************************************************************************)
(* agentflow.                                                              *)
(***************************************************************************)
\* The run of a request that has waited so far is answered or expires.
Unwait(r, l) == [c \in Client |-> IF l[c].run = r THEN [l[c] EXCEPT !.waited = FALSE] ELSE l[c]]

ReachGate(r) ==
    /\ run[r].gate = "ahead" /\ run[r].status = "running"
    /\ run' = [run EXCEPT ![r].gate = "pending", ![r].status = "waiting_approval", ![r].plan = TRUE]
    /\ UNCHANGED <<state, evidence, tickets, req, requests, kinds>>

\* A run that fails comes to no conclusion.
Halt(r) ==
    /\ run[r].gate = "ahead" /\ run[r].status = "running"
    /\ run' = [run EXCEPT ![r].status = "failed"]
    /\ UNCHANGED <<state, evidence, tickets, req, requests, kinds>>

MakeTicket(r) ==
    /\ run[r].gate = "approved" /\ run[r].ticket = "none"
    /\ \/ /\ run' = [run EXCEPT ![r].ticket = "done", ![r].status = "running"]
          /\ tickets' = tickets \cup {<<"run", r>>}
       \/ /\ run' = [run EXCEPT ![r].ticket = "failed", ![r].status = "failed"]
          /\ UNCHANGED tickets
    /\ UNCHANGED <<state, evidence, req, requests, kinds>>

Finish(r) ==
    /\ run[r].status \notin Over
    /\ run[r].gate = "rejected" \/ run[r].ticket = "done"
    /\ run' = [run EXCEPT ![r].status = "success"]
    /\ UNCHANGED <<state, evidence, tickets, req, requests, kinds>>

Expire(r) ==
    /\ run[r].gate = "pending"
    /\ run' = [run EXCEPT ![r].gate = "expired", ![r].status = "cancelled"]
    /\ req' = Unwait(r, req)
    /\ UNCHANGED <<state, evidence, tickets, requests, kinds>>

-----------------------------------------------------------------------------
(***************************************************************************)
(* What the handlers read from the record.                                 *)
(***************************************************************************)
Places(type) == {i \in DOMAIN evidence : evidence[i].type = type}

Last(S) == CHOOSE i \in S : \A j \in S : j <= i

\* _agent_run_entries and _latest_agent_run.
RunEntries == {evidence[i].run : i \in Places("agent_run")}

LatestAgentRun == evidence[Last(Places("agent_run"))].run

\* _latest_reject_feedback.
LatestRejectFeedback ==
    LET S == {i \in Places("diagnose_decision") : evidence[i].decision = "reject" /\ evidence[i].advice # None}
    IN  IF S = {} THEN None ELSE evidence[Last(S)].advice

\* The escalations on record.
Escalations ==
    {i \in Places("diagnose_decision") : evidence[i].decision = "escalate" /\ evidence[i].ticket # None}

\* _created_ticket: of the first escalation.
CreatedTicket ==
    IF Escalations = {} THEN None
    ELSE evidence[CHOOSE i \in Escalations : \A j \in Escalations : i <= j].ticket

At(c, pc) == req[c].pc = pc

Become(c, l) == req' = [req EXCEPT ![c] = l]

\* A request arrives and reads the record.
Accept(c, l) ==
    /\ At(c, "idle")
    /\ requests < MaxRequests
    /\ l.op \in kinds
    /\ requests' = requests + 1
    /\ Become(c, l)
    /\ UNCHANGED <<state, evidence, run, tickets, kinds>>

\* It is about the latest run.
Arrive(c, l) ==
    Accept(c, [l EXCEPT !.run = LatestAgentRun, !.waited = run[LatestAgentRun].gate = "pending"])

-----------------------------------------------------------------------------
(***************************************************************************)
(* Decisions and new analyses.                                             *)
(***************************************************************************)
Decisions == {"reject", "ignore", "escalate", "false_positive"}

\* Only a rejection makes use of advice.
DecideDiagnosis(c, d, a) ==
    /\ state \notin Terminal
    /\ d # "reject" => a = None
    /\ Arrive(c, [Idle EXCEPT !.pc = "fetch", !.op = d, !.advice = a, !.past = LatestRejectFeedback,
                              !.ticket = IF d = "escalate" THEN CreatedTicket ELSE None])

\* With rerun = true.
AnalyzeProblem(c) ==
    /\ state \notin Terminal
    /\ Arrive(c, [Idle EXCEPT !.pc = "start", !.op = "analyze", !.past = LatestRejectFeedback])

\* Faulty: the record may hold a ticket.
EscalateHeldProblem(c) ==
    /\ state \notin Terminal
    /\ Accept(c, [Idle EXCEPT !.pc = "create", !.op = "direct"])

\* escalate_problem: without a run.
EscalateProblem(c) ==
    /\ CreatedTicket = None
    /\ state \notin Terminal
    /\ Accept(c, [Idle EXCEPT !.pc = "create", !.op = "direct"])

\* pending_approvals, of workflows with one gate.
Pending(r) == IF r.gate = "pending" THEN {r.node} ELSE {}

\* Faulty: only the id that the node has in the workflow of today.
GateNodeKnown(r) == IF NodeApproval \in Pending(r) THEN NodeApproval ELSE None

\* _agentflow_gate_node: what the run waits for.
GateNode(r) == IF Pending(r) = {} THEN None ELSE CHOOSE n \in Pending(r) : TRUE

\* What comes after the gate.
AfterGate(op) == CASE op = "escalate" -> "ticket" [] op = "reject" -> "start" [] OTHER -> "close"

\* To reject a plan takes advice; a run without one is tried again without.
Unexplained(l, read) == l.op = "reject" /\ l.advice = None /\ read /\ run[l.run].plan

\* fetch_run, which may give nothing.
FetchRun(c) ==
    /\ At(c, "fetch")
    /\ \E ok \in BOOLEAN :
        LET l    == req[c]
            gate == IF ok THEN GateNode(run[l.run]) ELSE None
            next == [l EXCEPT !.read = ok, !.gate = gate]
        IN  Become(c,
                CASE Unexplained(l, ok) -> Idle
                  [] l.ticket # None -> [next EXCEPT !.pc = "record", !.answer = "already_escalated"]
                  [] l.ticket = None /\ gate # None /\ ~Unexplained(l, ok) -> [next EXCEPT !.pc = "answer"]
                  [] OTHER -> [next EXCEPT !.pc = AfterGate(l.op), !.answer = "no_pending_gate"])
    /\ UNCHANGED <<state, evidence, run, tickets, requests, kinds>>

\* Faulty: whatever agentflow answers.
AnswerTrusting(taken, verdict) == {verdict, "failed", "unreachable"}

\* What _agentflow_approve_node and _agentflow_reject_node return: the verdict that agentflow
\* took, an answer of 300 and above, or nothing heard.  agentflow refuses a verdict that comes
\* late, and may fail before it takes one and after: the run goes on in the same call.
Answer(taken, verdict) == {"failed", "unreachable"} \cup (IF taken THEN {verdict} ELSE {})

AnswerGate(c) ==
    /\ At(c, "answer")
    /\ LET l       == req[c]
           r       == run[l.run]
           verdict == IF l.op = "escalate" THEN "approved" ELSE "rejected"
           Go(a)   == [l EXCEPT !.pc = AfterGate(l.op), !.answer = a, !.gate = None, !.read = FALSE]
       IN  \/ /\ r.gate = "pending" /\ r.node = l.gate
              /\ run' = [run EXCEPT ![l.run].gate = verdict]
              /\ \E a \in Answer(TRUE, verdict) : req' = Unwait(l.run, [req EXCEPT ![c] = Go(a)])
           \/ /\ \E a \in Answer(FALSE, verdict) : Become(c, Go(a))
              /\ UNCHANGED run
    /\ UNCHANGED <<state, evidence, tickets, requests, kinds>>

\* Faulty: a run that is over must have made its ticket.
ReadTicketUnchecked(c) ==
    /\ At(c, "ticket")
    /\ LET r == run[req[c].run]
       IN  \/ /\ r.status \in Over
              /\ Become(c, [req[c] EXCEPT !.pc = "record", !.ticket = <<"run", req[c].run>>])
           \/ Become(c, Idle)
    /\ UNCHANGED <<state, evidence, run, tickets, requests, kinds>>

\* _read_escalation_ticket: it reads the run until the ticket is made, and gives up when the
\* node has failed, when the run is over, or after a time.
ReadTicket(c) ==
    /\ At(c, "ticket")
    /\ \/ /\ run[req[c].run].ticket = "done"
          /\ Become(c, [req[c] EXCEPT !.pc = "record", !.ticket = <<"run", req[c].run>>])
       \/ /\ run[req[c].run].ticket # "done"
          /\ Become(c, Idle)
    /\ UNCHANGED <<state, evidence, run, tickets, requests, kinds>>

\* _agentflow_create_ticket: the number is drawn here, and the answer may be lost.
CreateTicket(c) ==
    /\ At(c, "create")
    /\ LET t == <<"direct", Cardinality({u \in tickets : u[1] = "direct"}) + 1>>
       IN  /\ tickets' = tickets \cup {t}
           /\ Become(c, [req[c] EXCEPT !.pc = "record", !.ticket = t]) \/ Become(c, Idle)
    /\ UNCHANGED <<state, evidence, run, requests, kinds>>

\* Faulty: the record was read before this rejection was written.
FeedbackRecorded(l) == l.past

\* review_feedback: the advice of this request before that of an earlier one.
Feedback(l) == IF l.advice # None THEN l.advice ELSE l.past

\* POST /run, of the same workflow after a rejection; it is carried out also when the answer
\* does not come in time.
StartRun(c) ==
    /\ At(c, "start")
    /\ Len(run) < MaxRuns
    /\ \E node \in GateNames :
        /\ req[c].op = "reject" => node = run[req[c].run].node
        /\ run' = Append(run, NewRun(node, Feedback(req[c])))
    /\ \/ Become(c, [req[c] EXCEPT !.pc = "bind", !.new = Len(run')])
       \/ Become(c, Idle)
    /\ UNCHANGED <<state, evidence, tickets, requests, kinds>>

\* append_evidence of the new run.
BindRun(c) ==
    /\ At(c, "bind")
    /\ evidence' = Append(evidence, Binding(req[c].new))
    /\ Become(c, IF req[c].op = "analyze" THEN Idle ELSE [req[c] EXCEPT !.pc = "record"])
    /\ UNCHANGED <<state, run, tickets, requests, kinds>>

\* resolve or close; write_fpr before it is a step of ProblemLifecycle.
CloseRecord(c) ==
    /\ At(c, "close")
    /\ state' = IF req[c].op = "ignore" THEN "closed" ELSE "resolved"
    /\ Become(c, [req[c] EXCEPT !.pc = "record"])
    /\ UNCHANGED <<evidence, run, tickets, requests, kinds>>

\* append_evidence of the decision; a direct escalation has the form of the other.
RecordDecision(c) ==
    /\ At(c, "record")
    /\ LET l == req[c]
       IN  evidence' = Append(evidence,
                [type |-> "diagnose_decision", run |-> l.run,
                 decision |-> IF l.op = "direct" THEN "escalate" ELSE l.op, advice |-> l.advice,
                 ticket |-> l.ticket, answer |-> l.answer])
    /\ Become(c, IF req[c].op \in {"escalate", "direct"} THEN [Idle EXCEPT !.pc = "escalate", !.op = req[c].op]
                 ELSE Idle)
    /\ UNCHANGED <<state, run, tickets, requests, kinds>>

\* _apply_escalated_state.
MarkEscalated(c) ==
    /\ At(c, "escalate")
    /\ state' = "escalated"
    /\ Become(c, Idle)
    /\ UNCHANGED <<evidence, run, tickets, requests, kinds>>

\* resolve_problem, ignore_problem (to "closed", which is as final), report_ticket_status or the
\* reconciler: an UPDATE that tests only for the state that it sets.
CloseElsewhere ==
    /\ state # "resolved"
    /\ state' = "resolved"
    /\ UNCHANGED <<evidence, run, tickets, req, requests, kinds>>

\* A call raises, or the process dies.
Fail(c) ==
    /\ ~At(c, "idle")
    /\ Become(c, Idle)
    /\ UNCHANGED <<state, evidence, run, tickets, requests, kinds>>

-----------------------------------------------------------------------------
(***************************************************************************)
(* The page.                                                               *)
(***************************************************************************)
\* Faulty: what is not known is over.
AgentflowStatusOver(status) == IF status = "failed" THEN "failed" ELSE "completed"

\* agentflow_status.  A run that waits has its conclusion.
AgentflowStatus(status) ==
    CASE status \in {"waiting_approval", "success"} -> "completed"
      [] status = "failed"    -> "failed"
      [] status = "cancelled" -> "closed_manual"
      [] OTHER                -> "analyzing"

\* _build_approval: the node the code knows, or another that is pending.
ApprovalNode(r) == IF NodeApproval \in Pending(r) THEN NodeApproval ELSE GateNode(r)

GetDiagnosis(c) == Arrive(c, [Idle EXCEPT !.pc = "runs", !.op = "page", !.todo = RunEntries])

\* fetch_executions: the runs in any order; one that cannot be read has no status.
FetchExecution(c, r) ==
    /\ At(c, "runs")
    /\ r \in req[c].todo
    /\ \E s \in {AgentflowStatus(run[r].status), "unknown"} :
            Become(c, [req[c] EXCEPT !.todo = @ \ {r}, !.seen = @ \cup {<<r, s>>}])
    /\ UNCHANGED <<state, evidence, run, tickets, requests, kinds>>

\* fetch_run of the latest, and build or build_unavailable.
BuildPage(c) ==
    /\ At(c, "runs")
    /\ req[c].todo = {}
    /\ LET r == run[req[c].run]
       IN  \/ Become(c, [req[c] EXCEPT !.pc = "shown", !.read = TRUE, !.gate = ApprovalNode(r),
                                       !.status = AgentflowStatus(r.status)])
           \/ Become(c, [req[c] EXCEPT !.pc = "shown", !.status = "analyzing"])
    /\ UNCHANGED <<state, evidence, run, tickets, requests, kinds>>

-----------------------------------------------------------------------------
Next ==
    \/ \E r \in DOMAIN run : ReachGate(r)
    \/ \E r \in DOMAIN run : Halt(r)
    \/ \E r \in DOMAIN run : MakeTicket(r)
    \/ \E r \in DOMAIN run : Finish(r)
    \/ \E r \in DOMAIN run : Expire(r)
    \/ \E c \in Client, d \in Decisions, a \in Advice \cup {None} : DecideDiagnosis(c, d, a)
    \/ \E c \in Client : AnalyzeProblem(c)
    \/ \E c \in Client : EscalateProblem(c)
    \/ \E c \in Client : FetchRun(c)
    \/ \E c \in Client : AnswerGate(c)
    \/ \E c \in Client : ReadTicket(c)
    \/ \E c \in Client : CreateTicket(c)
    \/ \E c \in Client : StartRun(c)
    \/ \E c \in Client : BindRun(c)
    \/ \E c \in Client : CloseRecord(c)
    \/ \E c \in Client : RecordDecision(c)
    \/ \E c \in Client : MarkEscalated(c)
    \/ CloseElsewhere
    \/ \E c \in Client : Fail(c)
    \/ \E c \in Client : GetDiagnosis(c)
    \/ \E c \in Client, r \in DOMAIN run : FetchExecution(c, r)
    \/ \E c \in Client : BuildPage(c)

Spec == Init /\ [][Next]_vars

-----------------------------------------------------------------------------
(***************************************************************************)
(* Properties.                                                             *)
(***************************************************************************)
TypeOK ==
    /\ state \in Terminal \cup {"in_progress"}
    /\ \A i \in DOMAIN evidence : evidence[i].run \in DOMAIN run \cup {None}
    /\ \A t \in tickets : t[2] \in Nat
    /\ \A r \in DOMAIN run :
            /\ run[r].status \in Over \cup {"running", "waiting_approval"}
            /\ run[r].gate \in {"ahead", "pending", "approved", "rejected", "expired"}
            /\ run[r].advice \in Advice \cup {None}
    /\ \A c \in Client : req[c].gate \in GateNames \cup {None} /\ req[c].todo \subseteq DOMAIN run
    /\ requests \in 0..MaxRequests

\* problems.py:1529-1533, "or the advice of the first rejection is lost": every rejection on record has a
\* run of its own on record that was started with its advice, however requests overlap.
AdviceReachesRerun ==
    \A a \in Advice :
        Cardinality({i \in Places("diagnose_decision") : evidence[i].decision = "reject" /\ evidence[i].advice = a})
        <= Cardinality({i \in Places("agent_run") : run[evidence[i].run].advice = a})

\* problems.py:270-277, an escalation refuses a record that holds a ticket, and a repeated decision
\* takes the one it has: the record names at most as many tickets as requests are under way at
\* a time.  Only those that read it before the first escalation was written can add one,
\* however often escalations of both kinds fail half-way and are sent again.
NamedIsBounded == Cardinality({evidence[i].ticket : i \in Escalations}) <= Cardinality(Client)

\* problems.py:1277-1278, "no final state that nobody can account for": a record that was last escalated names
\* a ticket that agentflow has made, in a run that was approved or because it was asked to.
EscalationIsBacked ==
    state = "escalated" =>
        \E i \in Escalations :
            LET t == evidence[i].ticket
            IN  t \in tickets /\ (t[1] = "run" => run[t[2]].gate = "approved")

\* problems.py:1139-1141, an answer that a gate took is final, and the decisions compete for it: when the
\* record says of a decision that its answer was taken, agentflow has taken that answer, and
\* of the decisions on one run it says so once.
AnswerIsTrue ==
    \A i \in DOMAIN evidence : evidence[i].answer \in {"approved", "rejected"} =>
        /\ run[evidence[i].run].gate = evidence[i].answer
        /\ \A j \in DOMAIN evidence :
               evidence[j].run = evidence[i].run /\ evidence[j].answer \in {"approved", "rejected"} => i = j

\* problems.py:1196-1198, "a name that is written down here misses, and the run waits for ever": a page or a
\* decision that has read a run that waits since before the request knows its gate by its name.
GateNotMissed ==
    \A c \in Client : req[c].read /\ req[c].waited => req[c].gate = run[req[c].run].node

\* viewmodel.py:87-88, "the page would stop asking and show a round at work as completed": what a page shows as over
\* has come to its gate or to its end, in the header and in the list of executions.
PageStopsInTime ==
    \A c \in Client : At(c, "shown") =>
        \A x \in req[c].seen \cup {<<req[c].run, req[c].status>>} :
            x[2] \notin {"analyzing", "unknown"} => run[x[1]].gate # "ahead" \/ run[x[1]].status \in Over

-----------------------------------------------------------------------------
(***************************************************************************)
(* Claims that TLC refutes; see README.md.                                 *)
(***************************************************************************)
\* problems.py:1171-1172: a run that nobody answers holds its place until it expires.
NoGateLeftWaiting ==
    (state \in Terminal /\ \A c \in Client : At(c, "idle")) =>
        \A r \in RunEntries : run[r].gate # "pending"

\* problems.py:1274-1275, "if both sides made one there would be two".  An escalation that passes the
\* diagnosis by and an approved run make one each.
OneTicketPerRecord == Cardinality(tickets) <= 1
=============================================================================
