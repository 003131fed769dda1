----------------------- MODULE ProblemLifecycleProofs -----------------------
(***************************************************************************)
(* Proofs about the requests on one problem record, for any number of      *)
(* overlapping requests, any operations and any faults.                    *)
(***************************************************************************)
EXTENDS ProblemLifecycle, TLAPS, FiniteSetTheorems, WellFoundedInduction, SequenceTheorems

-----------------------------------------------------------------------------
(***************************************************************************)
(* The inductive invariant.                                                *)
(***************************************************************************)
\* What a request may still have to do: the handlers' lists and their ends.
EscalationPlans ==
    {<<"ticket", "escalation", "escalate">>, <<"readTicket", "escalation", "escalate">>,
     <<"escalation", "escalate">>, <<"escalate">>}

ReportPlans == {<<"report", "resolve">>, <<"report">>, <<"resolve">>}

AnalysisPlans ==
    {<<"run", "flip">>, <<"flip">>, <<"run", "bindRun">>, <<"bindRun">>,
     <<"session", "bindSession">>, <<"bindSession">>}

VerdictPlans ==
    {<<"fpr", "resolve">>, <<"resolve">>, <<"close">>, <<"run", "bindRun", "decision">>,
     <<"bindRun", "decision">>, <<"decision">>, <<"fpr", "resolve", "decision">>,
     <<"resolve", "decision">>, <<"close", "decision">>}

Plans == EscalationPlans \cup ReportPlans \cup AnalysisPlans \cup VerdictPlans
         \cup {<<"approval">>}

\* Tickets, runs and entries without the bound on their numbers.
AnyTicket == {"run", "manual"} \X Nat

AnyEntry == [type : {"run", "approval"}, id : Nat]
            \cup [type : {"session", "decision"}, id : {None}]
            \cup [type : {"escalation"}, id : AnyTicket]
            \cup [type : {"status"}, id : AnyTicket \X Status]

\* A request and what it has in hand for the call it makes next.
IsRequest(r) ==
    /\ r = [op |-> r.op, todo |-> r.todo, got |-> r.got]
    /\ r.op # "idle"
    /\ r.todo \in Plans
    /\ r.op = "report" => r.todo \in ReportPlans
    /\ r.op = "approval" => r.todo = <<"approval">>

HasInHand(r) ==
    /\ Head(r.todo) \in {"escalation", "readTicket"} => r.got \in AnyTicket
    /\ Head(r.todo) \in {"flip", "bindRun", "approval"} => r.got \in Nat
    /\ Head(r.todo) = "report" => r.got \in AnyTicket \X Status

\* The state is set to escalated only after the ticket is on record.
WroteTicket(r) == Head(r.todo) = "escalate" => OfType("escalation") # {}

RequestInv(c) ==
    call[c] # Idle =>
        /\ IsRequest(call[c])
        /\ HasInHand(call[c])
        /\ WroteTicket(call[c])

RecordInv ==
    /\ state \in {"pending", "in_progress"} \cup Terminal
    /\ evidence \in Seq(AnyEntry)
    /\ tickets \subseteq AnyTicket
    /\ IsFiniteSet(tickets)
    /\ runs \in Nat
    /\ state = "escalated" => OfType("escalation") # {}

CallsInv ==
    /\ call = [c \in Client |-> call[c]]
    /\ \A c \in Client : RequestInv(c)

LifecycleInv == RecordInv /\ CallsInv

-----------------------------------------------------------------------------
(***************************************************************************)
(* Operators.                                                              *)
(***************************************************************************)
LEMMA ShortTuples ==
    ASSUME NEW a, NEW b, NEW c
    PROVE  /\ Len(<<a>>) = 1 /\ Head(<<a>>) = a
           /\ Len(<<a, b>>) = 2 /\ Head(<<a, b>>) = a /\ Tail(<<a, b>>) = <<b>>
           /\ Len(<<a, b, c>>) = 3 /\ Head(<<a, b, c>>) = a /\ Tail(<<a, b, c>>) = <<b, c>>
  <1>1. Len(<<a>>) = 1 /\ Head(<<a>>) = a
    OBVIOUS
  <1>2. Len(<<a, b>>) = 2 /\ Head(<<a, b>>) = a
    OBVIOUS
  <1>3. Tail(<<a, b>>) = <<b>>
    OBVIOUS
  <1>4. Len(<<a, b, c>>) = 3 /\ Head(<<a, b, c>>) = a
    OBVIOUS
  <1>5. Tail(<<a, b, c>>) = <<b, c>>
    OBVIOUS
  <1> QED
    BY <1>1, <1>2, <1>3, <1>4, <1>5

\* Every plan is one call, or a call and a plan; which calls follow which.
LEMMA PlanSteps ==
    ASSUME NEW t \in Plans
    PROVE  /\ Head(t) \in Effect
           /\ Len(t) # 1 => Tail(t) \in Plans
           /\ Len(t) # 1 /\ Head(t) \in {"ticket", "readTicket"} => Head(Tail(t)) = "escalation"
           /\ Len(t) # 1 /\ Head(t) = "escalation" => Head(Tail(t)) = "escalate"
           /\ Len(t) # 1 /\ Head(t) = "run" => Head(Tail(t)) \in {"flip", "bindRun"}
           /\ Len(t) # 1 /\ Head(t) \notin {"ticket", "readTicket", "run", "escalation"}
                => Head(Tail(t)) \in {"resolve", "bindSession", "decision"}
           /\ Head(t) = "flip" => Len(t) = 1
  <1>1. ASSUME NEW x \in Effect, t = <<x>>
        PROVE  Head(t) = x /\ Len(t) = 1
    BY <1>1, ShortTuples
  <1>2. ASSUME NEW x \in Effect, NEW y \in Effect, t = <<x, y>>
        PROVE  Head(t) = x /\ Tail(t) = <<y>> /\ Head(Tail(t)) = y
    BY <1>2, ShortTuples
  <1>3. ASSUME NEW x \in Effect, NEW y \in Effect, NEW z \in Effect, t = <<x, y, z>>
        PROVE  Head(t) = x /\ Tail(t) = <<y, z>> /\ Head(Tail(t)) = y
    BY <1>3, ShortTuples
  <1>4. CASE t \in EscalationPlans
    <2>1. CASE t = <<"ticket", "escalation", "escalate">>
      BY <1>3, <2>1 DEF EscalationPlans, Plans, Effect
    <2>2. CASE t = <<"readTicket", "escalation", "escalate">>
      BY <1>3, <2>2 DEF EscalationPlans, Plans, Effect
    <2>3. CASE t = <<"escalation", "escalate">>
      BY <1>2, <2>3 DEF EscalationPlans, Plans, Effect
    <2>4. CASE t = <<"escalate">>
      BY <1>1, <2>4 DEF EscalationPlans, Plans, Effect
    <2> QED
      BY <1>4, <2>1, <2>2, <2>3, <2>4 DEF EscalationPlans
  <1>5. CASE t \in ReportPlans
    <2>1. CASE t = <<"report", "resolve">>
      BY <1>2, <2>1 DEF ReportPlans, Plans, Effect
    <2>2. CASE t = <<"report">>
      BY <1>1, <2>2 DEF Effect
    <2>3. CASE t = <<"resolve">>
      BY <1>1, <2>3 DEF Effect
    <2> QED
      BY <1>5, <2>1, <2>2, <2>3 DEF ReportPlans
  <1>6. CASE t \in AnalysisPlans
    <2>1. CASE t = <<"run", "flip">>
      BY <1>2, <2>1 DEF AnalysisPlans, Plans, Effect
    <2>2. CASE t = <<"run", "bindRun">>
      BY <1>2, <2>2 DEF AnalysisPlans, Plans, Effect
    <2>3. CASE t = <<"session", "bindSession">>
      BY <1>2, <2>3 DEF AnalysisPlans, Plans, Effect
    <2>4. CASE t \in {<<"flip">>, <<"bindRun">>, <<"bindSession">>}
      BY <1>1, <2>4 DEF Effect
    <2> QED
      BY <1>6, <2>1, <2>2, <2>3, <2>4 DEF AnalysisPlans
  <1>7. CASE t \in VerdictPlans
    <2>1. CASE t = <<"fpr", "resolve">>
      BY <1>2, <2>1 DEF VerdictPlans, Plans, Effect
    <2>2. CASE t = <<"run", "bindRun", "decision">>
      BY <1>3, <2>2 DEF VerdictPlans, Plans, Effect
    <2>3. CASE t = <<"bindRun", "decision">>
      BY <1>2, <2>3 DEF VerdictPlans, Plans, Effect
    <2>4. CASE t = <<"fpr", "resolve", "decision">>
      BY <1>3, <2>4 DEF VerdictPlans, Plans, Effect
    <2>5. CASE t = <<"resolve", "decision">>
      BY <1>2, <2>5 DEF VerdictPlans, Plans, Effect
    <2>6. CASE t = <<"close", "decision">>
      BY <1>2, <2>6 DEF VerdictPlans, Plans, Effect
    <2>7. CASE t \in {<<"resolve">>, <<"close">>, <<"decision">>}
      BY <1>1, <2>7 DEF Effect
    <2> QED
      BY <1>7, <2>1, <2>2, <2>3, <2>4, <2>5, <2>6, <2>7 DEF VerdictPlans
  <1>8. CASE t = <<"approval">>
    BY <1>1, <1>8 DEF Effect
  <1> QED
    BY <1>4, <1>5, <1>6, <1>7, <1>8 DEF Plans

\* What is left of a report is a report's plan.
LEMMA ReportPlanSteps ==
    ASSUME NEW t \in ReportPlans
    PROVE  /\ Len(t) # 1 => Tail(t) \in ReportPlans
           /\ Head(t) \in {"report", "resolve"}
  <1>1. CASE t = <<"report", "resolve">>
    BY <1>1, ShortTuples DEF ReportPlans
  <1>2. CASE t = <<"report">>
    BY <1>2, ShortTuples
  <1>3. CASE t = <<"resolve">>
    BY <1>3, ShortTuples
  <1> QED
    BY <1>1, <1>2, <1>3 DEF ReportPlans

\* A set of natural numbers that is not empty has a least member.
LEMMA LeastExists ==
    ASSUME NEW T, T \subseteq Nat, T # {}
    PROVE  \E x \in T : \A y \in T : x <= y
  <1>1. \E x \in T : \A y \in T : ~(<<y, x>> \in OpToRel(<, Nat))
    BY WFMin, NatLessThanWellFounded
  <1>2. \E x \in T : \A y \in T : ~(y < x)
    BY <1>1, Zenon DEF OpToRel
  <1> QED
    BY <1>2

\* Entries of the evidence, and what an appended entry changes.
LEMMA EvidenceEntry ==
    ASSUME evidence \in Seq(AnyEntry), NEW i \in DOMAIN evidence
    PROVE  /\ evidence[i] \in AnyEntry /\ i \in Nat
           /\ evidence[i].type = "escalation" => evidence[i].id \in AnyTicket
           /\ evidence[i].type \in {"run", "approval"} => evidence[i].id \in Nat
           /\ evidence[i].type = "status" => evidence[i].id \in AnyTicket \X Status
  <1>1. evidence[i] \in AnyEntry /\ i \in Nat
    BY LenProperties, ElementOfSeq
  <1> QED
    BY <1>1 DEF AnyEntry

LEMMA AppendedEntry ==
    ASSUME evidence \in Seq(AnyEntry), NEW e \in AnyEntry, evidence' = Append(evidence, e)
    PROVE  /\ evidence' \in Seq(AnyEntry)
           /\ Len(evidence') = Len(evidence) + 1
           /\ DOMAIN evidence' = DOMAIN evidence \cup {Len(evidence) + 1}
           /\ Len(evidence) + 1 \notin DOMAIN evidence
           /\ \A i \in DOMAIN evidence : evidence'[i] = evidence[i]
           /\ evidence'[Len(evidence')] = e
           /\ evidence' # evidence
           /\ \A t : OfType(t) \subseteq OfType(t)'
           /\ e.type = "escalation" => OfType("escalation")' # {}
  <1>1. /\ evidence' \in Seq(AnyEntry)
        /\ Len(evidence') = Len(evidence) + 1
        /\ \A i \in 1..Len(evidence) : evidence'[i] = evidence[i]
        /\ evidence'[Len(evidence) + 1] = e
    BY AppendProperties
  <1>2. /\ DOMAIN evidence = 1..Len(evidence) /\ Len(evidence) \in Nat
        /\ DOMAIN evidence' = 1..(Len(evidence) + 1)
    BY <1>1, LenProperties
  <1>3. /\ DOMAIN evidence' = DOMAIN evidence \cup {Len(evidence) + 1}
        /\ Len(evidence) + 1 \notin DOMAIN evidence
    BY <1>2
  <1> QED
    BY <1>1, <1>2, <1>3 DEF OfType

\* The ticket on record and the latest run, when there are any.
LEMMA CreatedTicketIsTicket ==
    ASSUME evidence \in Seq(AnyEntry), OfType("escalation") # {}
    PROVE  CreatedTicket \in AnyTicket /\ CreatedTicket # None
  <1> DEFINE found == OfType("escalation")
             first == CHOOSE i \in found : \A j \in found : i <= j
  <1>1. found \subseteq Nat
    BY EvidenceEntry DEF OfType
  <1>2. first \in found
    BY <1>1, LeastExists
  <1>3. evidence[first].id \in AnyTicket
    BY <1>2, EvidenceEntry DEF OfType
  <1>4. CreatedTicket = evidence[first].id
    BY DEF CreatedTicket
  <1> QED
    BY <1>3, <1>4, LifecycleAssumption DEF AnyTicket

\* The latest run is the number of a run.
LEMMA LatestRunIsRun ==
    ASSUME evidence \in Seq(AnyEntry), LatestRun # None
    PROVE  LatestRun \in Nat
  <1> DEFINE found == OfType("run")
             last == CHOOSE i \in found : \A j \in found : i >= j
  <1>1. found # {} /\ LatestRun = evidence[last].id
    BY DEF LatestRun
  <1>2. found \subseteq 1..Len(evidence) /\ Len(evidence) \in Nat
    BY LenProperties DEF OfType
  <1>3. \E i \in found : \A j \in found : i >= j
    <2> DEFINE mirror == {n \in Nat : \E i \in found : n = Len(evidence) - i}
    <2>1. mirror \subseteq Nat /\ mirror # {}
      <3>1. PICK i \in found : TRUE
        BY <1>1
      <3>2. Len(evidence) - i \in Nat
        BY <1>2, <3>1
      <3> QED
        BY <3>1, <3>2
    <2>2. PICK n \in mirror : \A k \in mirror : n <= k
      BY <2>1, LeastExists
    <2>3. PICK i \in found : n = Len(evidence) - i
      BY <2>2
    <2>4. ASSUME NEW j \in found
          PROVE  i >= j
      <3>1. j \in Nat /\ i \in Nat /\ Len(evidence) - j \in Nat
        BY <1>2, <2>4
      <3>2. Len(evidence) - j \in mirror
        BY <2>4, <3>1
      <3>3. n <= Len(evidence) - j
        BY <2>2, <3>2
      <3> HIDE DEF found
      <3> QED
        BY <1>2, <2>3, <3>1, <3>3
    <2> QED
      BY <2>3, <2>4
  <1>4. last \in found
    BY <1>3
  <1> QED
    BY <1>1, <1>4, EvidenceEntry DEF OfType

\* A request that goes on has the rest of its plan, and the others are as
\* they were.
LEMMA ContinueEffect ==
    ASSUME CallsInv, NEW c \in Client, call[c] # Idle, NEW got, Continue(c, got)
    PROVE  /\ call' = [d \in Client |-> call'[d]]
           /\ \A d \in Client \ {c} : call'[d] = call[d]
           /\ call'[c] # Idle =>
                /\ Len(call[c].todo) # 1
                /\ call'[c] = [op |-> call[c].op, todo |-> Tail(call[c].todo), got |-> got]
                /\ IsRequest(call'[c])
  <1> DEFINE r == [op |-> call[c].op, todo |-> Tail(call[c].todo), got |-> got]
  <1>1. IsRequest(call[c])
    BY DEF CallsInv, RequestInv
  <1>2. call' = [call EXCEPT ![c] = IF Len(call[c].todo) = 1 THEN Idle ELSE r]
    BY DEF Continue
  <1>3. Len(call[c].todo) # 1 => IsRequest(r)
    <2> SUFFICES ASSUME Len(call[c].todo) # 1 PROVE IsRequest(r)
      OBVIOUS
    <2>1. Tail(call[c].todo) \in Plans
      BY <1>1, PlanSteps DEF IsRequest
    <2>2. call[c].op = "report" => Tail(call[c].todo) \in ReportPlans
      BY <1>1, ReportPlanSteps DEF IsRequest
    <2>3. call[c].op # "approval" /\ call[c].op # "idle"
      BY <1>1, ShortTuples DEF IsRequest
    <2> QED
      BY <2>1, <2>2, <2>3 DEF IsRequest
  <1> QED
    BY <1>2, <1>3 DEF CallsInv

\* A request that fails is over, and the others are as they were.
LEMMA FailEffect ==
    ASSUME CallsInv, NEW c \in Client, Fail(c)
    PROVE  /\ call' = [d \in Client |-> call'[d]]
           /\ \A d \in Client \ {c} : call'[d] = call[d]
           /\ call'[c] = Idle
  BY DEF CallsInv, Fail

\* What one request does leaves the others' part of the invariant alone.
LEMMA OthersKeep ==
    ASSUME CallsInv, NEW c \in Client,
           call' = [d \in Client |-> call'[d]],
           \A d \in Client \ {c} : call'[d] = call[d],
           \A t : OfType(t) \subseteq OfType(t)',
           RequestInv(c)'
    PROVE  CallsInv'
  <1>1. ASSUME NEW d \in Client, d # c
        PROVE  RequestInv(d)'
    <2>1. call'[d] = call[d] /\ RequestInv(d)
      BY <1>1 DEF CallsInv
    <2>2. OfType("escalation") \subseteq OfType("escalation")'
      OBVIOUS
    <2> QED
      BY <2>1, <2>2 DEF RequestInv, IsRequest, HasInHand, WroteTicket, Idle
  <1> QED
    BY <1>1 DEF CallsInv

-----------------------------------------------------------------------------
(***************************************************************************)
(* The handlers.                                                           *)
(***************************************************************************)
\* What a handler plans, and what it has in hand for it.
Fits(op, todo, got) ==
    /\ op # "idle" /\ todo \in Plans
    /\ op = "report" => todo \in ReportPlans
    /\ op = "approval" => todo = <<"approval">>
    /\ Head(todo) # "escalate"
    /\ Head(todo) \in {"escalation", "readTicket"} => got \in AnyTicket
    /\ Head(todo) \in {"flip", "bindRun", "approval"} => got \in Nat
    /\ Head(todo) = "report" => got \in AnyTicket \X Status

\* A request that begins keeps the invariant if what it plans is a plan it has
\* what it needs for.
LEMMA BeginKeeps ==
    ASSUME LifecycleInv, NEW c \in Client, NEW op, NEW todo, NEW got,
           call' = [call EXCEPT ![c] = [op |-> op, todo |-> todo, got |-> got]],
           UNCHANGED <<state, evidence, fpr, tickets, runs>>,
           Fits(op, todo, got)
    PROVE  LifecycleInv'
  <1> DEFINE r == [op |-> op, todo |-> todo, got |-> got]
  <1>1. /\ call' = [d \in Client |-> call'[d]]
        /\ \A d \in Client \ {c} : call'[d] = call[d]
        /\ call'[c] = r
    BY DEF LifecycleInv, CallsInv
  <1>2. r.op = op /\ r.todo = todo /\ r.got = got
    OBVIOUS
  <1>3. IsRequest(r)
    BY <1>2 DEF IsRequest, Fits
  <1> HIDE DEF r
  <1>4. HasInHand(r)
    BY <1>2 DEF HasInHand, Fits
  <1>5. (\A t : OfType(t) = OfType(t)') /\ Head(todo) # "escalate"
    BY DEF OfType, Fits
  <1>6. RequestInv(c)'
    BY <1>1, <1>2, <1>3, <1>4, <1>5
    DEF RequestInv, WroteTicket, IsRequest, HasInHand, Idle
  <1>7. CallsInv'
    BY <1>1, <1>5, <1>6, OthersKeep DEF LifecycleInv
  <1> QED
    BY <1>7 DEF LifecycleInv, RecordInv, OfType

LEMMA ResolveProblemKeeps ==
    ASSUME LifecycleInv, NEW c \in Client, ResolveProblem(c)
    PROVE  LifecycleInv'
  <1>1. <<"fpr", "resolve">> \in Plans /\ Head(<<"fpr", "resolve">>) = "fpr"
    BY ShortTuples DEF Plans, VerdictPlans
  <1>2. Fits("resolve", <<"fpr", "resolve">>, None)
    BY <1>1 DEF Fits
  <1> QED
    BY <1>2, BeginKeeps DEF ResolveProblem, Begin

LEMMA IgnoreProblemKeeps ==
    ASSUME LifecycleInv, NEW c \in Client, IgnoreProblem(c)
    PROVE  LifecycleInv'
  <1>1. <<"close">> \in Plans /\ Head(<<"close">>) = "close"
    BY ShortTuples DEF Plans, VerdictPlans
  <1>2. Fits("ignore", <<"close">>, None)
    BY <1>1 DEF Fits
  <1> QED
    BY <1>2, BeginKeeps DEF IgnoreProblem, Begin

LEMMA EscalateProblemKeeps ==
    ASSUME LifecycleInv, NEW c \in Client, EscalateProblem(c)
    PROVE  LifecycleInv'
  <1>1. /\ <<"ticket", "escalation", "escalate">> \in Plans
        /\ Head(<<"ticket", "escalation", "escalate">>) = "ticket"
    BY ShortTuples DEF Plans, EscalationPlans
  <1>2. Fits("escalate", <<"ticket", "escalation", "escalate">>, None)
    BY <1>1 DEF Fits
  <1> QED
    BY <1>2, BeginKeeps DEF EscalateProblem, Begin

LEMMA ReportTicketStatusKeeps ==
    ASSUME LifecycleInv, NEW c \in Client, NEW t \in tickets, NEW s \in Status,
           ReportTicketStatus(c, t, s)
    PROVE  LifecycleInv'
  <1> DEFINE todo == IF s = "resolved" /\ state = "escalated" THEN <<"report", "resolve">>
                     ELSE <<"report">>
  <1>1. todo \in ReportPlans /\ todo \in Plans /\ Head(todo) = "report"
    BY ShortTuples DEF Plans, ReportPlans
  <1>2. <<t, s>> \in AnyTicket \X Status
    BY DEF LifecycleInv, RecordInv
  <1>4. /\ call' = [call EXCEPT ![c] = [op |-> "report", todo |-> todo, got |-> <<t, s>>]]
        /\ UNCHANGED <<state, evidence, fpr, tickets, runs>>
    BY DEF ReportTicketStatus, Begin
  <1> HIDE DEF todo
  <1>5. Fits("report", todo, <<t, s>>)
    BY <1>1, <1>2 DEF Fits
  <1> QED
    BY <1>4, <1>5, BeginKeeps

LEMMA AnalyzeProblemKeeps ==
    ASSUME LifecycleInv, NEW c \in Client, NEW rerun \in BOOLEAN, AnalyzeProblem(c, rerun)
    PROVE  LifecycleInv'
  <1> DEFINE todo == IF state = "pending" THEN <<"run", "flip">> ELSE <<"run", "bindRun">>
  <1>1. todo \in Plans /\ Head(todo) = "run"
    BY ShortTuples DEF Plans, AnalysisPlans
  <1>2. /\ call' = [call EXCEPT ![c] = [op |-> "analyze", todo |-> todo, got |-> None]]
        /\ UNCHANGED <<state, evidence, fpr, tickets, runs>>
    BY DEF AnalyzeProblem, Begin
  <1> HIDE DEF todo
  <1>3. Fits("analyze", todo, None)
    BY <1>1 DEF Fits
  <1> QED
    BY <1>2, <1>3, BeginKeeps

LEMMA DiagnoseProblemKeeps ==
    ASSUME LifecycleInv, NEW c \in Client, DiagnoseProblem(c)
    PROVE  LifecycleInv'
  <1>1. <<"session", "bindSession">> \in Plans /\ Head(<<"session", "bindSession">>) = "session"
    BY ShortTuples DEF Plans, AnalysisPlans
  <1>2. Fits("diagnose", <<"session", "bindSession">>, None)
    BY <1>1 DEF Fits
  <1> QED
    BY <1>2, BeginKeeps DEF DiagnoseProblem, Begin

LEMMA RecordRunDecisionKeeps ==
    ASSUME LifecycleInv, NEW c \in Client, NEW r \in 1..runs, RecordRunDecision(c, r)
    PROVE  LifecycleInv'
  <1>1. <<"approval">> \in Plans /\ Head(<<"approval">>) = "approval"
    BY ShortTuples DEF Plans
  <1>2. r \in Nat
    BY DEF LifecycleInv, RecordInv
  <1>3. Fits("approval", <<"approval">>, r)
    BY <1>1, <1>2 DEF Fits
  <1> QED
    BY <1>3, BeginKeeps DEF RecordRunDecision, Begin

LEMMA AutoResolveKeeps ==
    ASSUME LifecycleInv, NEW c \in Client, AutoResolve(c)
    PROVE  LifecycleInv'
  <1>1. <<"resolve">> \in Plans /\ Head(<<"resolve">>) = "resolve"
    BY ShortTuples DEF Plans, ReportPlans
  <1>2. Fits("auto", <<"resolve">>, None)
    BY <1>1 DEF Fits
  <1> QED
    BY <1>2, BeginKeeps DEF AutoResolve, Begin

\* A decision to escalate starts with the ticket on record, with the run whose
\* ticket is read, or by creating a ticket.
LEMMA DecideDiagnosisKeeps ==
    ASSUME LifecycleInv, NEW c \in Client, NEW d \in Decisions, DecideDiagnosis(c, d)
    PROVE  LifecycleInv'
  <1> DEFINE todo == IF LatestRun # None THEN DecideAgentflow(d) ELSE DecideSession(d)
             got == DecideGot(d)
  <1>1. /\ call' = [call EXCEPT ![c] = [op |-> "decide", todo |-> todo, got |-> got]]
        /\ UNCHANGED <<state, evidence, fpr, tickets, runs>>
    BY DEF DecideDiagnosis, Begin
  <1>2. /\ todo \in Plans
        /\ Head(todo) \notin {"escalate", "flip", "bindRun", "report", "approval"}
        /\ Head(todo) \in {"escalation", "readTicket"} => got \in AnyTicket
    <2>1. CASE d = "escalate" /\ CreatedTicket # None
      <3>1. todo = <<"escalation", "escalate">> /\ got = CreatedTicket
        BY <2>1 DEF DecideAgentflow, DecideSession, DecideGot
      <3>2. CreatedTicket \in AnyTicket
        BY <2>1, CreatedTicketIsTicket DEF CreatedTicket, LifecycleInv, RecordInv
      <3>3. todo \in Plans
        BY <3>1 DEF Plans, EscalationPlans
      <3>4. Head(todo) = "escalation"
        BY <3>1, ShortTuples
      <3> QED
        BY <3>1, <3>2, <3>3, <3>4
    <2>2. CASE d = "escalate" /\ CreatedTicket = None /\ LatestRun # None
      <3>1. todo = <<"readTicket", "escalation", "escalate">> /\ got = <<"run", LatestRun>>
        BY <2>2 DEF DecideAgentflow, DecideGot
      <3>2. got \in AnyTicket
        BY <2>2, <3>1, LatestRunIsRun DEF AnyTicket, LifecycleInv, RecordInv
      <3>3. todo \in Plans
        BY <3>1 DEF Plans, EscalationPlans
      <3>4. Head(todo) = "readTicket"
        BY <3>1, ShortTuples
      <3> QED
        BY <3>1, <3>2, <3>3, <3>4
    <2>3. CASE d = "escalate" /\ CreatedTicket = None /\ LatestRun = None
      <3>1. todo = <<"ticket", "escalation", "escalate">>
        BY <2>3 DEF DecideSession
      <3>2. todo \in Plans
        BY <3>1 DEF Plans, EscalationPlans
      <3>3. Head(todo) = "ticket"
        BY <3>1, ShortTuples
      <3> QED
        BY <3>2, <3>3
    <2>4. CASE d = "reject"
      <3>1. todo \in {<<"run", "bindRun", "decision">>, <<"decision">>}
        BY <2>4 DEF DecideAgentflow, DecideSession
      <3>2. todo \in Plans
        BY <3>1 DEF Plans, VerdictPlans
      <3>3. Head(todo) \in {"run", "decision"}
        BY <3>1, ShortTuples
      <3> QED
        BY <3>2, <3>3
    <2>5. CASE d = "false_positive"
      <3>1. todo = <<"fpr", "resolve", "decision">>
        BY <2>5 DEF DecideAgentflow, DecideSession
      <3> QED
        BY <3>1, ShortTuples DEF Plans, VerdictPlans
    <2>6. CASE d = "ignore"
      <3>1. todo = <<"close", "decision">>
        BY <2>6 DEF DecideAgentflow, DecideSession
      <3> QED
        BY <3>1, ShortTuples DEF Plans, VerdictPlans
    <2> QED
      BY <2>1, <2>2, <2>3, <2>4, <2>5, <2>6 DEF Decisions
  <1> HIDE DEF todo, got
  <1>3. Fits("decide", todo, got)
    BY <1>2 DEF Fits
  <1> QED
    BY <1>1, <1>3, BeginKeeps

-----------------------------------------------------------------------------
(***************************************************************************)
(* The calls.                                                              *)
(***************************************************************************)
\* A call that leaves the record alone keeps the invariant: it hands on the
\* ticket or the run that the next call writes.
LEMMA OutboundKeeps ==
    ASSUME LifecycleInv, NEW c \in Client, call[c] # Idle, NEW got,
           Continue(c, got) \/ Fail(c),
           UNCHANGED <<state, evidence>>,
           tickets' \subseteq AnyTicket, IsFiniteSet(tickets'), runs' \in Nat,
           Head(call[c].todo) # "escalation",
           Head(call[c].todo) \in {"ticket", "readTicket"} => got \in AnyTicket,
           Head(call[c].todo) = "run" => got \in Nat
    PROVE  LifecycleInv'
  <1>1. CallsInv
    BY DEF LifecycleInv
  <1>2. /\ call' = [d \in Client |-> call'[d]]
        /\ \A d \in Client \ {c} : call'[d] = call[d]
    BY <1>1, ContinueEffect, FailEffect
  <1>3. RequestInv(c)'
    <2>1. CASE call'[c] = Idle
      BY <2>1 DEF RequestInv, Idle
    <2>2. CASE call'[c] # Idle
      <3>1. /\ Len(call[c].todo) # 1
            /\ call'[c] = [op |-> call[c].op, todo |-> Tail(call[c].todo), got |-> got]
            /\ IsRequest(call'[c])
        BY <1>1, <2>2, ContinueEffect, FailEffect
      <3>2. call'[c].todo = Tail(call[c].todo) /\ call'[c].got = got
        BY <3>1
      <3>3. call[c].todo \in Plans
        BY <1>1 DEF CallsInv, RequestInv, IsRequest
      <3>4. /\ Head(call[c].todo) \in {"ticket", "readTicket"} => Head(call'[c].todo) = "escalation"
            /\ Head(call[c].todo) = "run" => Head(call'[c].todo) \in {"flip", "bindRun"}
            /\ Head(call[c].todo) \notin {"ticket", "readTicket", "run"}
                 => Head(call'[c].todo) \in {"resolve", "bindSession", "decision"}
        BY <3>1, <3>2, <3>3, PlanSteps
      <3>5. HasInHand(call[c])'
        BY <3>2, <3>4 DEF HasInHand
      <3>6. WroteTicket(call[c])'
        BY <3>4 DEF WroteTicket
      <3> QED
        BY <3>1, <3>5, <3>6 DEF RequestInv, IsRequest
    <2> QED
      BY <2>1, <2>2
  <1>4. \A t : OfType(t) = OfType(t)'
    BY DEF OfType
  <1>5. CallsInv'
    BY <1>1, <1>2, <1>3, <1>4, OthersKeep
  <1> QED
    BY <1>5 DEF LifecycleInv, RecordInv, OfType

\* A call that writes the record keeps the requests' part.
LEMMA WriteKeeps ==
    ASSUME CallsInv, NEW c \in Client, call[c] # Idle, NEW got, Continue(c, got),
           \A t : OfType(t) \subseteq OfType(t)',
           Head(call[c].todo) \notin {"ticket", "readTicket", "run"},
           Head(call[c].todo) = "escalation" => OfType("escalation")' # {}
    PROVE  CallsInv'
  <1>1. /\ call' = [d \in Client |-> call'[d]]
        /\ \A d \in Client \ {c} : call'[d] = call[d]
    BY ContinueEffect
  <1>2. RequestInv(c)'
    <2>1. CASE call'[c] = Idle
      BY <2>1 DEF RequestInv, Idle
    <2>2. CASE call'[c] # Idle
      <3>1. /\ Len(call[c].todo) # 1
            /\ call'[c] = [op |-> call[c].op, todo |-> Tail(call[c].todo), got |-> got]
            /\ IsRequest(call'[c])
        BY <2>2, ContinueEffect
      <3>2. call'[c].todo = Tail(call[c].todo)
        BY <3>1
      <3>3. call[c].todo \in Plans
        BY DEF CallsInv, RequestInv, IsRequest
      <3>4. /\ Head(call[c].todo) = "escalation" => Head(call'[c].todo) = "escalate"
            /\ Head(call[c].todo) # "escalation"
                 => Head(call'[c].todo) \in {"resolve", "bindSession", "decision"}
        BY <3>1, <3>2, <3>3, PlanSteps
      <3>5. HasInHand(call[c])'
        BY <3>4 DEF HasInHand
      <3>6. WroteTicket(call[c])'
        BY <3>4 DEF WroteTicket
      <3> QED
        BY <3>1, <3>5, <3>6 DEF RequestInv, IsRequest
    <2> QED
      BY <2>1, <2>2
  <1> QED
    BY <1>1, <1>2, OthersKeep

LEMMA WriteFprKeeps ==
    ASSUME LifecycleInv, NEW c \in Client, WriteFpr(c)
    PROVE  LifecycleInv'
  BY OutboundKeeps DEF WriteFpr, Doing, LifecycleInv, RecordInv

LEMMA CreateTicketKeeps ==
    ASSUME LifecycleInv, NEW c \in Client, CreateTicket(c)
    PROVE  LifecycleInv'
  <1> DEFINE mine == {u \in tickets : u[1] = "manual"}
             t == <<"manual", Cardinality(mine) + 1>>
  <1>1. /\ tickets' = tickets \cup {t} /\ (Continue(c, t) \/ Fail(c))
        /\ Head(call[c].todo) = "ticket" /\ call[c] # Idle
        /\ UNCHANGED <<state, evidence, fpr, runs, calls>>
    BY DEF CreateTicket, Answered, Doing
  <1>2. tickets \subseteq AnyTicket /\ IsFiniteSet(tickets) /\ runs \in Nat
    BY DEF LifecycleInv, RecordInv
  <1>3. Cardinality(mine) \in Nat
    BY <1>2, FS_Subset, FS_CardinalityType
  <1>4. t \in AnyTicket
    BY <1>3 DEF AnyTicket
  <1> HIDE DEF t
  <1>5. tickets' \subseteq AnyTicket /\ IsFiniteSet(tickets')
    BY <1>1, <1>2, <1>4, FS_AddElement
  <1> QED
    BY <1>1, <1>2, <1>4, <1>5, OutboundKeeps

LEMMA ReadTicketKeeps ==
    ASSUME LifecycleInv, NEW c \in Client, ReadTicket(c)
    PROVE  LifecycleInv'
  <1>1. /\ tickets' = tickets \cup {call[c].got} /\ (Continue(c, call[c].got) \/ Fail(c))
        /\ Head(call[c].todo) = "readTicket" /\ call[c] # Idle
        /\ UNCHANGED <<state, evidence, fpr, runs, calls>>
    BY DEF ReadTicket, Answered, Doing
  <1>2. tickets \subseteq AnyTicket /\ IsFiniteSet(tickets) /\ runs \in Nat
    BY DEF LifecycleInv, RecordInv
  <1>3. call[c].got \in AnyTicket
    BY <1>1 DEF LifecycleInv, CallsInv, RequestInv, HasInHand
  <1>4. tickets' \subseteq AnyTicket /\ IsFiniteSet(tickets')
    BY <1>1, <1>2, <1>3, FS_AddElement
  <1> QED
    BY <1>1, <1>2, <1>3, <1>4, OutboundKeeps

LEMMA StartRunKeeps ==
    ASSUME LifecycleInv, NEW c \in Client, StartRun(c)
    PROVE  LifecycleInv'
  <1>1. /\ runs' = runs + 1 /\ (Continue(c, runs + 1) \/ Fail(c))
        /\ Head(call[c].todo) = "run" /\ call[c] # Idle
        /\ UNCHANGED <<state, evidence, fpr, tickets, calls>>
    BY DEF StartRun, Answered, Doing
  <1>2. tickets \subseteq AnyTicket /\ IsFiniteSet(tickets) /\ runs + 1 \in Nat
    BY DEF LifecycleInv, RecordInv
  <1> QED
    BY <1>1, <1>2, OutboundKeeps

LEMMA StartSessionKeeps ==
    ASSUME LifecycleInv, NEW c \in Client, StartSession(c)
    PROVE  LifecycleInv'
  BY OutboundKeeps DEF StartSession, Answered, Doing, LifecycleInv, RecordInv

\* A request that fails without having written.
LEMMA FailKeeps ==
    ASSUME LifecycleInv, NEW c \in Client, Fail(c),
           UNCHANGED <<state, evidence, tickets, runs>>
    PROVE  LifecycleInv'
  <1>1. CallsInv /\ RecordInv
    BY DEF LifecycleInv
  <1>2. RequestInv(c)'
    BY <1>1, FailEffect DEF RequestInv, Idle
  <1>3. \A t : OfType(t) = OfType(t)'
    BY DEF OfType
  <1>4. CallsInv'
    BY <1>1, <1>2, <1>3, FailEffect, OthersKeep
  <1> QED
    BY <1>1, <1>4 DEF LifecycleInv, RecordInv, OfType

LEMMA AbortKeeps ==
    ASSUME LifecycleInv, NEW c \in Client, Abort(c)
    PROVE  LifecycleInv'
  BY FailKeeps DEF Abort

\* The state becomes escalated only when an escalation is on record.
LEMMA SetTerminalStateKeeps ==
    ASSUME LifecycleInv, NEW c \in Client, SetTerminalState(c)
    PROVE  LifecycleInv'
  <1>1. /\ Head(call[c].todo) \in {"resolve", "close", "escalate"} /\ call[c] # Idle
        /\ state' = StateOf(Head(call[c].todo))
        /\ Continue(c, call[c].got)
        /\ UNCHANGED <<evidence, fpr, tickets, runs, calls>>
    BY DEF SetTerminalState, Doing
  <1>2. CallsInv /\ RecordInv
    BY DEF LifecycleInv
  <1>3. /\ state' \in Terminal
        /\ state' = "escalated" => Head(call[c].todo) = "escalate"
    BY <1>1 DEF StateOf, Terminal
  <1>4. state' = "escalated" => OfType("escalation") # {}
    BY <1>1, <1>2, <1>3 DEF CallsInv, RequestInv, WroteTicket
  <1>5. \A t : OfType(t) \subseteq OfType(t)'
    BY <1>1 DEF OfType
  <1>6. Head(call[c].todo) \notin {"ticket", "readTicket", "run", "escalation"}
    BY <1>1
  <1>7. CallsInv'
    BY <1>1, <1>2, <1>5, <1>6, WriteKeeps
  <1>8. RecordInv'
    BY <1>1, <1>2, <1>3, <1>4 DEF RecordInv, OfType
  <1> QED
    BY <1>7, <1>8 DEF LifecycleInv

\* What is written is an entry.
LEMMA NewEntryIsEntry ==
    ASSUME LifecycleInv, NEW c \in Client, call[c] # Idle,
           Head(call[c].todo) \in {"bindRun", "bindSession", "escalation", "decision", "report", "approval"}
    PROVE  /\ NewEntry(Head(call[c].todo), call[c].got) \in AnyEntry
           /\ Head(call[c].todo) = "escalation"
                => NewEntry(Head(call[c].todo), call[c].got).type = "escalation"
           /\ Head(call[c].todo) = "report"
                => NewEntry(Head(call[c].todo), call[c].got) = [type |-> "status", id |-> call[c].got]
           /\ Head(call[c].todo) = "approval"
                => NewEntry(Head(call[c].todo), call[c].got) = [type |-> "approval", id |-> call[c].got]
  <1>1. HasInHand(call[c])
    BY DEF LifecycleInv, CallsInv, RequestInv
  <1> QED
    BY <1>1 DEF HasInHand, NewEntry, AnyEntry

LEMMA AppendEvidenceKeeps ==
    ASSUME LifecycleInv, NEW c \in Client, AppendEvidence(c)
    PROVE  LifecycleInv'
  <1> DEFINE e == NewEntry(Head(call[c].todo), call[c].got)
  <1>1. /\ call[c] # Idle
        /\ Head(call[c].todo) \in {"bindRun", "bindSession", "escalation", "decision", "report", "approval"}
        /\ evidence' = Append(evidence, e)
        /\ Continue(c, call[c].got)
        /\ UNCHANGED <<state, fpr, tickets, runs, calls>>
    BY DEF AppendEvidence, Doing
  <1>2. CallsInv /\ RecordInv
    BY DEF LifecycleInv
  <1>3. e \in AnyEntry /\ (Head(call[c].todo) = "escalation" => e.type = "escalation")
    BY <1>1, NewEntryIsEntry
  <1> HIDE DEF e
  <1>4. /\ evidence' \in Seq(AnyEntry)
        /\ \A t : OfType(t) \subseteq OfType(t)'
        /\ e.type = "escalation" => OfType("escalation")' # {}
    BY <1>1, <1>2, <1>3, AppendedEntry DEF RecordInv
  <1>5. Head(call[c].todo) = "escalation" => OfType("escalation")' # {}
    BY <1>3, <1>4
  <1>6. CallsInv'
    BY <1>1, <1>2, <1>4, <1>5, WriteKeeps
  <1>7. OfType("escalation") \subseteq OfType("escalation")'
    BY <1>4
  <1>8. RecordInv'
    BY <1>1, <1>2, <1>4, <1>7 DEF RecordInv
  <1> QED
    BY <1>6, <1>8 DEF LifecycleInv

LEMMA MarkInProgressKeeps ==
    ASSUME LifecycleInv, NEW c \in Client, MarkInProgress(c)
    PROVE  LifecycleInv'
  <1>1. CASE state # "pending"
    <2>1. Fail(c) /\ UNCHANGED <<state, evidence, tickets, runs>>
      BY <1>1 DEF MarkInProgress
    <2> QED
      BY <2>1, FailKeeps
  <1>2. CASE state = "pending"
    <2> DEFINE e == [type |-> "run", id |-> call[c].got]
    <2>1. /\ call[c] # Idle /\ Head(call[c].todo) = "flip"
          /\ state' = "in_progress"
          /\ evidence' = Append(evidence, e)
          /\ Continue(c, None)
          /\ UNCHANGED <<fpr, tickets, runs, calls>>
      BY <1>2 DEF MarkInProgress, Doing
    <2>2. CallsInv /\ RecordInv
      BY DEF LifecycleInv
    <2>3. call[c].got \in Nat
      BY <2>1, <2>2 DEF CallsInv, RequestInv, HasInHand
    <2>4. e \in AnyEntry
      BY <2>3 DEF AnyEntry
    <2> HIDE DEF e
    <2>5. evidence' \in Seq(AnyEntry) /\ \A t : OfType(t) \subseteq OfType(t)'
      BY <2>1, <2>2, <2>4, AppendedEntry DEF RecordInv
    <2>6. CallsInv'
      BY <2>1, <2>2, <2>5, WriteKeeps
    <2>7. RecordInv'
      BY <2>1, <2>2, <2>5 DEF RecordInv
    <2> QED
      BY <2>6, <2>7 DEF LifecycleInv
  <1> QED
    BY <1>1, <1>2

-----------------------------------------------------------------------------
(***************************************************************************)
(* Theorems.                                                               *)
(***************************************************************************)
LEMMA LifecycleInvInit == Init => LifecycleInv
  <1> SUFFICES ASSUME Init PROVE LifecycleInv
    OBVIOUS
  <1>1. RecordInv
    BY FS_EmptySet, EmptySeq DEF Init, RecordInv
  <1>2. CallsInv
    BY DEF Init, CallsInv, RequestInv
  <1> QED
    BY <1>1, <1>2 DEF LifecycleInv

LEMMA LifecycleInvStep == LifecycleInv /\ [Next]_vars => LifecycleInv'
  <1> SUFFICES ASSUME LifecycleInv, [Next]_vars PROVE LifecycleInv'
    OBVIOUS
  <1>1. CASE \E c \in Client : ResolveProblem(c)
    BY <1>1, ResolveProblemKeeps
  <1>2. CASE \E c \in Client : IgnoreProblem(c)
    BY <1>2, IgnoreProblemKeeps
  <1>3. CASE \E c \in Client : EscalateProblem(c)
    BY <1>3, EscalateProblemKeeps
  <1>4. CASE \E c \in Client, t \in tickets, s \in Status : ReportTicketStatus(c, t, s)
    BY <1>4, ReportTicketStatusKeeps
  <1>5. CASE \E c \in Client, rerun \in BOOLEAN : AnalyzeProblem(c, rerun)
    BY <1>5, AnalyzeProblemKeeps
  <1>6. CASE \E c \in Client : DiagnoseProblem(c)
    BY <1>6, DiagnoseProblemKeeps
  <1>7. CASE \E c \in Client, d \in Decisions : DecideDiagnosis(c, d)
    BY <1>7, DecideDiagnosisKeeps
  <1>8. CASE \E c \in Client, r \in 1..runs : RecordRunDecision(c, r)
    BY <1>8, RecordRunDecisionKeeps
  <1>9. CASE \E c \in Client : AutoResolve(c)
    BY <1>9, AutoResolveKeeps
  <1>10. CASE \E c \in Client : WriteFpr(c)
    BY <1>10, WriteFprKeeps
  <1>11. CASE \E c \in Client : SetTerminalState(c)
    BY <1>11, SetTerminalStateKeeps
  <1>12. CASE \E c \in Client : CreateTicket(c)
    BY <1>12, CreateTicketKeeps
  <1>13. CASE \E c \in Client : ReadTicket(c)
    BY <1>13, ReadTicketKeeps
  <1>14. CASE \E c \in Client : StartRun(c)
    BY <1>14, StartRunKeeps
  <1>15. CASE \E c \in Client : StartSession(c)
    BY <1>15, StartSessionKeeps
  <1>16. CASE \E c \in Client : MarkInProgress(c)
    BY <1>16, MarkInProgressKeeps
  <1>17. CASE \E c \in Client : AppendEvidence(c)
    BY <1>17, AppendEvidenceKeeps
  <1>18. CASE \E c \in Client : Abort(c)
    BY <1>18, AbortKeeps
  <1>19. CASE UNCHANGED vars
    BY <1>19 DEF vars, LifecycleInv, RecordInv, CallsInv, RequestInv, IsRequest, HasInHand,
                 WroteTicket, OfType
  <1> QED
    BY <1>1, <1>2, <1>3, <1>4, <1>5, <1>6, <1>7, <1>8, <1>9, <1>10, <1>11, <1>12, <1>13, <1>14,
       <1>15, <1>16, <1>17, <1>18, <1>19 DEF Next

LEMMA LifecycleInvHolds == Spec => []LifecycleInv
  BY LifecycleInvInit, LifecycleInvStep, PTL DEF Spec

\* Whatever requests overlap, fail or lose their answers, an escalated problem
\* names its ticket (escalate_problem, _apply_escalated_state).
THEOREM EscalationHasTicket == Spec => []EscalatedHoldsTicket
  <1>1. LifecycleInv => EscalatedHoldsTicket
    BY CreatedTicketIsTicket DEF LifecycleInv, RecordInv, EscalatedHoldsTicket
  <1> QED
    BY <1>1, LifecycleInvHolds, PTL

\* No request moves the record out of a terminal state (mark_in_progress tests
\* the state in its UPDATE; the other calls that set the state set a terminal one).
THEOREM TerminalStays == Spec => TerminalNeverReopens
  <1>1. ASSUME [Next]_vars, state \in Terminal
        PROVE  state' \in Terminal
    <2>1. ASSUME NEW c \in Client, SetTerminalState(c)
          PROVE  state' \in Terminal
      BY <2>1 DEF SetTerminalState, Doing, StateOf, Terminal
    <2>2. ASSUME NEW c \in Client, MarkInProgress(c)
          PROVE  state' = state
      BY <1>1, <2>2 DEF MarkInProgress, Terminal
    <2> QED
      BY <1>1, <2>1, <2>2
      DEF Next, vars, Begin, ResolveProblem, IgnoreProblem, EscalateProblem, ReportTicketStatus,
          AnalyzeProblem, DiagnoseProblem, DecideDiagnosis, RecordRunDecision, AutoResolve,
          WriteFpr, CreateTicket, ReadTicket, StartRun, StartSession, AppendEvidence, Abort
  <1>2. [Next]_vars => [(state \in Terminal) => state' \in Terminal]_vars
    BY <1>1
  <1> QED
    BY <1>2, PTL DEF Spec, TerminalNeverReopens

-----------------------------------------------------------------------------
(***************************************************************************)
(* What is told again.  The copies of an entry and the requests that are   *)
(* about to write one more are no more than the requests there can be: a   *)
(* request begins only while there is no copy, and then the bound is that  *)
(* of the requests; writing makes a copy of a request.                     *)
(***************************************************************************)
ToldEntry == [type : {"status"}, id : AnyTicket \X Status] \cup [type : {"approval"}, id : Nat]

\* The request is about to write e.
AboutTo(r, e) == r # Idle /\ Head(r.todo) \in {"report", "approval"} /\ NewEntry(Head(r.todo), r.got) = e

Pending(e) == {c \in Client : AboutTo(call[c], e)}

Bounded(e) == Cardinality(Copies(e)) + Cardinality(Pending(e)) <= Cardinality(Client)

ToldInv == \A e \in ToldEntry : Bounded(e)

LEMMA FiniteSides ==
    ASSUME evidence \in Seq(AnyEntry), NEW e
    PROVE  /\ IsFiniteSet(Copies(e)) /\ IsFiniteSet(Pending(e))
           /\ Cardinality(Copies(e)) \in Nat /\ Cardinality(Pending(e)) \in Nat
           /\ Cardinality(Client) \in Nat
           /\ Cardinality(Pending(e)) <= Cardinality(Client)
  <1>1. Copies(e) \subseteq 1..Len(evidence) /\ Len(evidence) \in Nat
    BY LenProperties DEF Copies
  <1>2. IsFiniteSet(1..Len(evidence))
    BY <1>1, FS_Interval
  <1>3. Pending(e) \subseteq Client /\ IsFiniteSet(Client)
    BY LifecycleAssumption DEF Pending
  <1> QED
    BY <1>1, <1>2, <1>3, FS_Subset, FS_CardinalityType

\* Who wrote nothing and is not new to what it writes.
LEMMA NoNewsKeeps ==
    ASSUME LifecycleInv, LifecycleInv', NEW e, Bounded(e), Copies(e)' = Copies(e),
           Pending(e)' \subseteq Pending(e)
    PROVE  Bounded(e)'
  <1>1. evidence \in Seq(AnyEntry) /\ evidence' \in Seq(AnyEntry)
    BY DEF LifecycleInv, RecordInv
  <1>2. /\ IsFiniteSet(Pending(e)) /\ Cardinality(Copies(e)) \in Nat /\ Cardinality(Pending(e)) \in Nat
        /\ Cardinality(Client) \in Nat
    BY <1>1, FiniteSides
  <1>3. Cardinality(Pending(e)') \in Nat /\ Cardinality(Pending(e)') <= Cardinality(Pending(e))
    BY <1>2, FS_Subset, FS_CardinalityType
  <1> QED
    BY <1>2, <1>3 DEF Bounded

\* A request that begins, and what it tells is not on record.
LEMMA BeginIsBounded ==
    ASSUME LifecycleInv, LifecycleInv', ToldInv, NEW c \in Client, NEW op, NEW todo, NEW got,
           call' = [call EXCEPT ![c] = [op |-> op, todo |-> todo, got |-> got]], evidence' = evidence,
           Head(todo) \in {"report", "approval"}
               => \A i \in DOMAIN evidence : evidence[i] # NewEntry(Head(todo), got)
    PROVE  ToldInv'
  <1> SUFFICES ASSUME NEW e \in ToldEntry PROVE Bounded(e)'
    BY DEF ToldInv
  <1>1. PICK r : r = [op |-> op, todo |-> todo, got |-> got]
    OBVIOUS
  <1>6. r.todo = todo /\ r.got = got
    BY <1>1
  <1>2. (\A d \in Client \ {c} : call'[d] = call[d]) /\ call'[c] = r
    BY <1>1 DEF LifecycleInv, CallsInv
  <1>3. Copies(e)' = Copies(e) /\ Bounded(e)
    BY DEF Copies, ToldInv
  <1>4. CASE AboutTo(r, e)
    <2>1. Copies(e) = {}
      BY <1>6, <1>4 DEF AboutTo, Copies
    <2>2. Cardinality(Copies(e)') = 0
      BY <1>3, <2>1, FS_EmptySet
    <2>3. evidence' \in Seq(AnyEntry)
      BY DEF LifecycleInv, RecordInv
    <2>4. /\ Cardinality(Pending(e)') \in Nat /\ Cardinality(Client) \in Nat
          /\ Cardinality(Pending(e)') <= Cardinality(Client)
      <3>1. (evidence \in Seq(AnyEntry) =>
                /\ Cardinality(Pending(e)) \in Nat /\ Cardinality(Client) \in Nat
                /\ Cardinality(Pending(e)) <= Cardinality(Client))'
        BY FiniteSides, PTL
      <3> QED
        BY <2>3, <3>1
    <2> QED
      BY <2>2, <2>4 DEF Bounded
  <1>5. CASE ~AboutTo(r, e)
    <2>1. Pending(e)' \subseteq Pending(e)
      BY <1>2, <1>5 DEF Pending, AboutTo
    <2> QED
      BY <1>3, <2>1, NoNewsKeeps
  <1> QED
    BY <1>4, <1>5

\* No plan leads to a report or an approval: a request that goes on tells nothing new.
LEMMA GoesOnQuietly ==
    ASSUME LifecycleInv, NEW c \in Client, call[c] # Idle,
           (\E got : Continue(c, got)) \/ Fail(c), NEW e
    PROVE  Pending(e)' \subseteq Pending(e) \ {c}
  <1>1. \A d \in Client \ {c} : call'[d] = call[d]
    BY ContinueEffect, FailEffect DEF LifecycleInv
  <1>2. ~AboutTo(call'[c], e)
    <2> SUFFICES ASSUME call'[c] # Idle PROVE Head(call'[c].todo) \notin {"report", "approval"}
      BY DEF AboutTo
    <2>1. CallsInv
      BY DEF LifecycleInv
    <2>2. PICK got : Continue(c, got)
      BY <2>1, FailEffect
    <2>3. PICK r : r = [op |-> call[c].op, todo |-> Tail(call[c].todo), got |-> got]
      OBVIOUS
    <2>4. Len(call[c].todo) # 1 /\ call'[c] = r /\ r.todo = Tail(call[c].todo)
      BY <2>1, <2>2, <2>3, ContinueEffect
    <2>5. call[c].todo \in Plans
      BY <2>1 DEF CallsInv, RequestInv, IsRequest
    <2>6. Head(Tail(call[c].todo)) \in
              {"escalation", "escalate", "flip", "bindRun", "resolve", "bindSession", "decision"}
      BY <2>4, <2>5, PlanSteps
    <2> QED
      BY <2>4, <2>6
  <1> QED
    BY <1>1, <1>2 DEF Pending

\* A call that does not append.
LEMMA CallIsBounded ==
    ASSUME LifecycleInv, LifecycleInv', ToldInv, NEW c \in Client, call[c] # Idle,
           (\E got : Continue(c, got)) \/ Fail(c), evidence' = evidence
    PROVE  ToldInv'
  <1> SUFFICES ASSUME NEW e \in ToldEntry PROVE Bounded(e)'
    BY DEF ToldInv
  <1>1. Pending(e)' \subseteq Pending(e)
    BY GoesOnQuietly
  <1>2. Copies(e)' = Copies(e) /\ Bounded(e)
    BY DEF Copies, ToldInv
  <1> QED
    BY <1>1, <1>2, NoNewsKeeps

\* A call that appends x: a copy for a request, if x is what is told.
LEMMA AppendIsBounded ==
    ASSUME LifecycleInv, LifecycleInv', ToldInv, NEW c \in Client, call[c] # Idle,
           \E got : Continue(c, got), NEW x \in AnyEntry, evidence' = Append(evidence, x),
           x \in ToldEntry => AboutTo(call[c], x)
    PROVE  ToldInv'
  <1> SUFFICES ASSUME NEW e \in ToldEntry PROVE Bounded(e)'
    BY DEF ToldInv
  <1>0. evidence \in Seq(AnyEntry) /\ Bounded(e)
    BY DEF LifecycleInv, RecordInv, ToldInv
  <1>1. Pending(e)' \subseteq Pending(e) \ {c}
    BY GoesOnQuietly
  <1>2. PICK n : n = Len(evidence) + 1
    OBVIOUS
  <1>3. /\ DOMAIN evidence' = DOMAIN evidence \cup {n} /\ n \notin DOMAIN evidence
        /\ \A i \in DOMAIN evidence : evidence'[i] = evidence[i]
        /\ evidence'[n] = x
    BY <1>0, <1>2, AppendedEntry
  <1>4. CASE x # e
    <2>1. Copies(e)' = Copies(e)
      BY <1>3, <1>4 DEF Copies
    <2> QED
      BY <1>0, <1>1, <2>1, NoNewsKeeps
  <1>5. CASE x = e
    <2>1. Copies(e)' = Copies(e) \cup {n} /\ n \notin Copies(e)
      BY <1>3, <1>5 DEF Copies
    <2>2. c \in Pending(e)
      BY <1>5 DEF Pending
    <2>3. /\ IsFiniteSet(Copies(e)) /\ IsFiniteSet(Pending(e))
          /\ Cardinality(Copies(e)) \in Nat /\ Cardinality(Pending(e)) \in Nat
          /\ Cardinality(Client) \in Nat
      BY <1>0, FiniteSides
    <2>4. Cardinality(Copies(e)') = Cardinality(Copies(e)) + 1
      BY <2>1, <2>3, FS_AddElement
    <2>5. /\ IsFiniteSet(Pending(e) \ {c})
          /\ Cardinality(Pending(e) \ {c}) = Cardinality(Pending(e)) - 1
      BY <2>2, <2>3, FS_RemoveElement
    <2>6. /\ Cardinality(Pending(e)') \in Nat
          /\ Cardinality(Pending(e)') <= Cardinality(Pending(e) \ {c})
      BY <1>1, <2>5, FS_Subset, FS_CardinalityType
    <2> QED
      BY <1>0, <2>3, <2>4, <2>5, <2>6 DEF Bounded
  <1> QED
    BY <1>4, <1>5

\* A handler tests for what it is about to tell; the rest of them tell nothing.
LEMMA BeginsAreBounded ==
    ASSUME LifecycleInv, LifecycleInv', ToldInv, NEW c \in Client,
           \/ ResolveProblem(c) \/ IgnoreProblem(c) \/ EscalateProblem(c) \/ DiagnoseProblem(c)
           \/ AutoResolve(c)
           \/ \E t \in tickets, s \in Status : ReportTicketStatus(c, t, s)
           \/ \E rerun \in BOOLEAN : AnalyzeProblem(c, rerun)
           \/ \E d \in Decisions : DecideDiagnosis(c, d)
           \/ \E r \in 1..runs : RecordRunDecision(c, r)
    PROVE  ToldInv'
  <1> DEFINE Begun(op, todo, got) ==
               /\ call' = [call EXCEPT ![c] = [op |-> op, todo |-> todo, got |-> got]]
               /\ evidence' = evidence
  <1>1. ASSUME NEW op, NEW todo, NEW got, Begun(op, todo, got), Head(todo) \notin {"report", "approval"}
        PROVE  ToldInv'
    BY <1>1, BeginIsBounded
  <1>2. CASE ResolveProblem(c)
    <2>1. Begun("resolve", <<"fpr", "resolve">>, None)
      BY <1>2 DEF ResolveProblem, Begin
    <2>2. Head(<<"fpr", "resolve">>) = "fpr"
      BY ShortTuples
    <2> QED
      BY <1>1, <2>1, <2>2
  <1>3. CASE IgnoreProblem(c)
    <2>1. Begun("ignore", <<"close">>, None)
      BY <1>3 DEF IgnoreProblem, Begin
    <2>2. Head(<<"close">>) = "close"
      BY ShortTuples
    <2> QED
      BY <1>1, <2>1, <2>2
  <1>4. CASE EscalateProblem(c)
    <2>1. PICK todo : todo = <<"ticket", "escalation", "escalate">>
      OBVIOUS
    <2>2. Begun("escalate", todo, None)
      BY <1>4, <2>1 DEF EscalateProblem, Begin
    <2>3. Head(todo) = "ticket"
      BY <2>1, ShortTuples
    <2> QED
      BY <2>2, <2>3, BeginIsBounded
  <1>5. CASE DiagnoseProblem(c)
    <2>1. PICK todo : todo = <<"session", "bindSession">>
      OBVIOUS
    <2>2. Begun("diagnose", todo, None)
      BY <1>5, <2>1 DEF DiagnoseProblem, Begin
    <2>3. Head(todo) = "session"
      BY <2>1, ShortTuples
    <2> QED
      BY <2>2, <2>3, BeginIsBounded
  <1>6. CASE AutoResolve(c)
    BY <1>1, <1>6, ShortTuples DEF AutoResolve, Begin
  <1>7. ASSUME NEW t \in tickets, NEW s \in Status, ReportTicketStatus(c, t, s) PROVE ToldInv'
    <2>1. PICK todo : todo = IF s = "resolved" /\ state = "escalated" THEN <<"report", "resolve">>
                             ELSE <<"report">>
      OBVIOUS
    <2>2. Begun("report", todo, <<t, s>>) /\ ~AlreadyReported(t, s)
      BY <1>7, <2>1 DEF ReportTicketStatus, Begin
    <2>3. Head(todo) = "report"
      BY <2>1, ShortTuples
    <2>4. NewEntry("report", <<t, s>>) = [type |-> "status", id |-> <<t, s>>]
      BY DEF NewEntry
    <2>5. \A i \in DOMAIN evidence : evidence[i] # NewEntry(Head(todo), <<t, s>>)
      BY <2>2, <2>3, <2>4 DEF AlreadyReported
    <2> QED
      BY <2>2, <2>5, BeginIsBounded
  <1>8. ASSUME NEW rerun \in BOOLEAN, AnalyzeProblem(c, rerun) PROVE ToldInv'
    <2>1. PICK todo : todo = IF state = "pending" THEN <<"run", "flip">> ELSE <<"run", "bindRun">>
      OBVIOUS
    <2>2. Begun("analyze", todo, None)
      BY <1>8, <2>1 DEF AnalyzeProblem, Begin
    <2>3. Head(todo) = "run"
      BY <2>1, ShortTuples
    <2> QED
      BY <1>1, <2>2, <2>3
  <1>9. ASSUME NEW d \in Decisions, DecideDiagnosis(c, d) PROVE ToldInv'
    <2>1. PICK todo : todo = IF LatestRun # None THEN DecideAgentflow(d) ELSE DecideSession(d)
      OBVIOUS
    <2>2. Begun("decide", todo, DecideGot(d))
      BY <1>9, <2>1 DEF DecideDiagnosis, Begin
    <2>3. todo \in {<<"escalation", "escalate">>, <<"readTicket", "escalation", "escalate">>,
                    <<"ticket", "escalation", "escalate">>, <<"run", "bindRun", "decision">>,
                    <<"decision">>, <<"fpr", "resolve", "decision">>, <<"close", "decision">>}
      <3>1. CASE d = "escalate"
        BY <2>1, <3>1 DEF DecideAgentflow, DecideSession
      <3>2. CASE d # "escalate"
        BY <2>1, <3>2 DEF DecideAgentflow, DecideSession, Decisions
      <3> QED
        BY <3>1, <3>2
    <2>4. Head(todo) \notin {"report", "approval"}
      BY <2>3, ShortTuples
    <2> QED
      BY <1>1, <2>2, <2>4
  <1>10. ASSUME NEW r \in 1..runs, RecordRunDecision(c, r) PROVE ToldInv'
    <2>1. Begun("approval", <<"approval">>, r) /\ \A i \in OfType("approval") : evidence[i].id # r
      BY <1>10 DEF RecordRunDecision, Begin
    <2>2. NewEntry("approval", r) = [type |-> "approval", id |-> r] /\ Head(<<"approval">>) = "approval"
      BY ShortTuples DEF NewEntry
    <2>3. \A i \in DOMAIN evidence : evidence[i] # NewEntry("approval", r)
      BY <2>1, <2>2 DEF OfType
    <2> QED
      BY <2>1, <2>2, <2>3, BeginIsBounded
  <1> QED
    BY <1>2, <1>3, <1>4, <1>5, <1>6, <1>7, <1>8, <1>9, <1>10

\* What is appended is what a request was about to tell, or no telling.
LEMMA WritesAreBounded ==
    ASSUME LifecycleInv, LifecycleInv', ToldInv, NEW c \in Client, AppendEvidence(c) \/ MarkInProgress(c)
    PROVE  ToldInv'
  <1>1. call[c] # Idle /\ HasInHand(call[c])
    BY DEF AppendEvidence, MarkInProgress, Doing, LifecycleInv, CallsInv, RequestInv
  <1>2. CASE AppendEvidence(c)
    <2>1. PICK x : x = NewEntry(Head(call[c].todo), call[c].got)
      OBVIOUS
    <2>2. /\ Head(call[c].todo) \in {"bindRun", "bindSession", "escalation", "decision", "report", "approval"}
          /\ evidence' = Append(evidence, x) /\ \E got : Continue(c, got)
      BY <1>2, <2>1 DEF AppendEvidence, Doing
    <2>3. x \in AnyEntry
      BY <1>1, <2>1, <2>2, NewEntryIsEntry
    <2>4. Head(call[c].todo) \notin {"report", "approval"} => x.type \notin {"status", "approval"}
      BY <2>1, <2>2 DEF NewEntry
    <2>5. x \in ToldEntry => x.type \in {"status", "approval"}
      BY DEF ToldEntry
    <2>6. x \in ToldEntry => AboutTo(call[c], x)
      BY <1>1, <2>1, <2>4, <2>5 DEF AboutTo
    <2> QED
      BY <1>1, <2>2, <2>3, <2>6, AppendIsBounded
  <1>3. CASE MarkInProgress(c) /\ state = "pending"
    <2>1. PICK x : x = [type |-> "run", id |-> call[c].got]
      OBVIOUS
    <2>2. evidence' = Append(evidence, x) /\ (\E got : Continue(c, got)) /\ Head(call[c].todo) = "flip"
      BY <1>3, <2>1 DEF MarkInProgress, Doing
    <2>3. x \in AnyEntry
      BY <1>1, <2>1, <2>2 DEF HasInHand, AnyEntry
    <2>4. x \notin ToldEntry
      BY <2>1 DEF ToldEntry
    <2> QED
      BY <1>1, <2>2, <2>3, <2>4, AppendIsBounded
  <1>4. CASE MarkInProgress(c) /\ state # "pending"
    BY <1>1, <1>4, CallIsBounded DEF MarkInProgress
  <1> QED
    BY <1>2, <1>3, <1>4

LEMMA ToldInvStep == LifecycleInv /\ LifecycleInv' /\ ToldInv /\ [Next]_vars => ToldInv'
  <1> SUFFICES ASSUME LifecycleInv, LifecycleInv', ToldInv, [Next]_vars PROVE ToldInv'
    OBVIOUS
  <1>1. ASSUME NEW c \in Client,
               \/ WriteFpr(c) \/ SetTerminalState(c) \/ CreateTicket(c) \/ ReadTicket(c)
               \/ StartRun(c) \/ StartSession(c) \/ Abort(c)
        PROVE  ToldInv'
    <2>1. call[c] # Idle /\ ((\E got : Continue(c, got)) \/ Fail(c)) /\ evidence' = evidence
      BY <1>1 DEF WriteFpr, SetTerminalState, CreateTicket, ReadTicket, StartRun, StartSession,
                  Abort, Answered, Doing
    <2> QED
      BY <2>1, CallIsBounded
  <1>2. CASE UNCHANGED vars
    <2>1. \A e : Copies(e)' = Copies(e) /\ Pending(e)' = Pending(e)
      BY <1>2 DEF vars, Copies, Pending
    <2> QED
      BY <2>1 DEF ToldInv, Bounded
  <1> QED
    BY <1>1, <1>2, BeginsAreBounded, WritesAreBounded DEF Next

LEMMA ToldInvInit == Init => ToldInv
  <1> SUFFICES ASSUME Init, NEW e \in ToldEntry PROVE Bounded(e)
    BY DEF ToldInv
  <1>1. Copies(e) = {} /\ Pending(e) = {}
    BY DEF Init, Copies, Pending, AboutTo
  <1>2. Cardinality(Client) \in Nat
    BY LifecycleAssumption, FS_CardinalityType
  <1> QED
    BY <1>1, <1>2, FS_EmptySet DEF Bounded

\* Whatever requests overlap, fail and are told again: of a ticket's status and of a run's
\* approval there are at most as many copies on record as there can be requests at a time
\* (report_ticket_status, record_run_decision).
THEOREM ToldAgainIsBounded == Spec => []ToldIsBounded
  <1>1. LifecycleInv /\ ToldInv => ToldIsBounded
    <2> SUFFICES ASSUME LifecycleInv, ToldInv, NEW e \in Told
                 PROVE  Cardinality(Copies(e)) <= Cardinality(Client)
      BY DEF ToldIsBounded
    <2>1. evidence \in Seq(AnyEntry)
      BY DEF LifecycleInv, RecordInv
    <2>2. PICK i \in DOMAIN evidence : evidence[i] = e /\ e.type \in {"status", "approval"}
      BY DEF Told
    <2>3. e \in AnyEntry
      BY <2>1, <2>2, EvidenceEntry
    <2>4. e \in ToldEntry
      BY <2>2, <2>3 DEF AnyEntry, ToldEntry
    <2>5. /\ Cardinality(Copies(e)) \in Nat /\ Cardinality(Pending(e)) \in Nat
          /\ Cardinality(Client) \in Nat
      BY <2>1, FiniteSides
    <2> QED
      BY <2>4, <2>5 DEF ToldInv, Bounded
  <1>2. Init => LifecycleInv /\ ToldInv
    BY LifecycleInvInit, ToldInvInit
  <1>3. LifecycleInv /\ ToldInv /\ [Next]_vars => LifecycleInv' /\ ToldInv'
    BY LifecycleInvStep, ToldInvStep
  <1> QED
    BY <1>1, <1>2, <1>3, PTL DEF Spec
=============================================================================
