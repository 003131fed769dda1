------------------------- MODULE DiagnosisRunsProofs -------------------------
(***************************************************************************)
(* Proofs about a record and its agentflow runs, for any number of         *)
(* requests, runs, advice and names of the approval node.                  *)
(***************************************************************************)
EXTENDS DiagnosisRuns, TLAPS, FiniteSetTheorems, WellFoundedInduction, SequenceTheorems

-----------------------------------------------------------------------------
(***************************************************************************)
(* The inductive invariant.                                                *)
(***************************************************************************)
Gates == {"ahead", "pending", "approved", "rejected", "expired"}

Answers == {"none", "already_escalated", "no_pending_gate", "approved", "rejected", "failed",
            "unreachable"}

Statuses == {"none", "unknown", "analyzing", "completed", "failed", "closed_manual"}

RunStatuses == Over \cup {"running", "waiting_approval"}

Verdicts == {"approved", "rejected"}

Steps == {"idle", "fetch", "answer", "ticket", "create", "start", "bind", "close", "record",
          "escalate", "runs", "shown"}

Kinds == Decisions \cup {"analyze", "direct", "page", None}

MaybeRun == Nat \cup {None}

MaybeAdvice == Advice \cup {None}

Tickets == {"run", "direct"} \X Nat

MaybeTicket == Tickets \cup {None}

MaybeGate == GateNames \cup {None}

RunSets == SUBSET Nat

SeenSets == SUBSET (Nat \X Statuses)

Run == [status : RunStatuses, gate : Gates, node : GateNames, plan : BOOLEAN,
        ticket : {"none", "done", "failed"}, advice : MaybeAdvice]

Entry == [type : {"agent_run", "diagnose_decision"}, run : MaybeRun, decision : Kinds,
          advice : MaybeAdvice, ticket : MaybeTicket, answer : Answers]

Request == [pc : Steps, op : Kinds, run : MaybeRun, advice : MaybeAdvice, past : MaybeAdvice,
            ticket : MaybeTicket, gate : MaybeGate, answer : Answers, new : MaybeRun,
            todo : RunSets, seen : SeenSets, status : Statuses, read : BOOLEAN, waited : BOOLEAN]

\* agentflow: the ticket of a run is that of a run that was approved.
RunsInv ==
    /\ run \in Seq(Run)
    /\ \A r \in DOMAIN run : run[r].status = "waiting_approval" => run[r].gate # "ahead"
    /\ \A r \in DOMAIN run : run[r].ticket = "done" => run[r].gate = "approved" /\ <<"run", r>> \in tickets
    /\ tickets \subseteq Tickets /\ IsFiniteSet(tickets)
    /\ \A t \in tickets : t[1] = "run" => t[2] \in DOMAIN run /\ run[t[2]].gate = "approved"

\* What the code shows as over has come to its gate or its end.
Settled(r) == run[r].gate # "ahead" \/ run[r].status \in Over

GateAnswered(r, answer) == answer \in Verdicts => run[r].gate = answer

EntryInv(e) ==
    /\ e.type = "agent_run" \/ e.answer \in Verdicts => e.run \in DOMAIN run
    /\ GateAnswered(e.run, e.answer)
    /\ e.type = "diagnose_decision" /\ e.decision = "escalate" => e.ticket \in tickets

EvidenceInv ==
    /\ evidence \in Seq(Entry)
    /\ Places("agent_run") # {}
    /\ \A i \in DOMAIN evidence : EntryInv(evidence[i])

\* Which steps belong to which requests.
StepOfOp(l) ==
    /\ l.pc \in {"fetch", "answer"} => l.op \in Decisions
    /\ l.pc = "record" => l.op \in Decisions \cup {"direct"}
    /\ l.pc \in {"start", "bind"} => l.op \in {"reject", "analyze"}
    /\ l.pc = "ticket" => l.op = "escalate"
    /\ l.pc = "create" => l.op = "direct"
    /\ l.pc = "close" => l.op \in {"ignore", "false_positive"}
    /\ l.pc \in {"runs", "shown"} => l.op = "page"
    /\ l.op \notin {"escalate", "direct"} \/ l.pc \in {"answer", "ticket", "create"} => l.ticket = None

\* The request is about a run.
HasRun(l) == l.pc \notin {"idle", "escalate"} /\ l.op # "direct"

\* What a request knows of the runs is so.
KnowsRuns(l) ==
    /\ HasRun(l) => l.run \in DOMAIN run
    /\ l.read /\ l.waited => l.gate = run[l.run].node
    /\ l.pc = "answer" => l.gate = run[l.run].node /\ run[l.run].gate # "ahead"
    /\ l.answer # "none" \/ l.waited => HasRun(l)
    /\ GateAnswered(l.run, l.answer)
    /\ l.ticket # None \/ (l.pc = "record" /\ l.op \in {"escalate", "direct"}) => l.ticket \in tickets
    /\ l.pc = "bind" => l.new \in DOMAIN run /\ run[l.new].advice = Feedback(l)

Waits(l) == l.waited => run[l.run].gate = "pending"

ShowsRuns(l) ==
    /\ l.todo \subseteq DOMAIN run
    /\ \A x \in l.seen : x[1] \in DOMAIN run /\ (x[2] \notin {"analyzing", "unknown"} => Settled(x[1]))
    /\ l.pc = "shown" /\ l.status \notin {"analyzing", "unknown"} => Settled(l.run)

RequestInv(l) == l \in Request /\ StepOfOp(l) /\ KnowsRuns(l) /\ ShowsRuns(l)

\* A record is escalated after the decision that names its ticket is written.
EscalationOnRecord ==
    state = "escalated" \/ (\E c \in Client : req[c].pc = "escalate") => Escalations # {}

\* The answer that a gate took is held by one entry, or by one request.
AnswersOnce ==
    /\ \A i, j \in DOMAIN evidence :
          evidence[i].answer \in Verdicts /\ evidence[j].answer \in Verdicts
            /\ evidence[i].run = evidence[j].run => i = j
    /\ \A c, d \in Client :
          req[c].answer \in Verdicts /\ req[d].answer \in Verdicts /\ req[c].run = req[d].run => c = d
    /\ \A i \in DOMAIN evidence, c \in Client :
          ~(evidence[i].answer \in Verdicts /\ req[c].answer \in Verdicts /\ evidence[i].run = req[c].run)

\* The tickets that the record names, and the requests that may name another:
\* after the first, no request begins that does not know one.
Named == {evidence[i].ticket : i \in Escalations}

Escalating(l) == l.op \in {"escalate", "direct"} /\ l.pc \notin {"idle", "escalate"}

Unaware == {c \in Client : Escalating(req[c]) /\ req[c].ticket \notin Named}

NamedInv == Named # {} => Cardinality(Named) + Cardinality(Unaware) <= Cardinality(Client)

DiagnosisInv ==
    /\ RunsInv
    /\ EvidenceInv
    /\ req = [c \in Client |-> req[c]]
    /\ \A c \in Client : RequestInv(req[c]) /\ Waits(req[c])
    /\ EscalationOnRecord
    /\ AnswersOnce
    /\ NamedInv

\* The rejections on record and the ones about to be written have runs of
\* their own on record.
Rejections(a) ==
    {i \in DOMAIN evidence : /\ evidence[i].type = "diagnose_decision"
                             /\ evidence[i].decision = "reject" /\ evidence[i].advice = a}

Reruns(a) == {i \in DOMAIN evidence : evidence[i].type = "agent_run" /\ run[evidence[i].run].advice = a}

Rejecting(a) == {c \in Client : req[c].pc = "record" /\ req[c].op = "reject" /\ req[c].advice = a}

AdviceInv ==
    \A a \in Advice :
        /\ IsFiniteSet(Rejecting(a))
        /\ Cardinality(Rejections(a)) + Cardinality(Rejecting(a)) <= Cardinality(Reruns(a))

-----------------------------------------------------------------------------
(***************************************************************************)
(* Operators.                                                              *)
(***************************************************************************)
\* A set of natural numbers that is not empty has a least member, and a
\* greatest one if it is bounded.
LEMMA LeastExists ==
    ASSUME NEW T, T \subseteq Nat, T # {}
    PROVE  \E x \in T : \A y \in T : x <= y
  <1>1. \E x \in T : \A y \in T : ~(<<y, x>> \in OpToRel(<, Nat))
    BY WFMin, NatLessThanWellFounded
  <1>2. \E x \in T : \A y \in T : ~(y < x)
    BY <1>1, Zenon DEF OpToRel
  <1> QED
    BY <1>2

LEMMA GreatestExists ==
    ASSUME NEW n \in Nat, NEW T, T \subseteq 1..n, T # {}
    PROVE  \E x \in T : \A y \in T : y <= x
  <1> DEFINE mirror == {k \in Nat : \E i \in T : k = n - i}
  <1>1. mirror \subseteq Nat /\ mirror # {}
    <2>1. PICK i \in T : TRUE
      OBVIOUS
    <2>2. n - i \in Nat
      BY <2>1
    <2> QED
      BY <2>1, <2>2
  <1>2. PICK k \in mirror : \A m \in mirror : k <= m
    BY <1>1, LeastExists
  <1>3. PICK i \in T : k = n - i
    BY <1>2
  <1>4. ASSUME NEW j \in T
        PROVE  j <= i
    <2>1. j \in Nat /\ i \in Nat /\ n - j \in Nat
      BY <1>4
    <2>2. n - j \in mirror
      BY <1>4, <2>1
    <2>3. k <= n - j
      BY <1>2, <2>2
    <2> QED
      BY <1>3, <2>1, <2>3
  <1> QED
    BY <1>3, <1>4

LEMMA LastIsMember ==
    ASSUME evidence \in Seq(Entry), NEW S, S \subseteq DOMAIN evidence, S # {}
    PROVE  Last(S) \in S
  <1>1. DOMAIN evidence = 1..Len(evidence) /\ Len(evidence) \in Nat
    BY LenProperties
  <1> QED
    BY <1>1, GreatestExists DEF Last

\* What the handlers read from the record.
LEMMA RecordReads ==
    ASSUME EvidenceInv
    PROVE  /\ LatestAgentRun \in DOMAIN run
           /\ LatestRejectFeedback \in MaybeAdvice
           /\ CreatedTicket # None => CreatedTicket \in tickets /\ CreatedTicket \in Named
           /\ CreatedTicket = None => Named = {}
           /\ RunEntries \subseteq DOMAIN run
  <1>1. /\ evidence \in Seq(Entry)
        /\ \A i \in DOMAIN evidence : evidence[i] \in Entry /\ EntryInv(evidence[i]) /\ i \in Nat
    BY LenProperties, ElementOfSeq DEF EvidenceInv
  <1>2. LatestAgentRun \in DOMAIN run
    <2>1. Places("agent_run") \subseteq DOMAIN evidence /\ Places("agent_run") # {}
      BY DEF EvidenceInv, Places
    <2>2. Last(Places("agent_run")) \in Places("agent_run")
      BY <1>1, <2>1, LastIsMember
    <2> QED
      BY <1>1, <2>2 DEF LatestAgentRun, EntryInv, Places
  <1>3. LatestRejectFeedback \in MaybeAdvice
    <2> DEFINE S == {i \in Places("diagnose_decision") :
                        evidence[i].decision = "reject" /\ evidence[i].advice # None}
    <2>1. S \subseteq DOMAIN evidence
      BY DEF Places
    <2>2. LatestRejectFeedback = IF S = {} THEN None ELSE evidence[Last(S)].advice
      BY DEF LatestRejectFeedback
    <2> HIDE DEF S
    <2>3. S # {} => Last(S) \in DOMAIN evidence
      BY <1>1, <2>1, LastIsMember
    <2> QED
      BY <1>1, <2>2, <2>3 DEF Entry, MaybeAdvice
  <1>4. /\ CreatedTicket # None => CreatedTicket \in tickets /\ CreatedTicket \in Named
        /\ CreatedTicket = None => Named = {}
    <2> DEFINE first == CHOOSE i \in Escalations : \A j \in Escalations : i <= j
    <2>1. Escalations \subseteq Nat
      BY <1>1 DEF Escalations, Places
    <2>2. CreatedTicket = IF Escalations = {} THEN None ELSE evidence[first].ticket
      BY DEF CreatedTicket
    <2>3. Escalations # {} => first \in Escalations
      BY <2>1, LeastExists
    <2>4. \A i \in Escalations : evidence[i].ticket \in tickets /\ evidence[i].ticket # None
      BY <1>1 DEF Escalations, Places, EntryInv
    <2> HIDE DEF first
    <2> QED
      BY <2>2, <2>3, <2>4 DEF Named
  <1>5. RunEntries \subseteq DOMAIN run
    BY <1>1 DEF RunEntries, Places, EntryInv
  <1> QED
    BY <1>2, <1>3, <1>4, <1>5

-----------------------------------------------------------------------------
(***************************************************************************)
(* What agentflow never takes back.                                        *)
(***************************************************************************)
RunsOnward ==
    /\ DOMAIN run \subseteq DOMAIN run'
    /\ tickets \subseteq tickets'
    /\ \A r \in DOMAIN run :
            /\ run'[r].node = run[r].node
            /\ run'[r].advice = run[r].advice
            /\ run[r].gate \in {"approved", "rejected", "expired"} => run'[r].gate = run[r].gate
            /\ run[r].gate = "pending" => run'[r].gate # "ahead"
            /\ Settled(r) => Settled(r)'

LEMMA RunsKept ==
    ASSUME UNCHANGED <<run, tickets>>
    PROVE  RunsOnward
  BY DEF RunsOnward, Settled

\* An entry and a request stay right while the runs go on.
LEMMA RunFields ==
    ASSUME RunsInv, NEW r \in DOMAIN run
    PROVE  /\ run[r] \in Run /\ r \in Nat
           /\ run[r].gate \in Gates /\ run[r].node \in GateNames
           /\ run[r].status \in RunStatuses /\ run[r].advice \in MaybeAdvice
  <1>1. run \in Seq(Run)
    BY DEF RunsInv
  <1>2. run[r] \in Run /\ r \in Nat
    BY <1>1, LenProperties, ElementOfSeq
  <1> QED
    BY <1>2 DEF Run

LEMMA EntryStable ==
    ASSUME RunsInv, RunsOnward, NEW e, EntryInv(e)
    PROVE  EntryInv(e)'
  <1>1. \A r \in DOMAIN run : run[r].gate \in Gates
    BY RunFields
  <1> QED
    BY <1>1 DEF RunsOnward, EntryInv, GateAnswered, Gates, Verdicts

LEMMA RequestStable ==
    ASSUME RunsInv, RunsOnward, NEW l, RequestInv(l)
    PROVE  RequestInv(l)'
  <1>1. \A r \in DOMAIN run : run[r].gate \in Gates
    BY RunFields
  <1>2. /\ l \in Request /\ StepOfOp(l) /\ KnowsRuns(l) /\ ShowsRuns(l)
    BY DEF RequestInv
  <1>3. KnowsRuns(l)'
    <2>1. GateAnswered(l.run, l.answer)'
      <3>1. CASE l.answer = "none"
        BY <3>1 DEF GateAnswered, Verdicts
      <3>2. CASE l.answer # "none"
        <4>1. l.run \in DOMAIN run /\ GateAnswered(l.run, l.answer)
          BY <1>2, <3>2 DEF KnowsRuns
        <4> QED
          BY <1>1, <4>1 DEF GateAnswered, RunsOnward, Gates, Verdicts
      <3> QED
        BY <3>1, <3>2
    <2>2. l.pc = "answer" => l.gate = run'[l.run].node /\ run'[l.run].gate # "ahead"
      <3>1. l.pc = "answer" => HasRun(l)
        BY <1>2 DEF StepOfOp, Decisions, HasRun
      <3> QED
        BY <1>1, <1>2, <3>1 DEF KnowsRuns, RunsOnward, Gates
    <2>3. l.pc = "bind" => l.new \in DOMAIN run' /\ run'[l.new].advice = Feedback(l)
      BY <1>2 DEF KnowsRuns, RunsOnward
    <2> QED
      BY <1>2, <2>1, <2>2, <2>3 DEF KnowsRuns, RunsOnward, Feedback
  <1>4. ShowsRuns(l)'
    <2>1. l.pc = "shown" => l.run \in DOMAIN run
      BY <1>2 DEF StepOfOp, HasRun, KnowsRuns
    <2> QED
      BY <1>2, <2>1 DEF ShowsRuns, RunsOnward
  <1> QED
    BY <1>2, <1>3, <1>4 DEF RequestInv, StepOfOp

LEMMA EvidenceStable ==
    ASSUME RunsInv, EvidenceInv, RunsOnward, evidence' = evidence
    PROVE  EvidenceInv'
  BY EntryStable DEF EvidenceInv, Places

LEMMA EvidenceAppended ==
    ASSUME RunsInv, EvidenceInv, RunsOnward, NEW e \in Entry, EntryInv(e)',
           evidence' = Append(evidence, e)
    PROVE  /\ EvidenceInv'
           /\ DOMAIN evidence' = DOMAIN evidence \cup {Len(evidence) + 1}
           /\ Len(evidence) + 1 \notin DOMAIN evidence
           /\ \A i \in DOMAIN evidence : evidence'[i] = evidence[i]
           /\ evidence'[Len(evidence) + 1] = e
  <1>1. /\ evidence' \in Seq(Entry)
        /\ Len(evidence') = Len(evidence) + 1
        /\ \A i \in 1..Len(evidence) : evidence'[i] = evidence[i]
        /\ evidence'[Len(evidence) + 1] = e
    BY AppendProperties DEF EvidenceInv
  <1>2. /\ DOMAIN evidence = 1..Len(evidence) /\ Len(evidence) \in Nat
        /\ DOMAIN evidence' = 1..(Len(evidence) + 1)
    BY <1>1, LenProperties DEF EvidenceInv
  <1>3. /\ DOMAIN evidence' = DOMAIN evidence \cup {Len(evidence) + 1}
        /\ Len(evidence) + 1 \notin DOMAIN evidence
    BY <1>2
  <1>4. Places("agent_run")' # {}
    BY <1>1, <1>2, <1>3 DEF EvidenceInv, Places
  <1>5. ASSUME NEW i \in DOMAIN evidence'
        PROVE  EntryInv(evidence[i])'
    <2>1. CASE i \in DOMAIN evidence
      <3>1. EntryInv(evidence[i]) /\ evidence'[i] = evidence[i]
        BY <1>1, <1>2, <2>1 DEF EvidenceInv
      <3>2. \A x : EntryInv(x) => EntryInv(x)'
        BY EntryStable
      <3> QED
        BY <3>1, <3>2 DEF EntryInv, GateAnswered
    <2>2. CASE i = Len(evidence) + 1
      BY <1>1, <2>2 DEF EntryInv, GateAnswered
    <2> QED
      BY <1>3, <1>5, <2>1, <2>2
  <1> QED
    BY <1>1, <1>2, <1>3, <1>4, <1>5 DEF EvidenceInv

-----------------------------------------------------------------------------
(***************************************************************************)
(* Frames: the requests that a step leaves alone.                          *)
(***************************************************************************)
RequestsInv ==
    /\ req = [c \in Client |-> req[c]]
    /\ \A c \in Client : RequestInv(req[c]) /\ Waits(req[c])

\* No gate that is waited for is answered.
GatesHeld == \A r \in DOMAIN run : run[r].gate = "pending" => run'[r].gate = "pending"

LEMMA InvParts ==
    DiagnosisInv <=> RunsInv /\ EvidenceInv /\ RequestsInv /\ EscalationOnRecord /\ AnswersOnce /\ NamedInv
  BY DEF DiagnosisInv, RequestsInv

LEMMA WaitsStable ==
    ASSUME GatesHeld, NEW l, KnowsRuns(l), Waits(l)
    PROVE  Waits(l)'
  BY DEF GatesHeld, KnowsRuns, Waits

\* Every request is right as it is, while the runs go on.
LEMMA ValuesKept ==
    ASSUME RunsInv, RunsOnward, GatesHeld, NEW l, RequestInv(l), Waits(l)
    PROVE  RequestInv(l)' /\ Waits(l)'
  BY RequestStable, WaitsStable DEF RequestInv

LEMMA RequestsKept ==
    ASSUME RunsInv, RequestsInv, RunsOnward, GatesHeld, req' = req
    PROVE  RequestsInv'
  <1>1. \A l : RequestInv(l) /\ Waits(l) => RequestInv(l)' /\ Waits(l)'
    BY ValuesKept
  <1>2. \A l : (RequestInv(l)' /\ Waits(l)') =>
            \A c \in Client : req'[c] = l => RequestInv(req[c])' /\ Waits(req[c])'
    BY DEF RequestInv, StepOfOp, KnowsRuns, ShowsRuns, Settled, GateAnswered, Feedback, Waits
  <1> QED
    BY <1>1, <1>2 DEF RequestsInv

\* One request changes.
LEMMA OneChanges ==
    ASSUME RunsInv, RequestsInv, RunsOnward, GatesHeld, NEW c \in Client, NEW l,
           req' = [req EXCEPT ![c] = l], RequestInv(l)', Waits(l)'
    PROVE  RequestsInv'
  <1>1. \A m : RequestInv(m) /\ Waits(m) => RequestInv(m)' /\ Waits(m)'
    BY ValuesKept
  <1>2. \A m : (RequestInv(m)' /\ Waits(m)') =>
            \A d \in Client : req'[d] = m => RequestInv(req[d])' /\ Waits(req[d])'
    BY DEF RequestInv, StepOfOp, KnowsRuns, ShowsRuns, Settled, GateAnswered, Feedback, Waits
  <1>3. /\ req' = [d \in Client |-> req'[d]]
        /\ \A d \in Client : req'[d] = IF d = c THEN l ELSE req[d]
    BY DEF RequestsInv
  <1>4. ASSUME NEW d \in Client
        PROVE  RequestInv(req[d])' /\ Waits(req[d])'
    <2>1. CASE d = c
      BY <1>2, <1>3, <2>1
    <2>2. CASE d # c
      BY <1>1, <1>2, <1>3, <2>2 DEF RequestsInv
    <2> QED
      BY <2>1, <2>2
  <1> QED
    BY <1>3, <1>4 DEF RequestsInv

\* One request changes and the runs do not.
LEMMA LocalStep ==
    ASSUME RunsInv, RequestsInv, UNCHANGED <<run, tickets>>, NEW c \in Client, NEW l,
           req' = [req EXCEPT ![c] = l], RequestInv(l), Waits(l)
    PROVE  RunsInv' /\ RunsOnward /\ RequestsInv'
  <1>1. RunsOnward /\ GatesHeld
    BY RunsKept DEF GatesHeld
  <1>2. RequestInv(l)' /\ Waits(l)'
    BY <1>1, ValuesKept
  <1>3. RunsInv'
    BY DEF RunsInv
  <1> QED
    BY <1>1, <1>2, <1>3, OneChanges

\* The record stays accounted for when nothing new is about to escalate it.
LEMMA EscalationKept ==
    ASSUME EscalationOnRecord,
           \A i \in DOMAIN evidence : i \in DOMAIN evidence' /\ evidence'[i] = evidence[i],
           state' = "escalated" => state = "escalated" \/ \E c \in Client : req[c].pc = "escalate",
           \A c \in Client : req'[c].pc = "escalate" => req[c].pc = "escalate"
    PROVE  EscalationOnRecord'
  BY DEF EscalationOnRecord, Escalations, Places

-----------------------------------------------------------------------------
(***************************************************************************)
(* Answers and tickets while nothing is written.                           *)
(***************************************************************************)
\* The request has no answer of a gate that it did not have, and no way to a ticket.
CarriesAnswer(l, n) == n.answer \in Verdicts => l.answer \in Verdicts /\ n.run = l.run

CarriesTicket(l, n) ==
    Escalating(n) => n.ticket \in Named \/ Named = {} \/ (Escalating(l) /\ l.ticket \notin Named)

LEMMA AnswersKept ==
    ASSUME AnswersOnce, evidence' = evidence, \A c \in Client : CarriesAnswer(req[c], req'[c])
    PROVE  AnswersOnce'
  BY DEF AnswersOnce, CarriesAnswer

\* The tickets named are finitely many.
LEMMA NamedIsFinite ==
    ASSUME RunsInv, EvidenceInv
    PROVE  /\ IsFiniteSet(Named) /\ IsFiniteSet(Unaware) /\ IsFiniteSet(Client)
           /\ Cardinality(Named) \in Nat /\ Cardinality(Unaware) \in Nat /\ Cardinality(Client) \in Nat
           /\ Named \subseteq tickets /\ None \notin Named
  <1>1. Named \in SUBSET tickets /\ None \notin Named
    BY DEF Named, Escalations, Places, EvidenceInv, EntryInv
  <1>2. IsFiniteSet(Named)
    BY <1>1, FS_Subset DEF RunsInv
  <1>3. Unaware \in SUBSET Client
    BY DEF Unaware
  <1>4. IsFiniteSet(Unaware) /\ IsFiniteSet(Client)
    BY <1>3, FS_Subset, RunsAssumption
  <1> QED
    BY <1>1, <1>2, <1>4, FS_CardinalityType

LEMMA NamedKept ==
    ASSUME RunsInv, EvidenceInv, NamedInv, evidence' = evidence,
           \A c \in Client : CarriesTicket(req[c], req'[c])
    PROVE  NamedInv'
  <1>1. Named' = Named
    BY DEF Named, Escalations, Places
  <1> SUFFICES ASSUME Named # {}
               PROVE  Cardinality(Named) + Cardinality(Unaware') <= Cardinality(Client)
    BY <1>1 DEF NamedInv
  <1>2. Unaware' \in SUBSET Unaware
    BY <1>1 DEF Unaware, CarriesTicket, Escalating
  <1>3. IsFiniteSet(Unaware) /\ Cardinality(Unaware) \in Nat /\ Cardinality(Named) \in Nat /\ Cardinality(Client) \in Nat
    BY NamedIsFinite
  <1>4. /\ Cardinality(Unaware') <= Cardinality(Unaware)
        /\ Cardinality(Unaware') \in Nat
    BY <1>2, <1>3, FS_Subset, FS_CardinalityType
  <1>5. Cardinality(Named) + Cardinality(Unaware) <= Cardinality(Client)
    BY DEF NamedInv
  <1> QED
    BY <1>3, <1>4, <1>5

\* One request goes on.
LEMMA OneCarries ==
    ASSUME DiagnosisInv, evidence' = evidence, NEW c \in Client, NEW n, req' = [req EXCEPT ![c] = n],
           CarriesAnswer(req[c], n), CarriesTicket(req[c], n)
    PROVE  AnswersOnce' /\ NamedInv'
  <1>1. \A d \in Client : req'[d] = IF d = c THEN n ELSE req[d]
    BY DEF DiagnosisInv
  <1>2. \A d \in Client : CarriesAnswer(req[d], req'[d])
    BY <1>1 DEF CarriesAnswer
  <1>3. \A d \in Client : CarriesTicket(req[d], req'[d])
    BY <1>1 DEF CarriesTicket
  <1> QED
    BY <1>2, <1>3, AnswersKept, NamedKept DEF DiagnosisInv

\* No request does.
LEMMA AllCarry ==
    ASSUME DiagnosisInv, evidence' = evidence, req' = req
    PROVE  AnswersOnce' /\ NamedInv'
  <1>1. \A d \in Client : CarriesAnswer(req[d], req'[d])
    BY DEF CarriesAnswer
  <1>2. \A d \in Client : CarriesTicket(req[d], req'[d])
    BY DEF CarriesTicket
  <1> QED
    BY <1>1, <1>2, AnswersKept, NamedKept DEF DiagnosisInv

LEMMA IdleCarries ==
    ASSUME NEW l
    PROVE  CarriesAnswer(l, Idle) /\ CarriesTicket(l, Idle)
  BY DEF CarriesAnswer, CarriesTicket, Idle, Escalating, Verdicts

\* A request that keeps its run, its answer and its ticket.
LEMMA SameCarries ==
    ASSUME NEW l, NEW n, n.answer \notin Verdicts \/ (n.answer = l.answer /\ n.run = l.run),
           n.op \in {"escalate", "direct"} => n.ticket = l.ticket /\ n.op = l.op,
           l.pc \notin {"idle", "escalate"}
    PROVE  CarriesAnswer(l, n) /\ CarriesTicket(l, n)
  BY DEF CarriesAnswer, CarriesTicket, Escalating

-----------------------------------------------------------------------------
(***************************************************************************)
(* A step of one request.                                                  *)
(***************************************************************************)
LEMMA IdleInv == RequestInv(Idle) /\ Waits(Idle) /\ Idle.pc = "idle"
  <1>1. Idle \in Request
    BY DEF Idle, Request, Answers, Statuses, Steps, Kinds, MaybeRun, MaybeAdvice, MaybeTicket,
           MaybeGate, RunSets, SeenSets
  <1>2. /\ Idle.pc = "idle" /\ Idle.op = None /\ Idle.ticket = None /\ Idle.answer = "none" /\ Idle.todo = {}
        /\ Idle.seen = {} /\ Idle.read = FALSE /\ Idle.waited = FALSE
    BY DEF Idle
  <1>3. StepOfOp(Idle)
    BY <1>2 DEF StepOfOp
  <1>4. KnowsRuns(Idle)
    BY <1>2 DEF KnowsRuns, GateAnswered, HasRun, Verdicts
  <1>5. ShowsRuns(Idle)
    BY <1>2 DEF ShowsRuns
  <1> QED
    BY <1>1, <1>2, <1>3, <1>4, <1>5 DEF RequestInv, Waits

\* A step of one request that changes nothing else.
LEMMA RequestStep ==
    ASSUME DiagnosisInv, UNCHANGED <<state, evidence, run, tickets>>, NEW c \in Client, NEW l,
           req' = [req EXCEPT ![c] = l], RequestInv(l), Waits(l), l.pc # "escalate",
           CarriesAnswer(req[c], l), CarriesTicket(req[c], l)
    PROVE  DiagnosisInv'
  <1>1. RunsInv /\ EvidenceInv /\ RequestsInv /\ EscalationOnRecord
    BY InvParts
  <1>2. RunsInv' /\ RunsOnward /\ RequestsInv'
    BY <1>1, LocalStep
  <1>3. EvidenceInv'
    BY <1>1, <1>2, EvidenceStable
  <1>4. \A d \in Client : req'[d] = IF d = c THEN l ELSE req[d]
    BY <1>1 DEF RequestsInv
  <1>5. EscalationOnRecord'
    BY <1>1, <1>4, EscalationKept
  <1>6. AnswersOnce' /\ NamedInv'
    BY OneCarries
  <1> QED
    BY <1>2, <1>3, <1>5, <1>6 DEF DiagnosisInv, RequestsInv

\* A request ends.
LEMMA EndStep ==
    ASSUME DiagnosisInv, UNCHANGED <<state, evidence, run, tickets>>, NEW c \in Client,
           req' = [req EXCEPT ![c] = Idle]
    PROVE  DiagnosisInv'
  <1>1. PICK n : n = Idle
    OBVIOUS
  <1>2. RequestInv(n) /\ Waits(n) /\ n.pc = "idle"
    BY <1>1, IdleInv
  <1>3. CarriesAnswer(req[c], n) /\ CarriesTicket(req[c], n)
    BY <1>1, IdleCarries
  <1> QED
    BY <1>1, <1>2, <1>3, RequestStep

LEMMA FailKeeps ==
    ASSUME DiagnosisInv, NEW c \in Client, Fail(c)
    PROVE  DiagnosisInv'
  BY EndStep DEF Fail, Become

-----------------------------------------------------------------------------
(***************************************************************************)
(* Requests arrive, read and go on.                                        *)
(***************************************************************************)
\* A request that arrives knows the latest run and whether it waits.
LEMMA ArriveKeeps ==
    ASSUME DiagnosisInv, NEW c \in Client, NEW l \in Request, Arrive(c, l), StepOfOp(l),
           l.pc \in {"fetch", "start", "runs"}, l.answer = "none", l.read = FALSE, l.seen = {},
           l.op # "direct", l.op = "escalate" => l.ticket \in Named \/ Named = {},
           l.ticket # None => l.ticket \in tickets, l.todo \subseteq DOMAIN run
    PROVE  DiagnosisInv'
  <1>1. LatestAgentRun \in DOMAIN run /\ LatestAgentRun \in MaybeRun
    BY InvParts, RecordReads, RunFields DEF MaybeRun
  <1>2. PICK w \in BOOLEAN : w = (run[LatestAgentRun].gate = "pending")
    OBVIOUS
  <1> DEFINE n == [l EXCEPT !.run = LatestAgentRun, !.waited = w]
  <1>3. /\ n.pc = l.pc /\ n.op = l.op /\ n.run = LatestAgentRun /\ n.advice = l.advice
        /\ n.past = l.past /\ n.ticket = l.ticket /\ n.gate = l.gate /\ n.answer = "none"
        /\ n.new = l.new /\ n.todo = l.todo /\ n.seen = {} /\ n.status = l.status
        /\ n.read = FALSE /\ n.waited = w
    BY DEF Request
  <1>4. n \in Request
    BY <1>1 DEF Request
  <1> HIDE DEF n
  <1>5. StepOfOp(n)
    BY <1>3 DEF StepOfOp
  <1>6. KnowsRuns(n)
    BY <1>1, <1>3 DEF KnowsRuns, GateAnswered, HasRun, Verdicts
  <1>7. ShowsRuns(n) /\ Waits(n)
    BY <1>2, <1>3 DEF ShowsRuns, Waits
  <1>8. req' = [req EXCEPT ![c] = n] /\ UNCHANGED <<state, evidence, run, tickets>>
    BY <1>2 DEF Arrive, Accept, Become, n
  <1>9. CarriesAnswer(req[c], n) /\ CarriesTicket(req[c], n)
    BY <1>3 DEF CarriesAnswer, CarriesTicket, Escalating, Verdicts
  <1> QED
    BY <1>3, <1>4, <1>5, <1>6, <1>7, <1>8, <1>9, RequestStep DEF RequestInv

LEMMA DecideDiagnosisKeeps ==
    ASSUME DiagnosisInv, NEW c \in Client, NEW d \in Decisions, NEW a \in Advice \cup {None},
           DecideDiagnosis(c, d, a)
    PROVE  DiagnosisInv'
  <1>1. /\ LatestRejectFeedback \in MaybeAdvice
        /\ CreatedTicket # None => CreatedTicket \in tickets /\ CreatedTicket \in Named
        /\ CreatedTicket = None => Named = {}
    BY InvParts, RecordReads
  <1>2. CreatedTicket \in MaybeTicket /\ None \in MaybeTicket
    BY <1>1, InvParts, RunFields DEF RunsInv, MaybeTicket
  <1>3. PICK t : t = IF d = "escalate" THEN CreatedTicket ELSE None
    OBVIOUS
  <1>4. PICK p : p = LatestRejectFeedback
    OBVIOUS
  <1>5. PICK l : l = [Idle EXCEPT !.pc = "fetch", !.op = d, !.advice = a, !.past = p, !.ticket = t]
    OBVIOUS
  <1>6. l \in Request
    <2>1. Idle \in Request /\ a \in MaybeAdvice /\ d \in Kinds /\ "fetch" \in Steps
      BY IdleInv DEF RequestInv, MaybeAdvice, Kinds, Steps
    <2> QED
      BY <1>1, <1>2, <1>3, <1>4, <1>5, <2>1 DEF Request
  <1>7. /\ l.pc = "fetch" /\ l.op = d /\ l.ticket = t /\ l.answer = "none" /\ l.read = FALSE
        /\ l.seen = {} /\ l.todo = {}
    BY <1>5 DEF Idle
  <1>8. StepOfOp(l) /\ l.op # "direct"
    BY <1>3, <1>7 DEF StepOfOp, Decisions
  <1>9. Arrive(c, l)
    BY <1>3, <1>4, <1>5 DEF DecideDiagnosis
  <1>10. /\ l.op = "escalate" => l.ticket \in Named \/ Named = {}
         /\ l.ticket # None => l.ticket \in tickets
    BY <1>1, <1>3, <1>7
  <1> QED
    BY <1>6, <1>7, <1>8, <1>9, <1>10, ArriveKeeps

LEMMA AnalyzeProblemKeeps ==
    ASSUME DiagnosisInv, NEW c \in Client, AnalyzeProblem(c)
    PROVE  DiagnosisInv'
  <1>1. LatestRejectFeedback \in MaybeAdvice
    BY InvParts, RecordReads
  <1>2. PICK p : p = LatestRejectFeedback
    OBVIOUS
  <1>3. PICK l : l = [Idle EXCEPT !.pc = "start", !.op = "analyze", !.past = p]
    OBVIOUS
  <1>4. l \in Request
    <2>1. Idle \in Request /\ "analyze" \in Kinds /\ "start" \in Steps
      BY IdleInv DEF RequestInv, Kinds, Steps
    <2> QED
      BY <1>1, <1>2, <1>3, <2>1 DEF Request
  <1>5. /\ l.pc = "start" /\ l.op = "analyze" /\ l.ticket = None /\ l.answer = "none"
        /\ l.read = FALSE /\ l.seen = {} /\ l.todo = {}
    BY <1>3 DEF Idle
  <1>6. StepOfOp(l)
    BY <1>5 DEF StepOfOp
  <1>7. Arrive(c, l)
    BY <1>2, <1>3 DEF AnalyzeProblem
  <1> QED
    BY <1>4, <1>5, <1>6, <1>7, ArriveKeeps

LEMMA GetDiagnosisKeeps ==
    ASSUME DiagnosisInv, NEW c \in Client, GetDiagnosis(c)
    PROVE  DiagnosisInv'
  <1>1. RunEntries \subseteq DOMAIN run /\ DOMAIN run \subseteq Nat
    BY InvParts, RecordReads, RunFields
  <1>2. PICK E : E = RunEntries
    OBVIOUS
  <1>3. PICK l : l = [Idle EXCEPT !.pc = "runs", !.op = "page", !.todo = E]
    OBVIOUS
  <1>4. E \in RunSets
    BY <1>1, <1>2 DEF RunSets
  <1>5. l \in Request
    <2>1. Idle \in Request /\ "page" \in Kinds /\ "runs" \in Steps
      BY IdleInv DEF RequestInv, Kinds, Steps
    <2> QED
      BY <1>3, <1>4, <2>1 DEF Request
  <1>6. /\ l.pc = "runs" /\ l.op = "page" /\ l.ticket = None /\ l.answer = "none"
        /\ l.read = FALSE /\ l.seen = {} /\ l.todo = E
    BY <1>3 DEF Idle
  <1>7. StepOfOp(l)
    BY <1>6 DEF StepOfOp
  <1>8. Arrive(c, l)
    BY <1>2, <1>3 DEF GetDiagnosis
  <1> QED
    BY <1>1, <1>2, <1>5, <1>6, <1>7, <1>8, ArriveKeeps

\* A direct escalation finds no ticket on record.
LEMMA EscalateProblemKeeps ==
    ASSUME DiagnosisInv, NEW c \in Client, EscalateProblem(c)
    PROVE  DiagnosisInv'
  <1>1. Named = {}
    BY InvParts, RecordReads DEF EscalateProblem
  <1>2. PICK n : n = [Idle EXCEPT !.pc = "create", !.op = "direct"]
    OBVIOUS
  <1>3. n \in Request
    <2>1. Idle \in Request /\ "direct" \in Kinds /\ "create" \in Steps
      BY IdleInv DEF RequestInv, Kinds, Steps
    <2> QED
      BY <1>2, <2>1 DEF Request
  <1>4. /\ n.pc = "create" /\ n.op = "direct" /\ n.ticket = None /\ n.answer = "none"
        /\ n.read = FALSE /\ n.waited = FALSE /\ n.seen = {} /\ n.todo = {}
    BY <1>2 DEF Idle
  <1>5. StepOfOp(n) /\ ShowsRuns(n) /\ Waits(n)
    BY <1>4 DEF StepOfOp, ShowsRuns, Waits
  <1>6. KnowsRuns(n)
    BY <1>4 DEF KnowsRuns, GateAnswered, HasRun, Verdicts
  <1>7. CarriesAnswer(req[c], n) /\ CarriesTicket(req[c], n)
    BY <1>1, <1>4 DEF CarriesAnswer, CarriesTicket, Verdicts
  <1>8. req' = [req EXCEPT ![c] = n] /\ UNCHANGED <<state, evidence, run, tickets>>
    BY <1>2 DEF EscalateProblem, Accept, Become
  <1> QED
    BY <1>3, <1>4, <1>5, <1>6, <1>7, <1>8, RequestStep DEF RequestInv

\* A run that waits is known by the name of its gate.
LEMMA GateNodeNames ==
    ASSUME RunsInv, NEW r \in DOMAIN run
    PROVE  /\ run[r].gate = "pending" => GateNode(run[r]) = run[r].node
           /\ run[r].gate # "pending" => GateNode(run[r]) = None
           /\ run[r].gate = "pending" => ApprovalNode(run[r]) = run[r].node
           /\ GateNode(run[r]) \in MaybeGate
           /\ ApprovalNode(run[r]) \in MaybeGate
  <1>1. run[r].node \in GateNames
    BY RunFields
  <1>2. CASE run[r].gate = "pending"
    <2>1. Pending(run[r]) = {run[r].node}
      BY <1>2 DEF Pending
    <2> QED
      BY <1>1, <1>2, <2>1 DEF GateNode, ApprovalNode, MaybeGate
  <1>3. CASE run[r].gate # "pending"
    <2>1. Pending(run[r]) = {}
      BY <1>3 DEF Pending
    <2> QED
      BY <1>3, <2>1 DEF GateNode, ApprovalNode, MaybeGate
  <1> QED
    BY <1>2, <1>3

\* The facts about one request.
LEMMA RequestFacts ==
    ASSUME DiagnosisInv, NEW c \in Client
    PROVE  /\ req[c] \in Request /\ StepOfOp(req[c]) /\ KnowsRuns(req[c]) /\ ShowsRuns(req[c])
           /\ Waits(req[c])
           /\ req[c].pc \in {"fetch", "answer", "ticket", "start", "bind", "close", "runs", "shown"}
                => HasRun(req[c]) /\ req[c].run \in DOMAIN run
           /\ RunsInv
  <1>1. /\ req[c] \in Request /\ StepOfOp(req[c]) /\ KnowsRuns(req[c]) /\ ShowsRuns(req[c])
        /\ Waits(req[c]) /\ RunsInv
    BY DEF DiagnosisInv, RequestInv
  <1>2. req[c].pc \in {"fetch", "answer", "ticket", "start", "bind", "close", "runs", "shown"} => HasRun(req[c])
    BY <1>1 DEF StepOfOp, HasRun, Decisions
  <1> QED
    BY <1>1, <1>2 DEF KnowsRuns

LEMMA FetchRunKeeps ==
    ASSUME DiagnosisInv, NEW c \in Client, FetchRun(c)
    PROVE  DiagnosisInv'
  <1>1. PICK l : l = req[c]
    OBVIOUS
  <1>2. /\ l \in Request /\ StepOfOp(l) /\ KnowsRuns(l) /\ ShowsRuns(l) /\ Waits(l)
        /\ l.pc = "fetch" /\ l.run \in DOMAIN run /\ RunsInv /\ l.op \in Decisions /\ HasRun(l)
    BY <1>1, RequestFacts DEF FetchRun, At, StepOfOp
  <1>3. PICK ok \in BOOLEAN :
            LET gate == IF ok THEN GateNode(run[l.run]) ELSE None
                next == [l EXCEPT !.read = ok, !.gate = gate]
            IN  Become(c,
                    CASE Unexplained(l, ok) -> Idle
                      [] l.ticket # None -> [next EXCEPT !.pc = "record", !.answer = "already_escalated"]
                      [] l.ticket = None /\ gate # None /\ ~Unexplained(l, ok) -> [next EXCEPT !.pc = "answer"]
                      [] OTHER -> [next EXCEPT !.pc = AfterGate(l.op), !.answer = "no_pending_gate"])
    BY <1>1 DEF FetchRun
  <1>4. PICK gate : gate = IF ok THEN GateNode(run[l.run]) ELSE None
    OBVIOUS
  <1>5. PICK next : next = [l EXCEPT !.read = ok, !.gate = gate]
    OBVIOUS
  <1>6. PICK n : /\ req' = [req EXCEPT ![c] = n]
                 /\ \/ n = Idle
                    \/ n = [next EXCEPT !.pc = "record", !.answer = "already_escalated"] /\ l.ticket # None
                    \/ n = [next EXCEPT !.pc = "answer"] /\ gate # None /\ l.ticket = None
                    \/ n = [next EXCEPT !.pc = AfterGate(l.op), !.answer = "no_pending_gate"] /\ l.ticket = None
    <2>1. CASE Unexplained(l, ok) /\ l.ticket = None
      BY <1>3, <1>4, <1>5, <2>1 DEF Become
    <2>2. CASE l.ticket # None
      <3>1. ~Unexplained(l, ok)
        BY <1>2, <2>2 DEF Unexplained, StepOfOp
      <3> QED
        BY <1>3, <1>4, <1>5, <2>2, <3>1 DEF Become
    <2>3. CASE l.ticket = None /\ ~Unexplained(l, ok)
      BY <1>3, <1>4, <1>5, <2>3 DEF Become
    <2> QED
      BY <2>1, <2>2, <2>3
  <1>7. UNCHANGED <<state, evidence, run, tickets>>
    BY DEF FetchRun
  <1>8. CASE n = Idle
    BY <1>6, <1>7, <1>8, EndStep
  <1>9. CASE n # Idle
    <2>1. /\ gate \in MaybeGate
          /\ ok /\ run[l.run].gate = "pending" => gate = run[l.run].node
          /\ ok /\ run[l.run].gate # "pending" => gate = None
          /\ ~ok => gate = None
      BY <1>2, <1>4, GateNodeNames DEF MaybeGate
    <2>2. /\ next.op = l.op /\ next.run = l.run /\ next.ticket = l.ticket
          /\ next.gate = gate /\ next.answer = l.answer /\ next.todo = l.todo
          /\ next.seen = l.seen /\ next.read = ok /\ next.waited = l.waited
      BY <1>2, <1>5 DEF Request
    <2>3. next \in Request
      BY <1>2, <1>5, <2>1 DEF Request
    <2>4. /\ AfterGate(l.op) \in {"ticket", "start", "close"}
          /\ {"ticket", "start", "close", "record", "answer"} \subseteq Steps
          /\ {"already_escalated", "no_pending_gate"} \subseteq Answers
      BY DEF AfterGate, Steps, Answers
    <2>5. /\ n \in Request /\ n.op = l.op /\ n.run = l.run /\ n.ticket = l.ticket
          /\ n.gate = gate /\ n.todo = l.todo /\ n.seen = l.seen
          /\ n.read = ok /\ n.waited = l.waited
          /\ \/ n.pc = "record" /\ n.answer = "already_escalated" /\ l.ticket # None
             \/ n.pc = "answer" /\ n.answer = l.answer /\ gate # None /\ l.ticket = None
             \/ n.pc = AfterGate(l.op) /\ n.answer = "no_pending_gate" /\ l.ticket = None
      <3>1. CASE n = [next EXCEPT !.pc = "record", !.answer = "already_escalated"] /\ l.ticket # None
        BY <2>2, <2>3, <2>4, <3>1 DEF Request
      <3>2. CASE n = [next EXCEPT !.pc = "answer"] /\ gate # None /\ l.ticket = None
        BY <2>2, <2>3, <2>4, <3>2 DEF Request
      <3>3. CASE n = [next EXCEPT !.pc = AfterGate(l.op), !.answer = "no_pending_gate"] /\ l.ticket = None
        BY <2>2, <2>3, <2>4, <3>3 DEF Request
      <3> QED
        BY <1>6, <1>9, <3>1, <3>2, <3>3
    <2>6. StepOfOp(n)
      BY <1>2, <2>5 DEF StepOfOp, AfterGate, Decisions
    <2>7. GateAnswered(n.run, n.answer)
      BY <1>2, <2>5 DEF KnowsRuns, GateAnswered, Verdicts
    <2>8. KnowsRuns(n)
      <3>1. n.pc # "idle" /\ n.pc # "bind" /\ n.pc # "escalate" /\ HasRun(n)
        BY <1>2, <2>4, <2>5 DEF HasRun
      <3>2. n.read /\ n.waited => n.gate = run[n.run].node
        BY <1>2, <2>1, <2>5 DEF Waits
      <3>3. n.pc = "answer" => n.gate = run[n.run].node /\ run[n.run].gate # "ahead"
        BY <2>1, <2>4, <2>5
      <3>4. n.ticket # None \/ (n.pc = "record" /\ n.op \in {"escalate", "direct"})
                => n.ticket \in tickets
        BY <1>2, <2>4, <2>5, <3>1 DEF KnowsRuns
      <3> QED
        BY <1>2, <2>5, <2>7, <3>1, <3>2, <3>3, <3>4 DEF KnowsRuns
    <2>9. ShowsRuns(n) /\ Waits(n) /\ n.pc # "escalate"
      BY <1>2, <2>4, <2>5 DEF ShowsRuns, Waits
    <2>10. CarriesAnswer(l, n) /\ CarriesTicket(l, n)
      <3>1. n.answer \notin Verdicts \/ n.answer = l.answer
        BY <2>5 DEF Verdicts
      <3> QED
        BY <1>2, <2>5, <3>1, SameCarries
    <2> QED
      BY <1>1, <1>6, <1>7, <2>5, <2>6, <2>8, <2>9, <2>10, RequestStep DEF RequestInv
  <1> QED
    BY <1>8, <1>9

\* A request whose step changes, and nothing that it knows.
LEMMA StepChanges ==
    ASSUME NEW l, RequestInv(l), Waits(l), l.pc \in {"close", "bind"}, l.op # "analyze",
           NEW n, n = [l EXCEPT !.pc = "record"]
    PROVE  /\ RequestInv(n) /\ Waits(n) /\ n.pc = "record" /\ n.op = l.op
           /\ CarriesAnswer(l, n) /\ CarriesTicket(l, n)
  <1>1. l \in Request /\ KnowsRuns(l) /\ ShowsRuns(l) /\ StepOfOp(l)
    BY DEF RequestInv
  <1>2. n \in Request
    BY <1>1 DEF Request, Steps
  <1>3. /\ n.pc = "record" /\ n.op = l.op /\ n.run = l.run /\ n.ticket = l.ticket /\ n.gate = l.gate
        /\ n.answer = l.answer /\ n.todo = l.todo /\ n.seen = l.seen
        /\ n.read = l.read /\ n.waited = l.waited
    BY <1>1 DEF Request
  <1>4. l.op \in {"ignore", "false_positive", "reject"} /\ HasRun(l)
    BY <1>1 DEF StepOfOp, HasRun
  <1>5. StepOfOp(n)
    BY <1>1, <1>3, <1>4 DEF StepOfOp, Decisions
  <1>6. KnowsRuns(n)
    BY <1>1, <1>3, <1>4 DEF KnowsRuns, HasRun
  <1>7. ShowsRuns(n) /\ Waits(n)
    BY <1>1, <1>3 DEF ShowsRuns, Waits
  <1>8. CarriesAnswer(l, n) /\ CarriesTicket(l, n)
    BY <1>3, SameCarries
  <1> QED
    BY <1>2, <1>3, <1>5, <1>6, <1>7, <1>8 DEF RequestInv

LEMMA ReadTicketKeeps ==
    ASSUME DiagnosisInv, NEW c \in Client, ReadTicket(c)
    PROVE  DiagnosisInv'
  <1>1. PICK l : l = req[c]
    OBVIOUS
  <1>2. /\ l \in Request /\ StepOfOp(l) /\ KnowsRuns(l) /\ ShowsRuns(l) /\ Waits(l)
        /\ l.pc = "ticket" /\ l.op = "escalate" /\ l.run \in DOMAIN run /\ RunsInv /\ EvidenceInv
        /\ l.ticket = None /\ HasRun(l)
    BY <1>1, InvParts, RequestFacts DEF ReadTicket, At, StepOfOp
  <1>3. UNCHANGED <<state, evidence, run, tickets>>
    BY DEF ReadTicket
  <1>4. CASE req' = [req EXCEPT ![c] = Idle]
    BY <1>3, <1>4, EndStep
  <1>5. CASE run[l.run].ticket = "done"
             /\ req' = [req EXCEPT ![c] = [l EXCEPT !.pc = "record", !.ticket = <<"run", l.run>>]]
    <2>1. PICK t : t = <<"run", l.run>>
      OBVIOUS
    <2>2. PICK n : n = [l EXCEPT !.pc = "record", !.ticket = t]
      OBVIOUS
    <2>3. t \in tickets /\ t \in MaybeTicket /\ "record" \in Steps
      BY <1>2, <1>5, <2>1, RunFields DEF RunsInv, MaybeTicket, Tickets, Steps
    <2>4. n \in Request
      BY <1>2, <2>2, <2>3 DEF Request
    <2>5. /\ n.pc = "record" /\ n.op = "escalate" /\ n.run = l.run /\ n.ticket = t
          /\ n.gate = l.gate /\ n.answer = l.answer /\ n.todo = l.todo /\ n.seen = l.seen
          /\ n.read = l.read /\ n.waited = l.waited
      BY <1>2, <2>2 DEF Request
    <2>6. StepOfOp(n)
      BY <2>5 DEF StepOfOp, Decisions
    <2>7. KnowsRuns(n)
      BY <1>2, <2>3, <2>5 DEF KnowsRuns, HasRun
    <2>8. ShowsRuns(n) /\ Waits(n)
      BY <1>2, <2>5 DEF ShowsRuns, Waits
    <2>9. req' = [req EXCEPT ![c] = n]
      BY <1>5, <2>1, <2>2
    <2>10. CarriesAnswer(l, n) /\ CarriesTicket(l, n)
      <3>1. None \notin Named
        BY <1>2, NamedIsFinite
      <3> QED
        BY <1>2, <2>5, <3>1 DEF CarriesAnswer, CarriesTicket, Escalating
    <2> QED
      BY <1>1, <1>3, <2>4, <2>5, <2>6, <2>7, <2>8, <2>9, <2>10, RequestStep DEF RequestInv
  <1> QED
    BY <1>1, <1>4, <1>5 DEF ReadTicket, Become

\* A request goes on and the record's state is set.
LEMMA StateStep ==
    ASSUME DiagnosisInv, UNCHANGED <<evidence, run, tickets>>, NEW c \in Client, NEW l,
           req' = [req EXCEPT ![c] = l], RequestInv(l), Waits(l), l.pc # "escalate",
           CarriesAnswer(req[c], l), CarriesTicket(req[c], l),
           state' = "escalated" => req[c].pc = "escalate"
    PROVE  DiagnosisInv'
  <1>1. RunsInv /\ EvidenceInv /\ RequestsInv /\ EscalationOnRecord
    BY InvParts
  <1>2. RunsInv' /\ RunsOnward /\ RequestsInv'
    BY <1>1, LocalStep
  <1>3. EvidenceInv'
    BY <1>1, <1>2, EvidenceStable
  <1>4. \A d \in Client : req'[d] = IF d = c THEN l ELSE req[d]
    BY <1>1 DEF RequestsInv
  <1>5. EscalationOnRecord'
    BY <1>1, <1>4, EscalationKept
  <1>6. AnswersOnce' /\ NamedInv'
    BY OneCarries
  <1> QED
    BY <1>2, <1>3, <1>5, <1>6 DEF DiagnosisInv, RequestsInv

LEMMA CloseRecordKeeps ==
    ASSUME DiagnosisInv, NEW c \in Client, CloseRecord(c)
    PROVE  DiagnosisInv'
  <1>1. PICK l : l = req[c]
    OBVIOUS
  <1>2. /\ RequestInv(l) /\ l \in Request /\ StepOfOp(l) /\ Waits(l) /\ l.pc = "close"
        /\ l.op \in {"ignore", "false_positive"}
    BY <1>1, RequestFacts DEF CloseRecord, At, StepOfOp, RequestInv
  <1>3. PICK n : n = [l EXCEPT !.pc = "record"]
    OBVIOUS
  <1>4. /\ RequestInv(n) /\ Waits(n) /\ n.pc = "record"
        /\ CarriesAnswer(l, n) /\ CarriesTicket(l, n)
    BY <1>2, <1>3, StepChanges
  <1>5. /\ req' = [req EXCEPT ![c] = n] /\ state' # "escalated"
        /\ UNCHANGED <<evidence, run, tickets>>
    BY <1>1, <1>3 DEF CloseRecord, Become
  <1> QED
    BY <1>1, <1>4, <1>5, StateStep

LEMMA MarkEscalatedKeeps ==
    ASSUME DiagnosisInv, NEW c \in Client, MarkEscalated(c)
    PROVE  DiagnosisInv'
  <1>1. PICK n : n = Idle
    OBVIOUS
  <1>2. RequestInv(n) /\ Waits(n) /\ n.pc = "idle"
    BY <1>1, IdleInv
  <1>3. CarriesAnswer(req[c], n) /\ CarriesTicket(req[c], n)
    BY <1>1, IdleCarries
  <1> QED
    BY <1>1, <1>2, <1>3, StateStep DEF MarkEscalated, At, Become

LEMMA CloseElsewhereKeeps ==
    ASSUME DiagnosisInv, CloseElsewhere
    PROVE  DiagnosisInv'
  <1>1. RunsInv /\ EvidenceInv /\ RequestsInv /\ EscalationOnRecord
    BY InvParts
  <1>2. state' # "escalated" /\ UNCHANGED <<evidence, run, tickets, req>>
    BY DEF CloseElsewhere
  <1>3. RunsOnward /\ GatesHeld /\ RunsInv'
    BY <1>1, <1>2, RunsKept DEF GatesHeld, RunsInv
  <1>4. RequestsInv' /\ EvidenceInv'
    BY <1>1, <1>2, <1>3, RequestsKept, EvidenceStable
  <1>5. EscalationOnRecord'
    BY <1>1, <1>2, EscalationKept
  <1>6. AnswersOnce' /\ NamedInv'
    BY <1>2, AllCarry
  <1> QED
    BY <1>3, <1>4, <1>5, <1>6 DEF DiagnosisInv, RequestsInv

\* What a request hands over to the entry that it writes, and what it keeps.
IsEscalation(e) == e.type = "diagnose_decision" /\ e.decision = "escalate" /\ e.ticket # None

HandsOver(l, e, n) ==
    /\ e.answer \in Verdicts => l.answer \in Verdicts /\ e.run = l.run /\ n.answer \notin Verdicts
    /\ CarriesAnswer(l, n)
    /\ IsEscalation(e) => Escalating(l) /\ l.ticket = e.ticket
    /\ ~Escalating(n)

AppendsEntry(e) ==
    /\ DOMAIN evidence' = DOMAIN evidence \cup {Len(evidence) + 1}
    /\ Len(evidence) + 1 \notin DOMAIN evidence
    /\ \A i \in DOMAIN evidence : evidence'[i] = evidence[i]
    /\ evidence'[Len(evidence) + 1] = e

LEMMA AnswerWritten ==
    ASSUME DiagnosisInv, NEW c \in Client, NEW n, req' = [req EXCEPT ![c] = n],
           NEW e, AppendsEntry(e), HandsOver(req[c], e, n)
    PROVE  AnswersOnce'
  <1>1. \A d \in Client : req'[d] = IF d = c THEN n ELSE req[d]
    BY DEF DiagnosisInv
  <1>2. PICK k : k = Len(evidence) + 1
    OBVIOUS
  <1>3. /\ DOMAIN evidence' = DOMAIN evidence \cup {k} /\ k \notin DOMAIN evidence
        /\ \A i \in DOMAIN evidence : evidence'[i] = evidence[i]
        /\ evidence'[k] = e
    BY <1>2 DEF AppendsEntry
  <1>4. AnswersOnce
    BY DEF DiagnosisInv
  <1>5. /\ e.answer \in Verdicts => req[c].answer \in Verdicts /\ e.run = req[c].run /\ n.answer \notin Verdicts
        /\ n.answer \in Verdicts => req[c].answer \in Verdicts /\ n.run = req[c].run
    BY DEF HandsOver, CarriesAnswer
  <1>6. \A i, j \in DOMAIN evidence' :
          evidence'[i].answer \in Verdicts /\ evidence'[j].answer \in Verdicts
            /\ evidence'[i].run = evidence'[j].run => i = j
    BY <1>3, <1>4, <1>5 DEF AnswersOnce
  <1>7. \A b, d \in Client :
          req'[b].answer \in Verdicts /\ req'[d].answer \in Verdicts /\ req'[b].run = req'[d].run => b = d
    BY <1>1, <1>4, <1>5 DEF AnswersOnce
  <1>8. \A i \in DOMAIN evidence', d \in Client :
          ~(evidence'[i].answer \in Verdicts /\ req'[d].answer \in Verdicts /\ evidence'[i].run = req'[d].run)
    BY <1>1, <1>3, <1>4, <1>5 DEF AnswersOnce
  <1> QED
    BY <1>6, <1>7, <1>8 DEF AnswersOnce

\* The first escalation leaves out the request that writes it; a later one is known, or
\* comes from one of those that do not know.
LEMMA TicketWritten ==
    ASSUME DiagnosisInv, NEW c \in Client, NEW n, req' = [req EXCEPT ![c] = n],
           NEW e, AppendsEntry(e), HandsOver(req[c], e, n)
    PROVE  NamedInv'
  <1>1. \A d \in Client : req'[d] = IF d = c THEN n ELSE req[d]
    BY DEF DiagnosisInv
  <1>2. ~Escalating(n) /\ (IsEscalation(e) => Escalating(req[c]) /\ req[c].ticket = e.ticket)
    BY DEF HandsOver
  <1>3. Named' = Named \cup (IF IsEscalation(e) THEN {e.ticket} ELSE {})
    BY DEF AppendsEntry, Named, Escalations, Places, IsEscalation
  <1>4. Unaware' \subseteq Unaware \ {c}
    BY <1>1, <1>2, <1>3 DEF Unaware, Escalating
  <1>5. /\ IsFiniteSet(Named) /\ IsFiniteSet(Unaware) /\ IsFiniteSet(Client)
        /\ Cardinality(Named) \in Nat /\ Cardinality(Unaware) \in Nat /\ Cardinality(Client) \in Nat
    BY NamedIsFinite DEF DiagnosisInv
  <1>6. NamedInv
    BY DEF DiagnosisInv
  <1>7. /\ IsFiniteSet(Unaware') /\ Cardinality(Unaware') \in Nat
        /\ Cardinality(Unaware') <= Cardinality(Unaware)
        /\ Unaware' \subseteq Client \ {c}
    <2>1. Unaware' \in SUBSET Unaware /\ Unaware' \subseteq Client \ {c}
      BY <1>4 DEF Unaware
    <2> QED
      BY <1>5, <2>1, FS_Subset, FS_CardinalityType
  <1>8. CASE ~IsEscalation(e) \/ e.ticket \in Named
    <2>1. Named' = Named
      BY <1>3, <1>8
    <2> QED
      BY <1>5, <1>6, <1>7, <2>1 DEF NamedInv
  <1>9. CASE IsEscalation(e) /\ e.ticket \notin Named
    <2>1. Named' = Named \cup {e.ticket}
      BY <1>3, <1>9
    <2>2. Cardinality(Named') = Cardinality(Named) + 1
      BY <1>5, <1>9, <2>1, FS_AddElement
    <2>3. CASE Named = {}
      <3>1. /\ IsFiniteSet(Client \ {c}) /\ Cardinality(Client \ {c}) = Cardinality(Client) - 1
        BY <1>5, FS_RemoveElement
      <3>2. Cardinality(Unaware') <= Cardinality(Client) - 1
        BY <1>7, <3>1, FS_Subset
      <3>3. Cardinality(Named) = 0
        BY <2>3, FS_EmptySet
      <3> QED
        BY <1>5, <1>7, <2>2, <3>2, <3>3 DEF NamedInv
    <2>4. CASE Named # {}
      <3>1. c \in Unaware
        BY <1>2, <1>9 DEF Unaware
      <3>2. IsFiniteSet(Unaware \ {c}) /\ Cardinality(Unaware \ {c}) = Cardinality(Unaware) - 1
        BY <1>5, <3>1, FS_RemoveElement
      <3>3. Cardinality(Unaware') <= Cardinality(Unaware) - 1
        BY <1>4, <3>2, FS_Subset
      <3>4. Cardinality(Named) + Cardinality(Unaware) <= Cardinality(Client)
        BY <1>6, <2>4 DEF NamedInv
      <3> QED
        BY <1>5, <1>7, <2>2, <3>3, <3>4 DEF NamedInv
    <2> QED
      BY <2>3, <2>4
  <1> QED
    BY <1>8, <1>9

\* A request goes on and writes an entry.
LEMMA WritingStep ==
    ASSUME DiagnosisInv, UNCHANGED <<state, run, tickets>>, NEW c \in Client, NEW l,
           req' = [req EXCEPT ![c] = l], RequestInv(l), Waits(l),
           NEW e \in Entry, EntryInv(e), evidence' = Append(evidence, e),
           HandsOver(req[c], e, l),
           l.pc = "escalate" => IsEscalation(e)
    PROVE  DiagnosisInv'
  <1>1. RunsInv /\ EvidenceInv /\ RequestsInv /\ EscalationOnRecord
    BY InvParts
  <1>2. RunsInv' /\ RunsOnward /\ RequestsInv'
    BY <1>1, LocalStep
  <1>3. EntryInv(e)'
    BY <1>1, <1>2, EntryStable
  <1>4. /\ EvidenceInv'
        /\ DOMAIN evidence' = DOMAIN evidence \cup {Len(evidence) + 1}
        /\ Len(evidence) + 1 \notin DOMAIN evidence
        /\ \A i \in DOMAIN evidence : evidence'[i] = evidence[i]
        /\ evidence'[Len(evidence) + 1] = e
    BY <1>1, <1>2, <1>3, EvidenceAppended
  <1>5. \A d \in Client : req'[d] = IF d = c THEN l ELSE req[d]
    BY <1>1 DEF RequestsInv
  <1>6. EscalationOnRecord'
    <2>1. CASE l.pc = "escalate"
      BY <1>4, <2>1 DEF EscalationOnRecord, Escalations, Places, IsEscalation
    <2>2. CASE l.pc # "escalate"
      <3>1. \A d \in Client : req'[d].pc = "escalate" => req[d].pc = "escalate"
        BY <1>5, <2>2
      <3>2. \A i \in DOMAIN evidence : i \in DOMAIN evidence' /\ evidence'[i] = evidence[i]
        BY <1>4
      <3> QED
        BY <1>1, <3>1, <3>2, EscalationKept
    <2> QED
      BY <2>1, <2>2
  <1>7. AppendsEntry(e)
    BY <1>4 DEF AppendsEntry
  <1>8. AnswersOnce' /\ NamedInv'
    BY <1>7, AnswerWritten, TicketWritten
  <1> QED
    BY <1>2, <1>4, <1>6, <1>8 DEF DiagnosisInv, RequestsInv

\* The new run is bound to the record.
LEMMA BindingIsEntry ==
    ASSUME RunsInv, NEW r \in DOMAIN run
    PROVE  Binding(r) \in Entry /\ EntryInv(Binding(r))
  <1>1. r \in Nat
    BY RunFields
  <1>2. PICK e : e = Binding(r)
    OBVIOUS
  <1>3. e.type = "agent_run" /\ e.run = r /\ e.answer = "none"
    BY <1>2 DEF Binding
  <1>4. EntryInv(e)
    BY <1>3 DEF EntryInv, GateAnswered, Verdicts
  <1>5. Binding(r) \in Entry
    BY <1>1 DEF Binding, Entry, Kinds, MaybeAdvice, MaybeTicket, MaybeRun, Answers
  <1> QED
    BY <1>2, <1>4, <1>5

LEMMA BindRunKeeps ==
    ASSUME DiagnosisInv, NEW c \in Client, BindRun(c)
    PROVE  DiagnosisInv'
  <1>1. PICK l : l = req[c]
    OBVIOUS
  <1>2. /\ RequestInv(l) /\ l \in Request /\ StepOfOp(l) /\ KnowsRuns(l) /\ Waits(l)
        /\ l.pc = "bind" /\ l.op \in {"reject", "analyze"} /\ l.new \in DOMAIN run /\ RunsInv
    BY <1>1, RequestFacts DEF BindRun, At, StepOfOp, KnowsRuns, RequestInv
  <1>3. PICK e : e = Binding(l.new)
    OBVIOUS
  <1>4. e \in Entry /\ EntryInv(e) /\ e.answer \notin Verdicts /\ ~IsEscalation(e)
    BY <1>2, <1>3, BindingIsEntry DEF Binding, Verdicts, IsEscalation
  <1>5. /\ evidence' = Append(evidence, e) /\ UNCHANGED <<state, run, tickets>>
        /\ req' = [req EXCEPT ![c] = IF l.op = "analyze" THEN Idle ELSE [l EXCEPT !.pc = "record"]]
    BY <1>1, <1>3 DEF BindRun, Become
  <1>6. CASE l.op = "analyze"
    <2>1. PICK n : n = Idle
      OBVIOUS
    <2>2. RequestInv(n) /\ Waits(n) /\ n.pc = "idle"
      BY <2>1, IdleInv
    <2>3. HandsOver(l, e, n)
      BY <1>4, <2>1, <2>2, IdleCarries DEF HandsOver, Escalating
    <2> QED
      BY <1>1, <1>4, <1>5, <1>6, <2>1, <2>2, <2>3, WritingStep
  <1>7. CASE l.op # "analyze"
    <2>1. PICK n : n = [l EXCEPT !.pc = "record"]
      OBVIOUS
    <2>2. /\ RequestInv(n) /\ Waits(n) /\ n.pc = "record" /\ n.op = l.op
          /\ CarriesAnswer(l, n)
      BY <1>2, <1>7, <2>1, StepChanges
    <2>3. HandsOver(l, e, n)
      BY <1>2, <1>4, <2>2 DEF HandsOver, Escalating
    <2> QED
      BY <1>1, <1>4, <1>5, <1>7, <2>1, <2>2, <2>3, WritingStep
  <1> QED
    BY <1>6, <1>7

\* The decision is written with what agentflow answered; an escalation goes on to the state.
LEMMA DecisionWritten ==
    ASSUME DiagnosisInv, NEW c \in Client, RecordDecision(c)
    PROVE  \E e \in Entry, n \in Request :
              /\ EntryInv(e) /\ evidence' = Append(evidence, e) /\ UNCHANGED <<state, run, tickets>>
              /\ req' = [req EXCEPT ![c] = n] /\ RequestInv(n) /\ Waits(n)
              /\ n.pc \in {"idle", "escalate"} /\ (n.pc = "escalate" => IsEscalation(e))
              /\ HandsOver(req[c], e, n)
              /\ e.type = "diagnose_decision" /\ e.advice = req[c].advice
              /\ e.decision = "reject" <=> req[c].op = "reject"
  <1>1. PICK l : l = req[c]
    OBVIOUS
  <1>2. /\ RequestInv(l) /\ l \in Request /\ StepOfOp(l) /\ KnowsRuns(l) /\ Waits(l)
        /\ l.pc = "record" /\ l.op \in Decisions \cup {"direct"} /\ RunsInv
    BY <1>1, RequestFacts DEF RecordDecision, At, StepOfOp, RequestInv
  <1>3. PICK d : d = IF l.op = "direct" THEN "escalate" ELSE l.op
    OBVIOUS
  <1>4. PICK e : e = [type |-> "diagnose_decision", run |-> l.run, decision |-> d,
                      advice |-> l.advice, ticket |-> l.ticket, answer |-> l.answer]
    OBVIOUS
  <1>5. d \in Kinds /\ (d = "reject" <=> l.op = "reject") /\ (d = "escalate" <=> l.op \in {"escalate", "direct"})
    BY <1>2, <1>3 DEF Kinds, Decisions
  <1>6. e \in Entry
    BY <1>2, <1>4, <1>5 DEF Request, Entry
  <1>7. /\ e.type = "diagnose_decision" /\ e.run = l.run /\ e.decision = d
        /\ e.ticket = l.ticket /\ e.answer = l.answer /\ e.advice = l.advice
    BY <1>4
  <1>8. l.answer \in Verdicts => l.run \in DOMAIN run
    BY <1>2 DEF KnowsRuns, Verdicts
  <1>9. l.op \in {"escalate", "direct"} => l.ticket \in tickets /\ l.ticket # None
    BY <1>2, RunsAssumption DEF KnowsRuns, RunsInv, Tickets
  <1>10. EntryInv(e)
    BY <1>2, <1>5, <1>7, <1>8, <1>9 DEF EntryInv, KnowsRuns, GateAnswered
  <1>11. PICK n : n = IF l.op \in {"escalate", "direct"} THEN [Idle EXCEPT !.pc = "escalate", !.op = l.op] ELSE Idle
    OBVIOUS
  <1>12. evidence' = Append(evidence, e) /\ UNCHANGED <<state, run, tickets>> /\ req' = [req EXCEPT ![c] = n]
    BY <1>1, <1>3, <1>4, <1>11 DEF RecordDecision, Become
  <1>13. /\ n.ticket = None /\ n.answer = "none" /\ n.todo = {} /\ n.seen = {} /\ n.read = FALSE
         /\ n.waited = FALSE
         /\ \/ n.pc = "escalate" /\ l.op \in {"escalate", "direct"}
            \/ n.pc = "idle" /\ l.op \notin {"escalate", "direct"}
    BY <1>11 DEF Idle
  <1>14. n \in Request
    <2>1. Idle \in Request /\ l.op \in Kinds /\ "escalate" \in Steps
      BY <1>2, IdleInv DEF RequestInv, Request, Steps
    <2> QED
      BY <1>11, <2>1 DEF Request
  <1>15. RequestInv(n) /\ Waits(n)
    <2>1. StepOfOp(n) /\ ShowsRuns(n) /\ Waits(n)
      BY <1>13 DEF StepOfOp, ShowsRuns, Waits
    <2>2. KnowsRuns(n)
      BY <1>13 DEF KnowsRuns, GateAnswered, HasRun, Verdicts
    <2> QED
      BY <1>14, <2>1, <2>2 DEF RequestInv
  <1>16. HandsOver(l, e, n) /\ (n.pc = "escalate" => IsEscalation(e))
    BY <1>2, <1>5, <1>7, <1>9, <1>13 DEF HandsOver, CarriesAnswer, IsEscalation, Escalating, Verdicts
  <1>17. n.pc \in {"idle", "escalate"}
    BY <1>13
  <1> QED
    BY <1>1, <1>5, <1>6, <1>7, <1>10, <1>12, <1>14, <1>15, <1>16, <1>17

LEMMA RecordDecisionKeeps ==
    ASSUME DiagnosisInv, NEW c \in Client, RecordDecision(c)
    PROVE  DiagnosisInv'
  <1>1. PICK e \in Entry, n \in Request :
              /\ EntryInv(e) /\ evidence' = Append(evidence, e) /\ UNCHANGED <<state, run, tickets>>
              /\ req' = [req EXCEPT ![c] = n] /\ RequestInv(n) /\ Waits(n)
              /\ n.pc = "escalate" => IsEscalation(e)
              /\ HandsOver(req[c], e, n)
    BY DecisionWritten
  <1> QED
    BY <1>1, WritingStep

-----------------------------------------------------------------------------
(***************************************************************************)
(* The page.                                                               *)
(***************************************************************************)
\* A status that is not "analyzing" is that of a run that is settled.
LEMMA StatusIsSettled ==
    ASSUME RunsInv, NEW r \in DOMAIN run
    PROVE  /\ AgentflowStatus(run[r].status) \in Statuses
           /\ AgentflowStatus(run[r].status) # "analyzing" => Settled(r)
  <1>1. run[r].status \in RunStatuses
    BY RunFields
  <1>2. run[r].status = "waiting_approval" => run[r].gate # "ahead"
    BY DEF RunsInv
  <1> QED
    BY <1>1, <1>2 DEF AgentflowStatus, Statuses, Settled, RunStatuses, Over

LEMMA FetchExecutionKeeps ==
    ASSUME DiagnosisInv, NEW c \in Client, NEW r \in DOMAIN run, FetchExecution(c, r)
    PROVE  DiagnosisInv'
  <1>1. PICK l : l = req[c]
    OBVIOUS
  <1>2. /\ l \in Request /\ StepOfOp(l) /\ KnowsRuns(l) /\ ShowsRuns(l) /\ Waits(l)
        /\ l.pc = "runs" /\ l.op = "page" /\ RunsInv
    BY <1>1, RequestFacts DEF FetchExecution, At, StepOfOp
  <1>3. PICK s \in {AgentflowStatus(run[r].status), "unknown"} :
            req' = [req EXCEPT ![c] = [l EXCEPT !.todo = l.todo \ {r}, !.seen = l.seen \cup {<<r, s>>}]]
    BY <1>1 DEF FetchExecution, Become
  <1>4. s \in Statuses /\ (s \notin {"analyzing", "unknown"} => Settled(r)) /\ r \in Nat
    BY <1>2, <1>3, StatusIsSettled, RunFields DEF Statuses
  <1>5. PICK E : E = l.todo \ {r}
    OBVIOUS
  <1>6. PICK V : V = l.seen \cup {<<r, s>>}
    OBVIOUS
  <1>7. l.todo \in RunSets /\ l.seen \in SeenSets
    BY <1>2 DEF Request
  <1>8. E \in RunSets /\ V \in SeenSets
    BY <1>4, <1>5, <1>6, <1>7 DEF RunSets, SeenSets
  <1>9. PICK n : n = [l EXCEPT !.todo = E, !.seen = V]
    OBVIOUS
  <1>10. n \in Request
    BY <1>2, <1>8, <1>9 DEF Request
  <1>11. /\ n.pc = l.pc /\ n.op = l.op /\ n.run = l.run /\ n.ticket = l.ticket
         /\ n.gate = l.gate /\ n.answer = l.answer /\ n.todo = E /\ n.seen = V
         /\ n.read = l.read /\ n.waited = l.waited
    BY <1>2, <1>9 DEF Request
  <1>12. StepOfOp(n) /\ Waits(n)
    BY <1>2, <1>11 DEF StepOfOp, Waits
  <1>13. KnowsRuns(n)
    BY <1>2, <1>11 DEF KnowsRuns, HasRun
  <1>14. ShowsRuns(n)
    <2>1. E \subseteq DOMAIN run
      BY <1>2, <1>5 DEF ShowsRuns
    <2>2. \A x \in V : x[1] \in DOMAIN run /\ (x[2] \notin {"analyzing", "unknown"} => Settled(x[1]))
      BY <1>2, <1>4, <1>6 DEF ShowsRuns
    <2> QED
      BY <1>2, <1>11, <2>1, <2>2 DEF ShowsRuns
  <1>15. req' = [req EXCEPT ![c] = n] /\ UNCHANGED <<state, evidence, run, tickets>>
    BY <1>3, <1>5, <1>6, <1>9 DEF FetchExecution
  <1>16. CarriesAnswer(l, n) /\ CarriesTicket(l, n)
    BY <1>2, <1>11, SameCarries
  <1> QED
    BY <1>1, <1>2, <1>10, <1>11, <1>12, <1>13, <1>14, <1>15, <1>16, RequestStep DEF RequestInv

LEMMA BuildPageKeeps ==
    ASSUME DiagnosisInv, NEW c \in Client, BuildPage(c)
    PROVE  DiagnosisInv'
  <1>1. PICK l : l = req[c]
    OBVIOUS
  <1>2. /\ l \in Request /\ StepOfOp(l) /\ KnowsRuns(l) /\ ShowsRuns(l) /\ Waits(l)
        /\ l.pc = "runs" /\ l.op = "page" /\ l.run \in DOMAIN run /\ RunsInv /\ HasRun(l)
    BY <1>1, RequestFacts DEF BuildPage, At, StepOfOp
  <1>3. UNCHANGED <<state, evidence, run, tickets>>
    BY DEF BuildPage
  <1>4. PICK g : g = ApprovalNode(run[l.run])
    OBVIOUS
  <1>5. PICK s : s = AgentflowStatus(run[l.run].status)
    OBVIOUS
  <1>6. /\ g \in MaybeGate /\ (run[l.run].gate = "pending" => g = run[l.run].node)
        /\ s \in Statuses /\ (s # "analyzing" => Settled(l.run))
        /\ "analyzing" \in Statuses /\ "shown" \in Steps
    BY <1>2, <1>4, <1>5, GateNodeNames, StatusIsSettled DEF Statuses, Steps
  <1>7. PICK n : /\ req' = [req EXCEPT ![c] = n]
                 /\ \/ n = [l EXCEPT !.pc = "shown", !.read = TRUE, !.gate = g, !.status = s]
                    \/ n = [l EXCEPT !.pc = "shown", !.status = "analyzing"]
    BY <1>1, <1>4, <1>5 DEF BuildPage, Become
  <1>8. n \in Request
    BY <1>2, <1>6, <1>7 DEF Request
  <1>9. /\ n.pc = "shown" /\ n.op = l.op /\ n.run = l.run /\ n.ticket = l.ticket
        /\ n.answer = l.answer /\ n.todo = l.todo /\ n.seen = l.seen /\ n.waited = l.waited
        /\ \/ n.gate = g /\ n.status = s
           \/ n.gate = l.gate /\ n.read = l.read /\ n.status = "analyzing"
    BY <1>2, <1>7 DEF Request
  <1>10. StepOfOp(n) /\ Waits(n)
    BY <1>2, <1>9 DEF StepOfOp, Waits
  <1>11. KnowsRuns(n)
    <2>1. n.read /\ n.waited => n.gate = run[n.run].node
      BY <1>2, <1>6, <1>9 DEF KnowsRuns, Waits
    <2> QED
      BY <1>2, <1>9, <2>1 DEF KnowsRuns, HasRun
  <1>12. ShowsRuns(n)
    BY <1>2, <1>6, <1>9 DEF ShowsRuns
  <1>13. CarriesAnswer(l, n) /\ CarriesTicket(l, n)
    BY <1>2, <1>9, SameCarries
  <1> QED
    BY <1>1, <1>3, <1>7, <1>8, <1>9, <1>10, <1>11, <1>12, <1>13, RequestStep DEF RequestInv

-----------------------------------------------------------------------------
(***************************************************************************)
(* agentflow.                                                              *)
(***************************************************************************)
\* One run goes on.
LEMMA RunMoves ==
    ASSUME RunsInv, NEW r \in DOMAIN run, NEW q \in Run, run' = [run EXCEPT ![r] = q],
           tickets \subseteq tickets', tickets' \subseteq tickets \cup {<<"run", r>>},
           q.node = run[r].node, q.advice = run[r].advice,
           run[r].gate \in {"approved", "rejected", "expired"} => q.gate = run[r].gate,
           run[r].gate = "pending" => q.gate # "ahead",
           Settled(r) => q.gate # "ahead" \/ q.status \in Over,
           q.status = "waiting_approval" => q.gate # "ahead",
           q.ticket = "done" => q.gate = "approved" /\ <<"run", r>> \in tickets',
           <<"run", r>> \in tickets' \ tickets => q.gate = "approved"
    PROVE  /\ RunsInv' /\ RunsOnward
           /\ DOMAIN run' = DOMAIN run /\ run'[r] = q
           /\ \A x \in DOMAIN run \ {r} : run'[x] = run[x]
  <1>1. run \in Seq(Run)
    BY DEF RunsInv
  <1>2. /\ DOMAIN run' = DOMAIN run /\ run'[r] = q
        /\ \A x \in DOMAIN run \ {r} : run'[x] = run[x]
    OBVIOUS
  <1>3. run' \in Seq(Run)
    BY <1>1, ExceptSeq, LenProperties
  <1>4. \A x \in DOMAIN run' : run'[x].status = "waiting_approval" => run'[x].gate # "ahead"
    BY <1>2 DEF RunsInv
  <1>5. \A x \in DOMAIN run' : run'[x].ticket = "done"
            => run'[x].gate = "approved" /\ <<"run", x>> \in tickets'
    BY <1>2 DEF RunsInv
  <1>6. \A t \in tickets' : t[1] = "run" => t[2] \in DOMAIN run' /\ run'[t[2]].gate = "approved"
    <2>1. \A t \in tickets : t[1] = "run" => t[2] \in DOMAIN run' /\ run'[t[2]].gate = "approved"
      BY <1>2 DEF RunsInv
    <2>2. <<"run", r>> \in tickets' \ tickets => run'[r].gate = "approved"
      BY <1>2
    <2> QED
      BY <1>2, <2>1, <2>2
  <1>7. tickets' \subseteq Tickets /\ IsFiniteSet(tickets')
    <2>1. <<"run", r>> \in Tickets
      BY RunFields DEF Tickets
    <2>2. IsFiniteSet(tickets \cup {<<"run", r>>})
      BY FS_AddElement DEF RunsInv
    <2> QED
      BY <2>1, <2>2, FS_Subset DEF RunsInv
  <1>8. RunsInv'
    BY <1>3, <1>4, <1>5, <1>6, <1>7 DEF RunsInv
  <1>9. RunsOnward
    BY <1>2 DEF RunsOnward, Settled
  <1> QED
    BY <1>2, <1>8, <1>9

\* The record and the requests when a run goes on and no gate is answered.
LEMMA AgentflowStep ==
    ASSUME DiagnosisInv, RunsInv', RunsOnward, GatesHeld, UNCHANGED <<state, evidence, req>>
    PROVE  DiagnosisInv'
  <1>1. RunsInv /\ EvidenceInv /\ RequestsInv /\ EscalationOnRecord
    BY InvParts
  <1>2. RequestsInv' /\ EvidenceInv'
    BY <1>1, RequestsKept, EvidenceStable
  <1>3. EscalationOnRecord'
    BY <1>1, EscalationKept
  <1>4. AnswersOnce' /\ NamedInv'
    BY AllCarry
  <1> QED
    BY <1>2, <1>3, <1>4 DEF DiagnosisInv, RequestsInv

LEMMA ReachGateKeeps ==
    ASSUME DiagnosisInv, NEW r \in DOMAIN run, ReachGate(r)
    PROVE  DiagnosisInv'
  <1>1. RunsInv /\ run[r] \in Run
    BY InvParts, RunFields
  <1>2. PICK q : q = [run[r] EXCEPT !.gate = "pending", !.status = "waiting_approval", !.plan = TRUE]
    OBVIOUS
  <1>3. q \in Run
    BY <1>1, <1>2 DEF Run, Gates, RunStatuses
  <1>4. /\ q.gate = "pending" /\ q.status = "waiting_approval" /\ q.node = run[r].node
        /\ q.ticket = run[r].ticket /\ q.advice = run[r].advice
    BY <1>1, <1>2 DEF Run
  <1>5. /\ run' = [run EXCEPT ![r] = q] /\ run[r].gate = "ahead"
        /\ UNCHANGED <<state, evidence, tickets, req>>
    BY <1>2 DEF ReachGate
  <1>6. run[r].ticket # "done"
    BY <1>1, <1>5 DEF RunsInv
  <1>7. /\ RunsInv' /\ RunsOnward /\ run'[r] = q
        /\ \A x \in DOMAIN run \ {r} : run'[x] = run[x]
    BY <1>1, <1>3, <1>4, <1>5, <1>6, RunMoves
  <1>8. GatesHeld
    BY <1>4, <1>7 DEF GatesHeld
  <1> QED
    BY <1>5, <1>7, <1>8, AgentflowStep

LEMMA HaltKeeps ==
    ASSUME DiagnosisInv, NEW r \in DOMAIN run, Halt(r)
    PROVE  DiagnosisInv'
  <1>1. RunsInv /\ run[r] \in Run
    BY InvParts, RunFields
  <1>2. PICK q : q = [run[r] EXCEPT !.status = "failed"]
    OBVIOUS
  <1>3. q \in Run
    BY <1>1, <1>2 DEF Run, RunStatuses, Over
  <1>4. /\ q.gate = run[r].gate /\ q.status = "failed" /\ q.node = run[r].node
        /\ q.ticket = run[r].ticket /\ q.advice = run[r].advice /\ q.status \in Over
    BY <1>1, <1>2 DEF Run, Over
  <1>5. /\ run' = [run EXCEPT ![r] = q] /\ run[r].gate = "ahead"
        /\ UNCHANGED <<state, evidence, tickets, req>>
    BY <1>2 DEF Halt
  <1>6. run[r].ticket # "done"
    BY <1>1, <1>5 DEF RunsInv
  <1>7. /\ RunsInv' /\ RunsOnward /\ run'[r] = q
        /\ \A x \in DOMAIN run \ {r} : run'[x] = run[x]
    BY <1>1, <1>3, <1>4, <1>5, <1>6, RunMoves
  <1>8. GatesHeld
    BY <1>4, <1>7 DEF GatesHeld
  <1> QED
    BY <1>5, <1>7, <1>8, AgentflowStep

LEMMA FinishKeeps ==
    ASSUME DiagnosisInv, NEW r \in DOMAIN run, Finish(r)
    PROVE  DiagnosisInv'
  <1>1. RunsInv /\ run[r] \in Run
    BY InvParts, RunFields
  <1>2. PICK q : q = [run[r] EXCEPT !.status = "success"]
    OBVIOUS
  <1>3. q \in Run
    BY <1>1, <1>2 DEF Run, RunStatuses, Over
  <1>4. /\ q.gate = run[r].gate /\ q.status = "success" /\ q.node = run[r].node
        /\ q.ticket = run[r].ticket /\ q.advice = run[r].advice /\ q.status \in Over
    BY <1>1, <1>2 DEF Run, Over
  <1>5. /\ run' = [run EXCEPT ![r] = q] /\ UNCHANGED <<state, evidence, tickets, req>>
    BY <1>2 DEF Finish
  <1>6. run[r].ticket = "done" => run[r].gate = "approved" /\ <<"run", r>> \in tickets
    BY <1>1 DEF RunsInv
  <1>7. /\ RunsInv' /\ RunsOnward /\ run'[r] = q
        /\ \A x \in DOMAIN run \ {r} : run'[x] = run[x]
    BY <1>1, <1>3, <1>4, <1>5, <1>6, RunMoves
  <1>8. GatesHeld
    BY <1>4, <1>7 DEF GatesHeld
  <1> QED
    BY <1>5, <1>7, <1>8, AgentflowStep

\* The ticket node of an approved run makes its ticket, or fails.
LEMMA MakeTicketKeeps ==
    ASSUME DiagnosisInv, NEW r \in DOMAIN run, MakeTicket(r)
    PROVE  DiagnosisInv'
  <1>1. RunsInv /\ run[r] \in Run
    BY InvParts, RunFields
  <1>2. PICK q : /\ run' = [run EXCEPT ![r] = q]
                 /\ \/ /\ q = [run[r] EXCEPT !.ticket = "done", !.status = "running"]
                       /\ tickets' = tickets \cup {<<"run", r>>}
                    \/ /\ q = [run[r] EXCEPT !.ticket = "failed", !.status = "failed"]
                       /\ tickets' = tickets
    BY DEF MakeTicket
  <1>3. q \in Run
    BY <1>1, <1>2 DEF Run, RunStatuses, Over
  <1>4. /\ q.gate = run[r].gate /\ q.node = run[r].node /\ q.advice = run[r].advice
        /\ q.status # "waiting_approval"
        /\ q.ticket = "done" => tickets' = tickets \cup {<<"run", r>>}
        /\ q.ticket # "done" => tickets' = tickets
    BY <1>1, <1>2 DEF Run
  <1>5. run[r].gate = "approved" /\ run[r].ticket = "none" /\ UNCHANGED <<state, evidence, req>>
    BY DEF MakeTicket
  <1>6. /\ RunsInv' /\ RunsOnward /\ run'[r] = q
        /\ \A x \in DOMAIN run \ {r} : run'[x] = run[x]
    BY <1>1, <1>2, <1>3, <1>4, <1>5, RunMoves
  <1>7. GatesHeld
    BY <1>4, <1>6 DEF GatesHeld
  <1> QED
    BY <1>5, <1>6, <1>7, AgentflowStep

\* A gate is answered or expires: no request goes on believing that it waits.
LEMMA UnwaitKeeps ==
    ASSUME RunsInv, RunsOnward, NEW r \in DOMAIN run,
           \A x \in DOMAIN run \ {r} : run'[x] = run[x],
           NEW f, req' = Unwait(r, f),
           \A d \in Client : RequestInv(f[d])',
           \A d \in Client : f[d].run # r => Waits(f[d]) /\ (f[d].waited => f[d].run \in DOMAIN run)
    PROVE  RequestsInv'
  <1>1. ASSUME NEW d \in Client
        PROVE  RequestInv(req[d])' /\ Waits(req[d])'
    <2>1. PICK m : m = f[d]
      OBVIOUS
    <2>2. RequestInv(m)' /\ (m.run # r => Waits(m) /\ (m.waited => m.run \in DOMAIN run))
      BY <2>1
    <2>3. PICK n : n = IF m.run = r THEN [m EXCEPT !.waited = FALSE] ELSE m
      OBVIOUS
    <2>4. req'[d] = n
      BY <2>1, <2>3 DEF Unwait
    <2>5. RequestInv(n)' /\ Waits(n)'
      <3>1. CASE m.run # r
        BY <2>2, <2>3, <3>1 DEF Waits
      <3>2. CASE m.run = r
        <4>1. m \in Request
          BY <2>2 DEF RequestInv
        <4>2. n \in Request
          BY <2>3, <3>2, <4>1 DEF Request
        <4>3. /\ n.pc = m.pc /\ n.op = m.op /\ n.run = m.run /\ n.advice = m.advice
              /\ n.past = m.past /\ n.ticket = m.ticket /\ n.gate = m.gate
              /\ n.answer = m.answer /\ n.new = m.new /\ n.todo = m.todo /\ n.seen = m.seen
              /\ n.status = m.status /\ n.waited = FALSE
          BY <2>3, <3>2, <4>1 DEF Request
        <4>4. StepOfOp(n)'
          BY <2>2, <4>3 DEF RequestInv, StepOfOp
        <4>5. KnowsRuns(n)'
          BY <2>2, <4>3 DEF RequestInv, KnowsRuns, GateAnswered, Feedback, HasRun
        <4>6. ShowsRuns(n)'
          BY <2>2, <4>3 DEF RequestInv, ShowsRuns, Settled
        <4> QED
          BY <4>2, <4>3, <4>4, <4>5, <4>6 DEF RequestInv, Waits
      <3> QED
        BY <3>1, <3>2
    <2> QED
      BY <2>4, <2>5
      DEF RequestInv, StepOfOp, KnowsRuns, ShowsRuns, Settled, GateAnswered, Feedback, Waits
  <1>2. req' = [d \in Client |-> req'[d]]
    BY DEF Unwait
  <1> QED
    BY <1>1, <1>2 DEF RequestsInv

\* It keeps its run, its answer and its ticket.
LEMMA UnwaitCarries ==
    ASSUME NEW r, NEW f, req' = Unwait(r, f), NEW d \in Client, f[d] \in Request
    PROVE  /\ req'[d].pc = f[d].pc /\ req'[d].op = f[d].op /\ req'[d].run = f[d].run
           /\ req'[d].answer = f[d].answer /\ req'[d].ticket = f[d].ticket
           /\ CarriesAnswer(f[d], req'[d]) /\ CarriesTicket(f[d], req'[d])
  <1>1. req'[d] = IF f[d].run = r THEN [f[d] EXCEPT !.waited = FALSE] ELSE f[d]
    BY DEF Unwait
  <1>2. /\ req'[d].pc = f[d].pc /\ req'[d].op = f[d].op /\ req'[d].run = f[d].run
        /\ req'[d].answer = f[d].answer /\ req'[d].ticket = f[d].ticket
    BY <1>1 DEF Request
  <1> QED
    BY <1>2 DEF CarriesAnswer, CarriesTicket, Escalating

LEMMA ExpireKeeps ==
    ASSUME DiagnosisInv, NEW r \in DOMAIN run, Expire(r)
    PROVE  DiagnosisInv'
  <1>1. RunsInv /\ run[r] \in Run /\ EvidenceInv /\ RequestsInv /\ EscalationOnRecord
    BY InvParts, RunFields
  <1>2. PICK q : q = [run[r] EXCEPT !.gate = "expired", !.status = "cancelled"]
    OBVIOUS
  <1>3. q \in Run
    BY <1>1, <1>2 DEF Run, Gates, RunStatuses, Over
  <1>4. /\ q.gate = "expired" /\ q.status = "cancelled" /\ q.node = run[r].node
        /\ q.ticket = run[r].ticket /\ q.advice = run[r].advice
    BY <1>1, <1>2 DEF Run
  <1>5. /\ run' = [run EXCEPT ![r] = q] /\ run[r].gate = "pending" /\ req' = Unwait(r, req)
        /\ UNCHANGED <<state, evidence, tickets>>
    BY <1>2 DEF Expire
  <1>6. run[r].ticket # "done"
    BY <1>1, <1>5 DEF RunsInv
  <1>7. /\ RunsInv' /\ RunsOnward
        /\ \A x \in DOMAIN run \ {r} : run'[x] = run[x]
    BY <1>1, <1>3, <1>4, <1>5, <1>6, RunMoves
  <1>8. PICK f : f = req
    OBVIOUS
  <1>9. \A d \in Client : RequestInv(f[d])'
    <2>1. \A m : RequestInv(m) => RequestInv(m)'
      BY <1>1, <1>7, RequestStable
    <2>2. \A d \in Client : RequestInv(f[d])
      BY <1>1, <1>8 DEF RequestsInv
    <2> QED
      BY <2>1, <2>2
  <1>10. \A d \in Client : Waits(f[d]) /\ (f[d].waited => f[d].run \in DOMAIN run)
    BY <1>1, <1>8 DEF RequestsInv, RequestInv, KnowsRuns
  <1>11. req' = Unwait(r, f)
    BY <1>5, <1>8
  <1>12. RequestsInv'
    BY <1>1, <1>7, <1>9, <1>10, <1>11, UnwaitKeeps
  <1>13. EvidenceInv'
    BY <1>1, <1>5, <1>7, EvidenceStable
  <1>14. \A d \in Client : req'[d].pc = "escalate" => req[d].pc = "escalate"
    BY <1>1, <1>5 DEF Unwait, RequestsInv, RequestInv, Request
  <1>15. EscalationOnRecord'
    BY <1>1, <1>5, <1>14, EscalationKept
  <1>16. \A d \in Client : CarriesAnswer(req[d], req'[d]) /\ CarriesTicket(req[d], req'[d])
    BY <1>8, <1>9, <1>11, UnwaitCarries DEF RequestInv
  <1>17. AnswersOnce' /\ NamedInv'
    BY <1>1, <1>5, <1>16, AnswersKept, NamedKept DEF DiagnosisInv
  <1> QED
    BY <1>7, <1>12, <1>13, <1>15, <1>17 DEF DiagnosisInv, RequestsInv

\* What a request becomes when it has tried to answer the gate.
LEMMA Answering ==
    ASSUME NEW l, RequestInv(l)', l.pc = "answer", l.op \in Decisions,
           NEW a \in Answers \ {"none"},
           GateAnswered(l.run, a)',
           NEW n, n = [l EXCEPT !.pc = AfterGate(l.op), !.answer = a, !.gate = None, !.read = FALSE]
    PROVE  /\ RequestInv(n)' /\ n.pc \in {"ticket", "start", "close"}
           /\ n.run = l.run /\ n.waited = l.waited
  <1>1. /\ AfterGate(l.op) \in {"ticket", "start", "close"}
        /\ {"ticket", "start", "close"} \subseteq Steps /\ None \in MaybeGate
    BY DEF AfterGate, Steps, MaybeGate
  <1>2. l \in Request
    BY DEF RequestInv
  <1>3. n \in Request
    BY <1>1, <1>2 DEF Request
  <1>4. /\ n.pc = AfterGate(l.op) /\ n.op = l.op /\ n.run = l.run /\ n.ticket = l.ticket
        /\ n.answer = a /\ n.todo = l.todo /\ n.seen = l.seen
        /\ n.read = FALSE /\ n.waited = l.waited
    BY <1>2 DEF Request
  <1>5. StepOfOp(n)'
    BY <1>4 DEF RequestInv, StepOfOp, AfterGate, Decisions
  <1>6. KnowsRuns(n)'
    <2>1. GateAnswered(n.run, n.answer)'
      BY <1>4 DEF GateAnswered
    <2>2. KnowsRuns(l)'
      BY DEF RequestInv
    <2> QED
      BY <1>1, <1>4, <2>1, <2>2 DEF KnowsRuns, HasRun, Decisions
  <1>7. ShowsRuns(n)'
    BY <1>1, <1>4 DEF RequestInv, ShowsRuns, Settled
  <1> QED
    BY <1>1, <1>3, <1>4, <1>5, <1>6, <1>7 DEF RequestInv

LEMMA AnswerGateKeeps ==
    ASSUME DiagnosisInv, NEW c \in Client, AnswerGate(c)
    PROVE  DiagnosisInv'
  <1>1. RunsInv /\ EvidenceInv /\ RequestsInv /\ EscalationOnRecord
    BY InvParts
  <1>2. PICK l : l = req[c]
    OBVIOUS
  <1>3. /\ RequestInv(l) /\ KnowsRuns(l) /\ Waits(l) /\ l.pc = "answer"
        /\ l.op \in Decisions /\ l.run \in DOMAIN run
        /\ l.gate = run[l.run].node /\ run[l.run].gate # "ahead"
    BY <1>2, RequestFacts DEF AnswerGate, At, StepOfOp, RequestInv, KnowsRuns
  <1>4. UNCHANGED <<state, evidence, tickets>> /\ l.ticket = None
    BY <1>3 DEF AnswerGate, RequestInv, StepOfOp
  <1>5. PICK verdict : verdict = IF l.op = "escalate" THEN "approved" ELSE "rejected"
    OBVIOUS
  <1>6. CASE /\ run[l.run].gate = "pending" /\ run' = [run EXCEPT ![l.run].gate = verdict]
             /\ \E a \in {verdict, "failed", "unreachable"} : req' = Unwait(l.run, [req EXCEPT ![c] =
                  [l EXCEPT !.pc = AfterGate(l.op), !.answer = a, !.gate = None, !.read = FALSE]])
    <2>1. PICK r : r = l.run
      OBVIOUS
    <2>2. PICK a \in {verdict, "failed", "unreachable"} : req' = Unwait(r, [req EXCEPT ![c] =
                  [l EXCEPT !.pc = AfterGate(l.op), !.answer = a, !.gate = None, !.read = FALSE]])
      BY <1>6, <2>1
    <2>3. PICK n : n = [l EXCEPT !.pc = AfterGate(l.op), !.answer = a, !.gate = None, !.read = FALSE]
      OBVIOUS
    <2>4. PICK q : q = [run[r] EXCEPT !.gate = verdict]
      OBVIOUS
    <2>5. r \in DOMAIN run /\ run[r] \in Run /\ verdict \in {"approved", "rejected"}
      BY <1>1, <1>3, <1>5, <2>1, RunFields
    <2>6. q \in Run
      BY <2>4, <2>5 DEF Run, Gates
    <2>7. /\ q.gate = verdict /\ q.status = run[r].status /\ q.node = run[r].node
          /\ q.ticket = run[r].ticket /\ q.advice = run[r].advice
      BY <2>4, <2>5 DEF Run
    <2>8. run[r].ticket # "done" /\ run[r].gate = "pending" /\ run' = [run EXCEPT ![r] = q]
      BY <1>1, <1>6, <2>1, <2>4, <2>5 DEF RunsInv
    <2>9. /\ RunsInv' /\ RunsOnward /\ run'[r] = q
          /\ \A x \in DOMAIN run \ {r} : run'[x] = run[x]
      BY <1>1, <1>4, <2>5, <2>6, <2>7, <2>8, RunMoves
    <2>10. GateAnswered(l.run, a)'
      BY <2>1, <2>2, <2>5, <2>7, <2>9 DEF GateAnswered, Verdicts
    <2>11. RequestInv(l)'
      BY <1>1, <1>3, <2>9, RequestStable
    <2>12. a \in Answers \ {"none"}
      BY <2>2, <2>5 DEF Answers
    <2>13. /\ RequestInv(n)' /\ n.pc \in {"ticket", "start", "close"}
           /\ n.run = r /\ n.ticket = None /\ n.op = l.op
      <3>1. RequestInv(n)' /\ n.pc \in {"ticket", "start", "close"} /\ n.run = l.run
        BY <1>3, <2>3, <2>10, <2>11, <2>12, Answering
      <3>2. n.ticket = l.ticket /\ n.op = l.op
        BY <1>3, <2>3 DEF RequestInv, Request
      <3> QED
        BY <1>4, <2>1, <3>1, <3>2
    <2>14. PICK f : f = [req EXCEPT ![c] = n]
      OBVIOUS
    <2>15. \A d \in Client : f[d] = IF d = c THEN n ELSE req[d]
      BY <1>1, <2>14 DEF RequestsInv
    <2>16. \A d \in Client : RequestInv(f[d])'
      <3>1. \A m : RequestInv(m) => RequestInv(m)'
        BY <1>1, <2>9, RequestStable
      <3>2. ASSUME NEW d \in Client, d # c
            PROVE  RequestInv(f[d])'
        <4>1. RequestInv(f[d])
          BY <1>1, <2>15, <3>2 DEF RequestsInv
        <4> QED
          BY <3>1, <4>1
      <3>3. RequestInv(f[c])'
        BY <2>13, <2>15
      <3> QED
        BY <3>2, <3>3
    <2>17. \A d \in Client : f[d].run # r => Waits(f[d]) /\ (f[d].waited => f[d].run \in DOMAIN run)
      BY <1>1, <2>13, <2>15 DEF RequestsInv, RequestInv, KnowsRuns
    <2>18. req' = Unwait(r, f)
      BY <2>2, <2>3, <2>14
    <2>19. RequestsInv'
      BY <1>1, <2>5, <2>9, <2>16, <2>17, <2>18, UnwaitKeeps
    <2>20. EvidenceInv'
      BY <1>1, <1>4, <2>9, EvidenceStable
    <2>21. ASSUME NEW d \in Client, req'[d].pc = "escalate"
           PROVE  req[d].pc = "escalate"
      <3>1. req'[d] = IF f[d].run = r THEN [f[d] EXCEPT !.waited = FALSE] ELSE f[d]
        BY <2>18 DEF Unwait
      <3>2. f[d] \in Request
        BY <2>16 DEF RequestInv
      <3>3. f[d].pc = "escalate"
        BY <2>21, <3>1, <3>2 DEF Request
      <3> QED
        BY <2>13, <2>15, <3>3
    <2>22. EscalationOnRecord'
      BY <1>1, <1>4, <2>21, EscalationKept
    <2>23. ASSUME NEW d \in Client
           PROVE  /\ req'[d].run = f[d].run /\ req'[d].answer = f[d].answer
                  /\ CarriesTicket(f[d], req'[d])
      <3>1. f[d] \in Request
        BY <2>16 DEF RequestInv
      <3> QED
        BY <2>18, <3>1, UnwaitCarries
    <2>24. AnswersOnce'
      <3>1. \A i \in DOMAIN evidence : ~(evidence[i].answer \in Verdicts /\ evidence[i].run = r)
        BY <1>1, <2>8 DEF EvidenceInv, EntryInv, GateAnswered, Verdicts
      <3>2. \A d \in Client : ~(req[d].answer \in Verdicts /\ req[d].run = r)
        BY <1>1, <2>8 DEF RequestsInv, RequestInv, KnowsRuns, GateAnswered, Verdicts
      <3>3. /\ \A d \in Client : d # c => req'[d].run = req[d].run /\ req'[d].answer = req[d].answer
            /\ req'[c].run = r
        BY <2>13, <2>15, <2>23
      <3>4. AnswersOnce
        BY DEF DiagnosisInv
      <3> QED
        <4>1. \A i, j \in DOMAIN evidence' :
                 evidence'[i].answer \in Verdicts /\ evidence'[j].answer \in Verdicts
                   /\ evidence'[i].run = evidence'[j].run => i = j
          BY <1>4, <3>4 DEF AnswersOnce
        <4>2. \A b, d \in Client :
                 req'[b].answer \in Verdicts /\ req'[d].answer \in Verdicts /\ req'[b].run = req'[d].run => b = d
          <5>1. ASSUME NEW b \in Client, NEW d \in Client, b # d, req'[b].answer \in Verdicts,
                       req'[d].answer \in Verdicts, req'[b].run = req'[d].run
                PROVE  FALSE
            <6>1. CASE b = c
              BY <3>2, <3>3, <5>1, <6>1
            <6>2. CASE d = c
              BY <3>2, <3>3, <5>1, <6>2
            <6>3. CASE b # c /\ d # c
              BY <3>3, <3>4, <5>1, <6>3 DEF AnswersOnce
            <6> QED
              BY <6>1, <6>2, <6>3
          <5> QED
            BY <5>1
        <4>3. \A i \in DOMAIN evidence', d \in Client :
                 ~(evidence'[i].answer \in Verdicts /\ req'[d].answer \in Verdicts /\ evidence'[i].run = req'[d].run)
          BY <1>4, <3>1, <3>3, <3>4 DEF AnswersOnce
        <4> QED
          BY <4>1, <4>2, <4>3 DEF AnswersOnce
    <2>25. NamedInv'
      <3>1. \A d \in Client : CarriesTicket(req[d], req'[d])
        <4>1. CarriesTicket(req[c], req'[c])
          BY <1>2, <1>3, <1>4, <2>13, <2>15, <2>23 DEF CarriesTicket, Escalating
        <4>2. \A d \in Client \ {c} : CarriesTicket(req[d], req'[d])
          BY <2>15, <2>23
        <4> QED
          BY <4>1, <4>2
      <3> QED
        BY <1>1, <1>4, <3>1, NamedKept DEF DiagnosisInv
    <2> QED
      BY <2>9, <2>19, <2>20, <2>22, <2>24, <2>25 DEF DiagnosisInv, RequestsInv
  <1>7. CASE /\ run' = run
             /\ \E a \in {"failed", "unreachable"} :
                  req' = [req EXCEPT ![c] =
                    [l EXCEPT !.pc = AfterGate(l.op), !.answer = a, !.gate = None, !.read = FALSE]]
    <2>1. PICK a \in {"failed", "unreachable"} :
             req' = [req EXCEPT ![c] =
                    [l EXCEPT !.pc = AfterGate(l.op), !.answer = a, !.gate = None, !.read = FALSE]]
      BY <1>7
    <2>2. PICK n : n = [l EXCEPT !.pc = AfterGate(l.op), !.answer = a, !.gate = None, !.read = FALSE]
      OBVIOUS
    <2>3. RunsOnward /\ GatesHeld /\ RunsInv'
      BY <1>1, <1>4, <1>7, RunsKept DEF GatesHeld, RunsInv
    <2>4. RequestInv(l)'
      BY <1>1, <1>3, <2>3, RequestStable
    <2>5. a \in Answers \ {"none"} /\ GateAnswered(l.run, a)'
      BY <2>1 DEF Answers, GateAnswered, Verdicts
    <2>6. /\ RequestInv(n)' /\ n.pc \in {"ticket", "start", "close"}
          /\ n.run = l.run /\ n.waited = l.waited /\ n.answer = a /\ n.ticket = None /\ n.op = l.op
      <3>1. /\ RequestInv(n)' /\ n.pc \in {"ticket", "start", "close"}
            /\ n.run = l.run /\ n.waited = l.waited
        BY <1>3, <2>2, <2>4, <2>5, Answering
      <3>2. n.answer = a /\ n.ticket = l.ticket /\ n.op = l.op
        BY <1>3, <2>2 DEF RequestInv, Request
      <3> QED
        BY <1>4, <3>1, <3>2
    <2>7. Waits(n)'
      BY <1>3, <1>7, <2>6 DEF Waits
    <2>8. req' = [req EXCEPT ![c] = n]
      BY <2>1, <2>2
    <2>9. RequestsInv'
      BY <1>1, <2>3, <2>6, <2>7, <2>8, OneChanges
    <2>10. EvidenceInv'
      BY <1>1, <1>4, <2>3, EvidenceStable
    <2>11. \A d \in Client : req'[d].pc = "escalate" => req[d].pc = "escalate"
      BY <1>1, <2>6, <2>8 DEF RequestsInv
    <2>12. EscalationOnRecord'
      BY <1>1, <1>4, <2>11, EscalationKept
    <2>13. CarriesAnswer(l, n) /\ CarriesTicket(l, n)
      BY <1>3, <1>4, <2>1, <2>6, SameCarries DEF Verdicts
    <2>14. AnswersOnce' /\ NamedInv'
      BY <1>2, <1>4, <2>8, <2>13, OneCarries
    <2> QED
      BY <2>3, <2>9, <2>10, <2>12, <2>14 DEF DiagnosisInv, RequestsInv
  <1>8. \/ /\ run[l.run].gate = "pending" /\ run' = [run EXCEPT ![l.run].gate = verdict]
           /\ \E a \in Answer(TRUE, verdict) : req' = Unwait(l.run, [req EXCEPT ![c] =
                [l EXCEPT !.pc = AfterGate(l.op), !.answer = a, !.gate = None, !.read = FALSE]])
        \/ /\ run' = run
           /\ \E a \in Answer(FALSE, verdict) : req' = [req EXCEPT ![c] =
                [l EXCEPT !.pc = AfterGate(l.op), !.answer = a, !.gate = None, !.read = FALSE]]
    BY <1>2, <1>5 DEF AnswerGate, Become
  <1>9. Answer(TRUE, verdict) = {verdict, "failed", "unreachable"} /\ Answer(FALSE, verdict) = {"failed", "unreachable"}
    BY DEF Answer
  <1> QED
    BY <1>6, <1>7, <1>8, <1>9

\* A new run, on its way to its gate.
LEMMA RunStarts ==
    ASSUME RunsInv, NEW q \in Run, run' = Append(run, q), tickets' = tickets,
           q.ticket = "none", q.status = "running"
    PROVE  /\ RunsInv' /\ RunsOnward /\ GatesHeld
           /\ Len(run') = Len(run) + 1 /\ Len(run') \in DOMAIN run' /\ run'[Len(run')] = q
           /\ Len(run') \in Nat
           /\ \A r \in DOMAIN run : r \in DOMAIN run' /\ run'[r] = run[r]
  <1>1. run \in Seq(Run)
    BY DEF RunsInv
  <1>2. /\ run' \in Seq(Run) /\ Len(run') = Len(run) + 1
        /\ \A i \in 1..Len(run) : run'[i] = run[i]
        /\ run'[Len(run) + 1] = q
    BY <1>1, AppendProperties
  <1>3. /\ DOMAIN run = 1..Len(run) /\ Len(run) \in Nat /\ DOMAIN run' = 1..(Len(run) + 1)
    BY <1>1, <1>2, LenProperties
  <1>4. DOMAIN run' = DOMAIN run \cup {Len(run) + 1} /\ Len(run') \in Nat
    BY <1>2, <1>3
  <1>5. RunsInv'
    <2>1. \A r \in DOMAIN run' : run'[r].status = "waiting_approval" => run'[r].gate # "ahead"
      BY <1>2, <1>3, <1>4 DEF RunsInv
    <2>2. \A r \in DOMAIN run' : run'[r].ticket = "done"
             => run'[r].gate = "approved" /\ <<"run", r>> \in tickets'
      BY <1>2, <1>3, <1>4 DEF RunsInv
    <2>3. \A t \in tickets' : t[1] = "run" => t[2] \in DOMAIN run' /\ run'[t[2]].gate = "approved"
      BY <1>2, <1>3, <1>4 DEF RunsInv
    <2> QED
      BY <1>2, <2>1, <2>2, <2>3 DEF RunsInv
  <1>6. RunsOnward /\ GatesHeld
    BY <1>2, <1>3, <1>4 DEF RunsOnward, GatesHeld, Settled
  <1> QED
    BY <1>2, <1>3, <1>4, <1>5, <1>6

LEMMA StartRunKeeps ==
    ASSUME DiagnosisInv, NEW c \in Client, StartRun(c)
    PROVE  DiagnosisInv'
  <1>1. RunsInv /\ EvidenceInv /\ RequestsInv /\ EscalationOnRecord
    BY InvParts
  <1>2. PICK l : l = req[c]
    OBVIOUS
  <1>3. /\ RequestInv(l) /\ l \in Request /\ StepOfOp(l) /\ Waits(l) /\ l.pc = "start"
        /\ l.op \in {"reject", "analyze"} /\ l.run \in DOMAIN run /\ HasRun(l)
    BY <1>2, RequestFacts DEF StartRun, At, StepOfOp, RequestInv
  <1>4. PICK node \in GateNames : run' = Append(run, NewRun(node, Feedback(l)))
    BY <1>2 DEF StartRun
  <1>5. PICK q : q = NewRun(node, Feedback(l))
    OBVIOUS
  <1>6. Feedback(l) \in MaybeAdvice
    BY <1>3 DEF Request, Feedback
  <1>7. /\ q \in Run /\ q.ticket = "none" /\ q.status = "running" /\ q.advice = Feedback(l)
    BY <1>5, <1>6 DEF NewRun, Run, Gates, RunStatuses
  <1>8. UNCHANGED <<state, evidence, tickets>> /\ run' = Append(run, q)
    BY <1>4, <1>5 DEF StartRun
  <1>9. /\ RunsInv' /\ RunsOnward /\ GatesHeld
        /\ Len(run') \in DOMAIN run' /\ run'[Len(run')] = q /\ Len(run') \in Nat
    BY <1>1, <1>7, <1>8, RunStarts
  <1>10. EvidenceInv'
    BY <1>1, <1>8, <1>9, EvidenceStable
  <1>11. PICK k : k = Len(run')
    OBVIOUS
  <1>12. PICK n : req' = [req EXCEPT ![c] = n] /\ (n = Idle \/ n = [l EXCEPT !.pc = "bind", !.new = k])
    BY <1>2, <1>11 DEF StartRun, Become
  <1>13. RequestInv(n)' /\ Waits(n)' /\ n.pc # "escalate"
    <2>1. CASE n = Idle
      <3>1. \A m : RequestInv(m) /\ Waits(m) => RequestInv(m)' /\ Waits(m)'
        BY <1>1, <1>9, ValuesKept
      <3>2. RequestInv(n) /\ Waits(n) /\ n.pc = "idle"
        BY <2>1, IdleInv
      <3> QED
        BY <3>1, <3>2
    <2>2. CASE n = [l EXCEPT !.pc = "bind", !.new = k]
      <3>1. k \in MaybeRun /\ "bind" \in Steps
        BY <1>9, <1>11 DEF MaybeRun, Steps
      <3>2. n \in Request
        BY <1>3, <2>2, <3>1 DEF Request
      <3>3. /\ n.pc = "bind" /\ n.op = l.op /\ n.run = l.run /\ n.advice = l.advice
            /\ n.past = l.past /\ n.ticket = l.ticket /\ n.gate = l.gate
            /\ n.answer = l.answer /\ n.new = k /\ n.todo = l.todo /\ n.seen = l.seen
            /\ n.read = l.read /\ n.waited = l.waited
        BY <1>3, <2>2 DEF Request
      <3>4. RequestInv(l)' /\ Waits(l)'
        BY <1>1, <1>3, <1>9, ValuesKept
      <3>5. StepOfOp(n)'
        BY <1>3, <3>3 DEF StepOfOp
      <3>6. run'[k].advice = Feedback(n) /\ k \in DOMAIN run'
        BY <1>7, <1>9, <1>11, <3>3 DEF Feedback
      <3>7. KnowsRuns(n)'
        BY <1>3, <3>3, <3>4, <3>6 DEF RequestInv, KnowsRuns, GateAnswered, Feedback, HasRun
      <3>8. ShowsRuns(n)' /\ Waits(n)'
        BY <3>3, <3>4 DEF RequestInv, ShowsRuns, Waits, Settled
      <3> QED
        BY <3>2, <3>3, <3>5, <3>7, <3>8 DEF RequestInv
    <2> QED
      BY <1>12, <2>1, <2>2
  <1>14. RequestsInv'
    BY <1>1, <1>9, <1>12, <1>13, OneChanges
  <1>15. \A d \in Client : req'[d].pc = "escalate" => req[d].pc = "escalate"
    BY <1>1, <1>12, <1>13 DEF RequestsInv
  <1>16. EscalationOnRecord'
    BY <1>1, <1>8, <1>15, EscalationKept
  <1>17. CarriesAnswer(l, n) /\ CarriesTicket(l, n)
    <2>1. CASE n = Idle
      BY <2>1, IdleCarries
    <2>2. CASE n = [l EXCEPT !.pc = "bind", !.new = k]
      <3>1. n.op = l.op /\ n.answer = l.answer /\ n.run = l.run /\ n.ticket = l.ticket
        BY <1>3, <2>2 DEF Request
      <3> QED
        BY <1>3, <3>1, SameCarries
    <2> QED
      BY <1>12, <2>1, <2>2
  <1>18. AnswersOnce' /\ NamedInv'
    BY <1>2, <1>8, <1>12, <1>17, OneCarries
  <1> QED
    BY <1>9, <1>10, <1>14, <1>16, <1>18 DEF DiagnosisInv, RequestsInv

\* A ticket is made for a request that has none.
LEMMA CreateTicketKeeps ==
    ASSUME DiagnosisInv, NEW c \in Client, CreateTicket(c)
    PROVE  DiagnosisInv'
  <1>1. RunsInv /\ EvidenceInv /\ RequestsInv /\ EscalationOnRecord
    BY InvParts
  <1>2. PICK l : l = req[c]
    OBVIOUS
  <1>3. /\ RequestInv(l) /\ l \in Request /\ KnowsRuns(l) /\ Waits(l) /\ ShowsRuns(l) /\ l.pc = "create"
        /\ l.op = "direct" /\ l.ticket = None
    BY <1>2, RequestFacts DEF CreateTicket, At, StepOfOp, RequestInv
  <1>4. PICK t : t = <<"direct", Cardinality({u \in tickets : u[1] = "direct"}) + 1>>
    OBVIOUS
  <1>5. /\ tickets' = tickets \cup {t} /\ UNCHANGED <<state, evidence, run>>
        /\ req' = [req EXCEPT ![c] = [l EXCEPT !.pc = "record", !.ticket = t]] \/ req' = [req EXCEPT ![c] = Idle]
    BY <1>2, <1>4 DEF CreateTicket, Become
  <1>6. t \in Tickets /\ t[1] = "direct" /\ t # None
    <2>1. PICK D : D = {u \in tickets : u[1] = "direct"}
      OBVIOUS
    <2>2. D \in SUBSET tickets
      BY <2>1
    <2>3. IsFiniteSet(D)
      BY <1>1, <2>2, FS_Subset DEF RunsInv
    <2>4. Cardinality(D) \in Nat
      BY <2>3, FS_CardinalityType
    <2>5. t = <<"direct", Cardinality(D) + 1>>
      BY <1>4, <2>1
    <2> QED
      BY <2>4, <2>5, RunsAssumption DEF Tickets
  <1>7. RunsInv'
    <2>1. IsFiniteSet(tickets')
      BY <1>1, <1>5, FS_AddElement DEF RunsInv
    <2> QED
      BY <1>1, <1>5, <1>6, <2>1 DEF RunsInv
  <1>8. RunsOnward /\ GatesHeld
    BY <1>5 DEF RunsOnward, GatesHeld, Settled
  <1>9. PICK n : req' = [req EXCEPT ![c] = n] /\ (n = Idle \/ n = [l EXCEPT !.pc = "record", !.ticket = t])
    BY <1>5
  <1>10. RequestInv(n)' /\ Waits(n)' /\ n.pc # "escalate" /\ CarriesAnswer(l, n) /\ CarriesTicket(l, n)
    <2>1. CASE n = Idle
      <3>1. \A m : RequestInv(m) /\ Waits(m) => RequestInv(m)' /\ Waits(m)'
        BY <1>1, <1>8, ValuesKept
      <3>2. RequestInv(n) /\ Waits(n) /\ n.pc = "idle"
        BY <2>1, IdleInv
      <3>3. CarriesAnswer(l, n) /\ CarriesTicket(l, n)
        BY <2>1, IdleCarries
      <3> QED
        BY <3>1, <3>2, <3>3
    <2>2. CASE n = [l EXCEPT !.pc = "record", !.ticket = t]
      <3>1. n \in Request
        BY <1>3, <1>6, <2>2 DEF Request, MaybeTicket, Steps
      <3>2. /\ n.pc = "record" /\ n.op = "direct" /\ n.run = l.run /\ n.ticket = t
            /\ n.gate = l.gate /\ n.answer = l.answer /\ n.todo = l.todo /\ n.seen = l.seen
            /\ n.read = l.read /\ n.waited = l.waited
        BY <1>3, <2>2 DEF Request
      <3>3. l.answer = "none" /\ ~l.waited
        BY <1>3 DEF KnowsRuns, HasRun
      <3>4. StepOfOp(n)' /\ Waits(n)'
        BY <3>2, <3>3 DEF StepOfOp, Waits
      <3>5. KnowsRuns(n)'
        BY <1>5, <3>2, <3>3 DEF KnowsRuns, GateAnswered, HasRun, Verdicts
      <3>6. ShowsRuns(n)'
        BY <1>3, <1>5, <3>2 DEF ShowsRuns, Settled
      <3>7. CarriesAnswer(l, n) /\ CarriesTicket(l, n)
        <4>1. None \notin Named
          BY <1>1, NamedIsFinite
        <4> QED
          BY <1>3, <3>2, <4>1 DEF CarriesAnswer, CarriesTicket, Escalating
      <3> QED
        BY <3>1, <3>2, <3>4, <3>5, <3>6, <3>7 DEF RequestInv
    <2> QED
      BY <1>9, <2>1, <2>2
  <1>11. RequestsInv'
    BY <1>1, <1>8, <1>9, <1>10, OneChanges
  <1>12. EvidenceInv'
    BY <1>1, <1>5, <1>8, EvidenceStable
  <1>13. \A d \in Client : req'[d].pc = "escalate" => req[d].pc = "escalate"
    BY <1>1, <1>9, <1>10 DEF RequestsInv
  <1>14. EscalationOnRecord'
    BY <1>1, <1>5, <1>13, EscalationKept
  <1>15. AnswersOnce' /\ NamedInv'
    BY <1>2, <1>5, <1>9, <1>10, OneCarries
  <1> QED
    BY <1>7, <1>11, <1>12, <1>14, <1>15 DEF DiagnosisInv, RequestsInv

-----------------------------------------------------------------------------
(***************************************************************************)
(* Theorems.                                                               *)
(***************************************************************************)
LEMMA DiagnosisInvInit == Init => DiagnosisInv
  <1> SUFFICES ASSUME Init PROVE DiagnosisInv
    OBVIOUS
  <1>1. PICK node \in GateNames : run = <<NewRun(node, None)>>
    BY DEF Init
  <1>2. PICK q : q = NewRun(node, None)
    OBVIOUS
  <1>3. q \in Run /\ q.status = "running" /\ q.ticket = "none"
    BY <1>2 DEF NewRun, Run, Gates, RunStatuses, MaybeAdvice
  <1>4. run = <<q>> /\ tickets = {}
    BY <1>1, <1>2 DEF Init
  <1>5. run \in Seq(Run) /\ DOMAIN run = {1} /\ run[1] = q
    BY <1>3, <1>4
  <1>6. RunsInv
    BY <1>3, <1>4, <1>5, FS_EmptySet DEF RunsInv
  <1>7. PICK e : e = Binding(1)
    OBVIOUS
  <1>8. e \in Entry /\ EntryInv(e) /\ e.type = "agent_run" /\ e.answer = "none"
    BY <1>5, <1>6, <1>7, BindingIsEntry DEF Binding
  <1>9. evidence = <<e>>
    BY <1>7 DEF Init
  <1>10. evidence \in Seq(Entry) /\ DOMAIN evidence = {1} /\ evidence[1] = e
    BY <1>8, <1>9
  <1>11. EvidenceInv
    BY <1>8, <1>10 DEF EvidenceInv, Places
  <1>12. \A c \in Client : req[c] = Idle
    BY DEF Init
  <1>13. RequestsInv
    BY <1>12, IdleInv DEF Init, RequestsInv
  <1>14. EscalationOnRecord
    BY <1>12, IdleInv DEF Init, EscalationOnRecord
  <1>15. AnswersOnce
    BY <1>8, <1>10, <1>12 DEF AnswersOnce, Idle, Verdicts
  <1>16. NamedInv
    BY <1>8, <1>10 DEF NamedInv, Named, Escalations, Places
  <1> QED
    BY <1>6, <1>11, <1>13, <1>14, <1>15, <1>16 DEF DiagnosisInv, RequestsInv

LEMMA DiagnosisInvStep == DiagnosisInv /\ [Next]_vars => DiagnosisInv'
  <1> SUFFICES ASSUME DiagnosisInv, [Next]_vars PROVE DiagnosisInv'
    OBVIOUS
  <1>1. CASE \E r \in DOMAIN run : ReachGate(r)
    BY <1>1, ReachGateKeeps
  <1>2. CASE \E r \in DOMAIN run : Halt(r)
    BY <1>2, HaltKeeps
  <1>3. CASE \E r \in DOMAIN run : MakeTicket(r)
    BY <1>3, MakeTicketKeeps
  <1>4. CASE \E r \in DOMAIN run : Finish(r)
    BY <1>4, FinishKeeps
  <1>5. CASE \E r \in DOMAIN run : Expire(r)
    BY <1>5, ExpireKeeps
  <1>6. CASE \E c \in Client, d \in Decisions, a \in Advice \cup {None} : DecideDiagnosis(c, d, a)
    BY <1>6, DecideDiagnosisKeeps
  <1>7. CASE \E c \in Client : AnalyzeProblem(c)
    BY <1>7, AnalyzeProblemKeeps
  <1>8. CASE \E c \in Client : FetchRun(c)
    BY <1>8, FetchRunKeeps
  <1>9. CASE \E c \in Client : AnswerGate(c)
    BY <1>9, AnswerGateKeeps
  <1>10. CASE \E c \in Client : ReadTicket(c)
    BY <1>10, ReadTicketKeeps
  <1>11. CASE \E c \in Client : StartRun(c)
    BY <1>11, StartRunKeeps
  <1>12. CASE \E c \in Client : BindRun(c)
    BY <1>12, BindRunKeeps
  <1>13. CASE \E c \in Client : CloseRecord(c)
    BY <1>13, CloseRecordKeeps
  <1>14. CASE \E c \in Client : RecordDecision(c)
    BY <1>14, RecordDecisionKeeps
  <1>15. CASE \E c \in Client : MarkEscalated(c)
    BY <1>15, MarkEscalatedKeeps
  <1>16. CASE CloseElsewhere
    BY <1>16, CloseElsewhereKeeps
  <1>17. CASE \E c \in Client : Fail(c)
    BY <1>17, FailKeeps
  <1>18. CASE \E c \in Client : GetDiagnosis(c)
    BY <1>18, GetDiagnosisKeeps
  <1>19. CASE \E c \in Client, r \in DOMAIN run : FetchExecution(c, r)
    BY <1>19, FetchExecutionKeeps
  <1>20. CASE \E c \in Client : BuildPage(c)
    BY <1>20, BuildPageKeeps
  <1>21. CASE UNCHANGED vars
    <2>1. RunsInv /\ EvidenceInv /\ RequestsInv /\ EscalationOnRecord
      BY InvParts
    <2>2. UNCHANGED <<state, evidence, run, tickets, req>>
      BY <1>21 DEF vars
    <2>3. RunsOnward /\ GatesHeld /\ RunsInv'
      BY <2>1, <2>2, RunsKept DEF GatesHeld, RunsInv
    <2> QED
      BY <2>2, <2>3, AgentflowStep
  <1>22. CASE \E c \in Client : EscalateProblem(c)
    BY <1>22, EscalateProblemKeeps
  <1>23. CASE \E c \in Client : CreateTicket(c)
    BY <1>23, CreateTicketKeeps
  <1> QED
    BY <1>1, <1>2, <1>3, <1>4, <1>5, <1>6, <1>7, <1>8, <1>9, <1>10, <1>11, <1>12, <1>13, <1>14,
       <1>15, <1>16, <1>17, <1>18, <1>19, <1>20, <1>21, <1>22, <1>23 DEF Next

LEMMA DiagnosisInvHolds == Spec => []DiagnosisInv
  BY DiagnosisInvInit, DiagnosisInvStep, PTL DEF Spec

\* A record that was last escalated names a ticket that agentflow made: read from the run that
\* was approved, or answered to the request itself (_escalation_ticket, escalate_problem), and the
\* decision is written before the state is set.
THEOREM EscalationBacked == Spec => []EscalationIsBacked
  <1>1. ASSUME DiagnosisInv, state = "escalated"
        PROVE  \E i \in Escalations :
                  /\ evidence[i].ticket \in tickets
                  /\ evidence[i].ticket[1] = "run" => run[evidence[i].ticket[2]].gate = "approved"
    <2>1. PICK i \in Escalations : TRUE
      BY <1>1 DEF DiagnosisInv, EscalationOnRecord
    <2>2. evidence[i].ticket \in tickets
      BY <1>1, <2>1 DEF DiagnosisInv, EvidenceInv, EntryInv, Escalations, Places
    <2>3. evidence[i].ticket[1] = "run" => run[evidence[i].ticket[2]].gate = "approved"
      BY <1>1, <2>2 DEF DiagnosisInv, RunsInv
    <2> QED
      BY <2>1, <2>2, <2>3
  <1>2. DiagnosisInv => EscalationIsBacked
    BY <1>1 DEF EscalationIsBacked
  <1> QED
    BY <1>2, DiagnosisInvHolds, PTL

\* However escalations overlap, fail and are sent again, the record names at most as many tickets
\* as requests are under way at a time: after the first is written, no request begins that does
\* not find it.
THEOREM FewTicketsNamed == Spec => []NamedIsBounded
  <1>1. ASSUME DiagnosisInv
        PROVE  Cardinality(Named) <= Cardinality(Client)
    <2>1. Cardinality(Named) \in Nat /\ Cardinality(Unaware) \in Nat /\ Cardinality(Client) \in Nat
      BY <1>1, NamedIsFinite DEF DiagnosisInv
    <2>2. CASE Named = {}
      BY <2>1, <2>2, FS_EmptySet
    <2>3. CASE Named # {}
      BY <1>1, <2>1, <2>3 DEF DiagnosisInv, NamedInv
    <2> QED
      BY <2>2, <2>3
  <1>2. DiagnosisInv => NamedIsBounded
    BY <1>1 DEF NamedIsBounded, Named
  <1> QED
    BY <1>2, DiagnosisInvHolds, PTL

\* An answer on record that a gate was to have taken is the one that it took, and one decision has
\* it: the first answer is final, and whatever else agentflow answers is written as a failure.
THEOREM AnswerTrue == Spec => []AnswerIsTrue
  <1>1. DiagnosisInv => AnswerIsTrue
    BY DEF DiagnosisInv, EvidenceInv, EntryInv, GateAnswered, AnswersOnce, Verdicts, AnswerIsTrue
  <1> QED
    BY <1>1, DiagnosisInvHolds, PTL

\* Whatever the approval node is called in the workflow, a request that reads a
\* run that waits knows its gate (_agentflow_gate_node, _build_approval).
THEOREM GateFound == Spec => []GateNotMissed
  <1>1. DiagnosisInv => GateNotMissed
    BY DEF DiagnosisInv, RequestInv, KnowsRuns, GateNotMissed
  <1> QED
    BY <1>1, DiagnosisInvHolds, PTL

\* A page calls a run over only when it has come to its gate or its end.
THEOREM PageStops == Spec => []PageStopsInTime
  <1>1. ASSUME DiagnosisInv, NEW c \in Client, At(c, "shown"),
               NEW x \in req[c].seen \cup {<<req[c].run, req[c].status>>},
               x[2] \notin {"analyzing", "unknown"}
        PROVE  run[x[1]].gate # "ahead" \/ run[x[1]].status \in Over
    <2>1. ShowsRuns(req[c]) /\ req[c].pc = "shown"
      BY <1>1, RequestFacts DEF At
    <2>2. CASE x \in req[c].seen
      BY <1>1, <2>1, <2>2 DEF ShowsRuns, Settled
    <2>3. CASE x = <<req[c].run, req[c].status>>
      <3>1. x[1] = req[c].run /\ x[2] = req[c].status
        BY <2>3
      <3> QED
        BY <1>1, <2>1, <3>1 DEF ShowsRuns, Settled
    <2> QED
      BY <1>1, <2>2, <2>3
  <1>2. DiagnosisInv => PageStopsInTime
    BY <1>1 DEF PageStopsInTime
  <1> QED
    BY <1>2, DiagnosisInvHolds, PTL

-----------------------------------------------------------------------------
(***************************************************************************)
(* Every rejection has its rerun: counting.                                *)
(***************************************************************************)
AdviceKept == \A r \in DOMAIN run : r \in DOMAIN run' /\ run'[r].advice = run[r].advice

\* The sets are finite, and the entries already on record stay where they are.
LEMMA CountsAreNumbers ==
    ASSUME EvidenceInv, NEW a
    PROVE  /\ IsFiniteSet(Rejections(a)) /\ IsFiniteSet(Reruns(a))
           /\ Cardinality(Rejections(a)) \in Nat /\ Cardinality(Reruns(a)) \in Nat
  <1>1. evidence \in Seq(Entry) /\ DOMAIN evidence = 1..Len(evidence) /\ Len(evidence) \in Nat
    BY LenProperties DEF EvidenceInv
  <1>2. IsFiniteSet(1..Len(evidence))
    BY <1>1, FS_Interval
  <1>3. Rejections(a) \in SUBSET (1..Len(evidence)) /\ Reruns(a) \in SUBSET (1..Len(evidence))
    BY <1>1 DEF Rejections, Reruns
  <1>4. IsFiniteSet(Rejections(a)) /\ IsFiniteSet(Reruns(a))
    BY <1>2, <1>3, FS_Subset
  <1> QED
    BY <1>4, FS_CardinalityType

\* Nothing is written, and no request comes to write a rejection.
LEMMA QuietStep ==
    ASSUME DiagnosisInv, AdviceInv, AdviceKept, evidence' = evidence,
           \A c \in Client : req'[c].pc = "record" /\ req'[c].op = "reject" =>
               req[c].pc = "record" /\ req[c].op = "reject" /\ req'[c].advice = req[c].advice
    PROVE  AdviceInv'
  <1> SUFFICES ASSUME NEW a \in Advice
               PROVE  /\ IsFiniteSet(Rejecting(a)')
                      /\ Cardinality(Rejections(a)') + Cardinality(Rejecting(a)') <= Cardinality(Reruns(a)')
    BY DEF AdviceInv
  <1>1. EvidenceInv
    BY DEF DiagnosisInv
  <1>2. Rejections(a)' = Rejections(a)
    BY DEF Rejections
  <1>3. Reruns(a)' = Reruns(a)
    <2>1. \A i \in DOMAIN evidence : evidence[i].type = "agent_run"
                => run'[evidence[i].run].advice = run[evidence[i].run].advice
      BY <1>1 DEF EvidenceInv, EntryInv, AdviceKept
    <2> QED
      BY <2>1 DEF Reruns
  <1>4. Rejecting(a)' \in SUBSET Rejecting(a)
    BY DEF Rejecting
  <1>5. /\ IsFiniteSet(Rejecting(a))
        /\ Cardinality(Rejections(a)) + Cardinality(Rejecting(a)) <= Cardinality(Reruns(a))
    BY DEF AdviceInv
  <1>6. /\ IsFiniteSet(Rejecting(a)') /\ Cardinality(Rejecting(a)') <= Cardinality(Rejecting(a))
        /\ Cardinality(Rejecting(a)') \in Nat /\ Cardinality(Rejecting(a)) \in Nat
    BY <1>4, <1>5, FS_Subset, FS_CardinalityType
  <1>7. Cardinality(Rejections(a)) \in Nat /\ Cardinality(Reruns(a)) \in Nat
    BY <1>1, CountsAreNumbers
  <1> QED
    BY <1>2, <1>3, <1>5, <1>6, <1>7

\* One request changes, to another step or another kind.
LEMMA QuietRequest ==
    ASSUME DiagnosisInv, AdviceInv, AdviceKept, evidence' = evidence, NEW c \in Client, NEW n,
           req' = [req EXCEPT ![c] = n], n.pc # "record" \/ n.op # "reject"
    PROVE  AdviceInv'
  <1>1. \A d \in Client : req'[d] = IF d = c THEN n ELSE req[d]
    BY DEF DiagnosisInv
  <1> QED
    BY <1>1, QuietStep

LEMMA QuietRuns ==
    ASSUME DiagnosisInv, AdviceInv, NEW r \in DOMAIN run,
           ReachGate(r) \/ Halt(r) \/ MakeTicket(r) \/ Finish(r)
    PROVE  AdviceInv'
  <1>1. run[r] \in Run
    BY InvParts, RunFields
  <1>2. AdviceKept
    <2>1. CASE ReachGate(r)
      BY <1>1, <2>1 DEF ReachGate, AdviceKept, Run
    <2>2. CASE Halt(r)
      BY <1>1, <2>2 DEF Halt, AdviceKept, Run
    <2>3. CASE MakeTicket(r)
      BY <1>1, <2>3 DEF MakeTicket, AdviceKept, Run
    <2>4. CASE Finish(r)
      BY <1>1, <2>4 DEF Finish, AdviceKept, Run
    <2> QED
      BY <2>1, <2>2, <2>3, <2>4
  <1>3. UNCHANGED <<evidence, req>>
    BY DEF ReachGate, Halt, MakeTicket, Finish
  <1> QED
    BY <1>2, <1>3, QuietStep

\* A request that only stops waiting keeps what it is about to write.
LEMMA UnwaitIsQuiet ==
    ASSUME DiagnosisInv, NEW r, NEW f, req' = Unwait(r, f), NEW d \in Client, f[d] \in Request
    PROVE  /\ req'[d].pc = f[d].pc /\ req'[d].op = f[d].op /\ req'[d].advice = f[d].advice
  <1>1. req'[d] = IF f[d].run = r THEN [f[d] EXCEPT !.waited = FALSE] ELSE f[d]
    BY DEF Unwait
  <1> QED
    BY <1>1 DEF Request

LEMMA QuietExpire ==
    ASSUME DiagnosisInv, AdviceInv, NEW r \in DOMAIN run, Expire(r)
    PROVE  AdviceInv'
  <1>1. run[r] \in Run /\ \A c \in Client : req[c] \in Request
    BY InvParts, RunFields, RequestFacts
  <1>2. AdviceKept
    BY <1>1 DEF Expire, AdviceKept, Run
  <1>3. evidence' = evidence /\ req' = Unwait(r, req)
    BY DEF Expire
  <1>4. \A c \in Client : req'[c].pc = req[c].pc /\ req'[c].op = req[c].op /\ req'[c].advice = req[c].advice
    <2>1. PICK f : f = req
      OBVIOUS
    <2> QED
      BY <1>1, <1>3, <2>1, UnwaitIsQuiet
  <1> QED
    BY <1>2, <1>3, <1>4, QuietStep

\* A request that arrives begins elsewhere.
LEMMA QuietArrival ==
    ASSUME DiagnosisInv, AdviceInv, NEW c \in Client,
           \/ \E d \in Decisions, a \in Advice \cup {None} : DecideDiagnosis(c, d, a)
           \/ AnalyzeProblem(c)
           \/ GetDiagnosis(c)
    PROVE  AdviceInv'
  <1>1. \E l : Arrive(c, l) /\ DOMAIN l = DOMAIN Idle /\ l.pc \in {"fetch", "start", "runs"}
    <2>1. ASSUME NEW d \in Decisions, NEW a \in Advice \cup {None}, DecideDiagnosis(c, d, a)
          PROVE  \E l : Arrive(c, l) /\ DOMAIN l = DOMAIN Idle /\ l.pc \in {"fetch", "start", "runs"}
      <3>1. PICK l : l = [Idle EXCEPT !.pc = "fetch", !.op = d, !.advice = a, !.past = LatestRejectFeedback,
                                      !.ticket = IF d = "escalate" THEN CreatedTicket ELSE None]
        OBVIOUS
      <3>2. DOMAIN l = DOMAIN Idle /\ l.pc = "fetch"
        BY <3>1 DEF Idle
      <3>3. Arrive(c, l)
        BY <2>1, <3>1 DEF DecideDiagnosis
      <3> QED
        BY <3>2, <3>3
    <2>2. ASSUME AnalyzeProblem(c)
          PROVE  \E l : Arrive(c, l) /\ DOMAIN l = DOMAIN Idle /\ l.pc \in {"fetch", "start", "runs"}
      <3>1. PICK l : l = [Idle EXCEPT !.pc = "start", !.op = "analyze", !.past = LatestRejectFeedback]
        OBVIOUS
      <3>2. DOMAIN l = DOMAIN Idle /\ l.pc = "start"
        BY <3>1 DEF Idle
      <3>3. Arrive(c, l)
        BY <2>2, <3>1 DEF AnalyzeProblem
      <3> QED
        BY <3>2, <3>3
    <2>3. ASSUME GetDiagnosis(c)
          PROVE  \E l : Arrive(c, l) /\ DOMAIN l = DOMAIN Idle /\ l.pc \in {"fetch", "start", "runs"}
      <3>1. PICK l : l = [Idle EXCEPT !.pc = "runs", !.op = "page", !.todo = RunEntries]
        OBVIOUS
      <3>2. DOMAIN l = DOMAIN Idle /\ l.pc = "runs"
        BY <3>1 DEF Idle
      <3>3. Arrive(c, l)
        BY <2>3, <3>1 DEF GetDiagnosis
      <3> QED
        BY <3>2, <3>3
    <2> QED
      BY <2>1, <2>2, <2>3
  <1>2. PICK l : Arrive(c, l) /\ DOMAIN l = DOMAIN Idle /\ l.pc \in {"fetch", "start", "runs"}
    BY <1>1
  <1>3. PICK w : w = (run[LatestAgentRun].gate = "pending")
    OBVIOUS
  <1>4. PICK n : n = [l EXCEPT !.run = LatestAgentRun, !.waited = w]
    OBVIOUS
  <1>5. n.pc = l.pc
    <2>1. "pc" \in DOMAIN l
      BY <1>2 DEF Idle
    <2> QED
      BY <1>4, <2>1
  <1>6. req' = [req EXCEPT ![c] = n] /\ evidence' = evidence /\ run' = run
    BY <1>2, <1>3, <1>4 DEF Arrive, Accept, Become
  <1>7. AdviceKept /\ n.pc # "record"
    BY <1>2, <1>5, <1>6 DEF AdviceKept
  <1> QED
    BY <1>6, <1>7, QuietRequest

\* Only an escalation is written without another step after the run is read.
LEMMA QuietFetch ==
    ASSUME DiagnosisInv, AdviceInv, NEW c \in Client, FetchRun(c)
    PROVE  AdviceInv'
  <1>1. PICK l : l = req[c]
    OBVIOUS
  <1>2. l \in Request /\ StepOfOp(l)
    BY <1>1, RequestFacts
  <1>3. PICK ok \in BOOLEAN :
            LET gate == IF ok THEN GateNode(run[l.run]) ELSE None
                next == [l EXCEPT !.read = ok, !.gate = gate]
            IN  Become(c,
                    CASE Unexplained(l, ok) -> Idle
                      [] l.ticket # None -> [next EXCEPT !.pc = "record", !.answer = "already_escalated"]
                      [] l.ticket = None /\ gate # None /\ ~Unexplained(l, ok) -> [next EXCEPT !.pc = "answer"]
                      [] OTHER -> [next EXCEPT !.pc = AfterGate(l.op), !.answer = "no_pending_gate"])
    BY <1>1 DEF FetchRun
  <1>4. PICK gate : gate = IF ok THEN GateNode(run[l.run]) ELSE None
    OBVIOUS
  <1>5. PICK next : next = [l EXCEPT !.read = ok, !.gate = gate]
    OBVIOUS
  <1>6. DOMAIN next = DOMAIN l /\ next.op = l.op /\ {"pc", "op"} \subseteq DOMAIN next
    BY <1>2, <1>5 DEF Request
  <1>7. evidence' = evidence /\ AdviceKept
    BY DEF FetchRun, AdviceKept
  <1>8. CASE Unexplained(l, ok) /\ l.ticket = None
    <2>1. req' = [req EXCEPT ![c] = Idle]
      BY <1>3, <1>4, <1>5, <1>8 DEF Become
    <2> QED
      BY <1>7, <2>1, IdleInv, QuietRequest
  <1>9. CASE l.ticket # None
    <2>1. l.op = "escalate" /\ ~Unexplained(l, ok)
      BY <1>1, <1>2, <1>9 DEF FetchRun, At, StepOfOp, Decisions, Unexplained
    <2>2. PICK n : n = [next EXCEPT !.pc = "record", !.answer = "already_escalated"]
      OBVIOUS
    <2>3. req' = [req EXCEPT ![c] = n]
      BY <1>3, <1>4, <1>5, <1>9, <2>1, <2>2 DEF Become
    <2>4. n.op = "escalate"
      BY <1>6, <2>1, <2>2
    <2> QED
      BY <1>7, <2>3, <2>4, QuietRequest
  <1>10. CASE l.ticket = None /\ ~Unexplained(l, ok) /\ gate # None
    <2>1. PICK n : n = [next EXCEPT !.pc = "answer"]
      OBVIOUS
    <2>2. req' = [req EXCEPT ![c] = n] /\ n.pc = "answer"
      BY <1>3, <1>4, <1>5, <1>6, <1>10, <2>1 DEF Become
    <2> QED
      BY <1>7, <2>2, QuietRequest
  <1>11. CASE l.ticket = None /\ ~Unexplained(l, ok) /\ gate = None
    <2>1. PICK n : n = [next EXCEPT !.pc = AfterGate(l.op), !.answer = "no_pending_gate"]
      OBVIOUS
    <2>2. req' = [req EXCEPT ![c] = n]
      BY <1>3, <1>4, <1>5, <1>11, <2>1 DEF Become
    <2>3. n.pc # "record"
      BY <1>6, <2>1 DEF AfterGate
    <2> QED
      BY <1>7, <2>2, <2>3, QuietRequest
  <1> QED
    BY <1>8, <1>9, <1>10, <1>11

\* An answered gate leads to another step of the request.
LEMMA QuietAnswer ==
    ASSUME DiagnosisInv, AdviceInv, NEW c \in Client, AnswerGate(c)
    PROVE  AdviceInv'
  <1>1. PICK l : l = req[c]
    OBVIOUS
  <1>2. /\ l \in Request /\ l.run \in DOMAIN run /\ run[l.run] \in Run
        /\ \A d \in Client : req[d] \in Request
    BY <1>1, RequestFacts, RunFields DEF AnswerGate, At
  <1>3. PICK a : \/ \E v : /\ run' = [run EXCEPT ![l.run].gate = v]
                           /\ req' = Unwait(l.run, [req EXCEPT ![c] =
                                [l EXCEPT !.pc = AfterGate(l.op), !.answer = a, !.gate = None, !.read = FALSE]])
                           /\ a \in Answers
                 \/ /\ run' = run
                    /\ req' = [req EXCEPT ![c] =
                                [l EXCEPT !.pc = AfterGate(l.op), !.answer = a, !.gate = None, !.read = FALSE]]
    <2> DEFINE verdict == IF l.op = "escalate" THEN "approved" ELSE "rejected"
               Go(a) == [l EXCEPT !.pc = AfterGate(l.op), !.answer = a, !.gate = None, !.read = FALSE]
    <2>1. \/ /\ run' = [run EXCEPT ![l.run].gate = verdict]
             /\ \E a \in Answer(TRUE, verdict) : req' = Unwait(l.run, [req EXCEPT ![c] = Go(a)])
          \/ /\ \E a : req' = [req EXCEPT ![c] = Go(a)]
             /\ run' = run
      BY <1>1 DEF AnswerGate, Become
    <2>2. Answer(TRUE, verdict) \subseteq Answers
      BY DEF Answer, Answers
    <2> QED
      BY <2>1, <2>2
  <1>4. PICK n : n = [l EXCEPT !.pc = AfterGate(l.op), !.answer = a, !.gate = None, !.read = FALSE]
    OBVIOUS
  <1>5. n.pc # "record"
    <2>1. AfterGate(l.op) # "record"
      BY DEF AfterGate
    <2> QED
      BY <1>2, <1>4, <2>1 DEF Request
  <1>6. evidence' = evidence
    BY DEF AnswerGate
  <1>7. CASE req' = [req EXCEPT ![c] = n] /\ run' = run
    BY <1>5, <1>6, <1>7, QuietRequest DEF AdviceKept
  <1>8. CASE \E v : run' = [run EXCEPT ![l.run].gate = v] /\ req' = Unwait(l.run, [req EXCEPT ![c] = n])
                    /\ a \in Answers
    <2>1. PICK v : run' = [run EXCEPT ![l.run].gate = v]
      BY <1>8
    <2>2. AdviceKept
      BY <1>2, <2>1 DEF AdviceKept, Run
    <2>3. PICK f : f = [req EXCEPT ![c] = n]
      OBVIOUS
    <2>4. \A d \in Client : f[d] = IF d = c THEN n ELSE req[d]
      BY <2>3 DEF DiagnosisInv
    <2>5. n \in Request
      <3>1. AfterGate(l.op) \in Steps /\ None \in MaybeGate
        BY DEF AfterGate, Steps, MaybeGate
      <3> QED
        BY <1>2, <1>4, <1>8, <3>1 DEF Request
    <2>6. \A d \in Client : req'[d].pc = f[d].pc /\ req'[d].op = f[d].op /\ req'[d].advice = f[d].advice
      <3>1. \A d \in Client : f[d] \in Request
        BY <1>2, <2>4, <2>5
      <3>2. PICK r : r = l.run
        OBVIOUS
      <3>3. req' = Unwait(r, f)
        BY <1>8, <2>3, <3>2
      <3> QED
        BY <3>1, <3>3, UnwaitIsQuiet
    <2>7. \A d \in Client : req'[d].pc = "record" =>
            req[d].pc = "record" /\ req'[d].op = req[d].op /\ req'[d].advice = req[d].advice
      BY <1>5, <2>4, <2>6
    <2> QED
      BY <1>6, <2>2, <2>7, QuietStep
  <1> QED
    BY <1>3, <1>4, <1>7, <1>8

\* The other steps of a request that write no entry.
LEMMA QuietOthers ==
    ASSUME DiagnosisInv, AdviceInv, NEW c \in Client,
           \/ EscalateProblem(c) \/ CreateTicket(c)
           \/ ReadTicket(c) \/ CloseRecord(c) \/ MarkEscalated(c) \/ Fail(c)
           \/ BuildPage(c) \/ \E r \in DOMAIN run : FetchExecution(c, r)
    PROVE  AdviceInv'
  <1>1. PICK l : l = req[c]
    OBVIOUS
  <1>2. l \in Request /\ StepOfOp(l)
    BY <1>1, RequestFacts
  <1>3. evidence' = evidence /\ AdviceKept
    BY DEF EscalateProblem, Accept, CreateTicket, ReadTicket, CloseRecord, MarkEscalated, Fail,
           BuildPage, FetchExecution, AdviceKept
  <1>4. CASE req' = [req EXCEPT ![c] = Idle]
    BY <1>3, <1>4, IdleInv, QuietRequest
  <1>5. CASE ReadTicket(c) /\ req' # [req EXCEPT ![c] = Idle]
    <2>1. PICK n : n = [l EXCEPT !.pc = "record", !.ticket = <<"run", l.run>>]
      OBVIOUS
    <2>2. req' = [req EXCEPT ![c] = n] /\ l.pc = "ticket"
      BY <1>1, <1>5, <2>1 DEF ReadTicket, Become, At
    <2>3. n.op = "escalate"
      BY <1>2, <2>1, <2>2 DEF Request, StepOfOp
    <2> QED
      BY <1>3, <2>2, <2>3, QuietRequest
  <1>6. CASE CloseRecord(c)
    <2>1. PICK n : n = [l EXCEPT !.pc = "record"]
      OBVIOUS
    <2>2. req' = [req EXCEPT ![c] = n] /\ l.pc = "close"
      BY <1>1, <1>6, <2>1 DEF CloseRecord, Become, At
    <2>3. n.op # "reject"
      BY <1>2, <2>1, <2>2 DEF Request, StepOfOp
    <2> QED
      BY <1>3, <2>2, <2>3, QuietRequest
  <1>7. CASE BuildPage(c)
    <2>1. PICK n : /\ req' = [req EXCEPT ![c] = n]
                   /\ \/ n = [l EXCEPT !.pc = "shown", !.read = TRUE, !.gate = ApprovalNode(run[l.run]),
                                        !.status = AgentflowStatus(run[l.run].status)]
                      \/ n = [l EXCEPT !.pc = "shown", !.status = "analyzing"]
      BY <1>1, <1>7 DEF BuildPage, Become
    <2>2. n.pc = "shown"
      BY <1>2, <2>1 DEF Request
    <2> QED
      BY <1>3, <2>1, <2>2, QuietRequest
  <1>8. CASE \E r \in DOMAIN run : FetchExecution(c, r)
    <2>1. PICK n : req' = [req EXCEPT ![c] = n] /\ n.pc = "runs"
      BY <1>1, <1>2, <1>8 DEF FetchExecution, Become, Request, At
    <2> QED
      BY <1>3, <2>1, QuietRequest
  <1>9. CASE EscalateProblem(c)
    <2>1. PICK n : n = [Idle EXCEPT !.pc = "create", !.op = "direct"]
      OBVIOUS
    <2>2. req' = [req EXCEPT ![c] = n] /\ n.pc = "create"
      BY <1>9, <2>1 DEF EscalateProblem, Accept, Become, Idle
    <2> QED
      BY <1>3, <2>2, QuietRequest
  <1>10. CASE CreateTicket(c) /\ req' # [req EXCEPT ![c] = Idle]
    <2>1. PICK t : t = <<"direct", Cardinality({u \in tickets : u[1] = "direct"}) + 1>>
      OBVIOUS
    <2>2. PICK n : n = [l EXCEPT !.pc = "record", !.ticket = t]
      OBVIOUS
    <2>3. req' = [req EXCEPT ![c] = n] /\ l.pc = "create"
      BY <1>1, <1>10, <2>1, <2>2 DEF CreateTicket, Become, At
    <2>4. n.op = "direct"
      BY <1>2, <2>2, <2>3 DEF Request, StepOfOp
    <2> QED
      BY <1>3, <2>3, <2>4, QuietRequest
  <1> QED
    BY <1>4, <1>5, <1>6, <1>7, <1>8, <1>9, <1>10 DEF MarkEscalated, Fail, Become

LEMMA QuietStart ==
    ASSUME DiagnosisInv, AdviceInv, NEW c \in Client, StartRun(c)
    PROVE  AdviceInv'
  <1>1. PICK l : l = req[c]
    OBVIOUS
  <1>2. l \in Request /\ RunsInv
    BY <1>1, RequestFacts
  <1>3. PICK node \in GateNames : run' = Append(run, NewRun(node, Feedback(l)))
    BY <1>1 DEF StartRun
  <1>4. PICK q : q = NewRun(node, Feedback(l))
    OBVIOUS
  <1>5. AdviceKept
    <2>1. run \in Seq(Run) /\ Feedback(l) \in MaybeAdvice
      BY <1>2 DEF RunsInv, Feedback, Request
    <2>2. q \in Run
      BY <1>4, <2>1 DEF NewRun, Run, Gates, RunStatuses
    <2>3. /\ Len(run') = Len(run) + 1 /\ run' \in Seq(Run)
          /\ \A i \in 1..Len(run) : run'[i] = run[i]
      BY <1>3, <1>4, <2>1, <2>2, AppendProperties
    <2>4. DOMAIN run = 1..Len(run) /\ Len(run) \in Nat /\ DOMAIN run' = 1..(Len(run) + 1)
      BY <2>1, <2>3, LenProperties
    <2> QED
      BY <2>3, <2>4 DEF AdviceKept
  <1>6. evidence' = evidence
    BY DEF StartRun
  <1>7. CASE req' = [req EXCEPT ![c] = Idle]
    BY <1>5, <1>6, <1>7, IdleInv, QuietRequest
  <1>8. CASE req' # [req EXCEPT ![c] = Idle]
    <2>1. PICK n : n = [l EXCEPT !.pc = "bind", !.new = Len(run')]
      OBVIOUS
    <2>2. req' = [req EXCEPT ![c] = n]
      BY <1>1, <1>8, <2>1 DEF StartRun, Become
    <2>3. n.pc = "bind"
      BY <1>2, <2>1 DEF Request
    <2> QED
      BY <1>5, <1>6, <2>2, <2>3, QuietRequest
  <1> QED
    BY <1>7, <1>8

\* An entry is written at k and the request of c becomes n.
Counted(a, e, k, c, n) ==
    /\ k \notin Rejections(a) /\ k \notin Reruns(a)
    /\ Rejections(a)' = Rejections(a) \cup
         (IF e.type = "diagnose_decision" /\ e.decision = "reject" /\ e.advice = a THEN {k} ELSE {})
    /\ Reruns(a)' = Reruns(a) \cup (IF e.type = "agent_run" /\ run[e.run].advice = a THEN {k} ELSE {})
    /\ Rejecting(a)' = (Rejecting(a) \ {c}) \cup
         (IF n.pc = "record" /\ n.op = "reject" /\ n.advice = a THEN {c} ELSE {})

LEMMA Written ==
    ASSUME DiagnosisInv, NEW e \in Entry, EntryInv(e), evidence' = Append(evidence, e), run' = run,
           NEW c \in Client, NEW n, req' = [req EXCEPT ![c] = n], NEW a \in Advice,
           NEW k, k = Len(evidence) + 1
    PROVE  Counted(a, e, k, c, n)
  <1>1. evidence \in Seq(Entry) /\ req = [d \in Client |-> req[d]]
    BY DEF DiagnosisInv, EvidenceInv
  <1>2. /\ evidence' \in Seq(Entry) /\ Len(evidence') = Len(evidence) + 1
        /\ \A i \in 1..Len(evidence) : evidence'[i] = evidence[i]
        /\ evidence'[Len(evidence) + 1] = e
    BY <1>1, AppendProperties
  <1>3. /\ DOMAIN evidence = 1..Len(evidence) /\ Len(evidence) \in Nat
        /\ DOMAIN evidence' = 1..(Len(evidence) + 1)
    BY <1>1, <1>2, LenProperties
  <1>5. /\ DOMAIN evidence' = DOMAIN evidence \cup {k} /\ k \notin DOMAIN evidence
        /\ \A i \in DOMAIN evidence : evidence'[i] = evidence[i]
        /\ evidence'[k] = e
    BY <1>2, <1>3
  <1>6. k \notin Rejections(a) /\ k \notin Reruns(a)
    BY <1>5 DEF Rejections, Reruns
  <1>7. Rejections(a)' = Rejections(a) \cup
            (IF e.type = "diagnose_decision" /\ e.decision = "reject" /\ e.advice = a THEN {k} ELSE {})
    BY <1>5 DEF Rejections
  <1>8. Reruns(a)' = Reruns(a) \cup (IF e.type = "agent_run" /\ run[e.run].advice = a THEN {k} ELSE {})
    BY <1>5 DEF Reruns
  <1>9. Rejecting(a)' = (Rejecting(a) \ {c}) \cup
            (IF n.pc = "record" /\ n.op = "reject" /\ n.advice = a THEN {c} ELSE {})
    <2>1. \A d \in Client : req'[d] = IF d = c THEN n ELSE req[d]
      BY <1>1
    <2> QED
      BY <2>1 DEF Rejecting
  <1> QED
    BY <1>6, <1>7, <1>8, <1>9 DEF Counted

\* The same counts when a run and a rejection under way come together, and when
\* a rejection under way is written.
LEMMA OneMore ==
    ASSUME NEW D, NEW W, NEW S, NEW k, NEW c, IsFiniteSet(D), IsFiniteSet(W), IsFiniteSet(S),
           k \notin S, c \notin W, Cardinality(D) + Cardinality(W) <= Cardinality(S)
    PROVE  /\ IsFiniteSet(W \cup {c})
           /\ Cardinality(D) + Cardinality(W \cup {c}) <= Cardinality(S \cup {k})
           /\ Cardinality(D) + Cardinality(W) <= Cardinality(S \cup {k})
  <1>1. Cardinality(D) \in Nat /\ Cardinality(W) \in Nat /\ Cardinality(S) \in Nat
    BY FS_CardinalityType
  <1>2. IsFiniteSet(W \cup {c}) /\ Cardinality(W \cup {c}) = Cardinality(W) + 1
    BY FS_AddElement
  <1>3. Cardinality(S \cup {k}) = Cardinality(S) + 1
    BY FS_AddElement
  <1> QED
    BY <1>1, <1>2, <1>3

LEMMA MovedOver ==
    ASSUME NEW D, NEW W, NEW S, NEW k, NEW c, IsFiniteSet(D), IsFiniteSet(W), IsFiniteSet(S),
           k \notin D, c \in W, Cardinality(D) + Cardinality(W) <= Cardinality(S)
    PROVE  IsFiniteSet(W \ {c}) /\ Cardinality(D \cup {k}) + Cardinality(W \ {c}) <= Cardinality(S)
  <1>1. Cardinality(D) \in Nat /\ Cardinality(W) \in Nat /\ Cardinality(S) \in Nat
    BY FS_CardinalityType
  <1>2. IsFiniteSet(W \ {c}) /\ Cardinality(W \ {c}) = Cardinality(W) - 1
    BY FS_RemoveElement
  <1>3. Cardinality(D \cup {k}) = Cardinality(D) + 1
    BY FS_AddElement
  <1> QED
    BY <1>1, <1>2, <1>3

\* The run of a rejection is bound, and the rejection is to be written.
LEMMA BindRunCounts ==
    ASSUME DiagnosisInv, AdviceInv, NEW c \in Client, BindRun(c)
    PROVE  AdviceInv'
  <1> SUFFICES ASSUME NEW a \in Advice
               PROVE  /\ IsFiniteSet(Rejecting(a)')
                      /\ Cardinality(Rejections(a)') + Cardinality(Rejecting(a)') <= Cardinality(Reruns(a)')
    BY DEF AdviceInv
  <1>1. PICK l : l = req[c]
    OBVIOUS
  <1>2. /\ l \in Request /\ StepOfOp(l) /\ KnowsRuns(l) /\ l.pc = "bind" /\ RunsInv /\ EvidenceInv
        /\ l.op \in {"reject", "analyze"} /\ l.new \in DOMAIN run /\ run[l.new].advice = Feedback(l)
    BY <1>1, InvParts, RequestFacts DEF BindRun, At, StepOfOp, KnowsRuns
  <1>3. PICK e : e = Binding(l.new)
    OBVIOUS
  <1>4. e \in Entry /\ EntryInv(e) /\ e.type = "agent_run" /\ e.run = l.new
    BY <1>2, <1>3, BindingIsEntry DEF Binding
  <1>5. PICK n : n = IF l.op = "analyze" THEN Idle ELSE [l EXCEPT !.pc = "record"]
    OBVIOUS
  <1>6. evidence' = Append(evidence, e) /\ run' = run /\ req' = [req EXCEPT ![c] = n]
    BY <1>1, <1>3, <1>5 DEF BindRun, Become
  <1>7. PICK k : k = Len(evidence) + 1
    OBVIOUS
  <1>8. /\ k \notin Reruns(a)
        /\ Rejections(a)' = Rejections(a) \cup
             (IF e.type = "diagnose_decision" /\ e.decision = "reject" /\ e.advice = a THEN {k} ELSE {})
        /\ Reruns(a)' = Reruns(a) \cup (IF e.type = "agent_run" /\ run[e.run].advice = a THEN {k} ELSE {})
        /\ Rejecting(a)' = (Rejecting(a) \ {c}) \cup
                (IF n.pc = "record" /\ n.op = "reject" /\ n.advice = a THEN {c} ELSE {})
    <2>1. Counted(a, e, k, c, n)
      BY <1>4, <1>6, <1>7, Written
    <2> QED
      BY <2>1 DEF Counted
  <1>9. Rejections(a)' = Rejections(a) /\ c \notin Rejecting(a)
    BY <1>1, <1>2, <1>4, <1>8 DEF Rejecting
  <1>10. /\ IsFiniteSet(Rejecting(a)) /\ IsFiniteSet(Reruns(a)) /\ IsFiniteSet(Rejections(a))
         /\ Cardinality(Rejections(a)) + Cardinality(Rejecting(a)) <= Cardinality(Reruns(a))
    BY <1>2, CountsAreNumbers DEF AdviceInv
  <1>11. /\ IsFiniteSet(Rejecting(a) \cup {c})
         /\ Cardinality(Rejections(a)) + Cardinality(Rejecting(a) \cup {c}) <= Cardinality(Reruns(a) \cup {k})
         /\ Cardinality(Rejections(a)) + Cardinality(Rejecting(a)) <= Cardinality(Reruns(a) \cup {k})
    BY <1>8, <1>9, <1>10, OneMore
  <1>12. n.pc = "record" /\ n.op = "reject" /\ n.advice = a => run[l.new].advice = a
    <2>1. a # None
      BY RunsAssumption
    <2>2. l.op # "analyze" => n.advice = l.advice
      BY <1>2, <1>5 DEF Request
    <2>3. l.op = "analyze" => n.pc = "idle"
      BY <1>5, IdleInv
    <2> QED
      BY <1>2, <2>1, <2>2, <2>3 DEF Feedback
  <1>13. CASE n.pc = "record" /\ n.op = "reject" /\ n.advice = a
    <2>1. Rejecting(a)' = Rejecting(a) \cup {c} /\ Reruns(a)' = Reruns(a) \cup {k}
      BY <1>4, <1>8, <1>9, <1>12, <1>13
    <2> QED
      BY <1>9, <1>11, <2>1
  <1>14. CASE ~(n.pc = "record" /\ n.op = "reject" /\ n.advice = a)
    <2>1. Rejecting(a)' = Rejecting(a)
      BY <1>8, <1>9, <1>14
    <2>2. Reruns(a)' = Reruns(a) \/ Reruns(a)' = Reruns(a) \cup {k}
      BY <1>8
    <2> QED
      BY <1>9, <1>10, <1>11, <2>1, <2>2
  <1> QED
    BY <1>13, <1>14

\* The rejection is written.
LEMMA RecordDecisionCounts ==
    ASSUME DiagnosisInv, AdviceInv, NEW c \in Client, RecordDecision(c)
    PROVE  AdviceInv'
  <1> SUFFICES ASSUME NEW a \in Advice
               PROVE  /\ IsFiniteSet(Rejecting(a)')
                      /\ Cardinality(Rejections(a)') + Cardinality(Rejecting(a)') <= Cardinality(Reruns(a)')
    BY DEF AdviceInv
  <1>1. PICK l : l = req[c]
    OBVIOUS
  <1>2. l \in Request /\ l.pc = "record" /\ RunsInv /\ EvidenceInv
    BY <1>1, InvParts, RequestFacts DEF RecordDecision, At
  <1>3. PICK e \in Entry, n \in Request :
              /\ EntryInv(e) /\ evidence' = Append(evidence, e) /\ run' = run
              /\ req' = [req EXCEPT ![c] = n] /\ n.pc \in {"idle", "escalate"}
              /\ e.type = "diagnose_decision" /\ e.advice = l.advice
              /\ e.decision = "reject" <=> l.op = "reject"
    BY <1>1, DecisionWritten
  <1>4. PICK k : k = Len(evidence) + 1
    OBVIOUS
  <1>5. /\ k \notin Rejections(a)
        /\ Rejections(a)' = Rejections(a) \cup
             (IF e.type = "diagnose_decision" /\ e.decision = "reject" /\ e.advice = a THEN {k} ELSE {})
        /\ Reruns(a)' = Reruns(a) \cup (IF e.type = "agent_run" /\ run[e.run].advice = a THEN {k} ELSE {})
        /\ Rejecting(a)' = (Rejecting(a) \ {c}) \cup
                (IF n.pc = "record" /\ n.op = "reject" /\ n.advice = a THEN {c} ELSE {})
    <2>1. Counted(a, e, k, c, n)
      BY <1>3, <1>4, Written
    <2> QED
      BY <2>1 DEF Counted
  <1>6. /\ Reruns(a)' = Reruns(a) /\ Rejecting(a)' = Rejecting(a) \ {c}
        /\ c \in Rejecting(a) <=> l.op = "reject" /\ l.advice = a
    BY <1>1, <1>2, <1>3, <1>5 DEF Rejecting
  <1>7. /\ IsFiniteSet(Rejecting(a)) /\ IsFiniteSet(Reruns(a)) /\ IsFiniteSet(Rejections(a))
        /\ Cardinality(Rejections(a)) + Cardinality(Rejecting(a)) <= Cardinality(Reruns(a))
    BY <1>2, CountsAreNumbers DEF AdviceInv
  <1>8. CASE l.op = "reject" /\ l.advice = a
    <2>1. /\ IsFiniteSet(Rejecting(a) \ {c})
          /\ Cardinality(Rejections(a) \cup {k}) + Cardinality(Rejecting(a) \ {c}) <= Cardinality(Reruns(a))
      BY <1>5, <1>6, <1>7, <1>8, MovedOver
    <2>2. Rejections(a)' = Rejections(a) \cup {k}
      BY <1>3, <1>5, <1>8
    <2> QED
      BY <1>6, <2>1, <2>2
  <1>9. CASE ~(l.op = "reject" /\ l.advice = a)
    <2>1. Rejecting(a)' = Rejecting(a) /\ Rejections(a)' = Rejections(a)
      BY <1>3, <1>5, <1>6, <1>9
    <2> QED
      BY <1>6, <1>7, <2>1
  <1> QED
    BY <1>8, <1>9

LEMMA AdviceInvInit == Init => AdviceInv
  <1> SUFFICES ASSUME Init, NEW a \in Advice
               PROVE  /\ IsFiniteSet(Rejecting(a))
                      /\ Cardinality(Rejections(a)) + Cardinality(Rejecting(a)) <= Cardinality(Reruns(a))
    BY DEF AdviceInv
  <1>1. Rejecting(a) = {}
    <2>1. \A c \in Client : req[c].pc = "idle"
      BY IdleInv DEF Init
    <2> QED
      BY <2>1 DEF Rejecting
  <1>2. PICK e : e = Binding(1)
    OBVIOUS
  <1>3. evidence = <<e>> /\ e.type = "agent_run"
    BY <1>2 DEF Init, Binding
  <1>4. Rejections(a) = {}
    BY <1>3 DEF Rejections
  <1>5. Cardinality(Reruns(a)) \in Nat
    BY DiagnosisInvInit, CountsAreNumbers DEF DiagnosisInv
  <1> QED
    BY <1>1, <1>4, <1>5, FS_EmptySet

LEMMA AdviceInvStep == DiagnosisInv /\ AdviceInv /\ [Next]_vars => AdviceInv'
  <1> SUFFICES ASSUME DiagnosisInv, AdviceInv, [Next]_vars PROVE AdviceInv'
    OBVIOUS
  <1>1. CASE \E r \in DOMAIN run : ReachGate(r) \/ Halt(r) \/ MakeTicket(r) \/ Finish(r)
    BY <1>1, QuietRuns
  <1>2. CASE \E r \in DOMAIN run : Expire(r)
    BY <1>2, QuietExpire
  <1>3. CASE \E c \in Client : \/ \E d \in Decisions, a \in Advice \cup {None} : DecideDiagnosis(c, d, a)
                               \/ AnalyzeProblem(c)
                               \/ GetDiagnosis(c)
    BY <1>3, QuietArrival
  <1>4. CASE \E c \in Client : FetchRun(c)
    BY <1>4, QuietFetch
  <1>5. CASE \E c \in Client : AnswerGate(c)
    BY <1>5, QuietAnswer
  <1>6. CASE \E c \in Client : \/ EscalateProblem(c) \/ CreateTicket(c)
                               \/ ReadTicket(c) \/ CloseRecord(c) \/ MarkEscalated(c) \/ Fail(c)
                               \/ BuildPage(c) \/ \E r \in DOMAIN run : FetchExecution(c, r)
    BY <1>6, QuietOthers
  <1>7. CASE \E c \in Client : StartRun(c)
    BY <1>7, QuietStart
  <1>8. CASE \E c \in Client : BindRun(c)
    BY <1>8, BindRunCounts
  <1>9. CASE \E c \in Client : RecordDecision(c)
    BY <1>9, RecordDecisionCounts
  <1>10. CASE CloseElsewhere \/ UNCHANGED vars
    <2>1. UNCHANGED <<evidence, run, req>>
      BY <1>10 DEF CloseElsewhere, vars
    <2> QED
      BY <2>1, QuietStep DEF AdviceKept
  <1> QED
    BY <1>1, <1>2, <1>3, <1>4, <1>5, <1>6, <1>7, <1>8, <1>9, <1>10 DEF Next

\* However rejections overlap, fail or are retried, each one on record has a run
\* of its own on record that was started with its advice: the run is started and
\* bound before the decision is written, and takes the request's own advice first.
THEOREM RejectionsAreRerun == Spec => []AdviceReachesRerun
  <1>1. ASSUME DiagnosisInv, AdviceInv, NEW a \in Advice
        PROVE  Cardinality({i \in Places("diagnose_decision") :
                               evidence[i].decision = "reject" /\ evidence[i].advice = a})
               <= Cardinality({i \in Places("agent_run") : run[evidence[i].run].advice = a})
    <2>1. Rejections(a) = {i \in Places("diagnose_decision") :
                               evidence[i].decision = "reject" /\ evidence[i].advice = a}
      BY DEF Rejections, Places
    <2>2. Reruns(a) = {i \in Places("agent_run") : run[evidence[i].run].advice = a}
      BY DEF Reruns, Places
    <2>3. /\ Cardinality(Rejections(a)) \in Nat /\ Cardinality(Reruns(a)) \in Nat
          /\ Cardinality(Rejecting(a)) \in Nat
          /\ Cardinality(Rejections(a)) + Cardinality(Rejecting(a)) <= Cardinality(Reruns(a))
      BY <1>1, CountsAreNumbers, FS_CardinalityType DEF DiagnosisInv, AdviceInv
    <2>4. Cardinality(Rejections(a)) <= Cardinality(Reruns(a))
      BY <2>3
    <2> QED
      BY <2>1, <2>2, <2>4
  <1>2. DiagnosisInv /\ AdviceInv => AdviceReachesRerun
    BY <1>1 DEF AdviceReachesRerun
  <1>3. Spec => [](DiagnosisInv /\ AdviceInv)
    BY DiagnosisInvInit, DiagnosisInvStep, AdviceInvInit, AdviceInvStep, PTL DEF Spec
  <1> QED
    BY <1>2, <1>3, PTL
=============================================================================
