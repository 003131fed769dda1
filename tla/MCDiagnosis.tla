----------------------------- MODULE MCDiagnosis -----------------------------
(* An instance of DiagnosisRuns for TLC. *)
EXTENDS DiagnosisRuns, TLC

\* Decisions that compete for one gate, decisions and new analyses, escalations of both kinds,
\* and pages beside them.
SixWorkloads ==
    {{"escalate", "reject"}, {"escalate", "ignore"}, {"reject", "false_positive"},
     {"escalate", "analyze"}, {"escalate", "direct"}, {"page", "reject"}}

\* Requests are alike.
DiagnosisSymmetry == Permutations(Client)
=============================================================================
