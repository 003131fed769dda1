---------------------------- MODULE MCLifecycle -----------------------------
(***************************************************************************)
(* Instances of ProblemLifecycle for TLC.                                  *)
(***************************************************************************)
EXTENDS ProblemLifecycle, TLC

\* Every operation.
AllOps == {"resolve", "ignore", "escalate", "report", "analyze", "diagnose", "decide", "approval",
           "auto"}

\* Clients are interchangeable; every property is a safety property.
ClientSymmetry == Permutations(Client)
=============================================================================
