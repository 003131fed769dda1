--------------------------- MODULE MCConfiguration ---------------------------
(***************************************************************************)
(* Instances of Configuration for TLC.                                     *)
(***************************************************************************)
EXTENDS Configuration, TLC

\* The rules of domains; rounds of several domains; what rounds read besides; verdicts and
\* the gate.
FourWorkloads ==
    {{"put", "get", "delete", "target"}, {"put", "delete", "target", "round"},
     {"put", "entry", "round"}, {"verdict", "round"}}

CONSTANTS Cause, Symptom

\* A group of two services: its representative is that of Cause.
TwoServices == Cause :> 1 @@ Symptom :> 2

\* Clients, targets and rules are interchangeable; every property is a safety property.
ConfigurationSymmetry == Permutations(Client) \cup Permutations(Target) \cup Permutations(Config)
=============================================================================
