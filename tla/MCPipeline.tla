----------------------------- MODULE MCPipeline ------------------------------
(***************************************************************************)
(* Instances of RoundPipeline for TLC.                                     *)
(***************************************************************************)
EXTENDS RoundPipeline, TLC

CONSTANTS Sig, Trace

Metric(s, name) == [kind |-> "metric", service |-> s, name |-> name, sig |-> None, trace |-> None]

Log(s, level, sig, trace) == [kind |-> "log", service |-> s, name |-> level, sig |-> sig, trace |-> trace]

\* Two services, two errors, two requests, with or without a trace.
TwoServices ==
    {Metric(s, "cpu") : s \in {"a", "b"}}
        \cup {Log(s, "ERROR", sig, t) : s \in {"a", "b"}, sig \in Sig, t \in Trace \cup {None}}

\* No rule, a rule for a name, or a window over part of the round.
FewRules ==
    {{}, {[type |-> "entry", service |-> "a", signal |-> "ERROR"]},
     {[type |-> "window", service |-> "b", start |-> 2, end |-> 3]}}

\* A rule of the same kind is less severe for service b.
UnevenRules ==
    <<[plugin |-> "static_threshold",
       signal |-> [type |-> "metric", name |-> "cpu", service |-> "a"], severity |-> "high"],
      [plugin |-> "static_threshold",
       signal |-> [type |-> "metric", name |-> "cpu", service |-> "b"], severity |-> "warning"],
      [plugin |-> "signature_aggregate",
       signal |-> [type |-> "log", name |-> "ERROR", service |-> None], severity |-> "high"]>>

\* Errors and traces are interchangeable.
PipelineSymmetry == Permutations(Sig) \cup Permutations(Trace)
=============================================================================
