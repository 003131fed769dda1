------------------------------ MODULE MCFunnel ------------------------------
(***************************************************************************)
(* Instances of DetectionFunnel for TLC.                                   *)
(***************************************************************************)
EXTENDS DetectionFunnel, TLC

CONSTANTS Cause, Symptom   \* two anomalies, or None

\* Which metrics belong to one service: all of them, or all but one.
OneService  == {Anomaly}
TwoServices == {{Cause, Symptom}, Anomaly \ {Cause, Symptom}}

\* Everything comes and goes by itself; or the symptom is only there with its cause, and what
\* is of the other service only comes and goes while neither of the two does.
AnyLoad == SUBSET Anomaly
Waves   == LET other == Anomaly \ {Cause, Symptom}
           IN  {other, other \cup {Cause}, Anomaly, {Cause, Symptom}}

\* What the code has, without the histories: no action reads them, and so two states that
\* differ in nothing else have the same future.  Used where no property reads them either.
NoHistory ==
    <<active, cnt, miss, key, recon,
      [r \in Round |-> IF run[r] = Done THEN Done ELSE [run[r] EXCEPT !.fresh = {}]]>>

\* Every round polls every target.
PollAll == {Anomaly}

\* Rounds are interchangeable, and so are the anomalies of one service when all
\* are polled; used where every property is a safety property.
FunnelSymmetry == Permutations(Round) \cup Permutations(Anomaly)
=============================================================================
