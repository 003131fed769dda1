----------------------------- MODULE MCRecords ------------------------------
(***************************************************************************)
(* Instances of RecordHistory for TLC.                                     *)
(***************************************************************************)
EXTENDS RecordHistory, TLC

\* Writers and anomalies are interchangeable; every property is a safety property.
StoreSymmetry == Permutations(Writer) \cup Permutations(Anomaly)
=============================================================================
