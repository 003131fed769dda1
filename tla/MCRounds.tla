------------------------------ MODULE MCRounds ------------------------------
(***************************************************************************)
(* Instances of CollectRounds for TLC.                                     *)
(***************************************************************************)
EXTENDS CollectRounds, TLC

\* Events are interchangeable, and so are manual runs.
RoundsSymmetry == Permutations(Event) \cup Permutations(Manual)
=============================================================================
