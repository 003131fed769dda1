------------------------------ MODULE MCLease -------------------------------
(***************************************************************************)
(* Instances of SchedulerLease for TLC.                                    *)
(***************************************************************************)
EXTENDS SchedulerLease, TLC

\* Replicas are interchangeable; used where every property is a safety property.
ReplicaSymmetry == Permutations(Replica)
=============================================================================
