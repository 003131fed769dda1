--------------------------- MODULE MCTransactions ----------------------------
(***************************************************************************)
(* Instances of StoreTransactions for TLC.                                 *)
(***************************************************************************)
EXTENDS StoreTransactions, TLC

\* One replica.
OneReplica == [r \in Creator \cup Deleter |-> "p"]

\* Script 1 is DDL; 2 and 3 insert targets as V9 and V13 do.
ThreeScripts == <<<<>>, <<1>>, <<2>>>>

\* An image with two scripts, and its successor.
CONSTANTS OldImage, NewImage

TwoImages == [m \in {OldImage, NewImage} |-> IF m = OldImage THEN {1, 2} ELSE {1, 2, 3}]

\* An empty database, or one that an early image has made.
EmptyOrFirst == {{}, {1}}
=============================================================================
