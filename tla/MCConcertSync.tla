--------------------------- MODULE MCConcertSync ---------------------------
(* Small instances of ConcertSync: one device with one pass, how long set *)
(* lists are.                                                             *)
EXTENDS ConcertSync, TLC

CONSTANTS d1, p1, h1, v1, v2

SinglePass == p1 :> d1

\* Every set list has one item, or the first has two.
OneItem == v1 :> 1 @@ v2 :> 1
TwoItems == v1 :> 2 @@ v2 :> 1
=============================================================================
