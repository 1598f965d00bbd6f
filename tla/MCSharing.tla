---------------------------- MODULE MCSharing ----------------------------
(* Small instances of Sharing: whom invitations go to, and handlers that are *)
(* interchangeable.                                                          *)
EXTENDS Sharing, TLC

CONSTANTS ann, bob

\* ann manages the band; she invites bob.
Invited == [k \in Kind |-> IF k = "band" THEN {bob} ELSE {ann, bob}]

Handlers == Permutations(Handler)
=============================================================================
