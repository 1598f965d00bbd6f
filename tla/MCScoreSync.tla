---------------------------- MODULE MCScoreSync ----------------------------
(* Small instances of ScoreSync: who runs which pass. *)
EXTENDS ScoreSync, TLC

CONSTANTS d1, p1, p2, h1, h2, t1, t2

\* One device, two passes at a time: forceSync during the background loop.
SharedDevice == p1 :> d1 @@ p2 :> d1

\* One device, one pass.
SinglePass == p1 :> d1

\* Interchangeable model values.
PassesAndTitles == Permutations({p1, p2}) \cup Permutations({t1, t2})
=============================================================================
