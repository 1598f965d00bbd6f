---------------------------- MODULE MCScoreCalm ----------------------------
(* A small instance of ScoreCalm: two devices, each with one pass at a time. *)
EXTENDS ScoreCalm, TLC

CONSTANTS d1, d2, p1, p2, t1

PassPerDevice == p1 :> d1 @@ p2 :> d2

\* Exchanging the devices together with their passes.
Devices == {f \in Permutations(Device \cup Pass) :
              \A p \in Pass : f[p] \in Pass /\ DeviceOf[f[p]] = f[DeviceOf[p]]}
=============================================================================
