--------------------------- MODULE MCConcertCalm ---------------------------
(* A small instance of ConcertCalm: two devices, each with one pass at a     *)
(* time, and set lists of one item.                                          *)
EXTENDS ConcertCalm, TLC

CONSTANTS d1, d2, p1, p2, h1, v1

PassPerDevice == p1 :> d1 @@ p2 :> d2
OneVersion == v1 :> 1

\* Exchanging the devices together with their passes.
Devices == {f \in Permutations(Device \cup Pass) :
              \A p \in Pass : f[p] \in Pass /\ DeviceOf[f[p]] = f[DeviceOf[p]]}
=============================================================================
