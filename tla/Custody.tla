------------------------------ MODULE Custody ------------------------------
(***************************************************************************)
(* What synchronisation promises about a library, of scores or of          *)
(* concerts: each device has its copies and the server has one of its own; *)
(* copies come from the user who made the thing, or from the server once   *)
(* it has been there; and whatever the server can store leaves the server, *)
(* and then the devices, only after some user deleted it.  A device whose  *)
(* passes cross each other may drop a copy of what the server has had: the *)
(* next list brings it back.  Which devices these are is no promise but    *)
(* the users' doing.  There are no passes here, no calls and no lists that *)
(* are older than the rows they are compared with: ScoreCalm and           *)
(* ConcertCalm show that SynchronizeScores and SynchronizeConcerts, with   *)
(* all of these, do nothing this module does not allow.                    *)
(***************************************************************************)
CONSTANTS
  Device,    \* the devices of the account
  Thing,     \* scores, or concerts
  Storable,  \* those the server can store
  Nobody     \* no device

VARIABLES
  origin,    \* origin[x]: the device x was made on
  copy,      \* copy[d][x]: "none", "dirty", "clean" or "tomb"
  row,       \* row[x]: the server's: "none", "live" or "gone"
  trashed,   \* what some user has deleted
  crossed    \* the devices whose passes cross each other

library == <<origin, copy, row, trashed>>
vars == <<library, crossed>>

Here == {"dirty", "clean"}

Init ==
  /\ origin = [x \in Thing |-> Nobody]
  /\ copy = [d \in Device |-> [x \in Thing |-> "none"]]
  /\ row = [x \in Thing |-> "none"]
  /\ trashed = {}
  /\ crossed = {}

-----------------------------------------------------------------------------
(* The user of a device *)

Make(d, x) ==
  /\ origin[x] = Nobody
  /\ origin' = [origin EXCEPT ![x] = d]
  /\ copy' = [copy EXCEPT ![d][x] = "dirty"]
  /\ UNCHANGED <<row, trashed>>

Edit(d, x) ==
  /\ copy[d][x] \in Here
  /\ copy' = [copy EXCEPT ![d][x] = "dirty"]
  /\ UNCHANGED <<origin, row, trashed>>

Trash(d, x) ==
  /\ copy[d][x] \in Here
  /\ copy' = [copy EXCEPT ![d][x] = "tomb"]
  /\ trashed' = trashed \cup {x}
  /\ UNCHANGED <<origin, row>>

-----------------------------------------------------------------------------
(* The server *)

\* The first time, or again after a deletion.
Store(x) ==
  /\ x \in Storable /\ origin[x] # Nobody
  /\ row' = [row EXCEPT ![x] = "live"]
  /\ UNCHANGED <<origin, copy, trashed>>

Remove(x) ==
  /\ x \in trashed /\ row[x] # "none"
  /\ row' = [row EXCEPT ![x] = "gone"]
  /\ UNCHANGED <<origin, copy, trashed>>

-----------------------------------------------------------------------------
(* Passes *)

\* A device gets, or marks as synced, only what has been on the server.  A
\* deletion that has not arrived there yet may be undone by it.
Receive(d, x) ==
  /\ row[x] # "none"
  /\ \E how \in Here : copy' = [copy EXCEPT ![d][x] = how]
  /\ UNCHANGED <<origin, row, trashed>>

Drop(d, x) ==
  /\ row[x] # "none"
  /\ x \in trashed \/ d \in crossed
  /\ copy' = [copy EXCEPT ![d][x] = "none"]
  /\ UNCHANGED <<origin, row, trashed>>

\* A file the server does not accept.
Reject(d, x) ==
  /\ x \notin Storable
  /\ copy' = [copy EXCEPT ![d][x] = "none"]
  /\ UNCHANGED <<origin, row, trashed>>

Change ==
  \/ \E x \in Thing : Store(x) \/ Remove(x)
  \/ \E d \in Device, x \in Thing :
       \/ Make(d, x) \/ Edit(d, x) \/ Trash(d, x)
       \/ Receive(d, x) \/ Drop(d, x) \/ Reject(d, x)

Next == (Change \/ UNCHANGED library) /\ crossed' \subseteq Device

Spec == Init /\ [][Next]_vars
=============================================================================
