------------------------------ MODULE Consent ------------------------------
(***************************************************************************)
(* What sharing promises: somebody else's concert or score is reached only *)
(* through an offer its owner made and the user's own agreement, or        *)
(* through a band the user agreed to join; and what was closed stays       *)
(* closed until it is offered again.  There are no handlers here, no       *)
(* invitations and no two steps where one was meant: Sharing shows that    *)
(* the services, with all of these, do nothing this module does not allow. *)
(***************************************************************************)
CONSTANTS
  User,     \* the accounts
  Manager   \* the user who creates the band

VARIABLES
  owner,      \* the user the thing belongs to
  offered,    \* <<u, mode>> that the owner has offered
  agreed,     \* <<k, u>> that u has agreed to
  share,      \* share[u]: what u may do with the thing
  member,     \* the members of the band
  bandShare,  \* what the members of the band may do with it
  sealed      \* <<k, u>> closed to u for now

vars == <<owner, offered, agreed, share, member, bandShare, sealed>>

Right == {"view", "edit"}
Way   == {"band", "share"}    \* to reach the thing: the band, a share of it

Init ==
  /\ owner \in User
  /\ offered = {}
  /\ agreed = {}
  /\ share = [u \in User |-> "none"]
  /\ member = {}
  /\ bandShare = "none"
  /\ sealed = {}

\* The owner offers u a right, which opens the way to a share again.
Offer(u, right) ==
  /\ u # owner
  /\ offered' = offered \cup {<<u, right>>}
  /\ sealed' = sealed \ {<<"share", u>>}
  /\ UNCHANGED <<owner, agreed, share, member, bandShare>>

Agree(k, u) ==
  /\ agreed' = agreed \cup {<<k, u>>}
  /\ UNCHANGED <<owner, offered, share, member, bandShare, sealed>>

\* A share is what was offered and agreed to; a right that is held stays as it is.
Enter(u, right) ==
  /\ <<u, right>> \in offered
  /\ <<"share", u>> \in agreed \ sealed
  /\ share[u] = "none"
  /\ share' = [share EXCEPT ![u] = right]
  /\ UNCHANGED <<owner, offered, agreed, member, bandShare, sealed>>

Join(u) ==
  /\ u = Manager \/ <<"band", u>> \in agreed
  /\ <<"band", u>> \notin sealed
  /\ member' = member \cup {u}
  /\ UNCHANGED <<owner, offered, agreed, share, bandShare, sealed>>

\* Leaving the band is for good.
Leave(u) ==
  /\ member' = member \ {u}
  /\ sealed' = sealed \cup {<<"band", u>>}
  /\ UNCHANGED <<owner, offered, agreed, share, bandShare>>

EndShare(u) ==
  /\ share' = [share EXCEPT ![u] = "none"]
  /\ UNCHANGED <<owner, offered, agreed, member, bandShare, sealed>>

\* A way is closed to somebody who does not hold what it leads to.
Close(k, u) ==
  /\ IF k = "band" THEN u \notin member ELSE share[u] = "none"
  /\ sealed' = sealed \cup {<<k, u>>}
  /\ UNCHANGED <<owner, offered, agreed, share, member, bandShare>>

ShareWithBand(right) ==
  /\ bandShare = "none"
  /\ bandShare' = right
  /\ UNCHANGED <<owner, offered, agreed, share, member, sealed>>

EndBandShare ==
  /\ bandShare' = "none"
  /\ UNCHANGED <<owner, offered, agreed, share, member, sealed>>

Next ==
  \/ EndBandShare
  \/ \E right \in Right : ShareWithBand(right)
  \/ \E u \in User : Join(u) \/ Leave(u) \/ EndShare(u)
  \/ \E u \in User, right \in Right : Offer(u, right) \/ Enter(u, right)
  \/ \E k \in Way, u \in User : Agree(k, u) \/ Close(k, u)

Spec == Init /\ [][Next]_vars
=============================================================================
