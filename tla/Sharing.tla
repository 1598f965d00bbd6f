------------------------------ MODULE Sharing ------------------------------
(***************************************************************************)
(* Who may see and edit what: a band, its members and invitations          *)
(* (BandService), and a concert or a score, shared with the band or        *)
(* offered to users by email (the sharing halves of ConcertService and     *)
(* ScoreService, which are the same code but for the differences below).   *)
(*                                                                         *)
(* The server runs its handlers concurrently and puts no transaction       *)
(* around a check and the write that follows it.  A handler that checks    *)
(* first and writes later is two actions, with what it found kept in job.  *)
(* What still holds then rests on the unique indexes, (user, band) and     *)
(* (thing, email), and on which rows are deleted softly: a soft-deleted    *)
(* row is found by no query, yet keeps its place in the index.             *)
(***************************************************************************)
EXTENDS Naturals

CONSTANTS
  User,       \* the accounts; an account is also its email address
  Manager,    \* the user who creates the band
  Handler,    \* the handlers the server runs at the same time
  Invitee,    \* bound: Invitee[k] are the users invitations of kind k go to
  MaxOffers,  \* bound: how often the thing is offered to one user
  Nobody      \* no user

Kind == {"band", "share"}    \* invitations to the band, and to the thing
Id   == 1..MaxOffers

ASSUME SharingAssumption ==
  /\ Manager \in User
  /\ Invitee \in [Kind -> SUBSET User]
  /\ MaxOffers \in Nat \ {0}
  /\ Nobody \notin User

VARIABLES
  thing,      \* what is shared: a concert or a score
  owner,      \* the user it belongs to
  member,     \* member[u]: u's row in band_members
  offer,      \* offer[k][u]: u's row among the invitations of kind k
  userShare,  \* userShare[u]: the share of the thing with u
  bandShare,  \* the share of the thing with the band
  job,        \* job[h]: the call a handler is working on
  granted,    \* history: <<u, mode>> the owner offered
  agreed,     \* history: <<k, u>> that u accepted in the inbox
  held,       \* history: <<k, u>> that has been a membership or a share
  quiet,      \* history: the revocations that have met no answer and no error
  sealed      \* history: <<k, u>> revoked, and not offered again since

history    == <<granted, agreed, held, quiet, sealed>>
serverVars == <<thing, owner, member, offer, userShare, bandShare>>
vars       == <<serverVars, job, history>>

-----------------------------------------------------------------------------
(* Types *)

Mode  == {"none", "view", "edit"}
Modes == IF thing = "concert" THEN {"view", "edit"} ELSE {"view"}

\* "revoked" is a soft-deleted band invitation; share invitations are deleted
\* for good and leave only the id, which no later one gets.
Row == [st : {"none", "pending", "accepted", "declined", "revoked"},
        mode : Mode, id : 0..MaxOffers]
Invitation(st, mode, i) == [st |-> st, mode |-> mode, id |-> i]

Reply == {"accepted", "declined"}
Job == [at : {"idle", "answering", "settling", "offering", "sharing", "revoking"},
        kind : Kind, user : User \cup {Nobody}, mode : Mode, id : 0..MaxOffers,
        answer : Reply]
Call(at, k, u, mode, i, answer) ==
  [at |-> at, kind |-> k, user |-> u, mode |-> mode, id |-> i, answer |-> answer]
Idle == Call("idle", "share", Nobody, "none", 0, "declined")

TypeOK ==
  /\ thing \in {"concert", "score"}
  /\ owner \in User
  /\ member \in [User -> {"none", "active", "removed"}]
  /\ offer \in [Kind -> [User -> Row]]
  /\ userShare \in [User -> Mode]
  /\ bandShare \in Mode
  /\ job \in [Handler -> Job]
  /\ \A h \in Handler : job[h].at \notin {"idle", "sharing"} => job[h].user \in User
  /\ granted \in SUBSET (User \X Mode)
  /\ agreed \in SUBSET (Kind \X User)
  /\ held \in SUBSET (Kind \X User)
  /\ quiet \in SUBSET Handler
  /\ sealed \in SUBSET (Kind \X User)

Init ==
  /\ thing \in {"concert", "score"}
  /\ owner \in User
  /\ member = [u \in User |-> "none"]
  /\ offer = [k \in Kind |-> [u \in User |-> Invitation("none", "none", 0)]]
  /\ userShare = [u \in User |-> "none"]
  /\ bandShare = "none"
  /\ job = [h \in Handler |-> Idle]
  /\ granted = {}
  /\ agreed = {}
  /\ held = {}
  /\ quiet = {}
  /\ sealed = {}

-----------------------------------------------------------------------------
(* What the services let a user do *)

\* BandMember queries through gorm skip soft-deleted rows.
IsMember(u) == member[u] = "active"

\* "SELECT band_id FROM band_members WHERE user_id = ?", which ConcertService
\* writes out in SQL, does not.
CountsAsMember(u) == IF thing = "concert" THEN member[u] # "none" ELSE IsMember(u)

\* ListMyConcerts, ListMyScores: the thing is in u's list.
Sees(u) ==
  \/ u = owner
  \/ userShare[u] # "none"
  \/ bandShare # "none" /\ CountsAsMember(u)

\* UpdateConcert: u may save the concert.
MayEdit(u) ==
  \/ u = owner
  \/ userShare[u] = "edit"
  \/ bandShare = "edit" /\ CountsAsMember(u)

-----------------------------------------------------------------------------
(* Writing an invitation, a call *)

Put(k, u, st, mode, i) == offer' = [offer EXCEPT ![k][u] = Invitation(st, mode, i)]
SetStatus(k, u, st)    == Put(k, u, st, offer[k][u].mode, offer[k][u].id)

Begin(h, j) == job[h] = Idle /\ job' = [job EXCEPT ![h] = j]
Finish(h)   == job' = [job EXCEPT ![h] = Idle]

-----------------------------------------------------------------------------
(* The band *)

\* The band and its manager's membership are created in one transaction.
CreateBand ==
  /\ member[Manager] = "none"
  /\ member' = [member EXCEPT ![Manager] = "active"]
  /\ UNCHANGED <<thing, owner, offer, userShare, bandShare, job, history>>

\* FirstOrCreate by (band, email): an invitation that was accepted or declined
\* is found and left as it is, one that was revoked is in the way of the index.
InviteMember(u) ==
  /\ u \in Invitee["band"]
  /\ IsMember(Manager)
  /\ offer["band"][u].st = "none"
  /\ Put("band", u, "pending", "view", 1)
  /\ UNCHANGED <<thing, owner, member, userShare, bandShare, job, history>>

Answering(k, u) ==
  \E h \in Handler : /\ job[h].at \in {"answering", "settling"}
                     /\ job[h].kind = k
                     /\ job[h].user = u

\* RemoveMember with an email: the pending invitation is soft-deleted.
RevokeInvitation(u) ==
  /\ IsMember(Manager)
  /\ offer["band"][u].st = "pending"
  /\ SetStatus("band", u, "revoked")
  /\ sealed' = IF Answering("band", u) \/ IsMember(u)
               THEN sealed ELSE sealed \cup {<<"band", u>>}
  /\ UNCHANGED <<thing, owner, member, userShare, bandShare, job>>
  /\ UNCHANGED <<granted, agreed, held, quiet>>

\* RemoveMember with a user id: the membership is soft-deleted.
RemoveMember(u) ==
  /\ u # Manager
  /\ IsMember(u)
  /\ member' = [member EXCEPT ![u] = "removed"]
  /\ sealed' = sealed \cup {<<"band", u>>}
  /\ UNCHANGED <<thing, owner, offer, userShare, bandShare, job>>
  /\ UNCHANGED <<granted, agreed, held, quiet>>

-----------------------------------------------------------------------------
(* Sharing: ShareConcert and ShareScore, RevokeConcertAccess and           *)
(* RevokeScoreAccess                                                       *)

\* The target is an email address: no share yet, no invitation pending.
CheckOffer(h, u) ==
  /\ u \in Invitee["share"] \ {owner}
  /\ userShare[u] = "none"
  /\ offer["share"][u].st # "pending"
  /\ \E mode \in Modes : Begin(h, Call("offering", "share", u, mode, 0, "declined"))
  /\ UNCHANGED <<serverVars, history>>

\* db.Create: an answered invitation is still in the way of the index.
CreateOffer(h) ==
  LET u == job[h].user
      n == offer["share"][u].id + 1
  IN /\ job[h].at = "offering"
     /\ offer["share"][u].st = "none"
     /\ n \in Id
     /\ Put("share", u, "pending", job[h].mode, n)
     /\ granted' = granted \cup {<<u, job[h].mode>>}
     /\ sealed' = sealed \ {<<"share", u>>}
     /\ Finish(h)
     /\ UNCHANGED <<thing, owner, member, userShare, bandShare, agreed, held, quiet>>

\* The target is a band: the caller is a member, and nothing is shared yet.
CheckShare(h) ==
  /\ IsMember(owner)
  /\ bandShare = "none"
  /\ \E mode \in Modes : Begin(h, Call("sharing", "share", Nobody, mode, 0, "declined"))
  /\ UNCHANGED <<serverVars, history>>

CreateShare(h) ==
  /\ job[h].at = "sharing"
  /\ bandShare = "none"
  /\ bandShare' = job[h].mode
  /\ Finish(h)
  /\ UNCHANGED <<thing, owner, member, offer, userShare, history>>

RevokeBand ==
  /\ bandShare # "none"
  /\ bandShare' = "none"
  /\ UNCHANGED <<thing, owner, member, offer, userShare, job, history>>

\* The share is deleted first ...
DeleteShare(h, u) ==
  /\ u # owner
  /\ Begin(h, Call("revoking", "share", u, "none", 0, "declined"))
  /\ userShare' = [userShare EXCEPT ![u] = "none"]
  /\ quiet' = IF Answering("share", u) THEN quiet ELSE quiet \cup {h}
  /\ UNCHANGED <<thing, owner, member, offer, bandShare, granted, agreed, held, sealed>>

\* ... and when it cannot be deleted the invitation still is: the errors of both
\* are ignored, and the caller is told of a success if either deleted a row.
DeleteShareFails(h, u) ==
  /\ u # owner
  /\ Begin(h, Call("revoking", "share", u, "none", 0, "declined"))
  /\ UNCHANGED <<serverVars, history>>

\* Mutant: only the share is deleted.
DeleteOfferNever(h) ==
  LET u == job[h].user
  IN /\ job[h].at = "revoking"
     /\ sealed' = IF h \in quiet THEN sealed \cup {<<"share", u>>} ELSE sealed
     /\ quiet' = quiet \ {h}
     /\ Finish(h)
     /\ UNCHANGED <<serverVars, granted, agreed, held>>

\* ... then the invitation, if it is pending.
DeleteOffer(h) ==
  LET u == job[h].user
  IN /\ job[h].at = "revoking"
     /\ IF offer["share"][u].st = "pending"
        THEN Put("share", u, "none", "none", offer["share"][u].id)
        ELSE UNCHANGED offer
     /\ sealed' = IF h \in quiet THEN sealed \cup {<<"share", u>>} ELSE sealed
     /\ quiet' = quiet \ {h}
     /\ Finish(h)
     /\ UNCHANGED <<thing, owner, member, userShare, bandShare, granted, agreed, held>>

DeleteOfferFails(h) ==
  /\ job[h].at = "revoking"
  /\ quiet' = quiet \ {h}
  /\ Finish(h)
  /\ UNCHANGED <<serverVars, granted, agreed, held, sealed>>

-----------------------------------------------------------------------------
(* Answers: RespondToInvitation, RespondToConcertInvitation and            *)
(* RespondToScoreInvitation                                                *)

\* Each device of an account keeps a notification of every invitation it was
\* ever listed, pending or not any more (SyncNotificationFromServer), until a
\* tap on that device resolves it.  The answer is sent in a goroutine and its
\* error dropped, so an answer that is lost is no step at all.
Answer(h, k, u, i, answer) ==
  /\ i <= offer[k][u].id
  /\ Begin(h, Call("answering", k, u, "none", i, answer))
  /\ agreed' = IF answer = "accepted" THEN agreed \cup {<<k, u>>} ELSE agreed
  /\ quiet' = {g \in quiet : <<job[g].kind, job[g].user>> # <<k, u>>}
  /\ UNCHANGED <<serverVars, granted, held, sealed>>

\* The invitation is the caller's own and pending.
ReadOffer(h) ==
  LET mine == offer[job[h].kind][job[h].user]
  IN /\ job[h].at = "answering"
     /\ mine.st = "pending"
     /\ mine.id = job[h].id
     /\ job' = [job EXCEPT ![h] =
                  Call("settling", @.kind, @.user, mine.mode, @.id, @.answer)]
     /\ UNCHANGED <<serverVars, history>>

\* UPDATE ... WHERE id = ?: touches nothing when the row has been deleted.
Settle(h) ==
  LET k == job[h].kind
      u == job[h].user
  IN IF offer[k][u].id = job[h].id /\ offer[k][u].st \notin {"none", "revoked"}
     THEN SetStatus(k, u, job[h].answer)
     ELSE UNCHANGED offer

Decline(h) ==
  /\ job[h].at = "settling"
  /\ job[h].answer = "declined"
  /\ Settle(h)
  /\ Finish(h)
  /\ UNCHANGED <<thing, owner, member, userShare, bandShare, history>>

\* Mutant: the membership that was removed is restored.
JoinBandAgain(h) ==
  LET u == job[h].user
  IN /\ job[h].at = "settling"
     /\ job[h].answer = "accepted"
     /\ job[h].kind = "band"
     /\ Settle(h)
     /\ member' = [member EXCEPT ![u] = "active"]
     /\ held' = held \cup {<<"band", u>>}
     /\ Finish(h)
     /\ UNCHANGED <<thing, owner, userShare, bandShare, granted, agreed, quiet, sealed>>

\* FirstOrCreate by (user, band): a removed membership is not found and in the
\* way of the index, which rolls the transaction back.
JoinBand(h) ==
  LET u == job[h].user
  IN /\ job[h].at = "settling"
     /\ job[h].answer = "accepted"
     /\ job[h].kind = "band"
     /\ member[u] # "removed"
     /\ Settle(h)
     /\ member' = [member EXCEPT ![u] = "active"]
     /\ held' = held \cup {<<"band", u>>}
     /\ Finish(h)
     /\ UNCHANGED <<thing, owner, userShare, bandShare, granted, agreed, quiet, sealed>>

\* Mutant: a share is always for editing.
AcceptShareEditing(h) ==
  LET u == job[h].user
  IN /\ job[h].at = "settling"
     /\ job[h].answer = "accepted"
     /\ job[h].kind = "share"
     /\ Settle(h)
     /\ userShare' = [userShare EXCEPT ![u] = "edit"]
     /\ held' = held \cup {<<"share", u>>}
     /\ Finish(h)
     /\ UNCHANGED <<thing, owner, member, bandShare, granted, agreed, quiet, sealed>>

\* FirstOrCreate by (thing, user), and by can_edit when it is true: a share
\* that is only for viewing is then not found and in the way of the index.
AcceptShare(h) ==
  LET u == job[h].user
  IN /\ job[h].at = "settling"
     /\ job[h].answer = "accepted"
     /\ job[h].kind = "share"
     /\ userShare[u] = "view" => job[h].mode = "view"
     /\ Settle(h)
     /\ userShare' = [userShare EXCEPT ![u] = IF @ = "none" THEN job[h].mode ELSE @]
     /\ held' = held \cup {<<"share", u>>}
     /\ Finish(h)
     /\ UNCHANGED <<thing, owner, member, bandShare, granted, agreed, quiet, sealed>>

\* Mutant: no transaction, the status is updated all the same.
HandlerFailsHalfway(h) ==
  /\ job[h].at \in {"answering", "settling", "offering", "sharing"}
  /\ IF job[h].at = "settling" THEN Settle(h) ELSE UNCHANGED offer
  /\ Finish(h)
  /\ UNCHANGED <<thing, owner, member, userShare, bandShare, history>>

\* A check that fails, an index in the way, a database error: nothing changes.
HandlerFails(h) ==
  /\ job[h].at \in {"answering", "settling", "offering", "sharing"}
  /\ Finish(h)
  /\ UNCHANGED <<serverVars, history>>

-----------------------------------------------------------------------------

Next ==
  \/ CreateBand
  \/ RevokeBand
  \/ \E u \in User : InviteMember(u) \/ RevokeInvitation(u) \/ RemoveMember(u)
  \/ \E h \in Handler, u \in User : CheckOffer(h, u) \/ DeleteShare(h, u) \/ DeleteShareFails(h, u)
  \/ \E h \in Handler : \/ CreateOffer(h)
                        \/ CheckShare(h)
                        \/ CreateShare(h)
                        \/ DeleteOffer(h)
                        \/ DeleteOfferFails(h)
                        \/ ReadOffer(h)
                        \/ Decline(h)
                        \/ JoinBand(h)
                        \/ AcceptShare(h)
                        \/ HandlerFails(h)
  \/ \E h \in Handler, k \in Kind, u \in User, i \in Id, answer \in Reply :
       Answer(h, k, u, i, answer)

Spec == Init /\ [][Next]_vars

-----------------------------------------------------------------------------
(* Properties *)

\* Nobody but the owner sees the thing without having accepted an invitation,
\* to it or to the band, and nobody edits it without the owner's word: no race
\* between checks and writes, and no answer to an invitation that has gone,
\* gives access that was not meant (ListMyConcerts, ListMyScores,
\* UpdateConcert against the handlers that write the tables they read).
AccessWasGranted ==
  \A u \in User \ {owner} :
    /\ Sees(u) => \/ <<"share", u>> \in agreed
                  \/ bandShare # "none" /\ (u = Manager \/ <<"band", u>> \in agreed)
    /\ MayEdit(u) => <<u, "edit">> \in granted \/ bandShare = "edit"

\* Once removed from the band a user is never a member again, not even by an
\* answer that was under way when the manager removed them (RespondToInvitation
\* has read the invitation, RemoveMember runs, the transaction follows).
RemovedStaysOut ==
  [][\A u \in User : member[u] = "removed" => member'[u] = "removed"]_vars

\* A revocation that met no answer under way, and whose deletes did not fail, is
\* final: until the owner offers the thing again, no notification that is left in
\* an inbox gives access (RevokeConcertAccess, RevokeScoreAccess, RemoveMember).
RevocationIsFinal ==
  \A u \in User :
    /\ <<"band", u>> \in sealed => ~IsMember(u)
    /\ <<"share", u>> \in sealed => userShare[u] = "none"

\* An invitation is recorded as accepted only together with what it promised,
\* the membership or the share, which may have ended since: the transactions
\* of the Respond handlers leave nothing half done.
AcceptedTookEffect ==
  \A k \in Kind, u \in User : offer[k][u].st = "accepted" => <<k, u>> \in held

Promise == INSTANCE Consent WITH
  offered <- granted,
  share   <- userShare,
  member  <- {u \in User : IsMember(u)}

\* The services implement Consent: whatever the handlers' interleaving, every
\* change of who holds what is one the owner's offers, the users' agreements
\* and the revocations before it allow (BandService, and the sharing halves of
\* ConcertService and ScoreService).
KeepsConsent == Promise!Spec
=============================================================================
