--------------------------- MODULE SharingProofs ---------------------------
(***************************************************************************)
(* Theorems about Sharing, for any number of users, handlers and offers.   *)
(***************************************************************************)
EXTENDS Sharing, TLAPS

USE SharingAssumption

-----------------------------------------------------------------------------
(* Typing of the values the actions write *)

\* The fields of a call, and of an invitation.
LEMMA JobFields ==
  ASSUME NEW j \in Job
  PROVE  /\ j.at \in {"idle", "answering", "settling", "offering", "sharing", "revoking"}
         /\ j.kind \in Kind
         /\ j.user \in User \cup {Nobody}
         /\ j.mode \in Mode
         /\ j.id \in 0..MaxOffers
         /\ j.answer \in Reply
BY DEF Job

\* The fields of an invitation.
LEMMA RowFields ==
  ASSUME NEW r \in Row
  PROVE  /\ r.st \in {"none", "pending", "accepted", "declined", "revoked"}
         /\ r.mode \in Mode
         /\ r.id \in 0..MaxOffers
BY DEF Row

\* Calls and invitations made of typed parts are typed.
LEMMA CallType ==
  ASSUME NEW at \in {"idle", "answering", "settling", "offering", "sharing", "revoking"},
         NEW k \in Kind, NEW u \in User \cup {Nobody}, NEW mode \in Mode,
         NEW i \in 0..MaxOffers, NEW a \in Reply
  PROVE  /\ Call(at, k, u, mode, i, a) \in Job
         /\ Call(at, k, u, mode, i, a).at = at
         /\ Call(at, k, u, mode, i, a).kind = k
         /\ Call(at, k, u, mode, i, a).user = u
         /\ Call(at, k, u, mode, i, a).mode = mode
         /\ Call(at, k, u, mode, i, a).id = i
         /\ Call(at, k, u, mode, i, a).answer = a
BY DEF Call, Job

\* A handler without a call.
LEMMA IdleType == Idle \in Job /\ Idle.at = "idle"
<1>1. "share" \in Kind /\ "none" \in Mode /\ "declined" \in Reply /\ 0 \in 0..MaxOffers
  BY DEF Kind, Mode, Reply
<1> QED BY <1>1 DEF Idle, Call, Job

\* An invitation built from typed parts.
LEMMA InvitationType ==
  ASSUME NEW st \in {"none", "pending", "accepted", "declined", "revoked"},
         NEW mode \in Mode, NEW i \in 0..MaxOffers
  PROVE  /\ Invitation(st, mode, i) \in Row
         /\ Invitation(st, mode, i).st = st
         /\ Invitation(st, mode, i).mode = mode
         /\ Invitation(st, mode, i).id = i
BY DEF Invitation, Row

\* Writing one call, or one invitation.
LEMMA JobPut ==
  ASSUME TypeOK, NEW h \in Handler, NEW j \in Job, job' = [job EXCEPT ![h] = j]
  PROVE  /\ job' \in [Handler -> Job]
         /\ job'[h] = j
         /\ \A g \in Handler \ {h} : job'[g] = job[g]
BY DEF TypeOK

\* Writing an invitation keeps the types, ...
LEMMA PutType ==
  ASSUME TypeOK, NEW k \in Kind, NEW u \in User,
         NEW st \in {"none", "pending", "accepted", "declined", "revoked"},
         NEW mode \in Mode, NEW i \in 0..MaxOffers, Put(k, u, st, mode, i)
  PROVE  /\ offer' \in [Kind -> [User -> Row]]
         /\ offer'[k][u].st = st
         /\ offer'[k][u].mode = mode
         /\ \A l \in Kind, v \in User : l # k \/ v # u => offer'[l][v] = offer[l][v]
<1>1. PICK r \in Row : r = Invitation(st, mode, i)
  BY InvitationType
<1>2. r.st = st /\ r.mode = mode
  BY <1>1, InvitationType
<1> QED BY <1>1, <1>2 DEF Put, TypeOK

\* ... so does changing its status, ...
LEMMA StatusType ==
  ASSUME TypeOK, NEW k \in Kind, NEW u \in User,
         NEW st \in {"none", "pending", "accepted", "declined", "revoked"},
         SetStatus(k, u, st)
  PROVE  /\ offer' \in [Kind -> [User -> Row]]
         /\ offer'[k][u].st = st
         /\ offer'[k][u].mode = offer[k][u].mode
         /\ \A l \in Kind, v \in User : l # k \/ v # u => offer'[l][v] = offer[l][v]
<1>1. offer[k][u] \in Row
  BY DEF TypeOK
<1> QED BY <1>1, RowFields, PutType DEF SetStatus

\* Beginning a call, and ending it.
LEMMA BeginType ==
  ASSUME TypeOK, NEW h \in Handler,
         NEW at \in {"answering", "settling", "offering", "sharing", "revoking"},
         NEW k \in Kind, NEW u \in User \cup {Nobody}, NEW mode \in Mode,
         NEW i \in 0..MaxOffers, NEW a \in Reply, Begin(h, Call(at, k, u, mode, i, a))
  PROVE  /\ job[h].at = "idle"
         /\ job' \in [Handler -> Job]
         /\ job'[h].at = at /\ job'[h].kind = k /\ job'[h].user = u
         /\ job'[h].mode = mode /\ job'[h].answer = a
         /\ \A g \in Handler \ {h} : job'[g] = job[g]
<1>1. PICK j \in Job : j = Call(at, k, u, mode, i, a)
  BY CallType
<1>2. /\ j.at = at /\ j.kind = k /\ j.user = u /\ j.mode = mode
      /\ j.answer = a
  BY <1>1, CallType
<1> QED BY <1>1, <1>2, IdleType DEF Begin, TypeOK

\* ... and the end of a call.
LEMMA FinishType ==
  ASSUME TypeOK, NEW h \in Handler, Finish(h)
  PROVE  /\ job' \in [Handler -> Job]
         /\ job'[h].at = "idle"
         /\ \A g \in Handler \ {h} : job'[g] = job[g]
BY JobPut, IdleType DEF Finish

\* What an answer writes, if it writes anything.
LEMMA SettleType ==
  ASSUME TypeOK, NEW h \in Handler, job[h].at = "settling", Settle(h)
  PROVE  /\ offer' \in [Kind -> [User -> Row]]
         /\ \A k \in Kind, u \in User :
              /\ offer'[k][u].mode = offer[k][u].mode
              /\ \/ offer'[k][u] = offer[k][u]
                 \/ /\ k = job[h].kind /\ u = job[h].user
                    /\ offer'[k][u].st = job[h].answer
                    /\ offer[k][u].st \notin {"none", "revoked"}
<1>1. PICK k \in Kind, u \in User : k = job[h].kind /\ u = job[h].user
  BY JobFields DEF TypeOK
<1>2. CASE offer' = offer
  BY <1>2 DEF TypeOK
<1>3. CASE /\ offer[k][u].st \notin {"none", "revoked"}
           /\ SetStatus(k, u, "accepted")
           /\ job[h].answer = "accepted"
  BY <1>1, <1>3, StatusType
<1>4. CASE /\ offer[k][u].st \notin {"none", "revoked"}
           /\ SetStatus(k, u, "declined")
           /\ job[h].answer = "declined"
  BY <1>1, <1>4, StatusType
<1>5. job[h].answer \in Reply
  BY JobFields DEF TypeOK
<1> QED BY <1>1, <1>2, <1>3, <1>4, <1>5 DEF Settle, Reply

\* The types at first.
LEMMA InitTyped == Init => TypeOK
<1> SUFFICES ASSUME Init PROVE TypeOK
  OBVIOUS
<1>1. Invitation("none", "none", 0) \in Row
  BY InvitationType, 0 \in 0..MaxOffers DEF Mode
<1> QED BY <1>1, IdleType DEF Init, TypeOK, Mode, Kind
-----------------------------------------------------------------------------
(* The inductive invariant *)

Busy(h)    == job[h].at \in {"answering", "settling"}
Settles(h, k, u) == job[h].at = "settling" /\ job[h].kind = k /\ job[h].user = u

\* Access goes back to what was offered and accepted, at each stage on the way
\* from the invitation through the call that answers it to the row.
Granting ==
  /\ \A u \in User \ {Manager} : member[u] # "none" => <<"band", u>> \in agreed
  /\ \A u \in User :
       /\ userShare[u] # "none" => <<"share", u>> \in agreed
       /\ userShare[u] = "edit" => <<u, "edit">> \in granted
       /\ offer["share"][u].mode = "edit" => <<u, "edit">> \in granted
  /\ \A h \in Handler :
       /\ Busy(h) /\ job[h].answer = "accepted" => <<job[h].kind, job[h].user>> \in agreed
       /\ job[h].at = "settling" /\ job[h].kind = "share" /\ job[h].mode = "edit"
            => <<job[h].user, "edit">> \in granted

\* Whoever was revoked has neither a way in that is open nor one under way.
Sealing ==
  /\ \A u \in User : <<"band", u>> \in sealed =>
       /\ u # Manager
       /\ \/ member[u] = "removed"
          \/ /\ member[u] = "none"
             /\ offer["band"][u].st = "revoked"
             /\ \A h \in Handler : ~Settles(h, "band", u)
  /\ \A u \in User : <<"share", u>> \in sealed =>
       /\ userShare[u] = "none"
       /\ offer["share"][u].st # "pending"
       /\ \A h \in Handler : ~Settles(h, "share", u)

\* A revocation that has met no answer is still alone with its user.
Alone ==
  \A h \in quiet :
    /\ job[h].at = "revoking" /\ job[h].kind = "share"
    /\ userShare[job[h].user] = "none"
    /\ \A g \in Handler : ~(Busy(g) /\ job[g].kind = "share" /\ job[g].user = job[h].user)

IInv == TypeOK /\ Granting /\ AcceptedTookEffect /\ Sealing /\ Alone

-----------------------------------------------------------------------------
(* Steps that write the tables of the band *)

\* A new band keeps the invariant.
LEMMA CreateBandStep == IInv /\ CreateBand => IInv'
<1> SUFFICES ASSUME IInv, CreateBand PROVE IInv'
  OBVIOUS
<1> USE DEF IInv, CreateBand, history
<1>1. TypeOK'
  BY DEF TypeOK
<1>2. Granting'
  BY DEF TypeOK, Granting, Busy
<1>3. AcceptedTookEffect'
  BY DEF AcceptedTookEffect
<1>4. Sealing'
  BY DEF TypeOK, Sealing, Settles
<1>5. Alone'
  BY DEF Alone, Busy
<1> QED BY <1>1, <1>2, <1>3, <1>4, <1>5

\* So does an invitation to it.
LEMMA InviteMemberStep == ASSUME NEW u \in User PROVE IInv /\ InviteMember(u) => IInv'
<1> SUFFICES ASSUME IInv, InviteMember(u) PROVE IInv'
  OBVIOUS
<1> USE DEF IInv, InviteMember, history
<1>0. /\ offer' \in [Kind -> [User -> Row]]
      /\ offer'["band"][u].st = "pending"
      /\ \A l \in Kind, v \in User : l # "band" \/ v # u => offer'[l][v] = offer[l][v]
  <2>1. "band" \in Kind /\ "view" \in Mode /\ 1 \in 0..MaxOffers
    BY DEF Kind, Mode
  <2> QED BY <2>1, PutType
<1>1. TypeOK'
  BY <1>0 DEF TypeOK
<1>2. Granting'
  BY <1>0 DEF TypeOK, Granting, Busy, Kind
<1>3. AcceptedTookEffect'
  BY <1>0 DEF AcceptedTookEffect, Kind
<1>4. Sealing'
  BY <1>0 DEF TypeOK, Sealing, Settles, Kind
<1>5. Alone'
  BY DEF Alone, Busy
<1> QED BY <1>1, <1>2, <1>3, <1>4, <1>5

\* Revoking an invitation to the band.
LEMMA RevokeInvitationStep ==
  ASSUME NEW u \in User PROVE IInv /\ RevokeInvitation(u) => IInv'
<1> SUFFICES ASSUME IInv, RevokeInvitation(u) PROVE IInv'
  OBVIOUS
<1> USE DEF IInv, RevokeInvitation
<1>0. /\ offer' \in [Kind -> [User -> Row]]
      /\ offer'["band"][u].st = "revoked"
      /\ offer'["band"][u].mode = offer["band"][u].mode
      /\ \A l \in Kind, v \in User : l # "band" \/ v # u => offer'[l][v] = offer[l][v]
  <2>1. "band" \in Kind
    BY DEF Kind
  <2> QED BY <2>1, StatusType
<1>1. TypeOK'
  BY <1>0 DEF TypeOK, Kind
<1>2. Granting'
  BY <1>0 DEF TypeOK, Granting, Busy, Kind
<1>3. AcceptedTookEffect'
  BY <1>0 DEF AcceptedTookEffect, Kind
<1>4. Sealing'
  <2>1. member[u] # "active" /\ ~Answering("band", u) =>
          /\ u # Manager
          /\ member[u] \in {"none", "removed"}
          /\ \A h \in Handler : ~Settles(h, "band", u)
    BY DEF TypeOK, Answering, Settles, IsMember
  <2> QED BY <1>0, <2>1 DEF TypeOK, Sealing, Settles, Kind, IsMember
<1>5. Alone'
  BY DEF Alone, Busy
<1> QED BY <1>1, <1>2, <1>3, <1>4, <1>5

\* A removed member was one, and stays removed.
LEMMA RemoveMemberStep ==
  ASSUME NEW u \in User PROVE IInv /\ RemoveMember(u) => IInv'
<1> SUFFICES ASSUME IInv, RemoveMember(u) PROVE IInv'
  OBVIOUS
<1> USE DEF IInv, RemoveMember
<1>1. TypeOK'
  BY DEF TypeOK, Kind
<1>2. Granting'
  BY DEF TypeOK, Granting, Busy, IsMember
<1>3. AcceptedTookEffect'
  BY DEF AcceptedTookEffect
<1>4. Sealing'
  BY DEF TypeOK, Sealing, Settles, IsMember
<1>5. Alone'
  BY DEF Alone, Busy
<1> QED BY <1>1, <1>2, <1>3, <1>4, <1>5

-----------------------------------------------------------------------------
(* Steps of sharing *)

\* A step that only begins, advances or ends a call, and writes no table: the
\* checks of ShareConcert and ShareScore, and every step that fails.
LEMMA CallStep ==
  ASSUME IInv, NEW h \in Handler, job' \in [Handler -> Job],
         UNCHANGED <<serverVars, history>>,
         job'[h].at \in {"idle", "offering", "sharing", "revoking"},
         job'[h].at \in {"offering", "revoking"} => job'[h].user \in User,
         h \notin quiet,
         \A g \in Handler \ {h} : job'[g] = job[g]
  PROVE  IInv'
<1> USE DEF IInv, serverVars, history
<1>1. TypeOK'
  BY DEF TypeOK
<1>2. Granting'
  BY DEF TypeOK, Granting, Busy
<1>3. AcceptedTookEffect'
  BY DEF AcceptedTookEffect
<1>4. Sealing'
  BY DEF Sealing, Settles
<1>5. Alone'
  <2> SUFFICES ASSUME NEW q \in quiet'
               PROVE  /\ job'[q].at = "revoking" /\ job'[q].kind = "share"
                      /\ userShare'[job'[q].user] = "none"
                      /\ \A g \in Handler : ~(/\ job'[g].at \in {"answering", "settling"}
                                              /\ job'[g].kind = "share"
                                              /\ job'[g].user = job'[q].user)
    BY DEF Alone, Busy
  <2>1. q \in quiet /\ q \in Handler \ {h} /\ job'[q] = job[q]
    BY DEF TypeOK
  <2>2. \A g \in Handler : job'[g].at \in {"answering", "settling"} => job'[g] = job[g]
    OBVIOUS
  <2> QED BY <2>1, <2>2 DEF Alone, Busy
<1> QED BY <1>1, <1>2, <1>3, <1>4, <1>5

\* The check of ShareConcert to a user, ...
LEMMA CheckOfferStep ==
  ASSUME NEW h \in Handler, NEW u \in User PROVE IInv /\ CheckOffer(h, u) => IInv'
<1> SUFFICES ASSUME IInv, CheckOffer(h, u) PROVE IInv'
  OBVIOUS
<1>1. PICK mode \in Modes : Begin(h, Call("offering", "share", u, mode, 0, "declined"))
  BY DEF CheckOffer
<1>2. mode \in Mode /\ "share" \in Kind /\ "declined" \in Reply /\ 0 \in 0..MaxOffers
  BY DEF Modes, Mode, Kind, Reply
<1>3. /\ job[h].at = "idle"
      /\ job' \in [Handler -> Job]
      /\ job'[h].at = "offering" /\ job'[h].user = u
      /\ \A g \in Handler \ {h} : job'[g] = job[g]
  BY <1>1, <1>2, BeginType DEF IInv
<1>4. h \notin quiet
  BY <1>3 DEF IInv, Alone
<1> QED BY <1>3, <1>4, CallStep DEF CheckOffer

\* ... or to the band, only opens a call.
LEMMA CheckShareStep ==
  ASSUME NEW h \in Handler PROVE IInv /\ CheckShare(h) => IInv'
<1> SUFFICES ASSUME IInv, CheckShare(h) PROVE IInv'
  OBVIOUS
<1>1. PICK mode \in Modes : Begin(h, Call("sharing", "share", Nobody, mode, 0, "declined"))
  BY DEF CheckShare
<1>2. mode \in Mode /\ "share" \in Kind /\ "declined" \in Reply /\ 0 \in 0..MaxOffers
  BY DEF Modes, Mode, Kind, Reply
<1>3. /\ job[h].at = "idle"
      /\ job' \in [Handler -> Job]
      /\ job'[h].at = "sharing"
      /\ \A g \in Handler \ {h} : job'[g] = job[g]
  BY <1>1, <1>2, BeginType DEF IInv
<1>4. h \notin quiet
  BY <1>3 DEF IInv, Alone
<1> QED BY <1>3, <1>4, CallStep DEF CheckShare

\* A call that fails leaves nothing behind.
LEMMA HandlerFailsStep ==
  ASSUME NEW h \in Handler PROVE IInv /\ HandlerFails(h) => IInv'
<1> SUFFICES ASSUME IInv, HandlerFails(h) PROVE IInv'
  OBVIOUS
<1>1. /\ job' \in [Handler -> Job]
      /\ job'[h].at = "idle"
      /\ \A g \in Handler \ {h} : job'[g] = job[g]
  BY FinishType DEF IInv, HandlerFails
<1>2. h \notin quiet
  BY DEF IInv, Alone, HandlerFails
<1> QED BY <1>1, <1>2, CallStep DEF HandlerFails

\* An invitation carries what the owner has granted by then.
LEMMA CreateOfferStep ==
  ASSUME NEW h \in Handler PROVE IInv /\ CreateOffer(h) => IInv'
<1> SUFFICES ASSUME IInv, CreateOffer(h) PROVE IInv'
  OBVIOUS
<1> USE DEF IInv
<1>a. PICK u \in User : u = job[h].user
  BY DEF TypeOK, CreateOffer
<1>b. PICK mode \in Mode : mode = job[h].mode
  BY JobFields DEF TypeOK
<1>c. PICK n \in Id : n = offer["share"][u].id + 1 /\ Put("share", u, "pending", mode, n)
  BY <1>a, <1>b DEF CreateOffer
<1>d. /\ job[h].at = "offering"
      /\ granted' = granted \cup {<<u, mode>>}
      /\ sealed' = sealed \ {<<"share", u>>}
      /\ UNCHANGED <<thing, owner, member, userShare, bandShare, agreed, held, quiet>>
  BY <1>a, <1>b DEF CreateOffer
<1>e. /\ job' \in [Handler -> Job]
      /\ job'[h].at = "idle"
      /\ \A g \in Handler \ {h} : job'[g] = job[g]
  BY FinishType DEF CreateOffer
<1>f. /\ offer' \in [Kind -> [User -> Row]]
      /\ offer'["share"][u].st = "pending"
      /\ offer'["share"][u].mode = mode
      /\ \A l \in Kind, v \in User : l # "share" \/ v # u => offer'[l][v] = offer[l][v]
  <2>1. "share" \in Kind /\ n \in 0..MaxOffers
    BY DEF Kind, Id
  <2> QED BY <1>c, <2>1, PutType
<1>g. h \notin quiet
  BY <1>d DEF Alone
<1>1. TypeOK'
  <2>1. \A g \in Handler : job'[g].at \notin {"idle", "sharing"} => job'[g].user \in User
    BY <1>e DEF TypeOK
  <2>2. granted' \in SUBSET (User \X Mode) /\ sealed' \in SUBSET (Kind \X User)
    BY <1>d DEF TypeOK
  <2> QED BY <1>d, <1>e, <1>f, <2>1, <2>2 DEF TypeOK
<1>2. Granting'
  BY <1>d, <1>e, <1>f DEF TypeOK, Granting, Busy, Kind
<1>3. AcceptedTookEffect'
  BY <1>d, <1>f DEF AcceptedTookEffect, Kind
<1>4. Sealing'
  BY <1>d, <1>e, <1>f DEF TypeOK, Sealing, Settles, Kind
<1>5. Alone'
  BY <1>d, <1>e, <1>g DEF TypeOK, Alone, Busy
<1> QED BY <1>1, <1>2, <1>3, <1>4, <1>5

\* The band gets what the owner granted.
LEMMA CreateShareStep ==
  ASSUME NEW h \in Handler PROVE IInv /\ CreateShare(h) => IInv'
<1> SUFFICES ASSUME IInv, CreateShare(h) PROVE IInv'
  OBVIOUS
<1> USE DEF IInv, history
<1>a. /\ job' \in [Handler -> Job]
      /\ job'[h].at = "idle"
      /\ \A g \in Handler \ {h} : job'[g] = job[g]
  BY FinishType DEF CreateShare
<1>b. bandShare' \in Mode
  BY JobFields DEF TypeOK, CreateShare
<1>c. h \notin quiet
  BY DEF Alone, CreateShare
<1>1. TypeOK'
  BY <1>a, <1>b DEF TypeOK, CreateShare
<1>2. Granting'
  BY <1>a DEF TypeOK, Granting, Busy, CreateShare
<1>3. AcceptedTookEffect'
  BY DEF AcceptedTookEffect, CreateShare
<1>4. Sealing'
  BY <1>a DEF Sealing, Settles, CreateShare
<1>5. Alone'
  BY <1>a, <1>c DEF TypeOK, Alone, Busy, CreateShare
<1> QED BY <1>1, <1>2, <1>3, <1>4, <1>5

\* Ending the share of the band.
LEMMA RevokeBandStep == IInv /\ RevokeBand => IInv'
<1> SUFFICES ASSUME IInv, RevokeBand PROVE IInv'
  OBVIOUS
<1> USE DEF IInv, RevokeBand, history
<1>1. TypeOK'
  BY DEF TypeOK, Mode
<1>2. Granting'
  BY DEF Granting, Busy
<1>3. AcceptedTookEffect'
  BY DEF AcceptedTookEffect
<1>4. Sealing'
  BY DEF Sealing, Settles
<1>5. Alone'
  BY DEF Alone, Busy
<1> QED BY <1>1, <1>2, <1>3, <1>4, <1>5

\* A revocation deletes the share first, ...
LEMMA DeleteShareStep ==
  ASSUME NEW h \in Handler, NEW u \in User PROVE IInv /\ DeleteShare(h, u) => IInv'
<1> SUFFICES ASSUME IInv, DeleteShare(h, u) PROVE IInv'
  OBVIOUS
<1> USE DEF IInv
<1>a. /\ job[h].at = "idle"
      /\ job' \in [Handler -> Job]
      /\ job'[h].at = "revoking" /\ job'[h].kind = "share" /\ job'[h].user = u
      /\ \A g \in Handler \ {h} : job'[g] = job[g]
  <2>1. "share" \in Kind /\ "none" \in Mode /\ "declined" \in Reply /\ 0 \in 0..MaxOffers
    BY DEF Kind, Mode, Reply
  <2> QED BY <2>1, BeginType DEF DeleteShare
<1>b. h \notin quiet
  BY <1>a DEF Alone
<1>c. /\ userShare' \in [User -> Mode]
      /\ userShare'[u] = "none"
      /\ \A v \in User : userShare'[v] \in {userShare[v], "none"}
  BY DEF TypeOK, Mode, DeleteShare
<1>1. TypeOK'
  BY <1>a, <1>c DEF TypeOK, DeleteShare
<1>2. Granting'
  BY <1>a, <1>c DEF TypeOK, Granting, Busy, DeleteShare
<1>3. AcceptedTookEffect'
  BY DEF AcceptedTookEffect, DeleteShare
<1>4. Sealing'
  BY <1>a, <1>c DEF TypeOK, Sealing, Settles, DeleteShare
<1>5. Alone'
  <2> SUFFICES ASSUME NEW q \in quiet'
               PROVE  /\ job'[q].at = "revoking" /\ job'[q].kind = "share"
                      /\ userShare'[job'[q].user] = "none"
                      /\ \A g \in Handler : ~(/\ job'[g].at \in {"answering", "settling"}
                                              /\ job'[g].kind = "share"
                                              /\ job'[g].user = job'[q].user)
    BY DEF Alone, Busy
  <2>1. CASE q = h
    <3>1. ~Answering("share", u)
      BY <1>b, <2>1 DEF DeleteShare
    <3> QED BY <1>a, <1>c, <2>1, <3>1 DEF Answering
  <2>2. CASE q # h
    <3>1. q \in quiet /\ q \in Handler /\ job'[q] = job[q]
      BY <1>a, <2>2 DEF TypeOK, DeleteShare
    <3>2. job[q].at = "revoking" /\ job[q].user \in User
      BY <3>1 DEF TypeOK, Alone
    <3> QED BY <1>a, <1>c, <3>1, <3>2 DEF Alone, Busy
  <2> QED BY <2>1, <2>2
<1> QED BY <1>1, <1>2, <1>3, <1>4, <1>5

\* ... then the invitation, and seals if no answer was under way.
LEMMA DeleteOfferStep ==
  ASSUME NEW h \in Handler PROVE IInv /\ DeleteOffer(h) => IInv'
<1> SUFFICES ASSUME IInv, DeleteOffer(h) PROVE IInv'
  OBVIOUS
<1> USE DEF IInv
<1>a. PICK u \in User : u = job[h].user
  BY DEF TypeOK, DeleteOffer
<1>b. /\ job' \in [Handler -> Job]
      /\ job'[h].at = "idle"
      /\ \A g \in Handler \ {h} : job'[g] = job[g]
  BY FinishType DEF DeleteOffer
<1>c. /\ offer' \in [Kind -> [User -> Row]]
      /\ offer'["share"][u].st # "pending"
      /\ \A v \in User :
           /\ offer'["band"][v] = offer["band"][v]
           /\ offer'["share"][v] = offer["share"][v] \/ offer'["share"][v].mode = "none"
           /\ offer'["share"][v].st \in {offer["share"][v].st, "none"}
  <2>1. CASE offer["share"][u].st = "pending"
    <3>1. PICK i \in 0..MaxOffers : i = offer["share"][u].id
      BY RowFields DEF TypeOK, Kind
    <3>2. Put("share", u, "none", "none", i)
      BY <1>a, <2>1, <3>1 DEF DeleteOffer
    <3>3. "share" \in Kind /\ "band" \in Kind /\ "none" \in Mode
      BY DEF Kind, Mode
    <3> QED BY <3>2, <3>3, PutType
  <2>2. CASE offer["share"][u].st # "pending"
    BY <1>a, <2>2 DEF DeleteOffer, TypeOK
  <2> QED BY <2>1, <2>2
<1>d. /\ UNCHANGED <<thing, owner, member, userShare, bandShare, granted, agreed, held>>
      /\ quiet' = quiet \ {h}
      /\ sealed' = IF h \in quiet THEN sealed \cup {<<"share", u>>} ELSE sealed
  BY <1>a DEF DeleteOffer
<1>1. TypeOK'
  <2>1. sealed' \in SUBSET (Kind \X User)
    BY <1>d DEF TypeOK, Kind
  <2> QED BY <1>b, <1>c, <1>d, <2>1 DEF TypeOK
<1>2. Granting'
  BY <1>b, <1>c, <1>d DEF TypeOK, Granting, Busy
<1>3. AcceptedTookEffect'
  BY <1>c, <1>d DEF AcceptedTookEffect, Kind
<1>4. Sealing'
  <2>1. h \in quiet => userShare[u] = "none" /\ \A g \in Handler : ~Settles(g, "share", u)
    BY <1>a DEF Alone, Busy, Settles
  <2>2. \A g \in Handler, k \in Kind, v \in User : Settles(g, k, v)' => Settles(g, k, v)
    BY <1>b DEF Settles
  <2>3. ASSUME NEW v \in User, <<"band", v>> \in sealed'
        PROVE  /\ v # Manager
               /\ \/ member'[v] = "removed"
                  \/ /\ member'[v] = "none"
                     /\ offer'["band"][v].st = "revoked"
                     /\ \A g \in Handler : ~Settles(g, "band", v)'
    BY <1>c, <1>d, <2>2, <2>3 DEF Sealing, Kind
  <2>4. ASSUME NEW v \in User, <<"share", v>> \in sealed'
        PROVE  /\ userShare'[v] = "none"
               /\ offer'["share"][v].st # "pending"
               /\ \A g \in Handler : ~Settles(g, "share", v)'
    BY <1>c, <1>d, <2>1, <2>2, <2>4 DEF Sealing, Kind
  <2> QED BY <2>3, <2>4 DEF Sealing
<1>5. Alone'
  BY <1>b, <1>d DEF TypeOK, Alone, Busy
<1> QED BY <1>1, <1>2, <1>3, <1>4, <1>5

\* A delete that fails leaves everything else as it is.
LEMMA DeleteShareFailsStep ==
  ASSUME NEW h \in Handler, NEW u \in User PROVE IInv /\ DeleteShareFails(h, u) => IInv'
<1> SUFFICES ASSUME IInv, DeleteShareFails(h, u) PROVE IInv'
  OBVIOUS
<1>1. "none" \in Mode /\ "share" \in Kind /\ "declined" \in Reply /\ 0 \in 0..MaxOffers
  BY DEF Mode, Kind, Reply
<1>2. /\ job[h].at = "idle"
      /\ job' \in [Handler -> Job]
      /\ job'[h].at = "revoking" /\ job'[h].user = u
      /\ \A g \in Handler \ {h} : job'[g] = job[g]
  BY <1>1, BeginType DEF IInv, DeleteShareFails
<1>3. h \notin quiet
  BY <1>2 DEF IInv, Alone
<1> QED BY <1>2, <1>3, CallStep DEF DeleteShareFails

LEMMA DeleteOfferFailsStep ==
  ASSUME NEW h \in Handler PROVE IInv /\ DeleteOfferFails(h) => IInv'
<1> SUFFICES ASSUME IInv, DeleteOfferFails(h) PROVE IInv'
  OBVIOUS
<1> USE DEF IInv
<1>a. /\ job' \in [Handler -> Job]
      /\ job'[h].at = "idle"
      /\ \A g \in Handler \ {h} : job'[g] = job[g]
  BY FinishType DEF DeleteOfferFails
<1>b. /\ UNCHANGED <<thing, owner, member, offer, userShare, bandShare>>
      /\ UNCHANGED <<granted, agreed, held, sealed>>
      /\ quiet' = quiet \ {h}
  BY DEF DeleteOfferFails, serverVars
<1>1. TypeOK'
  BY <1>a, <1>b DEF TypeOK
<1>2. Granting'
  BY <1>a, <1>b DEF TypeOK, Granting, Busy
<1>3. AcceptedTookEffect'
  BY <1>b DEF AcceptedTookEffect
<1>4. Sealing'
  BY <1>a, <1>b DEF Sealing, Settles
<1>5. Alone'
  BY <1>a, <1>b DEF TypeOK, Alone, Busy
<1> QED BY <1>1, <1>2, <1>3, <1>4, <1>5

-----------------------------------------------------------------------------
(* Steps of answers *)

\* An answer comes, to an invitation of any age.
LEMMA AnswerStep ==
  ASSUME NEW h \in Handler, NEW k \in Kind, NEW u \in User, NEW i \in Id, NEW a \in Reply
  PROVE  IInv /\ Answer(h, k, u, i, a) => IInv'
<1> SUFFICES ASSUME IInv, Answer(h, k, u, i, a) PROVE IInv'
  OBVIOUS
<1> USE DEF IInv
<1>a. /\ job[h].at = "idle"
      /\ job' \in [Handler -> Job]
      /\ job'[h].at = "answering" /\ job'[h].kind = k /\ job'[h].user = u
      /\ job'[h].answer = a
      /\ \A g \in Handler \ {h} : job'[g] = job[g]
  <2>1. "none" \in Mode /\ i \in 0..MaxOffers
    BY DEF Mode, Id
  <2> QED BY <2>1, BeginType DEF Answer
<1>b. /\ UNCHANGED <<serverVars, granted, held, sealed>>
      /\ agreed' = IF a = "accepted" THEN agreed \cup {<<k, u>>} ELSE agreed
      /\ quiet' = {g \in quiet : <<job[g].kind, job[g].user>> # <<k, u>>}
  BY DEF Answer
<1>c. h \notin quiet
  BY <1>a DEF Alone
<1>1. TypeOK'
  <2>1. agreed' \in SUBSET (Kind \X User) /\ quiet' \in SUBSET Handler
    BY <1>b DEF TypeOK
  <2>2. \A g \in Handler : job'[g].at \notin {"idle", "sharing"} => job'[g].user \in User
    BY <1>a DEF TypeOK
  <2> QED BY <1>a, <1>b, <2>1, <2>2 DEF TypeOK, serverVars
<1>2. Granting'
  BY <1>a, <1>b DEF TypeOK, Granting, Busy, serverVars
<1>3. AcceptedTookEffect'
  BY <1>b DEF AcceptedTookEffect, serverVars
<1>4. Sealing'
  <2>1. \A g \in Handler, l \in Kind, v \in User : Settles(g, l, v)' => Settles(g, l, v)
    BY <1>a DEF Settles
  <2> QED BY <1>b, <2>1 DEF Sealing, serverVars, Kind
<1>5. Alone'
  <2> SUFFICES ASSUME NEW q \in quiet'
               PROVE  /\ job'[q].at = "revoking" /\ job'[q].kind = "share"
                      /\ userShare'[job'[q].user] = "none"
                      /\ \A g \in Handler : ~(/\ job'[g].at \in {"answering", "settling"}
                                              /\ job'[g].kind = "share"
                                              /\ job'[g].user = job'[q].user)
    BY DEF Alone, Busy
  <2>1. q \in quiet /\ q \in Handler /\ q # h
    BY <1>b, <1>c DEF TypeOK
  <2>2. job'[q] = job[q]
    BY <1>a, <2>1
  <2>3. <<job[q].kind, job[q].user>> # <<k, u>>
    BY <1>b
  <2> QED BY <1>a, <1>b, <2>1, <2>2, <2>3 DEF Alone, Busy, serverVars
<1> QED BY <1>1, <1>2, <1>3, <1>4, <1>5

\* Past its check the answer is to an invitation that is pending.
LEMMA ReadOfferStep ==
  ASSUME NEW h \in Handler PROVE IInv /\ ReadOffer(h) => IInv'
<1> SUFFICES ASSUME IInv, ReadOffer(h) PROVE IInv'
  OBVIOUS
<1> USE DEF IInv
<1>a. PICK k \in Kind, u \in User : k = job[h].kind /\ u = job[h].user
  BY JobFields DEF TypeOK, ReadOffer
<1>b. /\ job[h].at = "answering"
      /\ offer[k][u].st = "pending"
      /\ UNCHANGED <<serverVars, history>>
  BY <1>a DEF ReadOffer
<1>c. PICK j \in Job : j = Call("settling", k, u, offer[k][u].mode, job[h].id, job[h].answer)
  <2>1. offer[k][u] \in Row
    BY DEF TypeOK
  <2> QED BY <2>1, RowFields, JobFields, CallType DEF TypeOK
<1>d. /\ j.at = "settling" /\ j.kind = k /\ j.user = u /\ j.mode = offer[k][u].mode
      /\ j.answer = job[h].answer
  BY <1>c DEF Call
<1>e. /\ job' \in [Handler -> Job]
      /\ job'[h] = j
      /\ \A g \in Handler \ {h} : job'[g] = job[g]
  BY <1>a, <1>c DEF TypeOK, ReadOffer
<1>f. h \notin quiet
  BY <1>b DEF Alone
<1>1. TypeOK'
  BY <1>a, <1>b, <1>d, <1>e DEF TypeOK, serverVars, history
<1>2. Granting'
  BY <1>a, <1>b, <1>d, <1>e DEF TypeOK, Granting, Busy, serverVars, history
<1>3. AcceptedTookEffect'
  BY <1>b DEF AcceptedTookEffect, serverVars, history
<1>4. Sealing'
  <2>1. \A g \in Handler, l \in Kind, v \in User :
          Settles(g, l, v)' => Settles(g, l, v) \/ offer[l][v].st = "pending"
    BY <1>b, <1>d, <1>e DEF Settles
  <2> QED BY <1>b, <2>1 DEF Sealing, serverVars, history, Kind
<1>5. Alone'
  <2>1. \A q \in quiet : q \in Handler /\ job'[q] = job[q]
    BY <1>e, <1>f DEF TypeOK
  <2> QED BY <1>a, <1>b, <1>d, <1>e, <2>1 DEF Alone, Busy, serverVars, history
<1> QED BY <1>1, <1>2, <1>3, <1>4, <1>5

\* What the answers have in common: the call ends, the invitation is settled,
\* and of the tables only the user's own membership or share is written.
LEMMA SettlingStep ==
  ASSUME IInv, NEW h \in Handler, NEW k \in Kind, NEW u \in User,
         Settles(h, k, u), Settle(h), Finish(h),
         UNCHANGED <<thing, owner, bandShare, granted, agreed, quiet, sealed>>,
         member' \in [User -> {"none", "active", "removed"}],
         userShare' \in [User -> Mode],
         held' \in SUBSET (Kind \X User),
         held \subseteq held',
         job[h].answer = "accepted" => <<k, u>> \in held' /\ <<k, u>> \in agreed,
         \A v \in User : /\ member'[v] # member[v] =>
                              /\ v = u /\ k = "band" /\ member[v] = "none"
                              /\ job[h].answer = "accepted"
                         /\ userShare'[v] # userShare[v] =>
                              /\ v = u /\ k = "share" /\ userShare'[v] = job[h].mode
                              /\ job[h].answer = "accepted"
  PROVE  IInv'
<1> USE DEF IInv
<1>a. /\ job[h].at = "settling" /\ job[h].kind = k /\ job[h].user = u
  BY DEF Settles
<1>b. /\ job' \in [Handler -> Job]
      /\ job'[h].at = "idle"
      /\ \A g \in Handler \ {h} : job'[g] = job[g]
  BY FinishType
<1>c. /\ offer' \in [Kind -> [User -> Row]]
      /\ \A l \in Kind, v \in User :
           /\ offer'[l][v].mode = offer[l][v].mode
           /\ \/ offer'[l][v] = offer[l][v]
              \/ /\ l = k /\ v = u
                 /\ offer'[l][v].st = job[h].answer
                 /\ offer[l][v].st \notin {"none", "revoked"}
  BY <1>a, SettleType
<1>d. job[h].answer \in {"accepted", "declined"}
  BY JobFields DEF TypeOK, Reply
<1>e. h \notin quiet
  BY <1>a DEF Alone
<1>f. \A g \in Handler, l \in Kind, v \in User : Settles(g, l, v)' => Settles(g, l, v)
  BY <1>b DEF Settles
<1>1. TypeOK'
  BY <1>b, <1>c DEF TypeOK
<1>2. Granting'
  <2>1. \A v \in User \ {Manager} : member'[v] # "none" => <<"band", v>> \in agreed
    BY DEF Granting
  <2>2. ASSUME NEW v \in User
        PROVE  /\ userShare'[v] # "none" => <<"share", v>> \in agreed
               /\ userShare'[v] = "edit" => <<v, "edit">> \in granted
    BY <1>a DEF Granting
  <2>3. \A v \in User : offer'["share"][v].mode = "edit" => <<v, "edit">> \in granted
    BY <1>c DEF Granting, Kind
  <2>4. ASSUME NEW g \in Handler
        PROVE  /\ Busy(g)' /\ job'[g].answer = "accepted"
                    => <<job'[g].kind, job'[g].user>> \in agreed
               /\ job'[g].at = "settling" /\ job'[g].kind = "share" /\ job'[g].mode = "edit"
                    => <<job'[g].user, "edit">> \in granted
    BY <1>b DEF Granting, Busy
  <2> QED BY <2>1, <2>2, <2>3, <2>4 DEF Granting, Busy
<1>3. AcceptedTookEffect'
  BY <1>c, <1>d DEF AcceptedTookEffect
<1>4. Sealing'
  <2>1. ASSUME NEW v \in User, <<"band", v>> \in sealed
        PROVE  /\ v # Manager
               /\ \/ member'[v] = "removed"
                  \/ /\ member'[v] = "none"
                     /\ offer'["band"][v].st = "revoked"
                     /\ \A g \in Handler : ~Settles(g, "band", v)'
    <3>1. member'[v] = member[v]
      BY <2>1 DEF Sealing
    <3>2. offer["band"][v].st = "revoked" => offer'["band"][v].st = "revoked"
      BY <1>c DEF Kind
    <3> QED BY <1>f, <2>1, <3>1, <3>2 DEF Sealing, Kind
  <2>2. ASSUME NEW v \in User, <<"share", v>> \in sealed
        PROVE  /\ userShare'[v] = "none"
               /\ offer'["share"][v].st # "pending"
               /\ \A g \in Handler : ~Settles(g, "share", v)'
    <3>1. userShare'[v] = "none"
      BY <2>2 DEF Sealing
    <3>2. offer'["share"][v].st # "pending"
      BY <1>c, <1>d, <2>2 DEF Sealing, Kind
    <3> QED BY <1>f, <2>2, <3>1, <3>2 DEF Sealing, Kind
  <2> QED BY <2>1, <2>2 DEF Sealing
<1>5. Alone'
  <2>1. \A q \in quiet : q \in Handler /\ job'[q] = job[q]
    BY <1>b, <1>e DEF TypeOK
  <2>2. ASSUME NEW q \in quiet PROVE userShare'[job[q].user] = "none"
    <3>1. job[q].user \in User
      BY <2>1 DEF TypeOK, Alone
    <3>2. k = "share" => job[q].user # u
      BY <1>a DEF Alone, Busy
    <3> QED BY <3>1, <3>2 DEF Alone
  <2> QED BY <1>b, <2>1, <2>2 DEF Alone, Busy
<1> QED BY <1>1, <1>2, <1>3, <1>4, <1>5

\* A declined invitation opens nothing, ...
LEMMA DeclineStep ==
  ASSUME NEW h \in Handler PROVE IInv /\ Decline(h) => IInv'
<1> SUFFICES ASSUME IInv, Decline(h) PROVE IInv'
  OBVIOUS
<1>1. PICK k \in Kind, u \in User : Settles(h, k, u)
  BY JobFields DEF IInv, TypeOK, Decline, Settles
<1> QED BY <1>1, SettlingStep DEF IInv, TypeOK, Decline, history

\* ... an accepted one makes a member, ...
LEMMA JoinBandStep ==
  ASSUME NEW h \in Handler PROVE IInv /\ JoinBand(h) => IInv'
<1> SUFFICES ASSUME IInv, JoinBand(h) PROVE IInv'
  OBVIOUS
<1>1. PICK u \in User : u = job[h].user
  BY DEF IInv, TypeOK, JoinBand
<1>2. /\ Settles(h, "band", u)
      /\ "band" \in Kind
      /\ <<"band", u>> \in agreed
  BY <1>1 DEF IInv, Granting, Busy, JoinBand, Settles, Kind
<1>3. /\ member' \in [User -> {"none", "active", "removed"}]
      /\ \A v \in User : member'[v] # member[v] => v = u /\ member[v] = "none"
  BY <1>1 DEF IInv, TypeOK, JoinBand
<1>4. held' \in SUBSET (Kind \X User) /\ held \subseteq held' /\ <<"band", u>> \in held'
  BY <1>1, <1>2 DEF IInv, TypeOK, JoinBand
<1> QED BY <1>2, <1>3, <1>4, SettlingStep DEF IInv, TypeOK, JoinBand

\* ... or a share of the granted mode.
LEMMA AcceptShareStep ==
  ASSUME NEW h \in Handler PROVE IInv /\ AcceptShare(h) => IInv'
<1> SUFFICES ASSUME IInv, AcceptShare(h) PROVE IInv'
  OBVIOUS
<1>1. PICK u \in User : u = job[h].user
  BY DEF IInv, TypeOK, AcceptShare
<1>2. /\ Settles(h, "share", u)
      /\ "share" \in Kind
      /\ <<"share", u>> \in agreed
  BY <1>1 DEF IInv, Granting, Busy, AcceptShare, Settles, Kind
<1>3. /\ userShare' \in [User -> Mode]
      /\ \A v \in User : userShare'[v] # userShare[v] => v = u /\ userShare'[v] = job[h].mode
  BY <1>1, JobFields DEF IInv, TypeOK, AcceptShare
<1>4. held' \in SUBSET (Kind \X User) /\ held \subseteq held' /\ <<"share", u>> \in held'
  BY <1>1, <1>2 DEF IInv, TypeOK, AcceptShare
<1> QED BY <1>2, <1>3, <1>4, SettlingStep DEF IInv, TypeOK, AcceptShare

-----------------------------------------------------------------------------
(* The theorems *)

\* The invariant holds at first ...
LEMMA InitInvariant == Init => IInv
<1> SUFFICES ASSUME Init PROVE IInv
  OBVIOUS
<1>1. TypeOK
  BY InitTyped
<1>2. \A k \in Kind, u \in User : offer[k][u].st = "none" /\ offer[k][u].mode = "none"
  BY DEF Init, Invitation
<1>3. Granting
  BY <1>2, IdleType DEF Init, Granting, Busy, Kind
<1>4. AcceptedTookEffect
  BY <1>2 DEF AcceptedTookEffect
<1>5. Sealing /\ Alone
  BY DEF Init, Sealing, Alone
<1> QED BY <1>1, <1>3, <1>4, <1>5 DEF IInv

\* ... and is kept by every step.
LEMMA NextInvariant == IInv /\ [Next]_vars => IInv'
<1> SUFFICES ASSUME IInv, [Next]_vars PROVE IInv'
  OBVIOUS
<1>1. CASE Next
  BY <1>1, CreateBandStep, RevokeBandStep, InviteMemberStep, RevokeInvitationStep,
     RemoveMemberStep, CheckOfferStep, DeleteShareStep, CreateOfferStep, CheckShareStep,
     CreateShareStep, DeleteOfferStep, DeleteShareFailsStep, DeleteOfferFailsStep,
     ReadOfferStep, DeclineStep, JoinBandStep,
     AcceptShareStep, HandlerFailsStep, AnswerStep
  DEF Next
<1>2. CASE UNCHANGED vars
  BY <1>2 DEF vars, serverVars, history, IInv, TypeOK, Granting, Busy, AcceptedTookEffect,
     Sealing, Settles, Alone
<1> QED BY <1>1, <1>2

\* The inductive invariant holds in every reachable state of the server.
THEOREM Invariance == Spec => []IInv
BY InitInvariant, NextInvariant, PTL DEF Spec

\* Every table, call and history variable keeps its type.
THEOREM TypeCorrect == Spec => []TypeOK
<1>1. IInv => TypeOK
  BY DEF IInv
<1> QED BY <1>1, Invariance, PTL

\* Access comes from invitations that were sent and accepted, whatever the
\* handlers' interleaving (ListMyConcerts, ListMyScores, UpdateConcert).
THEOREM AccessIsGranted == Spec => []AccessWasGranted
<1>1. IInv => AccessWasGranted
  <2> SUFFICES ASSUME IInv, NEW u \in User, u # owner
               PROVE  /\ Sees(u) => \/ <<"share", u>> \in agreed
                                    \/ /\ bandShare # "none"
                                       /\ u = Manager \/ <<"band", u>> \in agreed
                      /\ MayEdit(u) => <<u, "edit">> \in granted \/ bandShare = "edit"
    BY DEF AccessWasGranted
  <2>1. CountsAsMember(u) => u = Manager \/ <<"band", u>> \in agreed
    BY DEF IInv, Granting, CountsAsMember, IsMember
  <2> QED BY <2>1 DEF IInv, Granting, Sees, MayEdit
<1> QED BY <1>1, Invariance, PTL

\* An accepted invitation has had its effect (the Respond transactions).
THEOREM AcceptedIsEffective == Spec => []AcceptedTookEffect
<1>1. IInv => AcceptedTookEffect
  BY DEF IInv
<1> QED BY <1>1, Invariance, PTL

\* A revocation that met no answer is final (RevokeConcertAccess,
\* RevokeScoreAccess, RemoveMember).
THEOREM RevocationFinal == Spec => []RevocationIsFinal
<1>1. IInv => RevocationIsFinal
  BY DEF IInv, Sealing, RevocationIsFinal, IsMember
<1> QED BY <1>1, Invariance, PTL

\* No step makes a removed member a member again: CreateBand needs a manager
\* who never was one, JoinBand a user without a row.
THEOREM RemovedForGood == Spec => RemovedStaysOut
<1>1. IInv /\ [Next]_vars =>
        [\A u \in User : member[u] = "removed" => member'[u] = "removed"]_vars
  <2> SUFFICES ASSUME IInv, [Next]_vars, NEW u \in User, member[u] = "removed"
               PROVE  member'[u] = "removed"
    OBVIOUS
  <2>1. CASE UNCHANGED member
    BY <2>1
  <2>2. CASE CreateBand
    BY <2>2 DEF CreateBand, IInv, TypeOK
  <2>3. CASE \E v \in User : RemoveMember(v)
    BY <2>3 DEF RemoveMember, IInv, TypeOK
  <2>4. CASE \E h \in Handler : JoinBand(h)
    BY <2>4 DEF JoinBand, IInv, TypeOK
  <2> QED
    BY <2>1, <2>2, <2>3, <2>4
    DEF Next, vars, serverVars, RevokeBand, InviteMember, RevokeInvitation, CheckOffer,
        DeleteShare, DeleteShareFails, CreateOffer, CheckShare, CreateShare, DeleteOffer,
        DeleteOfferFails, ReadOffer, Decline, AcceptShare, HandlerFails, Answer
<1> QED BY <1>1, Invariance, PTL DEF Spec, RemovedStaysOut
=============================================================================
