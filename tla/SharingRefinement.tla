------------------------- MODULE SharingRefinement -------------------------
(***************************************************************************)
(* Sharing implements Consent, for any number of users, handlers and       *)
(* offers.  Beyond the invariant of SharingProofs the proof needs to know  *)
(* that the right an invitation or a call carries is one that was offered. *)
(***************************************************************************)
EXTENDS SharingProofs

USE SharingAssumption

Members == {u \in User : IsMember(u)}

\* m is a right, and the owner has offered it to u.
Offered(u, m) == m \in {"view", "edit"} /\ <<u, m>> \in granted

\* Every invitation to the thing, and every call that is about to accept one,
\* carries an offered right; a call that offers one does so to somebody else.
Offering ==
  /\ \A u \in User : offer["share"][u].st # "none" => Offered(u, offer["share"][u].mode)
  /\ \A h \in Handler :
       /\ job[h].at \in {"offering", "sharing"} => job[h].mode \in {"view", "edit"}
       /\ job[h].at = "offering" => job[h].user # owner
       /\ job[h].at = "settling" /\ job[h].kind = "share" => Offered(job[h].user, job[h].mode)

-----------------------------------------------------------------------------
(* Offering is invariant *)

\* A step that opens no call of these kinds and no invitation.
LEMMA OfferingFrame ==
  ASSUME Offering, granted \subseteq granted', owner' = owner,
         \A g \in Handler : job'[g] = job[g] \/ job'[g].at \in {"idle", "answering", "revoking"},
         \A v \in User : \/ offer'["share"][v].st = "none"
                         \/ /\ offer'["share"][v].mode = offer["share"][v].mode
                            /\ offer["share"][v].st # "none"
  PROVE  Offering'
<1>1. ASSUME NEW v \in User, offer'["share"][v].st # "none"
      PROVE  Offered(v, offer["share"][v].mode)' /\ offer'["share"][v].mode = offer["share"][v].mode
  BY <1>1 DEF Offering, Offered
<1>2. ASSUME NEW g \in Handler
      PROVE  /\ job'[g].at \in {"offering", "sharing"} => job'[g].mode \in {"view", "edit"}
             /\ job'[g].at = "offering" => job'[g].user # owner'
             /\ job'[g].at = "settling" /\ job'[g].kind = "share"
                  => Offered(job[g].user, job[g].mode)' /\ job'[g] = job[g]
  BY DEF Offering, Offered
<1> QED BY <1>1, <1>2 DEF Offering, Offered

\* The end of a call opens none.
LEMMA FinishFrame ==
  ASSUME IInv, NEW h \in Handler, Finish(h)
  PROVE  \A g \in Handler : job'[g] = job[g] \/ job'[g].at \in {"idle", "answering", "revoking"}
BY FinishType DEF IInv

\* A settled invitation keeps its right.
LEMMA SettleFrame ==
  ASSUME IInv, NEW h \in Handler, job[h].at = "settling", Settle(h)
  PROVE  \A v \in User : /\ offer'["share"][v].mode = offer["share"][v].mode
                         /\ offer["share"][v].st = "none" => offer'["share"][v].st = "none"
<1>1. "share" \in Kind
  BY DEF Kind
<1> QED BY <1>1, SettleType DEF IInv

\* Steps that end a call, or touch no call.
LEMMA OfferingCalm ==
  ASSUME IInv, Offering,
         \/ CreateBand \/ RevokeBand
         \/ \E u \in User : InviteMember(u) \/ RevokeInvitation(u) \/ RemoveMember(u)
         \/ \E h \in Handler : CreateShare(h) \/ HandlerFails(h) \/ DeleteOfferFails(h)
  PROVE  Offering'
<1>1. CASE CreateBand \/ RevokeBand \/ \E u \in User : RemoveMember(u)
  BY <1>1 DEF CreateBand, RevokeBand, RemoveMember, history, Offering, Offered
<1>2. CASE \E u \in User : InviteMember(u) \/ RevokeInvitation(u)
  <2>1. PICK u \in User : InviteMember(u) \/ RevokeInvitation(u)
    BY <1>2
  <2>2. \A v \in User : offer'["share"][v] = offer["share"][v]
    BY <2>1 DEF InviteMember, RevokeInvitation, SetStatus, Put, IInv, TypeOK, Kind
  <2>3. UNCHANGED <<owner, granted, job>>
    BY <2>1 DEF InviteMember, RevokeInvitation, history
  <2> QED BY <2>2, <2>3 DEF Offering, Offered
<1>3. CASE \E h \in Handler : CreateShare(h) \/ HandlerFails(h) \/ DeleteOfferFails(h)
  <2>1. PICK h \in Handler : CreateShare(h) \/ HandlerFails(h) \/ DeleteOfferFails(h)
    BY <1>3
  <2>2. Finish(h) /\ UNCHANGED <<owner, offer, granted>>
    BY <2>1 DEF CreateShare, HandlerFails, DeleteOfferFails, serverVars, history
  <2>3. \A v \in User : \/ offer'["share"][v].st = "none"
                        \/ /\ offer'["share"][v].mode = offer["share"][v].mode
                           /\ offer["share"][v].st # "none"
    BY <2>2
  <2> QED BY <2>2, <2>3, FinishFrame, OfferingFrame
<1> QED BY <1>1, <1>2, <1>3

\* Offering is kept by the last step of an answer, ...
LEMMA OfferingSettle ==
  ASSUME IInv, Offering, NEW h \in Handler, Decline(h) \/ JoinBand(h) \/ AcceptShare(h)
  PROVE  Offering'
<1>1. job[h].at = "settling" /\ Settle(h) /\ Finish(h) /\ UNCHANGED <<owner, granted>>
  BY DEF Decline, JoinBand, AcceptShare, history
<1>2. \A v \in User : \/ offer'["share"][v].st = "none"
                      \/ /\ offer'["share"][v].mode = offer["share"][v].mode
                         /\ offer["share"][v].st # "none"
  BY <1>1, SettleFrame
<1> QED BY <1>1, <1>2, FinishFrame, OfferingFrame

\* ... of a revocation, ...
LEMMA OfferingDelete ==
  ASSUME IInv, Offering, NEW h \in Handler, DeleteOffer(h)
  PROVE  Offering'
<1>a. PICK u \in User : u = job[h].user
  BY DEF IInv, TypeOK, DeleteOffer
<1>1. Finish(h) /\ UNCHANGED <<owner, granted>>
  BY DEF DeleteOffer
<1>2. \A v \in User : \/ offer'["share"][v].st = "none"
                      \/ /\ offer'["share"][v].mode = offer["share"][v].mode
                         /\ offer["share"][v].st # "none"
  <2>1. CASE offer["share"][u].st = "pending"
    <3>1. PICK i \in 0..MaxOffers : i = offer["share"][u].id
      BY RowFields DEF IInv, TypeOK, Kind
    <3>2. Put("share", u, "none", "none", i)
      BY <1>a, <2>1, <3>1 DEF DeleteOffer
    <3>3. "share" \in Kind /\ "none" \in Mode /\ TypeOK
      BY DEF Kind, Mode, IInv
    <3>4. /\ offer'["share"][u].st = "none"
          /\ \A l \in Kind, v \in User : l # "share" \/ v # u => offer'[l][v] = offer[l][v]
      BY <3>2, <3>3, PutType
    <3> QED BY <3>3, <3>4
  <2>2. CASE offer["share"][u].st # "pending"
    BY <1>a, <2>2 DEF DeleteOffer
  <2> QED BY <2>1, <2>2
<1> QED BY <1>1, <1>2, FinishFrame, OfferingFrame

\* ... by a revocation or an answer that begins, ...
LEMMA OfferingBegin ==
  ASSUME IInv, Offering, NEW h \in Handler, NEW k \in Kind, NEW u \in User,
         NEW i \in Id, NEW a \in Reply,
         DeleteShare(h, u) \/ DeleteShareFails(h, u) \/ Answer(h, k, u, i, a)
  PROVE  Offering'
<1>1. /\ job' \in [Handler -> Job]
      /\ job'[h].at \in {"answering", "revoking"}
      /\ \A g \in Handler \ {h} : job'[g] = job[g]
  <2>0. /\ "none" \in Mode /\ i \in 0..MaxOffers /\ 0 \in 0..MaxOffers
        /\ "share" \in Kind /\ "declined" \in Reply
    BY DEF Mode, Id, Kind, Reply
  <2>1. CASE Begin(h, Call("revoking", "share", u, "none", 0, "declined"))
    BY <2>0, <2>1, BeginType DEF IInv
  <2>2. CASE Begin(h, Call("answering", k, u, "none", i, a))
    BY <2>0, <2>2, BeginType DEF IInv
  <2> QED BY <2>1, <2>2 DEF DeleteShare, DeleteShareFails, Answer
<1>2. UNCHANGED <<owner, offer, granted>>
  BY DEF DeleteShare, DeleteShareFails, Answer, serverVars, history
<1>3. \A v \in User : \/ offer'["share"][v].st = "none"
                      \/ /\ offer'["share"][v].mode = offer["share"][v].mode
                         /\ offer["share"][v].st # "none"
  BY <1>2
<1> QED BY <1>1, <1>2, <1>3, OfferingFrame

\* ... by a check, which knows a right from the request, ...
LEMMA OfferingOpen ==
  ASSUME IInv, Offering, NEW h \in Handler,
         \/ CheckShare(h)
         \/ \E u \in User : CheckOffer(h, u)
  PROVE  Offering'
<1>1. PICK at \in {"offering", "sharing"}, u \in User \cup {Nobody}, mode \in Modes :
        /\ Begin(h, Call(at, "share", u, mode, 0, "declined"))
        /\ at = "offering" => u # owner
  BY DEF CheckShare, CheckOffer
<1>2. mode \in Mode /\ "share" \in Kind /\ "declined" \in Reply /\ 0 \in 0..MaxOffers
  BY DEF Modes, Mode, Kind, Reply
<1>3. mode \in {"view", "edit"}
  BY DEF Modes
<1>4. /\ job' \in [Handler -> Job]
      /\ job'[h].at = at /\ job'[h].user = u /\ job'[h].mode = mode
      /\ \A g \in Handler \ {h} : job'[g] = job[g]
  BY <1>1, <1>2, BeginType DEF IInv
<1>5. UNCHANGED <<owner, offer, granted>>
  BY DEF CheckShare, CheckOffer, serverVars, history
<1>6. ASSUME NEW g \in Handler
      PROVE  /\ job'[g].at \in {"offering", "sharing"} => job'[g].mode \in {"view", "edit"}
             /\ job'[g].at = "offering" => job'[g].user # owner
             /\ job'[g].at = "settling" /\ job'[g].kind = "share"
                  => Offered(job'[g].user, job'[g].mode)
  BY <1>1, <1>3, <1>4 DEF Offering
<1> QED BY <1>5, <1>6 DEF Offering, Offered

\* ... by an invitation written from such a call, ...
LEMMA OfferingCreate ==
  ASSUME IInv, Offering, NEW h \in Handler, CreateOffer(h)
  PROVE  Offering'
<1>a. PICK u \in User : u = job[h].user
  BY DEF IInv, TypeOK, CreateOffer
<1>b. PICK mode \in Mode : mode = job[h].mode
  BY JobFields DEF IInv, TypeOK
<1>c. PICK n \in Id : Put("share", u, "pending", mode, n)
  BY <1>a, <1>b DEF CreateOffer
<1>d. /\ job[h].at = "offering"
      /\ granted' = granted \cup {<<u, mode>>}
      /\ owner' = owner
      /\ Finish(h)
  BY <1>a, <1>b DEF CreateOffer
<1>e. mode \in {"view", "edit"}
  BY <1>b, <1>d DEF Offering
<1>f. /\ offer'["share"][u].mode = mode
      /\ \A l \in Kind, v \in User : l # "share" \/ v # u => offer'[l][v] = offer[l][v]
  <2>1. "share" \in Kind /\ n \in 0..MaxOffers /\ TypeOK
    BY DEF Kind, Id, IInv
  <2> QED BY <1>c, <2>1, PutType
<1>1. ASSUME NEW v \in User, offer'["share"][v].st # "none"
      PROVE  Offered(v, offer["share"][v].mode)'
  <2>1. CASE v = u
    BY <1>d, <1>e, <1>f, <2>1 DEF Offered
  <2>2. CASE v # u
    <3>1. offer'["share"][v] = offer["share"][v]
      BY <1>f, <2>2 DEF Kind
    <3> QED BY <1>1, <1>d, <3>1 DEF Offering, Offered
  <2> QED BY <2>1, <2>2
<1>2. ASSUME NEW g \in Handler
      PROVE  /\ job'[g].at \in {"offering", "sharing"} => job'[g].mode \in {"view", "edit"}
             /\ job'[g].at = "offering" => job'[g].user # owner
             /\ job'[g].at = "settling" /\ job'[g].kind = "share"
                  => Offered(job[g].user, job[g].mode)'
  BY <1>d, FinishFrame DEF Offering, Offered
<1> QED BY <1>1, <1>2, <1>d DEF Offering

\* ... and by an answer that reads one.
LEMMA OfferingRead ==
  ASSUME IInv, Offering, NEW h \in Handler, ReadOffer(h)
  PROVE  Offering'
<1>a. PICK k \in Kind, u \in User : k = job[h].kind /\ u = job[h].user
  BY JobFields DEF IInv, TypeOK, ReadOffer
<1>b. /\ offer[k][u].st = "pending"
      /\ UNCHANGED <<owner, offer, granted>>
  BY <1>a DEF ReadOffer, serverVars, history
<1>c. PICK j : /\ j = Call("settling", k, u, offer[k][u].mode, job[h].id, job[h].answer)
               /\ job' = [job EXCEPT ![h] = j]
  BY <1>a DEF ReadOffer
<1>d. j.at = "settling" /\ j.kind = k /\ j.user = u /\ j.mode = offer[k][u].mode
  BY <1>c DEF Call
<1>e. job'[h] = j /\ \A g \in Handler \ {h} : job'[g] = job[g]
  BY <1>c DEF IInv, TypeOK
<1>f. k = "share" => Offered(u, offer[k][u].mode)
  BY <1>b DEF Offering
<1>g. ASSUME NEW g \in Handler
      PROVE  /\ job'[g].at \in {"offering", "sharing"} => job'[g].mode \in {"view", "edit"}
             /\ job'[g].at = "offering" => job'[g].user # owner
             /\ job'[g].at = "settling" /\ job'[g].kind = "share"
                  => Offered(job'[g].user, job'[g].mode)
  BY <1>d, <1>e, <1>f DEF Offering
<1> QED BY <1>b, <1>g DEF Offering, Offered

\* Hence it is invariant.
LEMMA OfferingInvariant == Spec => []Offering
<1>1. Init => Offering
  <2> SUFFICES ASSUME Init PROVE Offering
    OBVIOUS
  <2>1. \A u \in User : offer["share"][u].st = "none"
    BY DEF Init, Invitation, Kind
  <2>2. \A h \in Handler : job[h].at = "idle"
    BY IdleType DEF Init
  <2> QED BY <2>1, <2>2 DEF Offering
<1>2. IInv /\ Offering /\ [Next]_vars => Offering'
  <2> SUFFICES ASSUME IInv, Offering, [Next]_vars PROVE Offering'
    OBVIOUS
  <2>1. CASE \E h \in Handler, u \in User : DeleteShare(h, u) \/ DeleteShareFails(h, u)
    <3>1. 1 \in Id /\ "band" \in Kind /\ "declined" \in Reply
      BY DEF Id, Kind, Reply
    <3> QED BY <2>1, <3>1, OfferingBegin
  <2>2. CASE \E h \in Handler, k \in Kind, u \in User, i \in Id, answer \in Reply :
               Answer(h, k, u, i, answer)
    BY <2>2, OfferingBegin
  <2>3. CASE \/ CreateBand \/ RevokeBand
             \/ \E u \in User : InviteMember(u) \/ RevokeInvitation(u) \/ RemoveMember(u)
             \/ \E h \in Handler : CreateShare(h) \/ HandlerFails(h) \/ DeleteOfferFails(h)
    BY <2>3, OfferingCalm
  <2>4. CASE \E h \in Handler : CheckShare(h) \/ \E u \in User : CheckOffer(h, u)
    BY <2>4, OfferingOpen
  <2>5. CASE \E h \in Handler :
               \/ CreateOffer(h) \/ DeleteOffer(h) \/ ReadOffer(h)
               \/ Decline(h) \/ JoinBand(h) \/ AcceptShare(h)
    BY <2>5, OfferingSettle, OfferingDelete, OfferingCreate, OfferingRead
  <2>6. CASE UNCHANGED vars
    BY <2>6 DEF vars, serverVars, history, Offering, Offered
  <2> QED BY <2>1, <2>2, <2>3, <2>4, <2>5, <2>6 DEF Next
<1> QED BY <1>1, <1>2, Invariance, PTL DEF Spec

-----------------------------------------------------------------------------
(* Every step of Sharing is a step of Consent, or none *)

\* What changes none of these is a stutter of Consent.
LEMMA Stutter ==
  ASSUME UNCHANGED <<owner, granted, agreed, userShare, member, bandShare, sealed>>
  PROVE  UNCHANGED Promise!vars
BY DEF Promise!vars, IsMember

\* Calls that begin, read or fail, and invitations that are sent or declined.
LEMMA SilentSteps ==
  ASSUME \/ \E u \in User : InviteMember(u)
         \/ \E h \in Handler, u \in User : CheckOffer(h, u) \/ DeleteShareFails(h, u)
         \/ \E h \in Handler : \/ CheckShare(h) \/ ReadOffer(h) \/ Decline(h)
                               \/ HandlerFails(h) \/ DeleteOfferFails(h)
  PROVE  UNCHANGED Promise!vars
BY Stutter DEF InviteMember, CheckOffer, CheckShare, ReadOffer, Decline, HandlerFails,
   DeleteShareFails, DeleteOfferFails,
   serverVars, history

\* The band.
LEMMA BandSteps ==
  ASSUME IInv, NEW u \in User, CreateBand \/ RemoveMember(u) \/ RevokeInvitation(u)
  PROVE  Promise!Next \/ UNCHANGED Promise!vars
<1> USE DEF IInv
<1>1. CASE CreateBand
  <2>1. <<"band", Manager>> \notin sealed
    BY DEF Sealing
  <2>2. Members' = Members \cup {Manager}
    BY <1>1 DEF CreateBand, TypeOK, Members, IsMember
  <2>3. Promise!Join(Manager)
    BY <1>1, <2>1, <2>2 DEF CreateBand, Promise!Join, Members, history
  <2> QED BY <2>3 DEF Promise!Next
<1>2. CASE RemoveMember(u)
  <2>1. Members' = Members \ {u}
    BY <1>2 DEF RemoveMember, TypeOK, Members, IsMember
  <2>2. Promise!Leave(u)
    BY <1>2, <2>1 DEF RemoveMember, Promise!Leave, Members
  <2> QED BY <2>2 DEF Promise!Next
<1>3. CASE RevokeInvitation(u)
  <2>1. UNCHANGED <<owner, granted, agreed, userShare, member, bandShare>>
    BY <1>3 DEF RevokeInvitation
  <2>2. CASE sealed' = sealed
    BY <2>1, <2>2, Stutter
  <2>3. CASE ~IsMember(u) /\ sealed' = sealed \cup {<<"band", u>>}
    <3>1. Promise!Close("band", u)
      BY <2>1, <2>3 DEF Promise!Close, IsMember
    <3> QED BY <3>1 DEF Promise!Next, Promise!Way
  <2> QED BY <1>3, <2>2, <2>3 DEF RevokeInvitation
<1> QED BY <1>1, <1>2, <1>3

\* Offers, shares and their revocation.
LEMMA OfferSteps ==
  ASSUME IInv, Offering, NEW h \in Handler, CreateOffer(h)
  PROVE  Promise!Next
<1>1. PICK u \in User : u = job[h].user
  BY DEF IInv, TypeOK, CreateOffer
<1>2. PICK right \in {"view", "edit"} : right = job[h].mode
  BY DEF Offering, CreateOffer
<1>3. u # owner
  BY <1>1 DEF Offering, CreateOffer
<1>4. Promise!Offer(u, right)
  BY <1>1, <1>2, <1>3 DEF CreateOffer, Promise!Offer, IsMember
<1> QED BY <1>4 DEF Promise!Next, Promise!Right

\* The share of the band begins and ends as promised.
LEMMA ShareSteps ==
  ASSUME IInv, Offering, NEW h \in Handler, CreateShare(h) \/ RevokeBand
  PROVE  Promise!Next
<1>1. CASE CreateShare(h)
  <2>1. PICK right \in {"view", "edit"} : right = job[h].mode
    BY <1>1 DEF Offering, CreateShare
  <2>2. Promise!ShareWithBand(right)
    BY <1>1, <2>1 DEF CreateShare, history, Promise!ShareWithBand, IsMember
  <2> QED BY <2>2 DEF Promise!Next, Promise!Right
<1>2. CASE RevokeBand
  <2>1. Promise!EndBandShare
    BY <1>2 DEF RevokeBand, history, Promise!EndBandShare, IsMember
  <2> QED BY <2>1 DEF Promise!Next
<1> QED BY <1>1, <1>2

\* A revocation ends a share, then closes the way to it.
LEMMA RevokeSteps ==
  ASSUME IInv, NEW h \in Handler, NEW u \in User, DeleteShare(h, u) \/ DeleteOffer(h)
  PROVE  Promise!Next \/ UNCHANGED Promise!vars
<1>1. CASE DeleteShare(h, u)
  <2>1. Promise!EndShare(u)
    BY <1>1 DEF DeleteShare, Promise!EndShare, IsMember
  <2> QED BY <2>1 DEF Promise!Next
<1>2. CASE DeleteOffer(h)
  <2>1. UNCHANGED <<owner, granted, agreed, userShare, member, bandShare>>
    BY <1>2 DEF DeleteOffer
  <2>2. PICK v \in User : v = job[h].user
    BY <1>2 DEF IInv, TypeOK, DeleteOffer
  <2>3. CASE h \in quiet
    <3>1. userShare[v] = "none" /\ sealed' = sealed \cup {<<"share", v>>}
      BY <1>2, <2>2, <2>3 DEF IInv, Alone, DeleteOffer
    <3>2. Promise!Close("share", v)
      BY <2>1, <3>1 DEF Promise!Close, IsMember
    <3> QED BY <3>2 DEF Promise!Next, Promise!Way
  <2>4. CASE h \notin quiet
    <3>1. sealed' = sealed
      BY <1>2, <2>4 DEF DeleteOffer
    <3> QED BY <2>1, <3>1, Stutter
  <2> QED BY <2>3, <2>4
<1> QED BY <1>1, <1>2

\* Answers.
LEMMA AnswerSteps ==
  ASSUME IInv, NEW h \in Handler, NEW k \in Kind, NEW u \in User, NEW i \in Id,
         NEW a \in Reply, Answer(h, k, u, i, a)
  PROVE  Promise!Next \/ UNCHANGED Promise!vars
<1>1. UNCHANGED <<owner, granted, userShare, member, bandShare, sealed>>
  BY DEF Answer, serverVars
<1>2. CASE agreed' = agreed
  BY <1>1, <1>2, Stutter
<1>3. CASE agreed' = agreed \cup {<<k, u>>}
  <2>1. Promise!Agree(k, u)
    BY <1>1, <1>3 DEF Promise!Agree, IsMember
  <2> QED BY <2>1 DEF Promise!Next, Promise!Way, Kind
<1> QED BY <1>2, <1>3 DEF Answer

\* Who joins has agreed, or made the band.
LEMMA JoinSteps ==
  ASSUME IInv, NEW h \in Handler, JoinBand(h)
  PROVE  Promise!Next
<1> USE DEF IInv
<1>1. PICK u \in User : u = job[h].user
  BY DEF TypeOK, JoinBand
<1>2. <<"band", u>> \in agreed
  BY <1>1 DEF Granting, Busy, JoinBand
<1>3. <<"band", u>> \notin sealed
  BY <1>1 DEF Sealing, Settles, JoinBand
<1>4. Members' = Members \cup {u}
  BY <1>1 DEF JoinBand, TypeOK, Members, IsMember
<1>5. Promise!Join(u)
  BY <1>1, <1>2, <1>3, <1>4 DEF JoinBand, Promise!Join, Members
<1> QED BY <1>5 DEF Promise!Next

\* Who gets a share was offered it and has agreed.
LEMMA EnterSteps ==
  ASSUME IInv, Offering, NEW h \in Handler, AcceptShare(h)
  PROVE  Promise!Next \/ UNCHANGED Promise!vars
<1> USE DEF IInv
<1>1. PICK u \in User : u = job[h].user
  BY DEF TypeOK, AcceptShare
<1>2. UNCHANGED <<owner, granted, agreed, member, bandShare, sealed>>
  BY DEF AcceptShare
<1>3. PICK right \in {"view", "edit"} : right = job[h].mode /\ <<u, right>> \in granted
  BY <1>1 DEF Offering, Offered, AcceptShare
<1>4. <<"share", u>> \in agreed \ sealed
  BY <1>1 DEF Granting, Busy, Sealing, Settles, AcceptShare
<1>5. CASE userShare[u] = "none"
  <2>1. userShare' = [userShare EXCEPT ![u] = right]
    BY <1>1, <1>3, <1>5 DEF AcceptShare
  <2>2. Promise!Enter(u, right)
    BY <1>2, <1>3, <1>4, <1>5, <2>1 DEF Promise!Enter, IsMember
  <2> QED BY <2>2 DEF Promise!Next, Promise!Right
<1>6. CASE userShare[u] # "none"
  <2>1. userShare' = userShare
    BY <1>1, <1>6 DEF AcceptShare, TypeOK
  <2> QED BY <1>2, <2>1, Stutter
<1> QED BY <1>5, <1>6

-----------------------------------------------------------------------------

\* The services implement Consent (BandService, and the sharing halves of
\* ConcertService and ScoreService): initial states correspond, and every step
\* of a handler is a step of Consent or leaves what it speaks of alone.
THEOREM Refinement == Spec => KeepsConsent
<1>1. Init => Promise!Init
  <2> SUFFICES ASSUME Init PROVE Promise!Init
    OBVIOUS
  <2>1. {u \in User : IsMember(u)} = {}
    BY DEF Init, IsMember
  <2> QED BY <2>1 DEF Init, Promise!Init
<1>2. IInv /\ Offering /\ [Next]_vars => [Promise!Next]_(Promise!vars)
  <2> SUFFICES ASSUME IInv, Offering, [Next]_vars
               PROVE  Promise!Next \/ UNCHANGED Promise!vars
    OBVIOUS
  <2>1. CASE UNCHANGED vars
    BY <2>1, Stutter DEF vars, serverVars, history
  <2>2. CASE CreateBand \/ \E u \in User : RemoveMember(u) \/ RevokeInvitation(u)
    BY <2>2, BandSteps
  <2>3. CASE \E h \in Handler, u \in User : DeleteShare(h, u)
    BY <2>3, RevokeSteps
  <2>4. CASE \E h \in Handler : CreateOffer(h) \/ CreateShare(h)
    BY <2>4, OfferSteps, ShareSteps
  <2>5. CASE \E h \in Handler : DeleteOffer(h)
    BY <2>5, RevokeSteps
  <2>6. CASE RevokeBand
    <3>1. Promise!EndBandShare
      BY <2>6 DEF RevokeBand, history, Promise!EndBandShare, IsMember
    <3> QED BY <3>1 DEF Promise!Next
  <2>7. CASE \E h \in Handler : JoinBand(h) \/ AcceptShare(h)
    BY <2>7, JoinSteps, EnterSteps
  <2>8. CASE \E h \in Handler, k \in Kind, u \in User, i \in Id, answer \in Reply :
               Answer(h, k, u, i, answer)
    BY <2>8, AnswerSteps
  <2>9. CASE \/ \E u \in User : InviteMember(u)
             \/ \E h \in Handler, u \in User : CheckOffer(h, u) \/ DeleteShareFails(h, u)
             \/ \E h \in Handler : \/ CheckShare(h) \/ ReadOffer(h) \/ Decline(h)
                                   \/ HandlerFails(h) \/ DeleteOfferFails(h)
    BY <2>9, SilentSteps
  <2> QED BY <2>1, <2>2, <2>3, <2>4, <2>5, <2>6, <2>7, <2>8, <2>9 DEF Next
<1> QED BY <1>1, <1>2, Invariance, OfferingInvariant, PTL DEF Spec, Promise!Spec, KeepsConsent
=============================================================================
