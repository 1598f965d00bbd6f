------------------------------- MODULE Inbox -------------------------------
(***************************************************************************)
(* The inbox of a stand: what the passes list of the invitations on the    *)
(* server (network/invitation_sync.go), the table notifications            *)
(* (localdb/manager.go), the list on the screen (ui/inbox.go), and the     *)
(* answers, each sent by a goroutine of its own (main.go).  The user is    *)
(* logged in to one account of one server.  Bands, concerts and scores     *)
(* have a table and calls each, which do the same: an invitation here is   *)
(* of any kind.  What it gives access to is in Sharing.                    *)
(***************************************************************************)
EXTENDS Naturals

CONSTANT Invitation  \* ids the server gives; an invitation after an answer
                     \* has an id of its own

ASSUME InboxAssumption == Invitation # {}

VARIABLES
  invited,        \* invited[i]: the row on the server
  notifications,  \* notifications[i]: the status of the row here
  toStore,        \* listed by a pass, and not stored yet
  inboxRows,      \* {}: no inbox on the screen; {R}: it shows R
  answering,      \* <<i, accept>>: the answers on their way
  tapped,         \* history: tapped[i]: the answer that was tapped, and stored
  lostAnswers     \* history: the invitations an answer to was lost

inboxVars == <<invited, notifications, toStore, inboxRows, answering, tapped, lostAnswers>>

Verdicts == {"accepted", "declined"}

InboxTypeOK ==
  /\ invited \in [Invitation -> {"none", "pending", "gone"} \cup Verdicts]
  /\ notifications \in [Invitation -> {"none", "pending"} \cup Verdicts]
  /\ toStore \in SUBSET Invitation
  /\ inboxRows = {} \/ \E R \in SUBSET Invitation : inboxRows = {R}
  /\ answering \in SUBSET (Invitation \X Verdicts)
  /\ tapped \in [Invitation -> {"none"} \cup Verdicts]
  /\ lostAnswers \in SUBSET Invitation

InboxInit ==
  /\ invited = [i \in Invitation |-> "none"] /\ notifications = invited /\ tapped = invited
  /\ toStore = {} /\ inboxRows = {} /\ answering = {} /\ lostAnswers = {}

-----------------------------------------------------------------------------
(* Others *)

\* Somebody invites the user.
Invited(i) ==
  /\ invited[i] = "none"
  /\ invited' = [invited EXCEPT ![i] = "pending"]
  /\ UNCHANGED <<notifications, toStore, inboxRows, answering, tapped, lostAnswers>>

\* It is revoked, or answered on another stand of the user.
SettledElsewhere(i, st) ==
  /\ invited[i] = "pending"
  /\ invited' = [invited EXCEPT ![i] = st]
  /\ UNCHANGED <<notifications, toStore, inboxRows, answering, tapped, lostAnswers>>

-----------------------------------------------------------------------------
(* A pass *)

PendingThere == {i \in Invitation : invited[i] = "pending"}

\* The server makes the list.  Passes overlap; a list that fails has no effect.
ListMine ==
  /\ PendingThere # {}
  /\ toStore' = toStore \cup PendingThere
  /\ UNCHANGED <<invited, notifications, inboxRows, answering, tapped, lostAnswers>>

\* Mutant: ON CONFLICT(id) DO UPDATE.
SyncNotificationAnew(i) ==
  /\ i \in toStore
  /\ toStore' = toStore \ {i}
  /\ notifications' = [notifications EXCEPT ![i] = "pending"]
  /\ UNCHANGED <<invited, inboxRows, answering, tapped, lostAnswers>>

\* SyncNotificationFromServer, for the invitation its list is at.
SyncNotification(i) ==
  /\ i \in toStore
  /\ toStore' = toStore \ {i}
  /\ notifications' = [notifications EXCEPT ![i] = IF @ = "none" THEN "pending" ELSE @]
  /\ UNCHANGED <<invited, inboxRows, answering, tapped, lostAnswers>>

\* The insert fails, and the loop goes on.
NotStored(i) ==
  /\ i \in toStore
  /\ toStore' = toStore \ {i}
  /\ UNCHANGED <<invited, notifications, inboxRows, answering, tapped, lostAnswers>>

-----------------------------------------------------------------------------
(* The user *)

PendingIn(ns) == {i \in Invitation : ns[i] = "pending"}

\* renderList, on opening or refreshing; an error counts as an empty inbox.
RenderList ==
  /\ inboxRows' \in {{PendingIn(notifications)}, {{}}}
  /\ UNCHANGED <<invited, notifications, toStore, answering, tapped, lostAnswers>>

LeaveInbox ==
  /\ inboxRows # {}
  /\ inboxRows' = {}
  /\ UNCHANGED <<invited, notifications, toStore, answering, tapped, lostAnswers>>

\* A tap sends the answer, if the user is logged in, resolves the row whatever
\* becomes of the answer, and renders the list.  The update may fail: the row
\* stays.
TapAnswer(i, st) ==
  /\ \E R \in inboxRows : i \in R
  /\ \/ answering' = answering \cup {<<i, st>>} /\ UNCHANGED lostAnswers
     \/ lostAnswers' = lostAnswers \cup {i} /\ UNCHANGED answering
  /\ \/ /\ notifications' = [notifications EXCEPT ![i] = st]
        /\ tapped' = [tapped EXCEPT ![i] = st]
     \/ UNCHANGED <<notifications, tapped>>
  /\ inboxRows' \in {{PendingIn(notifications')}, {{}}}
  /\ UNCHANGED <<invited, toStore>>

-----------------------------------------------------------------------------
(* Answers on their way *)

\* RespondToInvitation and its two likes: an invitation is answered once.
Respond(i, st) ==
  /\ <<i, st>> \in answering
  /\ answering' = answering \ {<<i, st>>}
  /\ invited' = [invited EXCEPT ![i] = IF @ = "pending" THEN st ELSE @]
  /\ UNCHANGED <<notifications, toStore, inboxRows, tapped, lostAnswers>>

\* The call fails, on its way or on the server; nobody looks at its error.
AnswerIsLost(i, st) ==
  /\ <<i, st>> \in answering
  /\ answering' = answering \ {<<i, st>>}
  /\ lostAnswers' = lostAnswers \cup {i}
  /\ UNCHANGED <<invited, notifications, toStore, inboxRows, tapped>>

InboxNext ==
  \/ ListMine \/ RenderList \/ LeaveInbox
  \/ \E i \in Invitation :
       \/ Invited(i) \/ SyncNotification(i) \/ NotStored(i)
       \/ \E st \in Verdicts \cup {"gone"} : SettledElsewhere(i, st)
       \/ \E st \in Verdicts : TapAnswer(i, st) \/ Respond(i, st) \/ AnswerIsLost(i, st)

InboxSpec == InboxInit /\ [][InboxNext]_inboxVars

-----------------------------------------------------------------------------
(* Properties *)

\* An answer counts: no list a pass fetched before the answer arrived brings
\* the invitation back (the upsert of localdb/manager.go:466), and the
\* invitation stays open on the server only while the answer is on its way or
\* when its call failed, which inbox.go:85 does not wait for.
AnswersCount ==
  \A i \in Invitation : tapped[i] # "none" =>
    /\ notifications[i] = tapped[i]
    /\ invited[i] = "pending" =>
         i \in lostAnswers \/ \E st \in Verdicts : <<i, st>> \in answering
=============================================================================
