----------------------------- MODULE ConcertCalm -----------------------------
(***************************************************************************)
(* What the passes of ConcertSync achieve together, and what a whole pass  *)
(* achieves when it is left alone.  The steps are those of ConcertSync;    *)
(* two history variables tell the passes apart.  calm names the pass that  *)
(* has had the library to itself since it started: no user, no other pass  *)
(* and no handler of an earlier call has taken a step, and none of its own *)
(* calls has failed.  overlapped has the passes during which another ran   *)
(* on the same device: forceSync (client/main.go:239) starts one per    *)
(* button press and waits for none.                                        *)
(***************************************************************************)
EXTENDS ConcertSync

VARIABLES
  calm,       \* history: the pass that runs undisturbed, or Nobody
  overlapped  \* history: the passes under way that were not alone on their device

calmVars == <<vars, calm, overlapped>>

\* A step of pass p, or of the handler that works for it, that is no failure.
CalmStep(p) ==
  \/ SyncStep(p) /\ ~PassFault(p)
  \/ \E h \in Handler : handler[h].by = p /\ ServerStep(h) /\ ~HandlerFault(h)

CalmInit == Init /\ calm = Nobody /\ overlapped = {}

CalmNext ==
  /\ Next
  /\ \/ \E p \in Pass : Start(p) /\ calm' = p
     \/ /\ ~\E p \in Pass : Start(p)
        /\ calm' = IF calm # Nobody /\ CalmStep(calm) THEN calm ELSE Nobody
  /\ overlapped' =
       {p \in Pass : /\ pc'[p] # "idle"
                     /\ \/ p \in overlapped
                        \/ \E q \in Pass \ {p} : DeviceOf[q] = DeviceOf[p] /\ pc'[q] # "idle"}

CalmSpec == CalmInit /\ [][CalmNext]_calmVars

-----------------------------------------------------------------------------
(* Any number of passes *)

\* The devices on which such a pass is under way.
Crossed == {DeviceOf[p] : p \in overlapped}

\* A concert leaves a device only after a user deleted it somewhere: what a
\* pass takes for "deleted on server" (sync.go:159) was deleted, although it
\* consults a list that is older than its own uploads, unless the pass overlaps
\* with another of its device.  Even that one removes only what the server has
\* had.
RemovedOnlyAfterDeletion ==
  [][\A d \in Device, c \in Concert :
       local[d][c].st # "none" /\ local'[d][c].st = "none" =>
         row[c] # "none" /\ (c \in trashed \/ d \in Crossed)]_calmVars

\* The library that Custody speaks of.
Standing(r) == IF r.st # "live" THEN r.st ELSE IF r.sum # NoSum THEN "clean" ELSE "dirty"

Promise == INSTANCE Custody WITH
  Thing <- Concert,
  Storable <- Concert,
  copy <- [d \in Device |-> [c \in Concert |-> Standing(local[d][c])]],
  crossed <- Crossed

\* Passes and handlers implement Custody: although the last loop goes by a list
\* that is older than the pass's own uploads, and an update may revive what was
\* deleted meanwhile, every change of a row on a device or on the server is one
\* that what users made and deleted allows (SynchronizeConcerts,
\* ConcertService).
KeepsCustody == Promise!Spec

-----------------------------------------------------------------------------
(* A pass that is left alone *)

\* The device has the concerts the server has, each marked with the checksum
\* the server computes of it now, and no deletion is still to be sent.  An edit
\* that was not sent is of a concert the server has deleted meanwhile.  This
\* does not make the set lists equal: a pushed concert adds its items to the
\* server's and then takes the checksum of the sum for its own (sync.go:47-68,
\* :119), without the items.
Agrees(d) ==
  \A c \in Concert :
    LET mine == GetConcerts(d)[c] IN
    /\ row[c] = "live" => mine.st = "live" /\ mine.sum = Checksum(c) /\ mine.sum # NoSum
    /\ row[c] # "live" => mine.sum = NoSum
    /\ row[c] = "none" => mine.st = "none"

\* Whatever earlier passes, aborted anywhere, have left behind, one pass that
\* runs undisturbed makes its device and the server agree on concerts and
\* checksums, although its last loop goes by a list older than its own uploads
\* (SynchronizeConcerts).
CalmPassAgrees ==
  \A p \in Pass : calm = p /\ pc[p] = "prune" /\ todo[p] = {} => Agrees(DeviceOf[p])

-----------------------------------------------------------------------------
(* What the pass has achieved by each of its stages *)

Mine(p, c) == local[DeviceOf[p]][c]
Unsent(p, c) == Mine(p, c).st = "live" /\ Mine(p, c).sum = NoSum

\* Until the first list the deletions are sent.
Deletes(p) ==
  pc[p] \in {"tombs", "deleting"} =>
    /\ pushed[p] = {}
    /\ \A c \in Concert : Mine(p, c).st = "tomb" /\ row[c] = "live" =>
         c \in todo[p] \/ (pc[p] = "deleting" /\ c = cur[p])
    /\ pc[p] = "deleting" /\ reply[p] \notin {"none", "ok"} => row[cur[p]] # "live"

\* Then the edits.  The concert of the push under way is one the server has as
\* soon as its items follow.
Pushing == {"read", "push", "updating", "creating", "items", "adding"}

Pushes(p) ==
  pc[p] \in Pushing =>
    /\ \A c \in Concert : Mine(p, c).st = "tomb" => row[c] # "live"
    /\ \A c \in remote[p] : row[c] = "live"
    /\ \A c \in Concert : row[c] = "live" =>
         c \in remote[p] \/ c \in pushed[p] \/ (pc[p] \notin {"read", "push"} /\ c = cur[p])
    /\ \A c \in pushed[p] : Unsent(p, c) /\ row[c] = "live" /\ c \notin todo[p]
    /\ pc[p] = "read" => pushed[p] = {}
    /\ pc[p] # "read" =>
         /\ \A c \in todo[p] : Unsent(p, c)
         /\ \A c \in Concert : Unsent(p, c) =>
              \/ c \in todo[p] \cup pushed[p] \/ (pc[p] # "push" /\ c = cur[p])
              \/ row[c] = "gone"
    /\ pc[p] \notin {"read", "push"} => cur[p] \notin todo[p] \cup pushed[p] /\ Unsent(p, cur[p])
    /\ pc[p] = "updating" => row[cur[p]] = "live" /\ reply[p] \in {"none", "ok"}
    /\ pc[p] = "creating" =>
         /\ reply[p] = "none" => row[cur[p]] # "live"
         /\ reply[p] = "ok" => row[cur[p]] = "live"
         /\ reply[p] = "error" => row[cur[p]] = "gone"
    /\ pc[p] \in {"items", "adding"} => row[cur[p]] = "live"

\* Then the second list is made, which has what the first list had, which is
\* what the deletions left, and what was pushed.
Lists(p) ==
  pc[p] \in {"sums", "rows", "reread", "apply", "prune"} =>
    /\ \A c \in Concert :
         /\ listed[p][c].in <=> row[c] = "live"
         /\ Mine(p, c).st = "tomb" => row[c] # "live"
         /\ row[c] = "none" => ~Unsent(p, c)
    /\ \A c \in remote[p] : row[c] = "live"
    /\ pc[p] \in {"rows", "reread", "apply"} => \A c \in Concert :
         row[c] = "live" => listed[p][c].sum = Checksum(c)
    /\ pc[p] \in {"sums", "rows", "reread"} => \A c \in Concert :
         /\ row[c] = "live" => c \in remote[p] \cup pushed[p]
         /\ c \in pushed[p] => Unsent(p, c)

\* At last it is applied, and what the first list did not have is removed,
\* which spares what was created since: that is not marked as synced yet when
\* the rows are read again.
Settled(p, c) == Mine(p, c).st = "live" /\ Mine(p, c).sum = Checksum(c)

Pulls(p) ==
  /\ pc[p] = "apply" => \A c \in Concert :
       /\ row[c] = "live" => c \in todo[p] \/ Settled(p, c)
       /\ c \in todo[p] => snap[p][c] = GetConcerts(DeviceOf[p])[c]
       /\ c \in todo[p] /\ c \in pushed[p] => Mine(p, c).st = "live"
       /\ row[c] = "live" /\ snap[p][c].sum # NoSum => c \in remote[p]
       /\ row[c] # "live" /\ Mine(p, c).st = "live" => Unsent(p, c) \/ snap[p][c].sum # NoSum
  /\ pc[p] = "prune" => \A c \in Concert :
       /\ row[c] = "live" => Settled(p, c) /\ c \notin todo[p]
       /\ row[c] # "live" /\ Mine(p, c).st = "live" => Unsent(p, c) \/ c \in todo[p]

\* What the handler that works for a pass is at.
Serves(p) ==
  \A h \in Handler : handler[h].by = p =>
    \/ pc[p] = "deleting" /\ handler[h].at = "delete"
    \/ pc[p] = "updating" /\ handler[h].at \in {"read", "save"}
    \/ pc[p] = "creating" /\ handler[h].at = "create"
    \/ pc[p] = "adding" /\ handler[h].at = "item"

Progress(p) == Deletes(p) /\ Pushes(p) /\ Lists(p) /\ Pulls(p) /\ Serves(p)

\* A pass that is not under way has pushed nothing yet.
Fresh == \A p \in Pass : pc[p] = "idle" => pushed[p] = {}

CalmIInv ==
  /\ Fresh
  /\ calm \in Pass \cup {Nobody}
  /\ \A p \in Pass : calm = p => Progress(p)

=============================================================================
