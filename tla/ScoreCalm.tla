------------------------------ MODULE ScoreCalm ------------------------------
(***************************************************************************)
(* What the passes of ScoreSync achieve together, and what a whole pass    *)
(* achieves when it is left alone.  The steps are those of ScoreSync; two  *)
(* history variables tell the passes apart.  calm names the pass that has  *)
(* had the library to itself since it started: no user, no other pass and  *)
(* no handler of an earlier call has taken a step, and none of its own     *)
(* calls has failed.  overlapped has the passes during which another ran   *)
(* on the same device: forceSync (client/main.go:239) starts one per    *)
(* button press and waits for none.                                        *)
(***************************************************************************)
EXTENDS ScoreSync

VARIABLES
  calm,       \* history: the pass that runs undisturbed, or Nobody
  overlapped  \* history: the passes under way that were not alone on their device

calmVars == <<vars, calm, overlapped>>

\* A step of pass p, or of the handler that works for it, that is no failure.
CalmStep(p) ==
  \/ SyncStep(p) /\ ~PassFault(p)
  \/ \E h \in Handler : handler[h].by = p /\ ServerStep(h) /\ ~HandlerFault(h)

CalmInit == Init /\ calm = Nobody /\ overlapped = {}

CalmNext ==
  /\ Next
  /\ \/ \E p \in Pass : Start(p) /\ calm' = p
     \/ /\ ~\E p \in Pass : Start(p)
        /\ calm' = IF calm # Nobody /\ CalmStep(calm) THEN calm ELSE Nobody
  /\ overlapped' =
       {p \in Pass : /\ pc'[p] # "idle"
                     /\ \/ p \in overlapped
                        \/ \E q \in Pass \ {p} : DeviceOf[q] = DeviceOf[p] /\ pc'[q] # "idle"}

CalmSpec == CalmInit /\ [][CalmNext]_calmVars

-----------------------------------------------------------------------------
(* Any number of passes *)

\* The devices on which such a pass is under way.
Crossed == {DeviceOf[p] : p \in overlapped}

\* A score leaves a device only after a user deleted it somewhere: what a
\* pass takes for "deleted on server" (score_sync.go:168) was deleted, unless
\* the pass overlaps with another of its device.  Even that one removes only
\* what the server has had.
RemovedOnlyAfterDeletion ==
  [][\A d \in Device, s \in Valid :
       local[d][s].st # "none" /\ local'[d][s].st = "none" =>
         row[s] # "none" /\ (s \in trashed \/ d \in Crossed)]_calmVars

\* The library that Custody speaks of.
Standing(r) == IF r.st # "live" THEN r.st ELSE IF r.clean THEN "clean" ELSE "dirty"

Promise == INSTANCE Custody WITH
  Thing <- Score,
  Storable <- Valid,
  copy <- [d \in Device |-> [s \in Score |-> Standing(local[d][s])]],
  crossed <- Crossed

\* Passes and handlers implement Custody: whatever calls are lost, orphaned or
\* repeated, and whatever happens between two steps, every change of a row on a
\* device or on the server is one that what users made and deleted allows
\* (SynchronizeScores, ScoreService).
KeepsCustody == Promise!Spec

-----------------------------------------------------------------------------
(* A pass that is left alone *)

\* The device has synced exactly what the server lists, and no deletion is
\* still to be sent.  An edit that was not sent is of a score the server has
\* deleted meanwhile, or one without a file, or with one that gRPC refuses.
Agrees(d) ==
  \A s \in Score :
    /\ local[d][s].clean <=> row[s] = "live"
    /\ local[d][s].st = "tomb" => row[s] # "live"
    /\ local[d][s].st = "live" /\ ~local[d][s].clean =>
         row[s] = "gone" \/ file[d][s] = "none" \/ s \notin Receivable

\* Whatever earlier passes, aborted anywhere, have left behind, one pass that
\* runs undisturbed makes its device and the server agree (SynchronizeScores).
CalmPassAgrees ==
  \A p \in Pass : calm = p /\ pc[p] = "prune" /\ todo[p] = {} => Agrees(DeviceOf[p])

-----------------------------------------------------------------------------
(* What the pass has achieved by each of its stages *)

Mine(p, s) == local[DeviceOf[p]][s]
Unsent(p, s) == Mine(p, s).st = "live" /\ ~Mine(p, s).clean

\* An edit that this pass cannot send.
Stuck(p, s) ==
  \/ row[s] = "gone"
  \/ row[s] # "live" /\ (file[DeviceOf[p]][s] = "none" \/ s \notin Receivable)

\* Until the first list the deletions are sent.
Deletes(p) ==
  pc[p] \in {"tombs", "deleting"} =>
    /\ \A s \in Score : Mine(p, s).st = "tomb" /\ row[s] = "live" =>
         s \in todo[p] \/ (pc[p] = "deleting" /\ s = cur[p])
    /\ pc[p] = "deleting" /\ reply[p] \notin {"none", "ok"} => row[cur[p]] # "live"

\* Then the edits.  What is to be sent is as it was read, and is listed if the
\* server has it.
Pushes(p) ==
  pc[p] \in {"read", "push", "updating", "creating"} =>
    /\ \A s \in Score : Mine(p, s).st = "tomb" => row[s] # "live"
    /\ pc[p] = "read" => \A s \in Score : Listed(p, s) <=> row[s] = "live"
    /\ pc[p] # "read" =>
         /\ \A s \in todo[p] : Unsent(p, s) /\ (Listed(p, s) <=> row[s] = "live")
         /\ \A s \in Score : Unsent(p, s) =>
              s \in todo[p] \/ (pc[p] # "push" /\ s = cur[p]) \/ Stuck(p, s)
    /\ pc[p] \in {"updating", "creating"} => cur[p] \notin todo[p] /\ Unsent(p, cur[p])
    /\ pc[p] = "updating" => row[cur[p]] = "live" /\ reply[p] \in {"none", "ok"}
    /\ pc[p] = "creating" =>
         /\ reply[p] = "none" => row[cur[p]] # "live"
         /\ reply[p] = "ok" => row[cur[p]] = "live"
         /\ reply[p] = "error" => row[cur[p]] = "gone"
                                   \/ (row[cur[p]] # "live" /\ cur[p] \notin Receivable)

\* At last what the server lists is fetched, and what it does not list removed.
Pulls(p) ==
  pc[p] \in {"reread", "pull", "download", "prune"} =>
    /\ \A s \in Score :
         /\ Listed(p, s) <=> row[s] = "live"
         /\ Mine(p, s).st = "tomb" => row[s] # "live"
         /\ Unsent(p, s) => Stuck(p, s)
    /\ pc[p] \in {"pull", "download"} => \A s \in Score :
         /\ row[s] = "live" => Mine(p, s).clean \/ s \in todo[p]
                                 \/ (pc[p] = "download" /\ s = cur[p])
         /\ row[s] # "live" /\ Mine(p, s).clean => snap[p][s].clean
    /\ pc[p] = "prune" => \A s \in Score :
         /\ row[s] = "live" => Mine(p, s).clean /\ s \notin todo[p]
         /\ row[s] # "live" /\ Mine(p, s).clean => s \in todo[p]

\* Only a row that is there is marked as synced.
Marked == \A d \in Device, s \in Score : local[d][s].clean => local[d][s].st = "live"

CalmIInv ==
  /\ Marked
  /\ calm \in Pass \cup {Nobody}
  /\ \A p \in Pass : calm = p => Deletes(p) /\ Pushes(p) /\ Pulls(p)

=============================================================================
