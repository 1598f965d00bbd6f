------------------------------ MODULE ScoreSync ------------------------------
(***************************************************************************)
(* Synchronisation of one account's score library between the sqlite       *)
(* databases of its devices and the cloud.                                 *)
(*                                                                         *)
(* Client side: client/localdb/manager.go keeps one row per score and      *)
(* client/network/score_sync.go runs a pass over it.  Nothing serialises   *)
(* the passes of a device: forceSync starts one per button press, each     *)
(* login starts another background loop, and they all share the database.  *)
(*                                                                         *)
(* Server side: ScoreService keeps a row in postgres and an object in      *)
(* minio, written one after the other by handlers that outlive a caller    *)
(* whose connection breaks.                                                *)
(*                                                                         *)
(* A score's PDF never changes after AddScore, so its sha256 is a function *)
(* of its id: the checksum column is the flag "clean" (non-empty).         *)
(***************************************************************************)

CONSTANTS
  Device,     \* the devices logged in to the account
  Pass,       \* the sync passes that may be under way at the same time
  DeviceOf,   \* the device each pass runs on
  Score,      \* score ids
  Valid,      \* the scores whose file is a PDF of at most 25 MB
  Receivable, \* the scores whose file fits a request of at most 4 MB
  Title,      \* the titles a user types
  Handler,    \* the handlers the server runs at the same time
  Nobody,     \* no pass, no device
  NoTitle,    \* no title
  NoScore     \* no score

ASSUME ScoreSyncAssumption ==
  /\ DeviceOf \in [Pass -> Device]
  /\ Valid \subseteq Score
  /\ Receivable \subseteq Score
  /\ Nobody \notin Pass \cup Device
  /\ NoTitle \notin Title
  /\ NoScore \notin Score

VARIABLES
  origin,     \* origin[s]: the device whose AddScore minted s
  local,      \* local[d][s]: the row of table scores
  file,       \* file[d][s]: the PDF on the device
  row,        \* row[s]: the server's row
  name,       \* name[s]: its name column
  object,     \* object[s]: the PDF in the bucket
  handler,    \* handler[h]: the call a server handler is working on
  pc,         \* pc[p]: where a pass is
  todo,       \* todo[p]: what the pass's current loop has left to visit
  cur,        \* cur[p]: the score of the pass's outstanding call
  reply,      \* reply[p]: what that call returned
  remote,     \* remote[p]: the names of the last ListMyScores response
  snap,       \* snap[p]: the last GetScores result
  got,        \* got[p]: what the open download will have written
  served,     \* history: the names the server's row has had
  trashed     \* history: the scores some user confirmed deleting

localVars  == <<origin, local, file, trashed>>
serverVars == <<row, name, object, served>>
passVars   == <<pc, todo, cur, reply, remote, snap, got>>
vars       == <<localVars, serverVars, handler, passVars>>

-----------------------------------------------------------------------------
(* Types *)

File     == {"none", "part", "full"}
LocalRow == [st : {"none", "live", "tomb"},
             title : Title \cup {NoTitle},
             clean : BOOLEAN]
Row(st, title, clean) == [st |-> st, title |-> title, clean |-> clean]
NoRow == Row("none", NoTitle, FALSE)

Idle == [at |-> "idle", score |-> NoScore, title |-> NoTitle,
         data |-> "none", by |-> Nobody]
Call == [at : {"idle", "put", "insert", "read", "save", "remove", "softDelete"},
         score : Score \cup {NoScore},
         title : Title \cup {NoTitle},
         data : File,
         by : Pass \cup {Nobody}]

Stages  == {"idle", "tombs", "deleting", "read", "push", "updating",
            "creating", "reread", "pull", "download", "prune"}
Waiting == {"deleting", "updating", "creating"}

TypeOK ==
  /\ origin \in [Score -> Device \cup {Nobody}]
  /\ local \in [Device -> [Score -> LocalRow]]
  /\ file \in [Device -> [Score -> File]]
  /\ row \in [Score -> {"none", "live", "gone"}]
  /\ name \in [Score -> Title \cup {NoTitle}]
  /\ object \in [Score -> File]
  /\ handler \in [Handler -> Call]
  /\ pc \in [Pass -> Stages]
  /\ todo \in [Pass -> SUBSET Score]
  /\ cur \in [Pass -> Score \cup {NoScore}]
  /\ \A p \in Pass : pc[p] \in Waiting \cup {"download"} => cur[p] \in Score
  /\ reply \in [Pass -> {"none", "ok", "invalid", "error"}]
  /\ remote \in [Pass -> [Score -> Title \cup {NoTitle}]]
  /\ snap \in [Pass -> [Score -> LocalRow]]
  /\ got \in [Pass -> File]
  /\ served \in [Score -> SUBSET (Title \cup {NoTitle})]
  /\ trashed \in SUBSET Score

Init ==
  /\ origin = [s \in Score |-> Nobody]
  /\ local = [d \in Device |-> [s \in Score |-> NoRow]]
  /\ file = [d \in Device |-> [s \in Score |-> "none"]]
  /\ row = [s \in Score |-> "none"]
  /\ name = [s \in Score |-> NoTitle]
  /\ object = [s \in Score |-> "none"]
  /\ handler = [h \in Handler |-> Idle]
  /\ pc = [p \in Pass |-> "idle"]
  /\ todo = [p \in Pass |-> {}]
  /\ cur = [p \in Pass |-> NoScore]
  /\ reply = [p \in Pass |-> "none"]
  /\ remote = [p \in Pass |-> [s \in Score |-> NoTitle]]
  /\ snap = [p \in Pass |-> [s \in Score |-> NoRow]]
  /\ got = [p \in Pass |-> "none"]
  /\ served = [s \in Score |-> {}]
  /\ trashed = {}

-----------------------------------------------------------------------------
(* The local database, client/localdb/manager.go *)

\* GetScores: the rows that are not marked deleted.
GetScores(d) ==
  [s \in Score |-> IF local[d][s].st = "live" THEN local[d][s] ELSE NoRow]

\* Mutant: a row that is missing counts as deleted.
GetDeletedScoreIDsOrMissing(d) == {s \in Score : local[d][s].st # "live"}

\* GetDeletedScoreIDs
GetDeletedScoreIDs(d) == {s \in Score : local[d][s].st = "tomb"}

\* SyncScoreFromServer: an upsert that also clears is_deleted.
SyncScoreFromServer(d, s, t) ==
  local' = [local EXCEPT ![d][s] = Row("live", t, TRUE)]

\* HardDeleteScore: removes the file the row names, then the row.
HardDeleteScore(d, s) ==
  /\ file' = [file EXCEPT ![d][s] = IF local[d][s].st = "none" THEN @ ELSE "none"]
  /\ local' = [local EXCEPT ![d][s] = NoRow]

(* The user, client/ui/practice.go *)

\* AddScore copies the chosen file and inserts a row under a fresh uuid.
AddScore(d, s, t) ==
  /\ origin[s] = Nobody
  /\ origin' = [origin EXCEPT ![s] = d]
  /\ local' = [local EXCEPT ![d][s] = Row("live", t, FALSE)]
  /\ file' = [file EXCEPT ![d][s] = "full"]
  /\ UNCHANGED <<trashed, serverVars, handler, passVars>>

\* UpdateScore (local): a new title, and the checksum is emptied.
RenameScore(d, s, t) ==
  /\ local[d][s].st = "live"
  /\ local' = [local EXCEPT ![d][s] = Row("live", t, FALSE)]
  /\ UNCHANGED <<origin, file, trashed, serverVars, handler, passVars>>

\* MarkScoreDeleted, after the user confirmed "Are you sure you want to delete".
MarkScoreDeleted(d, s) ==
  /\ local[d][s].st = "live"
  /\ local' = [local EXCEPT ![d][s] = Row("tomb", @.title, FALSE)]
  /\ trashed' = trashed \cup {s}
  /\ UNCHANGED <<origin, file, serverVars, handler, passVars>>

-----------------------------------------------------------------------------
(* Calls *)

\* The pass of handler h's caller, if it still waits, receives r.
Answer(h, r) ==
  /\ handler' = [handler EXCEPT ![h] = Idle]
  /\ reply' = IF handler[h].by = Nobody THEN reply
              ELSE [reply EXCEPT ![handler[h].by] = r]

\* Pass p calls the server: the request is lost, or a handler takes it up.
Lost(p) ==
  /\ reply' = [reply EXCEPT ![p] = "error"]
  /\ handler' = handler

Delivered(p, at, s, t, data) ==
  /\ \E h \in Handler :
       /\ handler[h] = Idle
       /\ handler' = [handler EXCEPT ![h] =
            [at |-> at, score |-> s, title |-> t, data |-> data, by |-> p]]
  /\ reply' = [reply EXCEPT ![p] = "none"]

\* The connection breaks under a waiting call: the pass sees an error, the
\* handler carries on.
Orphan(p) ==
  handler' = [h \in Handler |->
                IF handler[h].by = p THEN [handler[h] EXCEPT !.by = Nobody]
                ELSE handler[h]]

GiveUp(p) ==
  /\ pc[p] \in Waiting
  /\ reply[p] = "none"
  /\ reply' = [reply EXCEPT ![p] = "error"]
  /\ Orphan(p)
  /\ UNCHANGED <<localVars, serverVars, pc, todo, cur, remote, snap, got>>

-----------------------------------------------------------------------------
(* ScoreService, server/internal/services/score_service.go *)

\* CreateScore up to PutObject: the upload is validated, then stored under
\* the id the client chose, over whatever is there.
RejectUpload(h) ==
  /\ handler[h].at = "put"
  /\ handler[h].data = "full" => handler[h].score \notin Valid
  /\ Answer(h, "invalid")
  /\ UNCHANGED <<localVars, serverVars, pc, todo, cur, remote, snap, got>>

PutObject(h) ==
  /\ handler[h].at = "put"
  /\ handler[h].data = "full" => handler[h].score \in Valid
  /\ object' = [object EXCEPT ![handler[h].score] = handler[h].data]
  /\ handler' = [handler EXCEPT ![h].at = "insert"]
  /\ UNCHANGED <<localVars, row, name, served, passVars>>

\* CreateScore, db.Create: the primary key also covers soft-deleted rows.
InsertRow(h) ==
  LET s == handler[h].score IN
  /\ handler[h].at = "insert"
  /\ row[s] = "none"
  /\ row' = [row EXCEPT ![s] = "live"]
  /\ name' = [name EXCEPT ![s] = handler[h].title]
  /\ served' = [served EXCEPT ![s] = @ \cup {handler[h].title}]
  /\ Answer(h, "ok")
  /\ UNCHANGED <<localVars, object, pc, todo, cur, remote, snap, got>>

\* CreateScore when db.Create fails, on the key or otherwise: the object is
\* removed again; RemoveObject's own error is ignored.
InsertFails(h) ==
  /\ handler[h].at = "insert"
  /\ object' \in {object, [object EXCEPT ![handler[h].score] = "none"]}
  /\ Answer(h, "error")
  /\ UNCHANGED <<localVars, row, name, served, pc, todo, cur, remote, snap, got>>

\* UpdateScore: First, then Save of the row that was read.
ReadRow(h) ==
  /\ handler[h].at = "read"
  /\ row[handler[h].score] = "live"
  /\ handler' = [handler EXCEPT ![h].at = "save"]
  /\ UNCHANGED <<localVars, serverVars, passVars>>

\* gorm's Save inserts with ON CONFLICT UPDATE when its UPDATE finds no row
\* that is not soft-deleted, so it also revives a row deleted meanwhile.
SaveRow(h) ==
  LET s == handler[h].score IN
  /\ handler[h].at = "save"
  /\ row' = [row EXCEPT ![s] = "live"]
  /\ name' = [name EXCEPT ![s] = handler[h].title]
  /\ served' = [served EXCEPT ![s] = @ \cup {handler[h].title}]
  /\ Answer(h, "ok")
  /\ UNCHANGED <<localVars, object, pc, todo, cur, remote, snap, got>>

\* DeleteScore: First, RemoveObject (its error ignored), then the soft delete.
RemoveObject(h) ==
  /\ handler[h].at = "remove"
  /\ row[handler[h].score] = "live"
  /\ object' \in {object, [object EXCEPT ![handler[h].score] = "none"]}
  /\ handler' = [handler EXCEPT ![h].at = "softDelete"]
  /\ UNCHANGED <<localVars, row, name, served, passVars>>

SoftDelete(h) ==
  LET s == handler[h].score IN
  /\ handler[h].at = "softDelete"
  /\ row' = [row EXCEPT ![s] = "gone"]
  /\ Answer(h, "ok")
  /\ UNCHANGED <<localVars, name, object, served, pc, todo, cur, remote, snap, got>>

\* UpdateScore and DeleteScore answer "score not found".
NotFound(h) ==
  /\ handler[h].at \in {"read", "remove"}
  /\ row[handler[h].score] # "live"
  /\ Answer(h, "error")
  /\ UNCHANGED <<localVars, serverVars, pc, todo, cur, remote, snap, got>>

\* A database or storage error, or a restart of the server, ends the handler.
HandlerFails(h) ==
  /\ handler[h].at # "idle"
  /\ Answer(h, "error")
  /\ UNCHANGED <<localVars, serverVars, pc, todo, cur, remote, snap, got>>

\* ListMyScores: the account's rows that are not soft-deleted.
ListMyScores == [s \in Score |-> IF row[s] = "live" THEN name[s] ELSE NoTitle]
Listed(p, s) == remote[p][s] # NoTitle

-----------------------------------------------------------------------------
(* SynchronizeScores, client/network/score_sync.go *)

\* The pass ends, or dies with the app or its session, and forgets everything.
Return(p) ==
  /\ pc' = [pc EXCEPT ![p] = "idle"]
  /\ todo' = [todo EXCEPT ![p] = {}]
  /\ cur' = [cur EXCEPT ![p] = NoScore]
  /\ reply' = [reply EXCEPT ![p] = "none"]
  /\ remote' = [remote EXCEPT ![p] = [s \in Score |-> NoTitle]]
  /\ snap' = [snap EXCEPT ![p] = [s \in Score |-> NoRow]]
  /\ got' = [got EXCEPT ![p] = "none"]

Abort(p) ==
  /\ pc[p] # "idle"
  /\ Return(p)
  /\ Orphan(p)
  /\ UNCHANGED <<localVars, serverVars>>

Start(p) ==
  /\ pc[p] = "idle"
  /\ pc' = [pc EXCEPT ![p] = "tombs"]
  /\ todo' = [todo EXCEPT ![p] = GetDeletedScoreIDs(DeviceOf[p])]
  /\ UNCHANGED <<localVars, serverVars, handler, cur, reply, remote, snap, got>>

\* The pass leaves stage "from" to wait for its call about s.
Request(p, from, s, to) ==
  /\ pc[p] = from
  /\ s \in todo[p]
  /\ pc' = [pc EXCEPT ![p] = to]
  /\ todo' = [todo EXCEPT ![p] = @ \ {s}]
  /\ cur' = [cur EXCEPT ![p] = s]
  /\ UNCHANGED <<localVars, serverVars, remote, snap, got>>

\* The outstanding call returned; the loop goes on at stage "to".
Returned(p, at, to) ==
  /\ pc[p] = at
  /\ reply[p] # "none"
  /\ pc' = [pc EXCEPT ![p] = to]
  /\ cur' = [cur EXCEPT ![p] = NoScore]
  /\ reply' = [reply EXCEPT ![p] = "none"]
  /\ UNCHANGED <<origin, trashed, serverVars, handler, todo, remote, snap, got>>

SendDelete(p, s) ==
  /\ Request(p, "tombs", s, "deleting")
  /\ Lost(p) \/ Delivered(p, "remove", s, NoTitle, "none")

\* The tombstone goes only when the server confirmed the deletion.
DeleteReturns(p) ==
  /\ Returned(p, "deleting", "tombs")
  /\ IF reply[p] = "ok" THEN HardDeleteScore(DeviceOf[p], cur[p])
     ELSE UNCHANGED <<local, file>>

FirstList(p) ==
  /\ pc[p] = "tombs" /\ todo[p] = {}
  /\ remote' = [remote EXCEPT ![p] = ListMyScores]
  /\ pc' = [pc EXCEPT ![p] = "read"]
  /\ UNCHANGED <<localVars, serverVars, handler, todo, cur, reply, snap, got>>

\* Either ListMyScores, or GetScores between them, fails: SynchronizeScores
\* returns the error.
ListFails(p) ==
  /\ pc[p] \in {"tombs", "read", "push"} /\ todo[p] = {}
  /\ Return(p)
  /\ UNCHANGED <<localVars, serverVars, handler>>

ReadLocal(p) ==
  LET mine == GetScores(DeviceOf[p]) IN
  /\ pc[p] = "read"
  /\ snap' = [snap EXCEPT ![p] = mine]
  /\ todo' = [todo EXCEPT ![p] = {s \in Score : mine[s].st = "live" /\ ~mine[s].clean}]
  /\ pc' = [pc EXCEPT ![p] = "push"]
  /\ UNCHANGED <<localVars, serverVars, handler, cur, reply, remote, got>>

\* A dirty row the server lists is an edited title.
SendUpdate(p, s) ==
  /\ Listed(p, s)
  /\ Request(p, "push", s, "updating")
  /\ Lost(p) \/ Delivered(p, "read", s, snap[p][s].title, "none")

\* Mutant: only the checksum column is written, as for concerts.
UpdateReturnsChecksumOnly(p) ==
  /\ Returned(p, "updating", "push")
  /\ file' = file
  /\ local' = IF reply[p] = "ok" /\ local[DeviceOf[p]][cur[p]].st = "live"
              THEN [local EXCEPT ![DeviceOf[p]][cur[p]].clean = TRUE] ELSE local

UpdateReturns(p) ==
  /\ Returned(p, "updating", "push")
  /\ file' = file
  /\ IF reply[p] = "ok"
     THEN SyncScoreFromServer(DeviceOf[p], cur[p], snap[p][cur[p]].title)
     ELSE local' = local

\* A dirty row the server does not list is a new score: upload its file.  gRPC
\* refuses a request of more than 4 MB before a handler sees it.
SendCreate(p, s) ==
  /\ ~Listed(p, s)
  /\ file[DeviceOf[p]][s] # "none"
  /\ Request(p, "push", s, "creating")
  /\ \/ Lost(p)
     \/ s \in Receivable /\ Delivered(p, "put", s, snap[p][s].title, file[DeviceOf[p]][s])

\* os.ReadFile fails: the score is skipped.
SkipCreate(p, s) ==
  /\ pc[p] = "push" /\ s \in todo[p]
  /\ ~Listed(p, s)
  /\ file[DeviceOf[p]][s] = "none"
  /\ todo' = [todo EXCEPT ![p] = @ \ {s}]
  /\ UNCHANGED <<localVars, serverVars, handler, pc, cur, reply, remote, snap, got>>

\* Mutant: the row is marked as synced whatever the call returned.
CreateReturnsUnchecked(p) ==
  /\ Returned(p, "creating", "push")
  /\ SyncScoreFromServer(DeviceOf[p], cur[p], snap[p][cur[p]].title)
  /\ file' = file

CreateReturns(p) ==
  /\ Returned(p, "creating", "push")
  /\ CASE reply[p] = "ok" ->
            /\ SyncScoreFromServer(DeviceOf[p], cur[p], snap[p][cur[p]].title)
            /\ file' = file
       [] reply[p] = "invalid" -> HardDeleteScore(DeviceOf[p], cur[p])
       [] OTHER -> UNCHANGED <<local, file>>

\* Mutant: the map of the first list is kept, as for concerts.
SecondListIgnored(p) ==
  /\ pc[p] = "push" /\ todo[p] = {}
  /\ pc' = [pc EXCEPT ![p] = "reread"]
  /\ UNCHANGED <<localVars, serverVars, handler, todo, cur, reply, remote, snap, got>>

SecondList(p) ==
  /\ pc[p] = "push" /\ todo[p] = {}
  /\ remote' = [remote EXCEPT ![p] = ListMyScores]
  /\ pc' = [pc EXCEPT ![p] = "reread"]
  /\ UNCHANGED <<localVars, serverVars, handler, todo, cur, reply, snap, got>>

\* Mutant: only rows that are already here are refreshed.
RereadKnown(p) ==
  LET mine == GetScores(DeviceOf[p]) IN
  /\ pc[p] = "reread"
  /\ snap' = [snap EXCEPT ![p] = mine]
  /\ todo' = [todo EXCEPT ![p] =
       {s \in Score : Listed(p, s) /\ mine[s].st = "live" /\ ~mine[s].clean}]
  /\ pc' = [pc EXCEPT ![p] = "pull"]
  /\ UNCHANGED <<localVars, serverVars, handler, cur, reply, remote, got>>

\* GetScores again; what is listed and missing here, or differs, is pulled.
Reread(p) ==
  LET mine == GetScores(DeviceOf[p]) IN
  /\ pc[p] = "reread"
  /\ snap' = [snap EXCEPT ![p] = mine]
  /\ todo' = [todo EXCEPT ![p] = {s \in Score : Listed(p, s) /\ ~mine[s].clean}]
  /\ pc' = [pc EXCEPT ![p] = "pull"]
  /\ UNCHANGED <<localVars, serverVars, handler, cur, reply, remote, got>>

\* The stream cannot be opened, or the file cannot be created.
SkipDownload(p, s) ==
  /\ pc[p] = "pull" /\ s \in todo[p]
  /\ todo' = [todo EXCEPT ![p] = @ \ {s}]
  /\ UNCHANGED <<localVars, serverVars, handler, pc, cur, reply, remote, snap, got>>

\* DownloadScore: what a receiver may hold when the stream ends, in EOF
\* after the whole object or in an error before.
Streamed(s) == {"part"} \cup (IF row[s] = "live" THEN {object[s]} \ {"none"} ELSE {})

\* os.Create empties the file, under any other pass still writing it.
OpenDownload(p, s) ==
  LET d == DeviceOf[p] IN
  /\ pc[p] = "pull" /\ s \in todo[p]
  /\ pc' = [pc EXCEPT ![p] = "download"]
  /\ todo' = [todo EXCEPT ![p] = @ \ {s}]
  /\ cur' = [cur EXCEPT ![p] = s]
  /\ file' = [file EXCEPT ![d][s] = "part"]
  /\ \E end \in Streamed(s) :
       got' = [q \in Pass |-> IF q = p THEN end
                              ELSE IF DeviceOf[q] = d /\ cur[q] = s THEN "none"
                              ELSE got[q]]
  /\ UNCHANGED <<origin, local, trashed, serverVars, handler, reply, remote, snap>>

\* Whatever ended the stream, the row gets the listed name and checksum.  A
\* file unlinked or emptied by another pass meanwhile keeps its state.
FinishDownload(p) ==
  LET d == DeviceOf[p]
      s == cur[p]
  IN
  /\ pc[p] = "download"
  /\ SyncScoreFromServer(d, s, remote[p][s])
  /\ file' = [file EXCEPT ![d][s] = IF @ = "none" \/ got[p] = "none" THEN @ ELSE got[p]]
  /\ pc' = [pc EXCEPT ![p] = "pull"]
  /\ cur' = [cur EXCEPT ![p] = NoScore]
  /\ got' = [got EXCEPT ![p] = "none"]
  /\ UNCHANGED <<origin, trashed, serverVars, handler, todo, reply, remote, snap>>

\* Mutants: the test of the checksum is missing, or the wrong way round.
BeginPruneAll(p) ==
  /\ pc[p] = "pull" /\ todo[p] = {}
  /\ todo' = [todo EXCEPT ![p] = {s \in Score : snap[p][s].st = "live" /\ ~Listed(p, s)}]
  /\ pc' = [pc EXCEPT ![p] = "prune"]
  /\ UNCHANGED <<localVars, serverVars, handler, cur, reply, remote, snap, got>>

BeginPruneDirty(p) ==
  /\ pc[p] = "pull" /\ todo[p] = {}
  /\ todo' = [todo EXCEPT ![p] =
       {s \in Score : snap[p][s].st = "live" /\ ~snap[p][s].clean /\ ~Listed(p, s)}]
  /\ pc' = [pc EXCEPT ![p] = "prune"]
  /\ UNCHANGED <<localVars, serverVars, handler, cur, reply, remote, snap, got>>

\* The last loop: clean rows of the snapshot that the list does not have.
BeginPrune(p) ==
  /\ pc[p] = "pull" /\ todo[p] = {}
  /\ todo' = [todo EXCEPT ![p] = {s \in Score : snap[p][s].clean /\ ~Listed(p, s)}]
  /\ pc' = [pc EXCEPT ![p] = "prune"]
  /\ UNCHANGED <<localVars, serverVars, handler, cur, reply, remote, snap, got>>

Prune(p, s) ==
  /\ pc[p] = "prune" /\ s \in todo[p]
  /\ HardDeleteScore(DeviceOf[p], s)
  /\ todo' = [todo EXCEPT ![p] = @ \ {s}]
  /\ UNCHANGED <<origin, trashed, serverVars, handler, pc, cur, reply, remote, snap, got>>

EndPass(p) ==
  /\ pc[p] = "prune" /\ todo[p] = {}
  /\ Return(p)
  /\ UNCHANGED <<localVars, serverVars, handler>>

-----------------------------------------------------------------------------

User ==
  \E d \in Device, s \in Score :
    \/ \E t \in Title : AddScore(d, s, t) \/ RenameScore(d, s, t)
    \/ MarkScoreDeleted(d, s)

ServerStep(h) ==
  \/ RejectUpload(h) \/ PutObject(h) \/ InsertRow(h) \/ InsertFails(h)
  \/ ReadRow(h) \/ SaveRow(h)
  \/ RemoveObject(h) \/ SoftDelete(h)
  \/ NotFound(h) \/ HandlerFails(h)

SyncStep(p) ==
  \/ Start(p) \/ DeleteReturns(p) \/ FirstList(p) \/ ReadLocal(p)
  \/ UpdateReturns(p) \/ CreateReturns(p) \/ SecondList(p) \/ Reread(p)
  \/ FinishDownload(p) \/ BeginPrune(p) \/ EndPass(p)
  \/ ListFails(p) \/ GiveUp(p) \/ Abort(p)
  \/ \E s \in Score :
       \/ SendDelete(p, s) \/ SendUpdate(p, s) \/ SendCreate(p, s)
       \/ SkipCreate(p, s) \/ SkipDownload(p, s) \/ OpenDownload(p, s)
       \/ Prune(p, s)

Next == User \/ (\E h \in Handler : ServerStep(h)) \/ \E p \in Pass : SyncStep(p)

Spec == Init /\ [][Next]_vars

-----------------------------------------------------------------------------
(* Safety *)

\* A row marked as synced carries a title the server's row has really had:
\* no edit is taken for synced without having been sent, whatever calls were
\* lost, orphaned or overtaken (score_sync.go:61, :92, :158).
SyncedTitleWasServed ==
  \A d \in Device, s \in Score : local[d][s].clean => local[d][s].title \in served[s]

\* Until the server has stored a score, the device it was added on keeps its
\* row and its whole PDF, unless the user deleted it there or the upload is
\* one the server rejects: no pass removes or truncates the only copy.
NeverUploadedIsKept ==
  \A s \in Valid : origin[s] # Nobody /\ row[s] = "none" /\ s \notin trashed =>
    local[origin[s]][s].st = "live" /\ file[origin[s]][s] = "full"

\* The server soft-deletes a score only if a user confirmed deleting it: no
\* race of passes, retries or late handlers makes it up (score_sync.go:26).
DeletedByUserOnly ==
  \A s \in Score : row[s] = "gone" => s \in trashed

\* The three are not inductive.  What they rest on: the history of the
\* server's rows, ...
Recorded ==
  \A s \in Score : /\ row[s] = "none" => served[s] = {}
                   /\ row[s] = "live" => name[s] \in served[s]

\* ... what the devices hold, ...
Held ==
  \A d \in Device, s \in Score :
    /\ local[d][s].st = "tomb" => s \in trashed
    /\ file[d][s] = "part" => row[s] # "none"

\* ... what a pass remembers, which the server and the database may have
\* moved on from, ...
RememberedBy(p) ==
  /\ \A s \in Score : /\ Listed(p, s) => remote[p][s] \in served[s]
                      /\ snap[p][s].clean => snap[p][s].title \in served[s]
  /\ pc[p] \in {"tombs", "deleting"} => todo[p] \subseteq trashed
  /\ pc[p] = "deleting" => cur[p] \in trashed
  /\ pc[p] \in {"pull", "download"} => \A s \in todo[p] : Listed(p, s)
  /\ pc[p] = "download" => Listed(p, cur[p])
  /\ pc[p] = "prune" => \A s \in todo[p] : row[s] # "none"
  /\ pc[p] \in {"updating", "creating"} /\ reply[p] = "ok" =>
       snap[p][cur[p]].title \in served[cur[p]]
  /\ pc[p] = "creating" /\ reply[p] = "invalid" /\ cur[p] \in Valid =>
       row[cur[p]] # "none"

\* ... and what a handler works on, ...
InHand(h) ==
  LET c == handler[h] IN
  /\ c.at = "idle" => c = Idle
  /\ c.at # "idle" => c.score \in Score
  /\ c.at \in {"save", "softDelete"} => row[c.score] # "none"
  /\ c.at \in {"remove", "softDelete"} => c.score \in trashed
  /\ c.at = "put" => c.data = "full" \/ (c.data = "part" /\ row[c.score] # "none")

\* ... for a caller that still waits for it, or for nobody.
Caller(h) ==
  LET c == handler[h] IN
  c.by # Nobody =>
    /\ reply[c.by] = "none" /\ cur[c.by] = c.score
    /\ c.at \in {"remove", "softDelete"} => pc[c.by] = "deleting"
    /\ c.at \in {"put", "insert"} => pc[c.by] = "creating"
    /\ c.at \in {"read", "save"} => pc[c.by] = "updating"
    /\ c.at \in {"put", "insert", "read", "save"} => c.title = snap[c.by][c.score].title
    /\ \A g \in Handler : handler[g].by = c.by => g = h

IInv ==
  /\ TypeOK /\ Recorded /\ Held
  /\ \A p \in Pass : RememberedBy(p)
  /\ \A h \in Handler : InHand(h) /\ Caller(h)
  /\ SyncedTitleWasServed /\ NeverUploadedIsKept /\ DeletedByUserOnly

\* A score whose upload the server acknowledged with "Score uploaded
\* successfully" (score_service.go:102) can be downloaded as long as no user
\* deletes it.
UploadedScoreHasFile ==
  \A s \in Score : row[s] = "live" /\ s \notin trashed => object[s] # "none"

-----------------------------------------------------------------------------
(* Liveness.  The background loop starts passes for ever (main.go:248) and  *)
(* a goroutine that can run does; calls that fail are retried by the next   *)
(* pass, so the network, the database and the bucket have to work at last.  *)
(* The user need not do anything.  That gRPC refuses what is too large for  *)
(* it is not a fault: it always does.                                       *)

Conflict(h) == handler[h].at = "insert" /\ row[handler[h].score] # "none"

PassFault(p) ==
  \/ GiveUp(p) \/ ListFails(p) \/ (Abort(p) /\ ~EndPass(p))
  \/ \E s \in Score :
       \/ SkipDownload(p, s)
       \/ (SendDelete(p, s) \/ SendUpdate(p, s)) /\ Lost(p)
       \/ s \in Receivable /\ SendCreate(p, s) /\ Lost(p)

HandlerFault(h) == (HandlerFails(h) \/ InsertFails(h)) /\ ~NotFound(h) /\ ~Conflict(h)

Fault == (\E p \in Pass : PassFault(p)) \/ (\E h \in Handler : HandlerFault(h))

FairSpec ==
  /\ Spec
  /\ \A p \in Pass : WF_vars(SyncStep(p))
  /\ \A h \in Handler : WF_vars(ServerStep(h))
  /\ <>[][~Fault]_vars

\* What the server can receive and accepts; it never has a row of another score.
Uploadable == Valid \cap Receivable

\* A new score that it accepts reaches the server, unless its user deletes it
\* first.
NewScoreIsUploaded ==
  \A s \in Uploadable : origin[s] # Nobody ~> (row[s] # "none" \/ s \in trashed)

\* A stored score reaches every device, unless it is deleted.
StoredScoreArrives ==
  \A d \in Device, s \in Uploadable :
    row[s] = "live" ~> (local[d][s].st # "none" \/ row[s] = "gone")

\* A deletion reaches every device that has not edited the score itself.
DeletionArrives ==
  \A d \in Device, s \in Uploadable :
    row[s] = "gone" ~> (~local[d][s].clean \/ row[s] = "live")

=============================================================================
