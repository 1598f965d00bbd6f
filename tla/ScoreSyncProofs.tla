-------------------------- MODULE ScoreSyncProofs --------------------------
(***************************************************************************)
(* Theorems about ScoreSync, for any number of devices, passes, scores,    *)
(* titles and server handlers.                                             *)
(***************************************************************************)
EXTENDS ScoreCalm, TLAPS

USE ScoreSyncAssumption

-----------------------------------------------------------------------------
(* Typing of the values the actions write *)

\* A row built from typed parts is typed.
LEMMA RowType ==
  ASSUME NEW x \in {"none", "live", "tomb"}, NEW t \in Title \cup {NoTitle},
         NEW c \in BOOLEAN
  PROVE  Row(x, t, c) \in LocalRow
BY DEF Row, LocalRow

\* The fields of a typed row.
LEMMA RowFields ==
  ASSUME NEW r \in LocalRow
  PROVE  /\ r.st \in {"none", "live", "tomb"}
         /\ r.title \in Title \cup {NoTitle}
         /\ r.clean \in BOOLEAN
BY DEF LocalRow

\* The row of a score that is not on the device.
LEMMA NoRowType == NoRow \in LocalRow
BY RowType DEF NoRow

\* Writing one typed row of one device keeps the database typed.
LEMMA LocalType ==
  ASSUME TypeOK, NEW d \in Device, NEW s \in Score, NEW r \in LocalRow
  PROVE  [local EXCEPT ![d][s] = r] \in [Device -> [Score -> LocalRow]]
BY DEF TypeOK

\* Writing one file of one device keeps the files typed.
LEMMA FileType ==
  ASSUME TypeOK, NEW d \in Device, NEW s \in Score, NEW f \in File
  PROVE  [file EXCEPT ![d][s] = f] \in [Device -> [Score -> File]]
BY DEF TypeOK

\* What GetScores returns is a typed snapshot.
LEMMA GetScoresType ==
  ASSUME TypeOK, NEW d \in Device
  PROVE  GetScores(d) \in [Score -> LocalRow]
BY NoRowType DEF TypeOK, GetScores

\* HardDeleteScore leaves the database and the files typed.
LEMMA HardDeleteType ==
  ASSUME TypeOK, NEW d \in Device, NEW s \in Score, HardDeleteScore(d, s)
  PROVE  /\ local' \in [Device -> [Score -> LocalRow]]
         /\ file' \in [Device -> [Score -> File]]
<1>1. local' \in [Device -> [Score -> LocalRow]]
  BY LocalType, NoRowType DEF HardDeleteScore
<1>2. file' \in [Device -> [Score -> File]]
  BY DEF HardDeleteScore, TypeOK, File
<1> QED BY <1>1, <1>2

\* SyncScoreFromServer with a typed title leaves the database typed.
LEMMA SyncType ==
  ASSUME TypeOK, NEW d \in Device, NEW s \in Score,
         NEW t \in Title \cup {NoTitle}, SyncScoreFromServer(d, s, t)
  PROVE  local' \in [Device -> [Score -> LocalRow]]
BY LocalType, RowType DEF SyncScoreFromServer

\* A handler that takes up a call is typed, and so is an idle one.
LEMMA CallType ==
  /\ Idle \in Call
  /\ \A at \in {"put", "read", "remove"}, s \in Score, t \in Title \cup {NoTitle},
        f \in File, p \in Pass :
        [at |-> at, score |-> s, title |-> t, data |-> f, by |-> p] \in Call
BY DEF Idle, Call, File

\* Answering keeps handlers and replies typed.
LEMMA AnswerType ==
  ASSUME TypeOK, NEW h \in Handler, NEW r \in {"ok", "invalid", "error"}, Answer(h, r)
  PROVE  /\ handler' \in [Handler -> Call]
         /\ reply' \in [Pass -> {"none", "ok", "invalid", "error"}]
BY CallType DEF TypeOK, Answer

\* So does sending a call.
LEMMA SendType ==
  ASSUME TypeOK, NEW p \in Pass, NEW at \in {"put", "read", "remove"}, NEW s \in Score,
         NEW t \in Title \cup {NoTitle}, NEW f \in File,
         Lost(p) \/ Delivered(p, at, s, t, f)
  PROVE  /\ handler' \in [Handler -> Call]
         /\ reply' \in [Pass -> {"none", "ok", "invalid", "error"}]
<1>1. CASE Lost(p)  BY <1>1 DEF TypeOK, Lost
<1>2. CASE Delivered(p, at, s, t, f)  BY <1>2, CallType DEF TypeOK, Delivered
<1> QED BY <1>1, <1>2

\* A handler keeps its type when its caller leaves.
LEMMA OrphanType ==
  ASSUME TypeOK, NEW p \in Pass, Orphan(p)
  PROVE  handler' \in [Handler -> Call]
<1>1. ASSUME NEW c \in Call PROVE [c EXCEPT !.by = Nobody] \in Call
  BY DEF Call
<1> QED BY <1>1 DEF TypeOK, Orphan

\* A handler that moves on to its next stage keeps its type.
LEMMA StageType ==
  ASSUME TypeOK, NEW h \in Handler, NEW at \in {"insert", "save", "softDelete"}
  PROVE  [handler EXCEPT ![h].at = at] \in [Handler -> Call]
<1>1. ASSUME NEW c \in Call PROVE [c EXCEPT !.at = at] \in Call
  BY DEF Call
<1> QED BY <1>1 DEF TypeOK

\* The fields of the call a handler works on.
LEMMA CallFields ==
  ASSUME NEW c \in Call
  PROVE  /\ c.score \in Score \cup {NoScore}
         /\ c.title \in Title \cup {NoTitle}
         /\ c.data \in File
         /\ c.by \in Pass \cup {Nobody}
BY DEF Call

-----------------------------------------------------------------------------
(* Type correctness *)

\* Every initial state is typed.
LEMMA TypeInitial == Init => TypeOK
BY NoRowType, CallType DEF Init, TypeOK, File, Stages, Waiting

\* The user's actions keep the types.
LEMMA TypeUser == ASSUME TypeOK, User PROVE TypeOK'
<1> USE DEF TypeOK, serverVars, passVars
<1>1. ASSUME NEW d \in Device, NEW s \in Score, NEW t \in Title, AddScore(d, s, t)
      PROVE  TypeOK'
  <2>1. local' \in [Device -> [Score -> LocalRow]]
    BY <1>1, LocalType, RowType DEF AddScore
  <2>2. file' \in [Device -> [Score -> File]]
    BY <1>1, FileType DEF AddScore, File
  <2> QED BY <1>1, <2>1, <2>2 DEF AddScore
<1>2. ASSUME NEW d \in Device, NEW s \in Score, NEW t \in Title, RenameScore(d, s, t)
      PROVE  TypeOK'
  <2>1. local' \in [Device -> [Score -> LocalRow]]
    BY <1>2, LocalType, RowType DEF RenameScore
  <2> QED BY <1>2, <2>1 DEF RenameScore
<1>3. ASSUME NEW d \in Device, NEW s \in Score, MarkScoreDeleted(d, s)
      PROVE  TypeOK'
  <2>0. local[d][s] \in LocalRow
    OBVIOUS
  <2>1. Row("tomb", local[d][s].title, FALSE) \in LocalRow
    BY <2>0, RowType, RowFields
  <2>2. local' = [local EXCEPT ![d][s] = Row("tomb", local[d][s].title, FALSE)]
    BY <1>3 DEF MarkScoreDeleted
  <2>3. local' \in [Device -> [Score -> LocalRow]]
    BY <2>1, <2>2, LocalType
  <2> QED BY <1>3, <2>3 DEF MarkScoreDeleted
<1> QED BY <1>1, <1>2, <1>3 DEF User

\* So do the server's.
LEMMA TypeServer == ASSUME TypeOK, NEW h \in Handler, ServerStep(h) PROVE TypeOK'
<1> USE DEF TypeOK, localVars, serverVars, passVars
<1>f. handler[h] \in Call
  OBVIOUS
<1>1. CASE RejectUpload(h)  BY <1>1, AnswerType DEF RejectUpload
<1>2. CASE PutObject(h)     BY <1>2, <1>f, CallFields, StageType DEF PutObject
<1>3. CASE InsertRow(h)
  <2>1. served' \in [Score -> SUBSET (Title \cup {NoTitle})]
    BY <1>3, <1>f, CallFields DEF InsertRow
  <2>2. row' \in [Score -> {"none", "live", "gone"}] /\ name' \in [Score -> Title \cup {NoTitle}]
    BY <1>3, <1>f, CallFields DEF InsertRow
  <2> QED BY <1>3, <2>1, <2>2, AnswerType DEF InsertRow
<1>4. CASE InsertFails(h)
  <2>1. object' \in [Score -> File]
    BY <1>4 DEF InsertFails, File
  <2> QED BY <1>4, <2>1, AnswerType DEF InsertFails
<1>5. CASE ReadRow(h)       BY <1>5, StageType DEF ReadRow
<1>6. CASE SaveRow(h)
  <2>1. served' \in [Score -> SUBSET (Title \cup {NoTitle})]
    BY <1>6, <1>f, CallFields DEF SaveRow
  <2>2. row' \in [Score -> {"none", "live", "gone"}] /\ name' \in [Score -> Title \cup {NoTitle}]
    BY <1>6, <1>f, CallFields DEF SaveRow
  <2> QED BY <1>6, <2>1, <2>2, AnswerType DEF SaveRow
<1>7. CASE RemoveObject(h)
  <2>1. object' \in [Score -> File]
    BY <1>7 DEF RemoveObject, File
  <2> QED BY <1>7, <2>1, StageType DEF RemoveObject
<1>8. CASE SoftDelete(h)    BY <1>8, AnswerType DEF SoftDelete
<1>9. CASE NotFound(h)      BY <1>9, AnswerType DEF NotFound
<1>10. CASE HandlerFails(h) BY <1>10, AnswerType DEF HandlerFails
<1> QED
  BY <1>1, <1>2, <1>3, <1>4, <1>5, <1>6, <1>7, <1>8, <1>9, <1>10 DEF ServerStep

\* So do the steps of a pass.
LEMMA TypePass == ASSUME TypeOK, NEW p \in Pass, SyncStep(p) PROVE TypeOK'
<1> USE DEF TypeOK, localVars, serverVars, passVars, Stages, Waiting
<1>d. DeviceOf[p] \in Device
  OBVIOUS
<1>r. ASSUME Return(p) PROVE
        /\ pc' \in [Pass -> Stages] /\ todo' \in [Pass -> SUBSET Score]
        /\ cur' \in [Pass -> Score \cup {NoScore}]
        /\ \A q \in Pass : pc'[q] \in Waiting \cup {"download"} => cur'[q] \in Score
        /\ reply' \in [Pass -> {"none", "ok", "invalid", "error"}]
        /\ remote' \in [Pass -> [Score -> Title \cup {NoTitle}]]
        /\ snap' \in [Pass -> [Score -> LocalRow]] /\ got' \in [Pass -> File]
  BY <1>r, NoRowType DEF Return, File
<1>s. ASSUME NEW s \in Score PROVE snap[p][s].title \in Title \cup {NoTitle}
  <2>1. snap[p][s] \in LocalRow
    OBVIOUS
  <2> QED BY <2>1, RowFields
<1>1. CASE Start(p)           BY <1>1 DEF Start, GetDeletedScoreIDs
<1>2. CASE DeleteReturns(p)
  <2>1. cur[p] \in Score
    BY <1>2 DEF DeleteReturns, Returned
  <2>2. local' \in [Device -> [Score -> LocalRow]] /\ file' \in [Device -> [Score -> File]]
    BY <1>2, <1>d, <2>1, HardDeleteType DEF DeleteReturns
  <2> QED BY <1>2, <2>2 DEF DeleteReturns, Returned
<1>3. CASE FirstList(p)       BY <1>3 DEF FirstList, ListMyScores
<1>4. CASE ReadLocal(p)       BY <1>4, <1>d, GetScoresType DEF ReadLocal
<1>5. CASE UpdateReturns(p)
  <2>1. cur[p] \in Score
    BY <1>5 DEF UpdateReturns, Returned
  <2>2. local' \in [Device -> [Score -> LocalRow]]
    BY <1>5, <1>d, <1>s, <2>1, SyncType DEF UpdateReturns
  <2> QED BY <1>5, <2>2 DEF UpdateReturns, Returned
<1>6. CASE CreateReturns(p)
  <2>1. cur[p] \in Score
    BY <1>6 DEF CreateReturns, Returned
  <2>2. local' \in [Device -> [Score -> LocalRow]] /\ file' \in [Device -> [Score -> File]]
    <3>1. CASE reply[p] = "ok"
      BY <1>6, <1>d, <1>s, <2>1, <3>1, SyncType DEF CreateReturns
    <3>2. CASE reply[p] = "invalid"
      BY <1>6, <1>d, <2>1, <3>2, HardDeleteType DEF CreateReturns
    <3>3. CASE reply[p] \notin {"ok", "invalid"}
      BY <1>6, <3>3 DEF CreateReturns
    <3> QED BY <3>1, <3>2, <3>3
  <2> QED BY <1>6, <2>2 DEF CreateReturns, Returned
<1>7. CASE SecondList(p)      BY <1>7 DEF SecondList, ListMyScores
<1>8. CASE Reread(p)          BY <1>8, <1>d, GetScoresType DEF Reread
<1>9. CASE FinishDownload(p)
  <2>1. cur[p] \in Score
    BY <1>9 DEF FinishDownload
  <2>2. local' \in [Device -> [Score -> LocalRow]]
    BY <1>9, <1>d, <2>1, SyncType DEF FinishDownload
  <2>3. file' \in [Device -> [Score -> File]]
    <3> DEFINE old == file[DeviceOf[p]][cur[p]]
               new == IF old = "none" \/ got[p] = "none" THEN old ELSE got[p]
    <3>1. file' = [file EXCEPT ![DeviceOf[p]][cur[p]] = new]
      BY <1>9 DEF FinishDownload
    <3>2. new \in File
      BY <1>d, <2>1
    <3> QED BY <1>d, <2>1, <3>1, <3>2, FileType
  <2> QED BY <1>9, <2>2, <2>3 DEF FinishDownload, File
<1>10. CASE BeginPrune(p)     BY <1>10 DEF BeginPrune
<1>11. CASE EndPass(p)        BY <1>11, <1>r DEF EndPass
<1>12. CASE ListFails(p)      BY <1>12, <1>r DEF ListFails
<1>13. CASE GiveUp(p)         BY <1>13, OrphanType DEF GiveUp
<1>14. CASE Abort(p)          BY <1>14, <1>r, OrphanType DEF Abort
<1>15. ASSUME NEW s \in Score, SendDelete(p, s) PROVE TypeOK'
  <2>1. handler' \in [Handler -> Call] /\ reply' \in [Pass -> {"none", "ok", "invalid", "error"}]
    BY <1>15, SendType DEF SendDelete, File
  <2> QED BY <1>15, <2>1 DEF SendDelete, Request
<1>16. ASSUME NEW s \in Score, SendUpdate(p, s) PROVE TypeOK'
  <2>1. handler' \in [Handler -> Call] /\ reply' \in [Pass -> {"none", "ok", "invalid", "error"}]
    BY <1>16, <1>s, SendType DEF SendUpdate, File
  <2> QED BY <1>16, <2>1 DEF SendUpdate, Request
<1>17. ASSUME NEW s \in Score, SendCreate(p, s) PROVE TypeOK'
  <2>0. file[DeviceOf[p]][s] \in File
    BY <1>d
  <2>1. handler' \in [Handler -> Call] /\ reply' \in [Pass -> {"none", "ok", "invalid", "error"}]
    BY <1>17, <1>s, <2>0, SendType DEF SendCreate
  <2> QED BY <1>17, <2>1 DEF SendCreate, Request
<1>18. ASSUME NEW s \in Score, SkipCreate(p, s) PROVE TypeOK'
  BY <1>18 DEF SkipCreate
<1>19. ASSUME NEW s \in Score, SkipDownload(p, s) PROVE TypeOK'
  BY <1>19 DEF SkipDownload
<1>20. ASSUME NEW s \in Score, OpenDownload(p, s) PROVE TypeOK'
  <2>1. file' \in [Device -> [Score -> File]]
    BY <1>20, <1>d, FileType DEF OpenDownload, File
  <2>2. got' \in [Pass -> File]
    <3>1. Streamed(s) \subseteq File
      BY DEF Streamed, File
    <3>2. PICK end \in Streamed(s) :
            got' = [q \in Pass |-> IF q = p THEN end
                                   ELSE IF DeviceOf[q] = DeviceOf[p] /\ cur[q] = s THEN "none"
                                   ELSE got[q]]
      BY <1>20 DEF OpenDownload
    <3> QED BY <3>1, <3>2 DEF File
  <2> QED BY <1>20, <2>1, <2>2 DEF OpenDownload
<1>21. ASSUME NEW s \in Score, Prune(p, s) PROVE TypeOK'
  BY <1>21, <1>d, HardDeleteType DEF Prune
<1> QED
  BY <1>1, <1>2, <1>3, <1>4, <1>5, <1>6, <1>7, <1>8, <1>9, <1>10, <1>11,
     <1>12, <1>13, <1>14, <1>15, <1>16, <1>17, <1>18, <1>19, <1>20, <1>21 DEF SyncStep

\* Type correctness for every instance: no interleaving of users, passes and
\* server handlers writes a value of the wrong type anywhere.
THEOREM TypeCorrect == Spec => []TypeOK
<1>1. TypeOK /\ [Next]_vars => TypeOK'
  <2> SUFFICES ASSUME TypeOK, [Next]_vars PROVE TypeOK'
    OBVIOUS
  <2>1. CASE User
    BY <2>1, TypeUser
  <2>2. ASSUME NEW h \in Handler, ServerStep(h) PROVE TypeOK'
    BY <2>2, TypeServer
  <2>3. ASSUME NEW p \in Pass, SyncStep(p) PROVE TypeOK'
    BY <2>3, TypePass
  <2>4. CASE UNCHANGED vars
    BY <2>4 DEF vars, localVars, serverVars, passVars, TypeOK
  <2> QED BY <2>1, <2>2, <2>3, <2>4 DEF Next
<1> QED BY <1>1, TypeInitial, PTL DEF Spec

-----------------------------------------------------------------------------
(* The inductive invariant *)

\* Every initial state satisfies it.
LEMMA InvInitial == Init => IInv
<1> SUFFICES ASSUME Init PROVE IInv
  OBVIOUS
<1>1. Recorded /\ Held /\ SyncedTitleWasServed /\ NeverUploadedIsKept /\ DeletedByUserOnly
  BY DEF Init, Recorded, Held, SyncedTitleWasServed, NeverUploadedIsKept,
         DeletedByUserOnly, NoRow, Row
<1>2. ASSUME NEW p \in Pass PROVE RememberedBy(p)
  BY DEF Init, RememberedBy, Listed, NoRow, Row
<1>3. ASSUME NEW h \in Handler PROVE InHand(h) /\ Caller(h)
  BY DEF Init, InHand, Caller, Idle
<1> QED BY <1>1, <1>2, <1>3, TypeInitial DEF IInv

\* What a pass remembers outlives any step of others: rows are never
\* forgotten, names stay in the history and deletions stay confirmed.
LEMMA RememberedFrame ==
  ASSUME NEW p \in Pass, RememberedBy(p), TypeOK,
         pc'[p] = pc[p], todo'[p] = todo[p], cur'[p] = cur[p], reply'[p] = reply[p],
         remote'[p] = remote[p], snap'[p] = snap[p], trashed \subseteq trashed',
         \A s \in Score : served[s] \subseteq served'[s],
         \A s \in Score : row[s] # "none" => row'[s] # "none"
  PROVE  RememberedBy(p)'
BY DEF RememberedBy, Listed, TypeOK, Waiting

\* The user's actions.
LEMMA InvUser == ASSUME IInv, User, TypeOK' PROVE IInv'
<1> USE DEF serverVars, passVars
<1>0. TypeOK /\ UNCHANGED <<serverVars, handler, passVars>>
  BY DEF IInv, User, AddScore, RenameScore, MarkScoreDeleted
<1>1. Recorded'
  BY <1>0 DEF IInv, Recorded
<1>2. trashed \subseteq trashed'
  BY DEF User, AddScore, RenameScore, MarkScoreDeleted
<1>3. ASSUME NEW p \in Pass PROVE RememberedBy(p)'
  BY <1>0, <1>2, RememberedFrame DEF IInv
<1>4. ASSUME NEW h \in Handler PROVE (InHand(h) /\ Caller(h))'
  BY <1>0, <1>2 DEF IInv, InHand, Caller
<1>5. DeletedByUserOnly'
  BY <1>0, <1>2 DEF IInv, DeletedByUserOnly
<1>6. ASSUME NEW d \in Device, NEW s \in Score, NEW t \in Title,
             AddScore(d, s, t) \/ RenameScore(d, s, t)
      PROVE  (Held /\ SyncedTitleWasServed /\ NeverUploadedIsKept)'
  <2>1. local' = [local EXCEPT ![d][s] = Row("live", t, FALSE)]
    BY <1>6 DEF AddScore, RenameScore
  <2>2. /\ local'[d][s].st = "live" /\ ~local'[d][s].clean
        /\ \A e \in Device, r \in Score :
             e # d \/ r # s => local'[e][r] = local[e][r]
    BY <1>0, <2>1 DEF TypeOK, Row
  <2>3. /\ \A e \in Device, r \in Score : file'[e][r] # file[e][r] => file'[e][r] = "full"
        /\ \A r \in Score : origin'[r] # origin[r] =>
             r = s /\ origin'[r] = d /\ file'[d][r] = "full"
        /\ trashed' = trashed
    <3>1. CASE AddScore(d, s, t)
      <4>1. origin' = [origin EXCEPT ![s] = d] /\ trashed' = trashed
        BY <3>1 DEF AddScore
      <4>2. file' = [file EXCEPT ![d][s] = "full"]
        BY <3>1 DEF AddScore
      <4> QED BY <1>0, <4>1, <4>2 DEF TypeOK
    <3>2. CASE RenameScore(d, s, t)
      BY <3>2 DEF RenameScore
    <3> QED BY <1>6, <3>1, <3>2
  <2>4. Held'
    BY <1>0, <2>2, <2>3 DEF Held, IInv
  <2>5. SyncedTitleWasServed'
    BY <1>0, <2>2 DEF SyncedTitleWasServed, IInv
  <2>6. NeverUploadedIsKept'
    BY <1>0, <2>2, <2>3 DEF NeverUploadedIsKept, IInv, TypeOK
  <2> QED BY <2>4, <2>5, <2>6
<1>7. ASSUME NEW d \in Device, NEW s \in Score, MarkScoreDeleted(d, s)
      PROVE  (Held /\ SyncedTitleWasServed /\ NeverUploadedIsKept)'
  <2>1. local' = [local EXCEPT ![d][s] = Row("tomb", local[d][s].title, FALSE)]
    BY <1>7 DEF MarkScoreDeleted
  <2>2. /\ local'[d][s].st = "tomb" /\ ~local'[d][s].clean
        /\ \A e \in Device, r \in Score :
             e # d \/ r # s => local'[e][r] = local[e][r]
    BY <1>0, <2>1 DEF TypeOK, Row
  <2>3. file' = file /\ origin' = origin /\ trashed' = trashed \cup {s}
    BY <1>7 DEF MarkScoreDeleted
  <2>4. Held'
    BY <1>0, <2>2, <2>3 DEF Held, IInv
  <2>5. SyncedTitleWasServed'
    BY <1>0, <2>2 DEF SyncedTitleWasServed, IInv
  <2>6. NeverUploadedIsKept'
    BY <1>0, <2>2, <2>3 DEF NeverUploadedIsKept, IInv, TypeOK
  <2> QED BY <2>4, <2>5, <2>6
<1> QED BY <1>1, <1>3, <1>4, <1>5, <1>6, <1>7 DEF IInv, User

\* What every step of the server leaves alone, and what it only adds to.
LEMMA ServerFrame ==
  ASSUME TypeOK, NEW h \in Handler, ServerStep(h)
  PROVE  /\ UNCHANGED <<origin, local, file, trashed, pc, todo, cur, remote, snap, got>>
         /\ \A s \in Score : served[s] \subseteq served'[s]
         /\ \A s \in Score : row[s] # "none" => row'[s] # "none"
<1> USE DEF TypeOK, localVars, serverVars, passVars
<1>1. CASE RejectUpload(h)  BY <1>1 DEF RejectUpload
<1>2. CASE PutObject(h)     BY <1>2 DEF PutObject
<1>3. CASE InsertRow(h)     BY <1>3 DEF InsertRow
<1>4. CASE InsertFails(h)   BY <1>4 DEF InsertFails
<1>5. CASE ReadRow(h)       BY <1>5 DEF ReadRow
<1>6. CASE SaveRow(h)       BY <1>6 DEF SaveRow
<1>7. CASE RemoveObject(h)  BY <1>7 DEF RemoveObject
<1>8. CASE SoftDelete(h)    BY <1>8 DEF SoftDelete
<1>9. CASE NotFound(h)      BY <1>9 DEF NotFound
<1>10. CASE HandlerFails(h) BY <1>10 DEF HandlerFails
<1> QED
  BY <1>1, <1>2, <1>3, <1>4, <1>5, <1>6, <1>7, <1>8, <1>9, <1>10 DEF ServerStep

\* An answer leaves every other handler with its caller, and the answered
\* pass is the one that waited for it.
LEMMA AnswerHand ==
  ASSUME IInv, NEW h \in Handler, NEW r, Answer(h, r),
         UNCHANGED <<pc, cur, snap, trashed>>,
         \A s \in Score : row[s] # "none" => row'[s] # "none"
  PROVE  /\ \A g \in Handler : (InHand(g) /\ Caller(g))'
         /\ \A p \in Pass : reply'[p] # reply[p] => handler[h].by = p /\ reply'[p] = r
<1>0. TypeOK /\ \A g \in Handler : InHand(g) /\ Caller(g)
  BY DEF IInv
<1>1. /\ handler'[h] = Idle
      /\ \A g \in Handler : g # h => handler'[g] = handler[g]
  BY <1>0 DEF Answer, TypeOK
<1>2. \A p \in Pass : reply'[p] # reply[p] => handler[h].by = p /\ reply'[p] = r
  BY <1>0 DEF Answer, TypeOK
<1>3. InHand(h)' /\ Caller(h)'
  BY <1>1 DEF InHand, Caller, Idle
<1>4. ASSUME NEW g \in Handler, g # h PROVE InHand(g)' /\ Caller(g)'
  <2>1. handler[g] \in Call /\ handler'[g] = handler[g]
    BY <1>0, <1>1, <1>4 DEF TypeOK
  <2>2. InHand(g)'
    BY <1>0, <2>1 DEF InHand
  <2>3. ASSUME handler[g].by # Nobody PROVE reply'[handler[g].by] = reply[handler[g].by]
    BY <1>0, <1>2, <1>4, <2>1, <2>3, CallFields DEF Caller
  <2>4. ASSUME NEW k \in Handler, handler[g].by # Nobody, handler'[k].by = handler[g].by
        PROVE  k = g
    BY <1>0, <1>1, <2>4 DEF Caller, Idle
  <2>5. Caller(g)'
    BY <1>0, <2>1, <2>3, <2>4 DEF Caller
  <2> QED BY <2>2, <2>5
<1> QED BY <1>2, <1>3, <1>4

\* A handler that moves on to the next stage of its call keeps its caller.
LEMMA StageHand ==
  ASSUME IInv, NEW h \in Handler, NEW at \in {"insert", "save", "softDelete"},
         handler' = [handler EXCEPT ![h].at = at],
         \/ at = "insert" /\ handler[h].at = "put"
         \/ at = "save" /\ handler[h].at = "read" /\ row[handler[h].score] = "live"
         \/ at = "softDelete" /\ handler[h].at = "remove" /\ row[handler[h].score] = "live",
         UNCHANGED <<pc, cur, snap, reply, trashed, row>>
  PROVE  \A g \in Handler : (InHand(g) /\ Caller(g))'
<1>0. TypeOK /\ \A g \in Handler : InHand(g) /\ Caller(g)
  BY DEF IInv
<1>1. ASSUME NEW g \in Handler
      PROVE  /\ handler'[g].score = handler[g].score /\ handler'[g].title = handler[g].title
             /\ handler'[g].by = handler[g].by /\ handler'[g].data = handler[g].data
             /\ handler'[g].at = IF g = h THEN at ELSE handler[g].at
             /\ g # h => handler'[g] = handler[g]
  <2>1. handler[g] \in Call /\ handler[h] \in Call
    BY <1>0 DEF TypeOK
  <2> QED BY <1>0, <2>1 DEF TypeOK, Call
<1>2. ASSUME NEW g \in Handler PROVE InHand(g)' /\ Caller(g)'
  <2>1. InHand(g)'
    BY <1>0, <1>1 DEF InHand
  <2>2. Caller(g)'
    BY <1>0, <1>1 DEF Caller
  <2> QED BY <2>1, <2>2
<1> QED BY <1>2

\* The steps of the server.
LEMMA InvServer == ASSUME IInv, NEW h \in Handler, ServerStep(h), TypeOK' PROVE IInv'
<1> DEFINE s == handler[h].score
<1>0. /\ TypeOK /\ Recorded /\ Held /\ InHand(h) /\ Caller(h) /\ handler[h] \in Call
      /\ \A p \in Pass : RememberedBy(p)
  BY DEF IInv, TypeOK
<1>f. /\ UNCHANGED <<origin, local, file, trashed, pc, todo, cur, remote, snap, got>>
      /\ \A r \in Score : served[r] \subseteq served'[r]
      /\ \A r \in Score : row[r] # "none" => row'[r] # "none"
  BY <1>0, ServerFrame
<1>1. Held' /\ SyncedTitleWasServed' /\ NeverUploadedIsKept'
  <2>1. Held'
    BY <1>0, <1>f DEF Held
  <2>2. SyncedTitleWasServed'
    BY <1>f DEF IInv, SyncedTitleWasServed
  <2>3. NeverUploadedIsKept'
    BY <1>f DEF IInv, NeverUploadedIsKept, TypeOK
  <2> QED BY <2>1, <2>2, <2>3
<1>a. ASSUME NEW r, Answer(h, r),
             r = "ok" => \A p \in Pass :
                  handler[h].by = p /\ pc[p] \in {"updating", "creating"} =>
                    snap[p][cur[p]].title \in served'[cur[p]],
             r = "invalid" /\ s \in Valid => row'[s] # "none"
      PROVE  /\ \A g \in Handler : (InHand(g) /\ Caller(g))'
             /\ \A p \in Pass : RememberedBy(p)'
  <2>1. /\ \A g \in Handler : (InHand(g) /\ Caller(g))'
        /\ \A p \in Pass : reply'[p] # reply[p] => handler[h].by = p /\ reply'[p] = r
    BY <1>a, <1>f, AnswerHand
  <2>2. ASSUME NEW p \in Pass PROVE RememberedBy(p)'
    <3>1. CASE reply'[p] = reply[p]
      BY <1>0, <1>f, <3>1, RememberedFrame
    <3>2. CASE reply'[p] # reply[p]
      <4>1. handler[h].by = p /\ reply'[p] = r /\ cur[p] = s /\ p # Nobody
        BY <1>0, <2>1, <3>2 DEF Caller
      <4>2. RememberedBy(p) /\ (pc[p] \in {"pull", "download"} => todo[p] \subseteq Score)
        BY <1>0 DEF TypeOK
      <4> HIDE DEF s
      <4> QED BY <1>0, <1>a, <1>f, <4>1, <4>2 DEF RememberedBy, Listed, TypeOK, Waiting
    <3> QED BY <3>1, <3>2
  <2> QED BY <2>1, <2>2
<1>b. ASSUME UNCHANGED <<reply, row, served>>, NEW at \in {"insert", "save", "softDelete"},
             handler' = [handler EXCEPT ![h].at = at],
             \/ at = "insert" /\ handler[h].at = "put"
             \/ at = "save" /\ handler[h].at = "read" /\ row[s] = "live"
             \/ at = "softDelete" /\ handler[h].at = "remove" /\ row[s] = "live"
      PROVE  /\ \A g \in Handler : (InHand(g) /\ Caller(g))'
             /\ \A p \in Pass : RememberedBy(p)'
  <2>1. \A g \in Handler : (InHand(g) /\ Caller(g))'
    BY <1>b, <1>f, StageHand
  <2>2. \A p \in Pass : RememberedBy(p)'
    BY <1>0, <1>b, <1>f, RememberedFrame
  <2> QED BY <2>1, <2>2
<1>c. ASSUME UNCHANGED <<row, served, name>> PROVE Recorded' /\ DeletedByUserOnly'
  BY <1>0, <1>c, <1>f DEF Recorded, DeletedByUserOnly, IInv
<1>d. ASSUME s \in Score, handler[h].at \in {"insert", "save"},
             row' = [row EXCEPT ![s] = "live"],
             name' = [name EXCEPT ![s] = handler[h].title],
             served' = [served EXCEPT ![s] = @ \cup {handler[h].title}],
             Answer(h, "ok")
      PROVE  IInv'
  <2> HIDE DEF s
  <2>1. Recorded'
    BY <1>0, <1>d DEF Recorded, TypeOK
  <2>2. DeletedByUserOnly'
    BY <1>0, <1>d, <1>f DEF IInv, DeletedByUserOnly, TypeOK
  <2>3. ASSUME NEW p \in Pass, handler[h].by = p
        PROVE  snap[p][cur[p]].title \in served'[cur[p]]
    <3>1. cur[p] = s /\ handler[h].title = snap[p][s].title
      BY <1>0, <1>d, <2>3 DEF Caller, s
    <3> QED BY <1>0, <1>d, <3>1 DEF TypeOK
  <2>4. /\ \A g \in Handler : (InHand(g) /\ Caller(g))'
        /\ \A p \in Pass : RememberedBy(p)'
    BY <1>a, <1>d, <2>3
  <2> QED BY <1>1, <2>1, <2>2, <2>4 DEF IInv
<1>2. CASE RejectUpload(h)
  <2>1. s \in Valid => row[s] # "none"
    BY <1>0, <1>2 DEF RejectUpload, InHand
  <2>2. Answer(h, "invalid") /\ UNCHANGED <<row, served, name>>
    BY <1>2 DEF RejectUpload, serverVars
  <2> QED BY <1>1, <1>a, <1>c, <2>1, <2>2 DEF IInv
<1>3. CASE PutObject(h)
  <2>1. UNCHANGED <<reply, row, served, name>> /\ handler[h].at = "put"
        /\ handler' = [handler EXCEPT ![h].at = "insert"]
    BY <1>3 DEF PutObject, passVars
  <2> QED BY <1>1, <1>b, <1>c, <2>1 DEF IInv
<1>4. CASE InsertRow(h)
  BY <1>0, <1>4, <1>d DEF InsertRow, InHand
<1>5. CASE InsertFails(h)
  <2>1. Answer(h, "error") /\ UNCHANGED <<row, served, name>>
    BY <1>5 DEF InsertFails
  <2> QED BY <1>1, <1>a, <1>c, <2>1 DEF IInv
<1>6. CASE ReadRow(h)
  <2>1. UNCHANGED <<reply, row, served, name>> /\ handler[h].at = "read" /\ row[s] = "live"
        /\ handler' = [handler EXCEPT ![h].at = "save"]
    BY <1>6 DEF ReadRow, passVars, serverVars
  <2> QED BY <1>1, <1>b, <1>c, <2>1 DEF IInv
<1>7. CASE SaveRow(h)
  BY <1>0, <1>7, <1>d DEF SaveRow, InHand
<1>8. CASE RemoveObject(h)
  <2>1. UNCHANGED <<reply, row, served, name>> /\ handler[h].at = "remove" /\ row[s] = "live"
        /\ handler' = [handler EXCEPT ![h].at = "softDelete"]
    BY <1>8 DEF RemoveObject, passVars
  <2> QED BY <1>1, <1>b, <1>c, <2>1 DEF IInv
<1>9. CASE SoftDelete(h)
  <2>1. /\ s \in trashed /\ s \in Score /\ row[s] # "none"
        /\ row' = [row EXCEPT ![s] = "gone"] /\ UNCHANGED <<name, served>>
        /\ Answer(h, "ok") /\ handler[h].at = "softDelete"
    BY <1>0, <1>9 DEF SoftDelete, InHand
  <2>2. \A p \in Pass : handler[h].by = p => pc[p] = "deleting"
    BY <1>0, <2>1 DEF Caller
  <2>3. /\ \A g \in Handler : (InHand(g) /\ Caller(g))'
        /\ \A p \in Pass : RememberedBy(p)'
    BY <1>a, <2>1, <2>2
  <2> HIDE DEF s
  <2>4. Recorded'
    BY <1>0, <2>1 DEF Recorded, TypeOK
  <2>5. DeletedByUserOnly'
    BY <1>0, <1>f, <2>1 DEF IInv, DeletedByUserOnly, TypeOK
  <2> QED BY <1>1, <2>3, <2>4, <2>5 DEF IInv
<1>10. CASE NotFound(h)
  <2>1. Answer(h, "error") /\ UNCHANGED <<row, served, name>>
    BY <1>10 DEF NotFound, serverVars
  <2> QED BY <1>1, <1>a, <1>c, <2>1 DEF IInv
<1>11. CASE HandlerFails(h)
  <2>1. Answer(h, "error") /\ UNCHANGED <<row, served, name>>
    BY <1>11 DEF HandlerFails, serverVars
  <2> QED BY <1>1, <1>a, <1>c, <2>1 DEF IInv
<1> QED
  BY <1>2, <1>3, <1>4, <1>5, <1>6, <1>7, <1>8, <1>9, <1>10, <1>11 DEF ServerStep

-----------------------------------------------------------------------------
(* What a pass may write to the database *)

\* Removing a score from a device is harmless once a user deleted it, once
\* the server has had it, or if the server would never take it.
LEMMA HardDeleteKeeps ==
  ASSUME IInv, NEW d \in Device, NEW s \in Score, HardDeleteScore(d, s),
         s \in trashed \/ row[s] # "none" \/ s \notin Valid,
         UNCHANGED <<origin, trashed, row, served>>
  PROVE  (Held /\ SyncedTitleWasServed /\ NeverUploadedIsKept)'
<1>0. TypeOK
  BY DEF IInv
<1>1. /\ \A e \in Device, r \in Score :
           e # d \/ r # s => local'[e][r] = local[e][r] /\ file'[e][r] = file[e][r]
      /\ local'[d][s] = NoRow /\ file'[d][s] \in {"none", file[d][s]}
  BY <1>0 DEF HardDeleteScore, TypeOK
<1>2. NoRow.st = "none" /\ ~NoRow.clean
  BY DEF NoRow, Row
<1>3. Held'
  BY <1>1, <1>2 DEF IInv, Held
<1>4. SyncedTitleWasServed'
  BY <1>1, <1>2 DEF IInv, SyncedTitleWasServed
<1>5. ASSUME NEW r \in Valid, origin'[r] # Nobody, row'[r] = "none", r \notin trashed'
      PROVE  local'[origin'[r]][r].st = "live" /\ file'[origin'[r]][r] = "full"
  <2>1. origin[r] \in Device /\ r # s
    BY <1>0, <1>5 DEF TypeOK
  <2> QED BY <1>1, <1>5, <2>1 DEF IInv, NeverUploadedIsKept
<1> QED BY <1>3, <1>4, <1>5 DEF NeverUploadedIsKept

\* Recording a score as synced under a title the server has had, leaving the
\* files alone or touching only that of a score the server has had.
LEMMA SyncKeeps ==
  ASSUME IInv, NEW d \in Device, NEW s \in Score, NEW t,
         SyncScoreFromServer(d, s, t), t \in served[s],
         \A e \in Device, r \in Score : e # d \/ r # s => file'[e][r] = file[e][r],
         UNCHANGED <<origin, trashed, row, served>>
  PROVE  (Held /\ SyncedTitleWasServed /\ NeverUploadedIsKept)'
<1>0. TypeOK /\ row[s] # "none"
  BY DEF IInv, Recorded
<1>1. /\ \A e \in Device, r \in Score : e # d \/ r # s => local'[e][r] = local[e][r]
      /\ local'[d][s] = Row("live", t, TRUE)
  BY <1>0 DEF SyncScoreFromServer, TypeOK
<1>2. local'[d][s].st = "live" /\ local'[d][s].title = t
  BY <1>1 DEF Row
<1>3. Held'
  <2>1. ASSUME NEW e \in Device, NEW r \in Score
        PROVE  /\ local'[e][r].st = "tomb" => r \in trashed
               /\ file'[e][r] = "part" => row[r] # "none"
    <3>1. CASE e = d /\ r = s
      BY <1>0, <1>1, <1>2, <3>1
    <3>2. CASE e # d \/ r # s
      BY <1>1, <3>2 DEF IInv, Held
    <3> QED BY <3>1, <3>2
  <2> QED BY <2>1 DEF Held
<1>4. SyncedTitleWasServed'
  BY <1>1, <1>2 DEF IInv, SyncedTitleWasServed
<1>5. ASSUME NEW r \in Valid, origin'[r] # Nobody, row'[r] = "none", r \notin trashed'
      PROVE  local'[origin'[r]][r].st = "live" /\ file'[origin'[r]][r] = "full"
  <2>1. origin[r] \in Device /\ r # s
    BY <1>0, <1>5 DEF TypeOK
  <2> QED BY <1>1, <1>5, <2>1 DEF IInv, NeverUploadedIsKept
<1> QED BY <1>3, <1>4, <1>5 DEF NeverUploadedIsKept

\* A step that writes neither rows nor files.
LEMMA StoreFrame ==
  ASSUME IInv, UNCHANGED <<origin, local, file, trashed, row, served>>
  PROVE  (Held /\ SyncedTitleWasServed /\ NeverUploadedIsKept)'
BY DEF IInv, Held, SyncedTitleWasServed, NeverUploadedIsKept

(* What a pass does to the handlers *)

\* A pass that waits for no answer has no handler.
LEMMA NoHandler ==
  ASSUME IInv, NEW p \in Pass, pc[p] \notin Waiting \/ reply[p] # "none"
  PROVE  \A h \in Handler : handler[h].by # p
<1>1. ASSUME NEW h \in Handler, handler[h].by = p PROVE FALSE
  <2>1. handler[h] \in Call /\ handler[h].by # Nobody /\ InHand(h) /\ Caller(h)
    BY <1>1 DEF IInv, TypeOK
  <2>2. handler[h].at # "idle"
    BY <2>1 DEF InHand, Idle
  <2>3. handler[h].at \in {"put", "insert", "read", "save", "remove", "softDelete"}
    BY <2>1, <2>2 DEF Call
  <2> QED BY <1>1, <2>1, <2>3 DEF Caller, Waiting
<1> QED BY <1>1

\* The pass waits for no answer and sends no call.
LEMMA HandKept ==
  ASSUME IInv, NEW p \in Pass, pc[p] \notin Waiting \/ reply[p] # "none",
         UNCHANGED <<handler, trashed, row>>,
         \A q \in Pass : q # p => /\ pc'[q] = pc[q] /\ cur'[q] = cur[q]
                                  /\ reply'[q] = reply[q] /\ snap'[q] = snap[q]
  PROVE  \A h \in Handler : (InHand(h) /\ Caller(h))'
<1>1. ASSUME NEW h \in Handler PROVE InHand(h)' /\ Caller(h)'
  <2>1. handler[h] \in Call /\ handler[h].by # p /\ InHand(h) /\ Caller(h)
    BY NoHandler DEF IInv, TypeOK
  <2>2. InHand(h)'
    BY <2>1 DEF InHand
  <2>3. Caller(h)'
    BY <2>1, CallFields DEF Caller
  <2> QED BY <2>2, <2>3
<1> QED BY <1>1

\* The pass sends a call, whose handler then works for it alone.
LEMMA HandSent ==
  ASSUME IInv, TypeOK', NEW p \in Pass, pc[p] \notin Waiting,
         NEW at \in {"put", "read", "remove"}, NEW s \in Score, NEW t, NEW f \in File,
         Lost(p) \/ Delivered(p, at, s, t, f),
         at = "remove" => s \in trashed,
         at = "put" => f = "full" \/ (f = "part" /\ row[s] # "none"),
         at # "remove" => t = snap[p][s].title,
         cur'[p] = s,
         pc'[p] = CASE at = "remove" -> "deleting"
                    [] at = "put"    -> "creating"
                    [] at = "read"   -> "updating",
         UNCHANGED <<trashed, row, snap>>,
         \A q \in Pass : q # p => pc'[q] = pc[q] /\ cur'[q] = cur[q]
  PROVE  \A h \in Handler : (InHand(h) /\ Caller(h))'
<1>0. TypeOK /\ \A h \in Handler : handler[h].by # p /\ InHand(h) /\ Caller(h)
  BY NoHandler DEF IInv
<1>1. \A q \in Pass : q # p => reply'[q] = reply[q]
  BY <1>0 DEF Lost, Delivered, TypeOK
<1>2. CASE Lost(p)
  <2>1. ASSUME NEW h \in Handler PROVE InHand(h)' /\ Caller(h)'
    <3>1. handler[h] \in Call /\ handler'[h] = handler[h]
      BY <1>0, <1>2 DEF TypeOK, Lost
    <3>2. InHand(h)'
      BY <1>0, <3>1 DEF InHand
    <3>3. Caller(h)'
      BY <1>0, <1>1, <1>2, <3>1, CallFields DEF Caller, Lost
    <3> QED BY <3>2, <3>3
  <2> QED BY <2>1
<1>3. CASE Delivered(p, at, s, t, f)
  <2>1. PICK k \in Handler :
          /\ handler[k] = Idle
          /\ handler' = [handler EXCEPT ![k] =
               [at |-> at, score |-> s, title |-> t, data |-> f, by |-> p]]
    BY <1>3 DEF Delivered
  <2>2. reply'[p] = "none" /\ p # Nobody
    BY <1>0, <1>3 DEF Delivered, TypeOK
  <2>3. /\ handler'[k] = [at |-> at, score |-> s, title |-> t, data |-> f, by |-> p]
        /\ \A h \in Handler : h # k => handler'[h] = handler[h]
    BY <1>0, <2>1 DEF TypeOK
  <2>4. InHand(k)'
    BY <2>3 DEF InHand
  <2>5. Caller(k)'
    BY <1>0, <2>2, <2>3 DEF Caller
  <2>6. ASSUME NEW h \in Handler, h # k PROVE InHand(h)' /\ Caller(h)'
    <3>1. handler[h] \in Call /\ handler'[h] = handler[h]
      BY <1>0, <2>3, <2>6 DEF TypeOK
    <3>2. InHand(h)'
      BY <1>0, <3>1 DEF InHand
    <3>3. handler[h].by # p
      BY <1>0
    <3>4. \A g \in Handler : handler'[g].by = handler[h].by /\ handler[h].by # Nobody => g = h
      BY <1>0, <2>3, <3>3 DEF Caller
    <3>5. Caller(h)'
      BY <1>0, <1>1, <3>1, <3>3, <3>4, CallFields DEF Caller
    <3> QED BY <3>2, <3>5
  <2> QED BY <2>4, <2>5, <2>6
<1> QED BY <1>2, <1>3

\* The pass leaves its handler behind.
LEMMA HandOrphaned ==
  ASSUME IInv, NEW p \in Pass, Orphan(p), UNCHANGED <<trashed, row>>,
         \A q \in Pass : q # p => /\ pc'[q] = pc[q] /\ cur'[q] = cur[q]
                                  /\ reply'[q] = reply[q] /\ snap'[q] = snap[q]
  PROVE  \A h \in Handler : (InHand(h) /\ Caller(h))'
<1>0. TypeOK /\ \A h \in Handler : handler[h] \in Call /\ InHand(h) /\ Caller(h)
  BY DEF IInv, TypeOK
<1>1. ASSUME NEW h \in Handler
      PROVE  /\ handler'[h].at = handler[h].at /\ handler'[h].score = handler[h].score
             /\ handler'[h].title = handler[h].title /\ handler'[h].data = handler[h].data
             /\ handler'[h].by = IF handler[h].by = p THEN Nobody ELSE handler[h].by
             /\ handler[h].by # p => handler'[h] = handler[h]
  BY <1>0 DEF Orphan, Call
<1>2. ASSUME NEW h \in Handler PROVE InHand(h)' /\ Caller(h)'
  <2>1. handler[h].at = "idle" => handler[h].by = Nobody
    BY <1>0 DEF InHand, Idle
  <2>2. InHand(h)'
    BY <1>0, <1>1, <2>1 DEF InHand
  <2>3. handler'[h].by # Nobody => handler[h].by # p /\ handler[h].by \in Pass
    BY <1>0, <1>1, CallFields
  <2>4. \A g \in Handler : handler'[h].by # Nobody /\ handler'[g].by = handler'[h].by
          => handler[g].by = handler[h].by
    BY <1>1, <2>3
  <2>5. Caller(h)'
    BY <1>0, <1>1, <2>3, <2>4 DEF Caller
  <2> QED BY <2>2, <2>5
<1> QED BY <1>2

\* What every step of a pass leaves alone.
LEMMA PassFrame ==
  ASSUME TypeOK, NEW p \in Pass, SyncStep(p)
  PROVE  /\ UNCHANGED <<origin, trashed, row, name, served>>
         /\ \A q \in Pass : q # p => /\ pc'[q] = pc[q] /\ todo'[q] = todo[q]
                                     /\ cur'[q] = cur[q] /\ reply'[q] = reply[q]
                                     /\ remote'[q] = remote[q] /\ snap'[q] = snap[q]
<1> USE DEF TypeOK, localVars, serverVars, passVars, Return, Request, Returned
<1>1. CASE Start(p)           BY <1>1 DEF Start
<1>2. CASE DeleteReturns(p)   BY <1>2 DEF DeleteReturns
<1>3. CASE FirstList(p)       BY <1>3 DEF FirstList
<1>4. CASE ReadLocal(p)       BY <1>4 DEF ReadLocal
<1>5. CASE UpdateReturns(p)   BY <1>5 DEF UpdateReturns
<1>6. CASE CreateReturns(p)   BY <1>6 DEF CreateReturns
<1>7. CASE SecondList(p)      BY <1>7 DEF SecondList
<1>8. CASE Reread(p)          BY <1>8 DEF Reread
<1>9. CASE FinishDownload(p)  BY <1>9 DEF FinishDownload
<1>10. CASE BeginPrune(p)     BY <1>10 DEF BeginPrune
<1>11. CASE EndPass(p)        BY <1>11 DEF EndPass
<1>12. CASE ListFails(p)      BY <1>12 DEF ListFails
<1>13. CASE GiveUp(p)         BY <1>13 DEF GiveUp
<1>14. CASE Abort(p)          BY <1>14 DEF Abort
<1>15. ASSUME NEW s \in Score,
              SendDelete(p, s) \/ SendUpdate(p, s) \/ SendCreate(p, s)
       PROVE  /\ UNCHANGED <<origin, trashed, row, name, served>>
              /\ \A q \in Pass : q # p => /\ pc'[q] = pc[q] /\ todo'[q] = todo[q]
                                          /\ cur'[q] = cur[q] /\ reply'[q] = reply[q]
                                          /\ remote'[q] = remote[q] /\ snap'[q] = snap[q]
  BY <1>15 DEF SendDelete, SendUpdate, SendCreate, Lost, Delivered
<1>16. ASSUME NEW s \in Score,
              SkipCreate(p, s) \/ SkipDownload(p, s) \/ OpenDownload(p, s) \/ Prune(p, s)
       PROVE  /\ UNCHANGED <<origin, trashed, row, name, served>>
              /\ \A q \in Pass : q # p => /\ pc'[q] = pc[q] /\ todo'[q] = todo[q]
                                          /\ cur'[q] = cur[q] /\ reply'[q] = reply[q]
                                          /\ remote'[q] = remote[q] /\ snap'[q] = snap[q]
  BY <1>16 DEF SkipCreate, SkipDownload, OpenDownload, Prune
<1> QED
  BY <1>1, <1>2, <1>3, <1>4, <1>5, <1>6, <1>7, <1>8, <1>9, <1>10, <1>11,
     <1>12, <1>13, <1>14, <1>15, <1>16 DEF SyncStep

\* Nothing is remembered by a pass that is not under way.
LEMMA RememberedIdle ==
  ASSUME TypeOK, NEW p \in Pass, Return(p) PROVE RememberedBy(p)'
BY DEF RememberedBy, Listed, Return, TypeOK, NoRow, Row

\* The steps of a pass.
LEMMA InvPass == ASSUME IInv, NEW p \in Pass, SyncStep(p), TypeOK' PROVE IInv'
<1> DEFINE dev == DeviceOf[p]
           Stored == Held /\ SyncedTitleWasServed /\ NeverUploadedIsKept
           Hands  == \A h \in Handler : InHand(h) /\ Caller(h)
<1> USE DEF localVars, serverVars
<1>0. /\ TypeOK /\ Recorded /\ Held /\ RememberedBy(p) /\ dev \in Device
      /\ SyncedTitleWasServed /\ \A q \in Pass : RememberedBy(q)
  BY DEF IInv
<1>f. /\ UNCHANGED <<origin, trashed, row, name, served>>
      /\ \A q \in Pass : q # p => /\ pc'[q] = pc[q] /\ todo'[q] = todo[q]
                                  /\ cur'[q] = cur[q] /\ reply'[q] = reply[q]
                                  /\ remote'[q] = remote[q] /\ snap'[q] = snap[q]
  BY <1>0, PassFrame
<1>u. \A q \in Pass : q # p => RememberedBy(q)'
  BY <1>0, <1>f, RememberedFrame
<1>v. Recorded' /\ DeletedByUserOnly'
  BY <1>f DEF IInv, Recorded, DeletedByUserOnly
<1>h. ASSUME pc[p] \notin Waiting \/ reply[p] # "none", handler' = handler PROVE Hands'
  BY <1>f, <1>h, HandKept
<1>s. ASSUME UNCHANGED <<local, file>> PROVE Stored'
  BY <1>f, <1>s, StoreFrame
<1>r. ASSUME NEW s \in Score, Listed(p, s) PROVE row[s] # "none"
  BY <1>0, <1>r DEF Recorded, RememberedBy
<1>1. CASE Start(p)
  <2>1. RememberedBy(p)'
    BY <1>0, <1>1 DEF Start, RememberedBy, Listed, TypeOK, GetDeletedScoreIDs, Held
  <2>2. Stored' /\ Hands'
    BY <1>1, <1>h, <1>s DEF Start, Waiting
  <2> QED BY <1>u, <1>v, <2>1, <2>2 DEF IInv
<1>2. CASE DeleteReturns(p)
  <2>1. RememberedBy(p)'
    BY <1>0, <1>f, <1>2 DEF DeleteReturns, Returned, RememberedBy, Listed, TypeOK
  <2>2. Hands'
    BY <1>2, <1>h DEF DeleteReturns, Returned
  <2>3. cur[p] \in Score /\ cur[p] \in trashed
    BY <1>0, <1>2 DEF DeleteReturns, Returned, RememberedBy, TypeOK, Waiting
  <2>4. Stored'
    BY <1>0, <1>f, <1>2, <1>s, <2>3, HardDeleteKeeps DEF DeleteReturns
  <2> QED BY <1>u, <1>v, <2>1, <2>2, <2>4 DEF IInv
<1>3. CASE FirstList(p) \/ SecondList(p)
  <2>1. remote' = [remote EXCEPT ![p] = ListMyScores]
    BY <1>3 DEF FirstList, SecondList
  <2>2. \A s \in Score : Listed(p, s)' => remote'[p][s] \in served'[s]
    BY <1>0, <1>f, <2>1 DEF Listed, ListMyScores, Recorded, TypeOK
  <2>3. RememberedBy(p)'
    BY <1>0, <1>f, <1>3, <2>2 DEF FirstList, SecondList, RememberedBy, TypeOK
  <2>4. Stored' /\ Hands'
    BY <1>3, <1>h, <1>s DEF FirstList, SecondList, Waiting
  <2> QED BY <1>u, <1>v, <2>3, <2>4 DEF IInv
<1>4. CASE ReadLocal(p) \/ Reread(p)
  <2>1. snap' = [snap EXCEPT ![p] = GetScores(dev)]
    BY <1>4 DEF ReadLocal, Reread
  <2>2. \A s \in Score : snap'[p][s].clean => snap'[p][s].title \in served'[s]
    <3>1. \A s \in Score : snap'[p][s] = local[dev][s] \/ snap'[p][s] = NoRow
      BY <1>0, <2>1 DEF GetScores, TypeOK
    <3> QED BY <1>0, <1>f, <3>1 DEF SyncedTitleWasServed, NoRow, Row
  <2>3. \A s \in Score : Listed(p, s)' <=> Listed(p, s)
    BY <1>4 DEF Listed, ReadLocal, Reread
  <2>4. RememberedBy(p)'
    BY <1>0, <1>f, <1>4, <2>2, <2>3 DEF ReadLocal, Reread, RememberedBy, TypeOK
  <2>5. Stored' /\ Hands'
    BY <1>4, <1>h, <1>s DEF ReadLocal, Reread, Waiting
  <2> QED BY <1>u, <1>v, <2>4, <2>5 DEF IInv
<1>5. CASE UpdateReturns(p)
  <2>1. RememberedBy(p)'
    BY <1>0, <1>f, <1>5 DEF UpdateReturns, Returned, RememberedBy, Listed, TypeOK
  <2>2. Hands'
    BY <1>5, <1>h DEF UpdateReturns, Returned
  <2>3. Stored'
    <3>1. CASE reply[p] = "ok"
      <4>1. cur[p] \in Score /\ snap[p][cur[p]].title \in served[cur[p]]
        BY <1>0, <1>5, <3>1 DEF UpdateReturns, Returned, RememberedBy, TypeOK, Waiting
      <4> QED BY <1>0, <1>f, <1>5, <3>1, <4>1, SyncKeeps DEF UpdateReturns
    <3>2. CASE reply[p] # "ok"
      BY <1>5, <1>s, <3>2 DEF UpdateReturns
    <3> QED BY <3>1, <3>2
  <2> QED BY <1>u, <1>v, <2>1, <2>2, <2>3 DEF IInv
<1>6. CASE CreateReturns(p)
  <2>1. RememberedBy(p)'
    BY <1>0, <1>f, <1>6 DEF CreateReturns, Returned, RememberedBy, Listed, TypeOK
  <2>2. Hands'
    BY <1>6, <1>h DEF CreateReturns, Returned
  <2>3. cur[p] \in Score
    BY <1>0, <1>6 DEF CreateReturns, Returned, TypeOK, Waiting
  <2>4. Stored'
    <3>1. CASE reply[p] = "ok"
      <4>1. snap[p][cur[p]].title \in served[cur[p]]
        BY <1>0, <1>6, <3>1 DEF CreateReturns, Returned, RememberedBy
      <4>2. SyncScoreFromServer(dev, cur[p], snap[p][cur[p]].title) /\ file' = file
        BY <1>6, <3>1 DEF CreateReturns
      <4> QED BY <1>0, <1>f, <2>3, <4>1, <4>2, SyncKeeps
    <3>2. CASE reply[p] = "invalid"
      <4>1. HardDeleteScore(dev, cur[p])
        BY <1>6, <3>2 DEF CreateReturns
      <4>2. cur[p] \notin Valid \/ row[cur[p]] # "none"
        BY <1>0, <1>6, <3>2 DEF CreateReturns, Returned, RememberedBy
      <4> QED BY <1>0, <1>f, <2>3, <4>1, <4>2, HardDeleteKeeps
    <3>3. CASE reply[p] \notin {"ok", "invalid"}
      BY <1>6, <1>s, <3>3 DEF CreateReturns
    <3> QED BY <3>1, <3>2, <3>3
  <2> QED BY <1>u, <1>v, <2>1, <2>2, <2>4 DEF IInv
<1>7. CASE FinishDownload(p)
  <2>1. RememberedBy(p)'
    BY <1>0, <1>f, <1>7 DEF FinishDownload, RememberedBy, Listed, TypeOK
  <2>2. Hands'
    BY <1>7, <1>h DEF FinishDownload, Waiting
  <2>3. cur[p] \in Score /\ remote[p][cur[p]] \in served[cur[p]]
    BY <1>0, <1>7 DEF FinishDownload, RememberedBy, TypeOK
  <2>4. \A e \in Device, r \in Score : e # dev \/ r # cur[p] => file'[e][r] = file[e][r]
    BY <1>0, <1>7 DEF FinishDownload, TypeOK
  <2>5. Stored'
    BY <1>0, <1>f, <1>7, <2>3, <2>4, SyncKeeps DEF FinishDownload
  <2> QED BY <1>u, <1>v, <2>1, <2>2, <2>5 DEF IInv
<1>8. CASE BeginPrune(p)
  <2>1. \A s \in Score : snap[p][s].clean => row[s] # "none"
    BY <1>0 DEF RememberedBy, Recorded
  <2>2. RememberedBy(p)'
    BY <1>0, <1>f, <1>8, <2>1 DEF BeginPrune, RememberedBy, Listed, TypeOK
  <2>3. Stored' /\ Hands'
    BY <1>8, <1>h, <1>s DEF BeginPrune, Waiting
  <2> QED BY <1>u, <1>v, <2>2, <2>3 DEF IInv
<1>9. CASE EndPass(p) \/ ListFails(p)
  <2>1. RememberedBy(p)'
    BY <1>0, <1>9, RememberedIdle DEF EndPass, ListFails
  <2>2. Stored' /\ Hands'
    BY <1>9, <1>h, <1>s DEF EndPass, ListFails, Waiting
  <2> QED BY <1>u, <1>v, <2>1, <2>2 DEF IInv
<1>10. CASE GiveUp(p)
  <2>1. RememberedBy(p)'
    BY <1>0, <1>f, <1>10 DEF GiveUp, RememberedBy, Listed, TypeOK
  <2>2. ASSUME NEW h \in Handler PROVE (InHand(h) /\ Caller(h))'
    BY <1>f, <1>10, HandOrphaned DEF GiveUp
  <2>3. Stored'
    BY <1>10, <1>s DEF GiveUp
  <2> QED BY <1>u, <1>v, <2>1, <2>2, <2>3 DEF IInv
<1>11. CASE Abort(p)
  <2>1. RememberedBy(p)'
    BY <1>0, <1>11, RememberedIdle DEF Abort
  <2>2. ASSUME NEW h \in Handler PROVE (InHand(h) /\ Caller(h))'
    BY <1>f, <1>11, HandOrphaned DEF Abort
  <2>3. Stored'
    BY <1>11, <1>s DEF Abort
  <2> QED BY <1>u, <1>v, <2>1, <2>2, <2>3 DEF IInv
<1>12. ASSUME NEW s \in Score, SendDelete(p, s) PROVE IInv'
  <2>1. RememberedBy(p)'
    BY <1>0, <1>f, <1>12 DEF SendDelete, Request, RememberedBy, Listed, TypeOK
  <2>2. s \in trashed /\ cur'[p] = s /\ pc'[p] = "deleting" /\ snap' = snap /\ pc[p] \notin Waiting
    BY <1>0, <1>12 DEF SendDelete, Request, RememberedBy, TypeOK, Waiting
  <2>3. Lost(p) \/ Delivered(p, "remove", s, NoTitle, "none")
    BY <1>12 DEF SendDelete
  <2>4. Hands'
    BY <1>f, <2>2, <2>3, HandSent DEF File
  <2>5. Stored'
    BY <1>12, <1>s DEF SendDelete, Request
  <2> QED BY <1>u, <1>v, <2>1, <2>4, <2>5 DEF IInv
<1>13. ASSUME NEW s \in Score, SendUpdate(p, s) PROVE IInv'
  <2>1. reply'[p] \in {"error", "none"}
    BY <1>0, <1>13 DEF SendUpdate, Lost, Delivered, TypeOK
  <2>2. RememberedBy(p)'
    BY <1>0, <1>f, <1>13, <2>1 DEF SendUpdate, Request, RememberedBy, Listed, TypeOK
  <2>3. cur'[p] = s /\ pc'[p] = "updating" /\ snap' = snap /\ pc[p] \notin Waiting
    BY <1>0, <1>13 DEF SendUpdate, Request, TypeOK, Waiting
  <2>4. Lost(p) \/ Delivered(p, "read", s, snap[p][s].title, "none")
    BY <1>13 DEF SendUpdate
  <2>5. Hands'
    BY <1>f, <2>3, <2>4, HandSent DEF File
  <2>6. Stored'
    BY <1>13, <1>s DEF SendUpdate, Request
  <2> QED BY <1>u, <1>v, <2>2, <2>5, <2>6 DEF IInv
<1>14. ASSUME NEW s \in Score, SendCreate(p, s) PROVE IInv'
  <2>1. reply'[p] \in {"error", "none"}
    BY <1>0, <1>14 DEF SendCreate, Lost, Delivered, TypeOK
  <2>2. RememberedBy(p)'
    BY <1>0, <1>f, <1>14, <2>1 DEF SendCreate, Request, RememberedBy, Listed, TypeOK
  <2>3. cur'[p] = s /\ pc'[p] = "creating" /\ snap' = snap /\ pc[p] \notin Waiting
    BY <1>0, <1>14 DEF SendCreate, Request, TypeOK, Waiting
  <2>4. Lost(p) \/ Delivered(p, "put", s, snap[p][s].title, file[dev][s])
    BY <1>14 DEF SendCreate
  <2>5. /\ file[dev][s] \in File
        /\ file[dev][s] = "full" \/ (file[dev][s] = "part" /\ row[s] # "none")
    BY <1>0, <1>14 DEF SendCreate, Held, TypeOK, File
  <2> HIDE DEF dev
  <2>6. Hands'
    BY <1>f, <2>3, <2>4, <2>5, HandSent
  <2>7. Stored'
    BY <1>14, <1>s DEF SendCreate, Request
  <2> QED BY <1>u, <1>v, <2>2, <2>6, <2>7 DEF IInv
<1>15. ASSUME NEW s \in Score, SkipCreate(p, s) \/ SkipDownload(p, s) PROVE IInv'
  <2>1. RememberedBy(p)'
    BY <1>0, <1>f, <1>15 DEF SkipCreate, SkipDownload, passVars, RememberedBy, Listed, TypeOK
  <2>2. Stored' /\ Hands'
    BY <1>15, <1>h, <1>s DEF SkipCreate, SkipDownload, Waiting
  <2> QED BY <1>u, <1>v, <2>1, <2>2 DEF IInv
<1>16. ASSUME NEW s \in Score, OpenDownload(p, s) PROVE IInv'
  <2>1. RememberedBy(p)'
    BY <1>0, <1>f, <1>16 DEF OpenDownload, RememberedBy, Listed, TypeOK
  <2>2. Hands'
    BY <1>16, <1>h DEF OpenDownload, Waiting
  <2>3. row[s] # "none"
    BY <1>0, <1>16, <1>r DEF OpenDownload, RememberedBy
  <2>4. local' = local /\ file' = [file EXCEPT ![dev][s] = "part"]
    BY <1>16 DEF OpenDownload
  <2>5. Held'
    BY <1>0, <1>f, <2>3, <2>4 DEF Held, TypeOK
  <2>6. SyncedTitleWasServed'
    BY <1>0, <1>f, <2>4 DEF SyncedTitleWasServed
  <2>7. NeverUploadedIsKept'
    BY <1>0, <1>f, <2>3, <2>4 DEF IInv, NeverUploadedIsKept, TypeOK
  <2> QED BY <1>u, <1>v, <2>1, <2>2, <2>5, <2>6, <2>7 DEF IInv
<1>17. ASSUME NEW s \in Score, Prune(p, s) PROVE IInv'
  <2>1. RememberedBy(p)'
    BY <1>0, <1>f, <1>17 DEF Prune, RememberedBy, Listed, TypeOK
  <2>2. Hands'
    BY <1>17, <1>h DEF Prune, Waiting
  <2>3. row[s] # "none"
    BY <1>0, <1>17 DEF Prune, RememberedBy
  <2>4. Stored'
    BY <1>0, <1>f, <1>17, <2>3, HardDeleteKeeps DEF Prune
  <2> QED BY <1>u, <1>v, <2>1, <2>2, <2>4 DEF IInv
<1> QED
  BY <1>1, <1>2, <1>3, <1>4, <1>5, <1>6, <1>7, <1>8, <1>9, <1>10, <1>11,
     <1>12, <1>13, <1>14, <1>15, <1>16, <1>17 DEF SyncStep

\* The invariant holds in every reachable state.
THEOREM Invariance == Spec => []IInv
<1>1. IInv /\ [Next]_vars => IInv'
  <2> SUFFICES ASSUME IInv, [Next]_vars PROVE IInv'
    OBVIOUS
  <2>0. TypeOK
    BY DEF IInv
  <2>1. CASE User
    BY <2>0, <2>1, TypeUser, InvUser
  <2>2. ASSUME NEW h \in Handler, ServerStep(h) PROVE IInv'
    BY <2>0, <2>2, TypeServer, InvServer
  <2>3. ASSUME NEW p \in Pass, SyncStep(p) PROVE IInv'
    BY <2>0, <2>3, TypePass, InvPass
  <2>4. CASE UNCHANGED vars
    BY <2>4 DEF vars, localVars, serverVars, passVars, IInv, TypeOK, Recorded, Held,
                RememberedBy, Listed, InHand, Caller, SyncedTitleWasServed,
                NeverUploadedIsKept, DeletedByUserOnly
  <2> QED BY <2>1, <2>2, <2>3, <2>4 DEF Next
<1> QED BY <1>1, InvInitial, PTL DEF Spec

\* Whatever calls are lost, orphaned or overtaken and however the passes of
\* any number of devices overlap, a row marked as synced carries a title the
\* server's row has had.
THEOREM SyncedTitles == Spec => []SyncedTitleWasServed
<1>1. IInv => SyncedTitleWasServed
  BY DEF IInv
<1> QED BY <1>1, Invariance, PTL

\* No pass of any device ever removes or truncates the only copy of a valid
\* score its user has not deleted.
THEOREM NeverUploadedKept == Spec => []NeverUploadedIsKept
<1>1. IInv => NeverUploadedIsKept
  BY DEF IInv
<1> QED BY <1>1, Invariance, PTL

\* The server deletes a score only after a user confirmed deleting it.
THEOREM DeletedByUser == Spec => []DeletedByUserOnly
<1>1. IInv => DeletedByUserOnly
  BY DEF IInv
<1> QED BY <1>1, Invariance, PTL

-----------------------------------------------------------------------------
(* Titles: what the server lists has one *)

\* Whatever is kept, sent or stored as a score has a title; NoTitle only says
\* that the server does not list it.
TitledBy(p) ==
  /\ \A s \in Score : snap[p][s].st = "live" => snap[p][s].title # NoTitle
  /\ pc[p] \in {"push", "updating", "creating"} => \A s \in todo[p] : snap[p][s].st = "live"
  /\ pc[p] \in {"updating", "creating"} => snap[p][cur[p]].st = "live"

Titled ==
  /\ \A d \in Device, s \in Score : local[d][s].st = "live" => local[d][s].title # NoTitle
  /\ \A s \in Score : NoTitle \notin served[s]
  /\ \A p \in Pass : TitledBy(p)
  /\ \A h \in Handler :
       handler[h].at \in {"put", "insert", "read", "save"} => handler[h].title # NoTitle

\* SyncScoreFromServer with a title keeps the rows titled, HardDeleteScore does.
LEMMA TitledRows ==
  ASSUME TypeOK, Titled, NEW d, NEW s,
         \/ \E t : t # NoTitle /\ SyncScoreFromServer(d, s, t)
         \/ HardDeleteScore(d, s)
         \/ local' = local
  PROVE  \A e \in Device, r \in Score : local'[e][r].st = "live" => local'[e][r].title # NoTitle
<1>1. ASSUME NEW t, t # NoTitle, SyncScoreFromServer(d, s, t)
      PROVE  \A e \in Device, r \in Score : local'[e][r].st = "live" => local'[e][r].title # NoTitle
  <2> DEFINE new == Row("live", t, TRUE)
  <2>1. new.title = t /\ local' = [local EXCEPT ![d][s] = new]
    BY <1>1 DEF SyncScoreFromServer, Row
  <2> HIDE DEF new
  <2> QED BY <1>1, <2>1 DEF TypeOK, Titled
<1>2. ASSUME HardDeleteScore(d, s)
      PROVE  \A e \in Device, r \in Score : local'[e][r].st = "live" => local'[e][r].title # NoTitle
  <2>1. NoRow.st = "none" /\ local' = [local EXCEPT ![d][s] = NoRow]
    BY <1>2 DEF HardDeleteScore, NoRow, Row
  <2> QED BY <2>1 DEF TypeOK, Titled
<1> QED BY <1>1, <1>2 DEF Titled

\* The server stores what it is sent.
LEMMA TitledServer == ASSUME IInv, Titled, NEW h \in Handler, ServerStep(h) PROVE Titled'
<1>0. /\ TypeOK /\ UNCHANGED <<local, pc, todo, cur, snap>>
      /\ handler[h] \in Call
  BY ServerFrame DEF IInv, TypeOK
<1>1. (\A d \in Device, s \in Score : local[d][s].st = "live" => local[d][s].title # NoTitle)'
      /\ \A p \in Pass : TitledBy(p)'
  BY <1>0 DEF Titled, TitledBy
<1>2. \A s \in Score : NoTitle \notin served'[s]
  <2>1. CASE served' = served
    BY <2>1 DEF Titled
  <2>2. CASE served' # served
    <3>1. InsertRow(h) \/ SaveRow(h)
      BY <2>2 DEF ServerStep, serverVars, RejectUpload, PutObject, InsertFails, ReadRow,
         RemoveObject, SoftDelete, NotFound, HandlerFails
    <3>2. /\ served' = [served EXCEPT ![handler[h].score] = @ \cup {handler[h].title}]
          /\ handler[h].at \in {"insert", "save"}
      BY <3>1 DEF InsertRow, SaveRow
    <3> QED BY <1>0, <3>2 DEF Titled, TypeOK
  <2> QED BY <2>1, <2>2
<1>3. ASSUME NEW g \in Handler, handler'[g].at \in {"put", "insert", "read", "save"}
      PROVE  handler'[g].title # NoTitle
  <2>1. \/ handler' = [handler EXCEPT ![h] = Idle]
        \/ /\ handler[h].at = "put"
           /\ handler' = [handler EXCEPT ![h].at = "insert"]
        \/ /\ handler[h].at = "read"
           /\ handler' = [handler EXCEPT ![h].at = "save"]
        \/ handler' = [handler EXCEPT ![h].at = "softDelete"]
    BY DEF ServerStep, Answer, RejectUpload, PutObject, InsertRow, InsertFails, ReadRow, SaveRow,
       RemoveObject, SoftDelete, NotFound, HandlerFails
  <2>2. CASE g # h
    <3>1. handler'[g] = handler[g]
      BY <1>0, <2>1, <2>2 DEF TypeOK
    <3> QED BY <1>3, <3>1 DEF Titled
  <2>3. CASE g = h
    <3>1. CASE handler' = [handler EXCEPT ![h] = Idle]
      BY <1>0, <1>3, <2>3, <3>1 DEF Idle, TypeOK
    <3>2. CASE handler' = [handler EXCEPT ![h].at = "softDelete"]
      <4>1. handler'[h].at = "softDelete"
        BY <1>0, <3>2 DEF TypeOK, Call
      <4> QED BY <1>3, <2>3, <4>1
    <3>3. ASSUME handler[h].at \in {"put", "read"}, NEW at \in {"insert", "save"},
                 handler' = [handler EXCEPT ![h].at = at]
          PROVE  handler'[h].title # NoTitle
      <4>1. handler'[h].title = handler[h].title
        BY <1>0, <3>3 DEF TypeOK, Call
      <4> QED BY <3>3, <4>1 DEF Titled
    <3> QED BY <2>1, <2>3, <3>1, <3>2, <3>3
  <2> QED BY <2>2, <2>3
<1> QED BY <1>1, <1>2, <1>3 DEF Titled

\* A pass sends and stores what it read.
LEMMA TitledPass == ASSUME IInv, Titled, NEW p \in Pass, SyncStep(p) PROVE Titled'
<1> USE DEF localVars, serverVars
<1> DEFINE Rows  == \A d \in Device, s \in Score :
                      local[d][s].st = "live" => local[d][s].title # NoTitle
           Hands == \A h \in Handler :
                      handler[h].at \in {"put", "insert", "read", "save"} =>
                        handler[h].title # NoTitle
<1>0. /\ TypeOK /\ Rows /\ Hands /\ TitledBy(p) /\ RememberedBy(p)
      /\ \A s \in Score : NoTitle \notin served[s]
  BY DEF IInv, Titled
<1>f. /\ \A s \in Score : NoTitle \notin served'[s]
      /\ \A q \in Pass : q # p => TitledBy(q)'
  <2>1. /\ served' = served
        /\ \A q \in Pass : q # p => /\ pc'[q] = pc[q] /\ todo'[q] = todo[q]
                                    /\ cur'[q] = cur[q] /\ snap'[q] = snap[q]
    BY <1>0, PassFrame
  <2> QED BY <1>0, <2>1 DEF Titled, TitledBy
<1>r. ASSUME local' = local PROVE Rows'
  BY <1>0, <1>r
<1>h. ASSUME handler' = handler PROVE Hands'
  BY <1>0, <1>h
<1>o. ASSUME Orphan(p) PROVE Hands'
  <2>1. ASSUME NEW h \in Handler
        PROVE  handler'[h].at = handler[h].at /\ handler'[h].title = handler[h].title
    <3>1. handler[h] \in Call
      BY <1>0 DEF TypeOK
    <3> QED BY <1>o, <3>1 DEF Orphan, Call
  <2> QED BY <1>0, <2>1
<1>c. ASSUME NEW at \in {"put", "read", "remove"}, NEW s, NEW t, NEW f,
             Lost(p) \/ Delivered(p, at, s, t, f), at # "remove" => t # NoTitle
      PROVE  Hands'
  <2>1. ASSUME NEW h \in Handler
        PROVE  handler'[h] = handler[h] \/ (handler'[h].at = at /\ handler'[h].title = t)
    BY <1>0, <1>c DEF Lost, Delivered, TypeOK
  <2> QED BY <1>0, <1>c, <2>1
<1>g. ASSUME NEW snapshot, snapshot = GetScores(DeviceOf[p]), snap' = [snap EXCEPT ![p] = snapshot]
      PROVE  \A s \in Score : snap'[p][s].st = "live" => snap'[p][s].title # NoTitle
  <2>1. NoRow.st = "none"
    BY DEF NoRow, Row
  <2>2. DeviceOf[p] \in Device
    OBVIOUS
  <2>3. \A s \in Score : snapshot[s] = local[DeviceOf[p]][s] \/ snapshot[s] = NoRow
    BY <1>g DEF GetScores
  <2>4. snap'[p] = snapshot
    BY <1>0, <1>g DEF TypeOK
  <2> QED BY <1>0, <2>1, <2>2, <2>3, <2>4
<1>1. CASE Start(p) \/ FirstList(p) \/ SecondList(p) \/ BeginPrune(p)
  <2>1. TitledBy(p)' /\ local' = local /\ handler' = handler
    BY <1>0, <1>1 DEF Start, FirstList, SecondList, BeginPrune, TitledBy, TypeOK
  <2> QED BY <1>f, <1>r, <1>h, <2>1 DEF Titled
<1>2. CASE EndPass(p) \/ ListFails(p)
  <2>1. TitledBy(p)' /\ local' = local /\ handler' = handler
    BY <1>0, <1>2 DEF EndPass, ListFails, Return, TitledBy, NoRow, Row, TypeOK
  <2> QED BY <1>f, <1>r, <1>h, <2>1 DEF Titled
<1>3. CASE Abort(p)
  <2>1. TitledBy(p)' /\ local' = local /\ Orphan(p)
    BY <1>0, <1>3 DEF Abort, Return, TitledBy, NoRow, Row, TypeOK
  <2> QED BY <1>f, <1>r, <1>o, <2>1 DEF Titled
<1>4. CASE GiveUp(p)
  <2>1. TitledBy(p)' /\ local' = local /\ Orphan(p)
    BY <1>0, <1>4 DEF GiveUp, TitledBy
  <2> QED BY <1>f, <1>r, <1>o, <2>1 DEF Titled
<1>5. CASE ReadLocal(p) \/ Reread(p)
  <2>1. snap' = [snap EXCEPT ![p] = GetScores(DeviceOf[p])] /\ local' = local /\ handler' = handler
    BY <1>5 DEF ReadLocal, Reread
  <2>2. \A s \in Score : snap'[p][s].st = "live" => snap'[p][s].title # NoTitle
    BY <1>g, <2>1
  <2>3. snap'[p] = GetScores(DeviceOf[p])
    BY <1>0, <2>1 DEF TypeOK
  <2>4. /\ pc'[p] = "push" => \A s \in todo'[p] : snap'[p][s].st = "live"
        /\ pc'[p] \in {"push", "pull"}
    BY <1>0, <1>5, <2>3 DEF ReadLocal, Reread, TypeOK
  <2> QED BY <1>f, <1>r, <1>h, <2>1, <2>2, <2>4 DEF Titled, TitledBy
<1>6. CASE DeleteReturns(p)
  <2>1. TitledBy(p)' /\ handler' = handler
    BY <1>0, <1>6 DEF DeleteReturns, Returned, TitledBy, TypeOK
  <2>2. Rows'
    BY <1>0, <1>6, TitledRows DEF DeleteReturns
  <2> QED BY <1>f, <1>h, <2>1, <2>2 DEF Titled
<1>7. CASE UpdateReturns(p) \/ CreateReturns(p)
  <2>1. TitledBy(p)' /\ handler' = handler
    <3>1. /\ pc'[p] = "push" /\ UNCHANGED <<todo, snap, handler>>
          /\ pc[p] \in {"updating", "creating"}
      BY <1>0, <1>7 DEF UpdateReturns, CreateReturns, Returned, TypeOK
    <3>2. \A s \in todo[p] : snap[p][s].st = "live"
      BY <1>0, <3>1 DEF TitledBy
    <3> QED BY <1>0, <3>1, <3>2 DEF TitledBy
  <2>2. cur[p] \in Score /\ snap[p][cur[p]].title # NoTitle
    BY <1>0, <1>7 DEF UpdateReturns, CreateReturns, Returned, TitledBy, TypeOK, Waiting
  <2>3. \/ SyncScoreFromServer(DeviceOf[p], cur[p], snap[p][cur[p]].title)
        \/ HardDeleteScore(DeviceOf[p], cur[p])
        \/ local' = local
    BY <1>7 DEF UpdateReturns, CreateReturns
  <2>4. Rows'
    BY <1>0, <2>2, <2>3, TitledRows DEF Titled
  <2> QED BY <1>f, <1>h, <2>1, <2>4 DEF Titled
<1>8. CASE FinishDownload(p)
  <2>1. TitledBy(p)' /\ handler' = handler
    BY <1>0, <1>8 DEF FinishDownload, TitledBy, TypeOK
  <2>2. remote[p][cur[p]] # NoTitle /\ SyncScoreFromServer(DeviceOf[p], cur[p], remote[p][cur[p]])
    BY <1>0, <1>8 DEF FinishDownload, RememberedBy, Listed
  <2>3. Rows'
    BY <1>0, <2>2, TitledRows
  <2> QED BY <1>f, <1>h, <2>1, <2>3 DEF Titled
<1>9. ASSUME NEW s \in Score, SendDelete(p, s) PROVE Titled'
  <2>1. TitledBy(p)' /\ local' = local
    BY <1>0, <1>9 DEF SendDelete, Request, TitledBy, TypeOK
  <2>2. Hands'
    BY <1>9, <1>c DEF SendDelete
  <2> QED BY <1>f, <1>r, <2>1, <2>2 DEF Titled
<1>10. ASSUME NEW s \in Score, SendUpdate(p, s) \/ SendCreate(p, s) PROVE Titled'
  <2>1. TitledBy(p)' /\ local' = local /\ snap[p][s].title # NoTitle
    BY <1>0, <1>10 DEF SendUpdate, SendCreate, Request, TitledBy, TypeOK
  <2>2. Hands'
    BY <1>10, <1>c, <2>1 DEF SendUpdate, SendCreate
  <2> QED BY <1>f, <1>r, <2>1, <2>2 DEF Titled
<1>11. ASSUME NEW s \in Score, SkipCreate(p, s) \/ SkipDownload(p, s) \/ OpenDownload(p, s)
       PROVE  Titled'
  <2>1. TitledBy(p)' /\ local' = local /\ handler' = handler
    BY <1>0, <1>11 DEF SkipCreate, SkipDownload, OpenDownload, TitledBy, TypeOK
  <2> QED BY <1>f, <1>r, <1>h, <2>1 DEF Titled
<1>12. ASSUME NEW s \in Score, Prune(p, s) PROVE Titled'
  <2>1. TitledBy(p)' /\ handler' = handler
    BY <1>0, <1>12 DEF Prune, TitledBy, TypeOK
  <2>2. Rows'
    BY <1>0, <1>12, TitledRows DEF Prune
  <2> QED BY <1>f, <1>h, <2>1, <2>2 DEF Titled
<1> QED
  BY <1>1, <1>2, <1>3, <1>4, <1>5, <1>6, <1>7, <1>8, <1>9, <1>10, <1>11, <1>12 DEF SyncStep

\* Everybody keeps the titles.
THEOREM TitlesLast == Spec => []Titled
<1>1. Init => Titled
  <2>1. NoRow.st = "none"
    BY DEF NoRow, Row
  <2> QED BY <2>1 DEF Init, Titled, TitledBy, Idle
<1>2. IInv /\ Titled /\ [Next]_vars => Titled'
  <2> SUFFICES ASSUME IInv, Titled, [Next]_vars PROVE Titled'
    OBVIOUS
  <2>0. TypeOK
    BY DEF IInv
  <2>1. CASE User
    <3>1. ASSUME NEW d \in Device, NEW s \in Score, NEW t \in Title,
                 AddScore(d, s, t) \/ RenameScore(d, s, t)
          PROVE  Titled'
      <4>1. local' = [local EXCEPT ![d][s] = Row("live", t, FALSE)]
            /\ UNCHANGED <<served, snap, pc, todo, cur, handler>>
        BY <3>1 DEF AddScore, RenameScore, serverVars, passVars
      <4>2. Row("live", t, FALSE).title # NoTitle
        BY DEF Row
      <4>3. \A e \in Device, r \in Score :
              local'[e][r] = local[e][r] \/ local'[e][r].title # NoTitle
        BY <2>0, <4>1, <4>2 DEF TypeOK
      <4> QED BY <4>1, <4>3 DEF Titled, TitledBy
    <3>2. ASSUME NEW d \in Device, NEW s \in Score, MarkScoreDeleted(d, s) PROVE Titled'
      <4>1. local' = [local EXCEPT ![d][s] = Row("tomb", local[d][s].title, FALSE)]
            /\ UNCHANGED <<served, snap, pc, todo, cur, handler>>
        BY <3>2 DEF MarkScoreDeleted, serverVars, passVars
      <4>2. Row("tomb", local[d][s].title, FALSE).st = "tomb"
        BY DEF Row
      <4>3. \A e \in Device, r \in Score :
              local'[e][r] = local[e][r] \/ local'[e][r].st = "tomb"
        BY <2>0, <4>1, <4>2 DEF TypeOK
      <4>4. \A e \in Device, r \in Score :
              local'[e][r].st = "live" => local'[e][r].title # NoTitle
        BY <4>3 DEF Titled
      <4> QED BY <4>1, <4>4 DEF Titled, TitledBy
    <3> QED BY <2>1, <3>1, <3>2 DEF User
  <2>2. ASSUME NEW h \in Handler, ServerStep(h) PROVE Titled'
    BY <2>2, TitledServer
  <2>3. ASSUME NEW p \in Pass, SyncStep(p) PROVE Titled'
    BY <2>3, TitledPass
  <2>4. CASE UNCHANGED vars
    BY <2>4 DEF vars, localVars, serverVars, passVars, Titled, TitledBy
  <2> QED BY <2>1, <2>2, <2>3, <2>4 DEF Next
<1> QED BY <1>1, <1>2, Invariance, PTL DEF Spec

-----------------------------------------------------------------------------
(* What leaves a device *)

\* Of a pass that was alone on its device: what it found missing on the server,
\* and no user deleted, was never there, so the device has no part of a
\* download of it and has not marked it as synced.
Absent(p) ==
  /\ \A s \in Score : ~Listed(p, s) /\ s \notin trashed =>
       /\ pc[p] \in {"read", "push", "updating", "creating"} => file[DeviceOf[p]][s] # "part"
       /\ pc[p] = "reread" => ~local[DeviceOf[p]][s].clean
       /\ pc[p] \in {"pull", "download", "prune"} => ~snap[p][s].clean
  /\ pc[p] = "prune" => \A s \in todo[p] : snap[p][s].clean /\ ~Listed(p, s)
  /\ pc[p] = "creating" /\ reply[p] = "invalid" /\ cur[p] \in Valid => cur[p] \in trashed

\* So an upload of a partial PDF that it waits for is one of a score that was
\* deleted.
Partial(p) ==
  \A h \in Handler : handler[h].by = p /\ handler[h].at = "put" /\ handler[h].data = "part" =>
    handler[h].score \in trashed

Departures == \A p \in Pass \ overlapped : Absent(p) /\ Partial(p)

\* Passes write to the database and the files of their own device only.
LEMMA OwnDevice ==
  ASSUME TypeOK, NEW p \in Pass, SyncStep(p)
  PROVE  \A d \in Device : d # DeviceOf[p] => local'[d] = local[d] /\ file'[d] = file[d]
<1> DEFINE Own == \A d \in Device :
                    d # DeviceOf[p] => local'[d] = local[d] /\ file'[d] = file[d]
<1>d. DeviceOf[p] \in Device
  OBVIOUS
<1>1. ASSUME UNCHANGED <<local, file>> PROVE Own
  BY <1>1
<1>2. ASSUME NEW s, HardDeleteScore(DeviceOf[p], s) PROVE Own
  <2>1. PICK f : file' = [file EXCEPT ![DeviceOf[p]][s] = f]
    BY <1>2 DEF HardDeleteScore
  <2>2. local' = [local EXCEPT ![DeviceOf[p]][s] = NoRow]
    BY <1>2 DEF HardDeleteScore
  <2> QED BY <1>d, <2>1, <2>2 DEF TypeOK
<1>3. ASSUME NEW s, NEW t, SyncScoreFromServer(DeviceOf[p], s, t), file' = file PROVE Own
  BY <1>3 DEF SyncScoreFromServer, TypeOK
<1>4. CASE DeleteReturns(p) \/ UpdateReturns(p) \/ CreateReturns(p)
  BY <1>1, <1>2, <1>3, <1>4 DEF DeleteReturns, UpdateReturns, CreateReturns
<1>5. CASE FinishDownload(p)
  <2>1. SyncScoreFromServer(DeviceOf[p], cur[p], remote[p][cur[p]])
    BY <1>5 DEF FinishDownload
  <2>2. PICK f : file' = [file EXCEPT ![DeviceOf[p]][cur[p]] = f]
    BY <1>5 DEF FinishDownload
  <2> QED BY <1>d, <2>1, <2>2 DEF SyncScoreFromServer, TypeOK
<1>6. CASE \/ Start(p) \/ FirstList(p) \/ ReadLocal(p) \/ SecondList(p) \/ Reread(p)
           \/ BeginPrune(p) \/ EndPass(p) \/ ListFails(p) \/ GiveUp(p) \/ Abort(p)
  BY <1>1, <1>6 DEF localVars, Start, FirstList, ReadLocal, SecondList, Reread, BeginPrune,
     EndPass, ListFails, GiveUp, Abort
<1>7. ASSUME NEW s \in Score,
             \/ SendDelete(p, s) \/ SendUpdate(p, s) \/ SendCreate(p, s)
             \/ SkipCreate(p, s) \/ SkipDownload(p, s)
      PROVE  Own
  BY <1>1, <1>7 DEF localVars, Request, SendDelete, SendUpdate, SendCreate, SkipCreate,
     SkipDownload
<1>8. ASSUME NEW s \in Score, OpenDownload(p, s) PROVE Own
  <2>1. local' = local /\ file' = [file EXCEPT ![DeviceOf[p]][s] = "part"]
    BY <1>8 DEF OpenDownload
  <2> QED BY <1>d, <2>1 DEF TypeOK
<1>9. ASSUME NEW s \in Score, Prune(p, s) PROVE Own
  BY <1>2, <1>9 DEF Prune
<1> QED BY <1>4, <1>5, <1>6, <1>7, <1>8, <1>9 DEF SyncStep

\* A list of the server has all it has had but what users deleted.
LEMMA ListHas ==
  ASSUME IInv, Titled, NEW s \in Score, ListMyScores[s] = NoTitle, s \notin trashed
  PROVE  row[s] = "none" /\ served[s] = {}
<1>1. row[s] # "live"
  <2>1. ASSUME row[s] = "live" PROVE name[s] # NoTitle
    BY <2>1 DEF IInv, Recorded, Titled
  <2> QED BY <2>1 DEF ListMyScores
<1>2. row[s] # "gone"
  BY DEF IInv, DeletedByUserOnly
<1> QED BY <1>1, <1>2 DEF IInv, TypeOK, Recorded

\* A pass's own steps keep what it may conclude from its lists.
LEMMA AbsentOwn ==
  ASSUME IInv, Titled, NEW p \in Pass, Absent(p), Partial(p), SyncStep(p)
  PROVE  Absent(p)' /\ Partial(p)'
<1> USE DEF localVars, serverVars
<1> DEFINE d     == DeviceOf[p]
           Hands == Partial(p)
<1>0. /\ TypeOK /\ Absent(p) /\ Hands /\ d \in Device /\ trashed' = trashed
      /\ SyncedTitleWasServed /\ Held /\ p # Nobody
  BY PassFrame DEF IInv
<1>h. ASSUME handler' = handler PROVE Hands'
  BY <1>0, <1>h DEF Partial
<1>o. ASSUME Orphan(p) PROVE Hands'
  <2>1. ASSUME NEW h \in Handler
        PROVE  /\ handler'[h].at = handler[h].at /\ handler'[h].data = handler[h].data
               /\ handler'[h].score = handler[h].score
               /\ handler'[h].by \in {handler[h].by, Nobody}
    <3>1. handler[h] \in Call
      BY <1>0 DEF TypeOK
    <3> QED BY <1>o, <3>1 DEF Orphan, Call
  <2> QED BY <1>0, <2>1 DEF Partial
<1>c. ASSUME NEW at \in {"put", "read", "remove"}, NEW s, NEW t, NEW f,
             Lost(p) \/ Delivered(p, at, s, t, f),
             at = "put" /\ f = "part" => s \in trashed
      PROVE  Hands'
  <2>1. ASSUME NEW h \in Handler
        PROVE  \/ handler'[h] = handler[h]
               \/ handler'[h].at = at /\ handler'[h].data = f /\ handler'[h].score = s
    BY <1>0, <1>c DEF Lost, Delivered, TypeOK
  <2> QED BY <1>0, <1>c, <2>1 DEF Partial
<1>n. ASSUME pc'[p] \in {"idle", "tombs", "deleting"} PROVE Absent(p)'
  BY <1>n DEF Absent
<1>k. ASSUME UNCHANGED <<remote, snap>>,
             pc[p] \in {"push", "updating", "creating"},
             pc'[p] \in {"push", "updating", "creating"},
             pc'[p] = "creating" => reply'[p] # "invalid",
             \A s \in Score : file'[d][s] # file[d][s] => file'[d][s] = "none"
      PROVE  Absent(p)'
  BY <1>0, <1>k DEF Absent, Listed
<1>l. ASSUME remote'[p] = ListMyScores, NEW s \in Score, ~Listed(p, s)', s \notin trashed
      PROVE  /\ row[s] = "none" /\ ~local[d][s].clean /\ file[d][s] # "part"
  <2>1. row[s] = "none" /\ served[s] = {}
    BY <1>l, ListHas DEF Listed
  <2> QED BY <1>0, <2>1 DEF SyncedTitleWasServed, Held
<1>1. CASE Start(p) \/ EndPass(p) \/ ListFails(p)
  <2>1. pc'[p] \in {"idle", "tombs", "deleting"} /\ handler' = handler
    BY <1>0, <1>1 DEF Start, EndPass, ListFails, Return, TypeOK
  <2> QED BY <1>n, <1>h, <2>1
<1>2. CASE DeleteReturns(p)
  <2>1. pc'[p] \in {"idle", "tombs", "deleting"} /\ handler' = handler
    BY <1>0, <1>2 DEF DeleteReturns, Returned, TypeOK
  <2> QED BY <1>n, <1>h, <2>1
<1>3. CASE Abort(p)
  <2>1. pc'[p] \in {"idle", "tombs", "deleting"} /\ Orphan(p)
    BY <1>0, <1>3 DEF Abort, Return, TypeOK
  <2> QED BY <1>n, <1>o, <2>1
<1>4. CASE FirstList(p) \/ SecondList(p)
  <2>1. /\ remote'[p] = ListMyScores /\ pc'[p] \in {"read", "reread"}
        /\ local' = local /\ file' = file /\ handler' = handler
    BY <1>0, <1>4 DEF FirstList, SecondList, TypeOK
  <2>2. Absent(p)'
    BY <1>0, <1>l, <2>1 DEF Absent
  <2> QED BY <1>h, <2>1, <2>2
<1>5. CASE ReadLocal(p)
  <2>1. pc[p] = "read" /\ pc'[p] = "push" /\ UNCHANGED <<remote, file, handler>>
    BY <1>0, <1>5 DEF ReadLocal, TypeOK
  <2>2. Absent(p)'
    BY <1>0, <2>1 DEF Absent, Listed
  <2> QED BY <1>h, <2>1, <2>2
<1>6. CASE Reread(p)
  <2>1. /\ pc[p] = "reread" /\ pc'[p] = "pull" /\ UNCHANGED <<remote, local, handler>>
        /\ snap'[p] = GetScores(d)
    BY <1>0, <1>6 DEF Reread, TypeOK
  <2>2. \A s \in Score : snap'[p][s].clean => local[d][s].clean
    BY <2>1 DEF GetScores, NoRow, Row
  <2>3. Absent(p)'
    BY <1>0, <2>1, <2>2 DEF Absent, Listed
  <2> QED BY <1>h, <2>1, <2>3
<1>7. CASE UpdateReturns(p)
  <2>1. /\ UNCHANGED <<remote, snap, file, handler>>
        /\ pc[p] = "updating" /\ pc'[p] = "push"
    BY <1>0, <1>7 DEF UpdateReturns, Returned, TypeOK
  <2> QED BY <1>h, <1>k, <2>1
<1>8. CASE CreateReturns(p)
  <2>1. /\ UNCHANGED <<remote, snap, handler>>
        /\ pc[p] = "creating" /\ pc'[p] = "push"
    BY <1>0, <1>8 DEF CreateReturns, Returned, TypeOK
  <2>2. file' = file \/ HardDeleteScore(d, cur[p])
    BY <1>8 DEF CreateReturns
  <2>3. \A s \in Score : file'[d][s] # file[d][s] => file'[d][s] = "none"
    BY <1>0, <2>2 DEF HardDeleteScore, TypeOK
  <2> QED BY <1>h, <1>k, <2>1, <2>3
<1>9. CASE FinishDownload(p)
  <2>1. pc[p] = "download" /\ pc'[p] = "pull" /\ UNCHANGED <<remote, snap, handler>>
    BY <1>0, <1>9 DEF FinishDownload, TypeOK
  <2>2. Absent(p)'
    BY <1>0, <2>1 DEF Absent, Listed
  <2> QED BY <1>h, <2>1, <2>2
<1>10. CASE BeginPrune(p)
  <2>1. /\ pc[p] = "pull" /\ pc'[p] = "prune" /\ UNCHANGED <<remote, snap, handler>>
        /\ todo'[p] = {s \in Score : snap[p][s].clean /\ ~Listed(p, s)}
    BY <1>0, <1>10 DEF BeginPrune, TypeOK
  <2>2. Absent(p)'
    BY <1>0, <2>1 DEF Absent, Listed
  <2> QED BY <1>h, <2>1, <2>2
<1>11. CASE GiveUp(p)
  <2>1. UNCHANGED <<pc, todo, cur, remote, snap, local, file>> /\ Orphan(p) /\ reply'[p] = "error"
    BY <1>0, <1>11 DEF GiveUp, TypeOK
  <2>2. Absent(p)'
    BY <1>0, <2>1 DEF Absent, Listed
  <2> QED BY <1>o, <2>1, <2>2
<1>12. ASSUME NEW s \in Score, SendDelete(p, s) PROVE Absent(p)' /\ Hands'
  <2>1. pc'[p] = "deleting" /\ (Lost(p) \/ Delivered(p, "remove", s, NoTitle, "none"))
    BY <1>0, <1>12 DEF SendDelete, Request, TypeOK
  <2>2. Hands'
    BY <1>c, <2>1
  <2> QED BY <1>n, <2>1, <2>2
<1>13. ASSUME NEW s \in Score, SendUpdate(p, s) PROVE Absent(p)' /\ Hands'
  <2>1. /\ UNCHANGED <<remote, snap, file>> /\ pc[p] = "push" /\ pc'[p] = "updating"
        /\ Lost(p) \/ Delivered(p, "read", s, snap[p][s].title, "none")
    BY <1>0, <1>13 DEF SendUpdate, Request, TypeOK
  <2>2. Hands'
    BY <1>c, <2>1
  <2> QED BY <1>k, <2>1, <2>2
<1>14. ASSUME NEW s \in Score, SendCreate(p, s) PROVE Absent(p)' /\ Hands'
  <2>1. /\ UNCHANGED <<remote, snap, file>> /\ pc[p] = "push" /\ pc'[p] = "creating"
        /\ Lost(p) \/ Delivered(p, "put", s, snap[p][s].title, file[d][s])
        /\ ~Listed(p, s)
    BY <1>0, <1>14 DEF SendCreate, Request, TypeOK
  <2>2. file[d][s] = "part" => s \in trashed
    BY <1>0, <2>1 DEF Absent
  <2> HIDE DEF d
  <2>3. Hands'
    BY <1>c, <2>1, <2>2
  <2>4. reply'[p] # "invalid"
    BY <1>0, <2>1 DEF Lost, Delivered, TypeOK
  <2> QED BY <1>k, <2>1, <2>3, <2>4
<1>15. ASSUME NEW s \in Score, SkipCreate(p, s) \/ SkipDownload(p, s) PROVE Absent(p)' /\ Hands'
  <2>1. /\ UNCHANGED <<pc, remote, snap, file, local, handler, reply, cur>>
        /\ todo'[p] \subseteq todo[p]
    BY <1>0, <1>15 DEF SkipCreate, SkipDownload, TypeOK
  <2>2. Absent(p)'
    BY <1>0, <2>1 DEF Absent, Listed
  <2> QED BY <1>h, <2>1, <2>2
<1>16. ASSUME NEW s \in Score, OpenDownload(p, s) PROVE Absent(p)' /\ Hands'
  <2>1. pc[p] = "pull" /\ pc'[p] = "download" /\ UNCHANGED <<remote, snap, handler>>
    BY <1>0, <1>16 DEF OpenDownload, TypeOK
  <2>2. Absent(p)'
    BY <1>0, <2>1 DEF Absent, Listed
  <2> QED BY <1>h, <2>1, <2>2
<1>17. ASSUME NEW s \in Score, Prune(p, s) PROVE Absent(p)' /\ Hands'
  <2>1. /\ UNCHANGED <<pc, remote, snap, handler>> /\ pc[p] = "prune"
        /\ todo'[p] \subseteq todo[p]
    BY <1>0, <1>17 DEF Prune, TypeOK
  <2>2. Absent(p)'
    BY <1>0, <2>1 DEF Absent, Listed
  <2> QED BY <1>h, <2>1, <2>2
<1> QED
  BY <1>1, <1>2, <1>3, <1>4, <1>5, <1>6, <1>7, <1>8, <1>9, <1>10, <1>11, <1>12, <1>13,
     <1>14, <1>15, <1>16, <1>17 DEF SyncStep

\* What a pass may conclude stays true while others disturb nothing of it.
LEMMA AbsentKept ==
  ASSUME TypeOK, NEW p \in Pass, Absent(p),
         pc'[p] = pc[p], todo'[p] = todo[p], cur'[p] = cur[p],
         remote'[p] = remote[p], snap'[p] = snap[p], trashed \subseteq trashed',
         \A s \in Score : file'[DeviceOf[p]][s] = "part" => file[DeviceOf[p]][s] = "part",
         \A s \in Score : local'[DeviceOf[p]][s].clean => local[DeviceOf[p]][s].clean,
         reply'[p] = "invalid" /\ reply[p] # "invalid" /\ cur[p] \in Valid => cur[p] \in trashed
  PROVE  Absent(p)'
<1>1. ASSUME NEW s \in Score, ~Listed(p, s)', s \notin trashed'
      PROVE  /\ pc'[p] \in {"read", "push", "updating", "creating"} => file'[DeviceOf[p]][s] # "part"
             /\ pc'[p] = "reread" => ~local'[DeviceOf[p]][s].clean
             /\ pc'[p] \in {"pull", "download", "prune"} => ~snap'[p][s].clean
  <2>1. ~Listed(p, s) /\ s \notin trashed
    BY <1>1 DEF Listed
  <2> QED BY <2>1 DEF Absent
<1>2. ASSUME pc'[p] = "prune", NEW s \in todo'[p] PROVE snap'[p][s].clean /\ ~Listed(p, s)'
  BY <1>2 DEF Absent, Listed
<1>3. pc'[p] = "creating" /\ reply'[p] = "invalid" /\ cur'[p] \in Valid => cur'[p] \in trashed'
  BY DEF Absent
<1> QED BY <1>1, <1>2, <1>3 DEF Absent

\* The server rejects an upload that such a pass waits for only if it is
\* invalid or of a score that was deleted.
LEMMA AbsentServer ==
  ASSUME IInv, NEW p \in Pass, Absent(p), Partial(p), NEW h \in Handler, ServerStep(h)
  PROVE  Absent(p)' /\ Partial(p)'
<1>0. /\ TypeOK /\ handler[h] \in Call /\ InHand(h) /\ Caller(h) /\ p # Nobody
      /\ UNCHANGED <<local, file, trashed, pc, todo, cur, remote, snap>>
  BY ServerFrame DEF IInv, TypeOK
<1>1. ASSUME reply'[p] = "invalid", reply[p] # "invalid", cur[p] \in Valid
      PROVE  cur[p] \in trashed
  <2>1. RejectUpload(h) /\ handler[h].by = p
    <3>1. RejectUpload(h)
      BY <1>0, <1>1 DEF ServerStep, passVars, Answer, PutObject, InsertRow, InsertFails, ReadRow,
         SaveRow, RemoveObject, SoftDelete, NotFound, HandlerFails, TypeOK
    <3> QED BY <1>0, <1>1, <3>1 DEF RejectUpload, Answer, TypeOK
  <2>2. handler[h].at = "put" /\ (handler[h].data = "full" => handler[h].score \notin Valid)
    BY <2>1 DEF RejectUpload
  <2>3. handler[h].score = cur[p] /\ handler[h].data \in {"full", "part"}
    BY <1>0, <2>1, <2>2 DEF Caller, InHand
  <2> QED BY <1>0, <1>1, <2>1, <2>2, <2>3 DEF Partial
<1>2. Absent(p)'
  <2>1. reply'[p] = "invalid" /\ reply[p] # "invalid" /\ cur[p] \in Valid => cur[p] \in trashed
    BY <1>1
  <2> QED BY <1>0, <2>1, AbsentKept
<1>3. ASSUME NEW g \in Handler PROVE handler'[g] = handler[g] \/ handler'[g].at # "put"
  <2>1. \/ handler' = [handler EXCEPT ![h] = Idle]
        \/ \E at \in {"insert", "save", "softDelete"} :
             handler' = [handler EXCEPT ![h].at = at]
    BY DEF ServerStep, Answer, RejectUpload, PutObject, InsertRow, InsertFails, ReadRow,
       SaveRow, RemoveObject, SoftDelete, NotFound, HandlerFails
  <2> QED BY <1>0, <2>1 DEF Idle, Call, TypeOK
<1> QED BY <1>0, <1>2, <1>3 DEF Partial

\* Users add whole files, and what they rename is not synced any more.
LEMMA AbsentUser ==
  ASSUME IInv, NEW p \in Pass, Absent(p), Partial(p), User
  PROVE  Absent(p)' /\ Partial(p)'
<1>0. /\ TypeOK /\ trashed \subseteq trashed'
      /\ UNCHANGED <<handler, pc, todo, cur, reply, remote, snap>>
  BY DEF IInv, User, AddScore, RenameScore, MarkScoreDeleted, passVars
<1> DEFINE NoParts == \A e \in Device, r \in Score :
                        file'[e][r] = "part" => file[e][r] = "part"
           NoClean == \A e \in Device, r \in Score :
                        local'[e][r].clean => local[e][r].clean
<1>1. NoParts
  <2>1. ASSUME NEW d \in Device, NEW s \in Score, file' = [file EXCEPT ![d][s] = "full"]
        PROVE  NoParts
    BY <1>0, <2>1 DEF TypeOK
  <2>2. ASSUME file' = file PROVE NoParts
    BY <2>2
  <2> HIDE DEF NoParts
  <2>3. ASSUME NEW d \in Device, NEW s \in Score, NEW t \in Title,
               AddScore(d, s, t) \/ RenameScore(d, s, t)
        PROVE  NoParts
    <3>1. file' = [file EXCEPT ![d][s] = "full"] \/ file' = file
      BY <2>3 DEF AddScore, RenameScore
    <3> QED BY <2>1, <2>2, <3>1
  <2>4. ASSUME NEW d \in Device, NEW s \in Score, MarkScoreDeleted(d, s) PROVE NoParts
    BY <2>2, <2>4 DEF MarkScoreDeleted
  <2> QED BY <2>3, <2>4 DEF User
<1>2. NoClean
  <2>1. ASSUME NEW d \in Device, NEW s \in Score, NEW x, NEW t,
               local' = [local EXCEPT ![d][s] = Row(x, t, FALSE)]
        PROVE  NoClean
    <3> DEFINE new == Row(x, t, FALSE)
    <3>1. ~new.clean /\ local' = [local EXCEPT ![d][s] = new]
      BY <2>1 DEF Row
    <3> HIDE DEF new
    <3> QED BY <1>0, <3>1 DEF TypeOK
  <2> HIDE DEF NoClean
  <2>2. ASSUME NEW d \in Device, NEW s \in Score, NEW t \in Title,
               AddScore(d, s, t) \/ RenameScore(d, s, t)
        PROVE  NoClean
    <3>1. local' = [local EXCEPT ![d][s] = Row("live", t, FALSE)]
      BY <2>2 DEF AddScore, RenameScore
    <3> QED BY <2>1, <3>1
  <2>3. ASSUME NEW d \in Device, NEW s \in Score, MarkScoreDeleted(d, s) PROVE NoClean
    <3>1. local' = [local EXCEPT ![d][s] = Row("tomb", local[d][s].title, FALSE)]
      BY <2>3 DEF MarkScoreDeleted
    <3> QED BY <2>1, <3>1
  <2> QED BY <2>2, <2>3 DEF User
<1>3. Absent(p)'
  <2>1. DeviceOf[p] \in Device
    OBVIOUS
  <2>2. /\ \A s \in Score : file'[DeviceOf[p]][s] = "part" => file[DeviceOf[p]][s] = "part"
        /\ \A s \in Score : local'[DeviceOf[p]][s].clean => local[DeviceOf[p]][s].clean
    BY <1>1, <1>2, <2>1
  <2> QED BY <1>0, <2>2, AbsentKept
<1>4. Partial(p)'
  BY <1>0 DEF Partial
<1> QED BY <1>3, <1>4

\* A pass that ends leaves the device as it is.
LEMMA EndLeaves ==
  ASSUME TypeOK, NEW q \in Pass, SyncStep(q), pc[q] # "idle", pc'[q] = "idle"
  PROVE  local' = local /\ file' = file
<1>1. CASE EndPass(q) \/ ListFails(q) \/ Abort(q)
  BY <1>1 DEF EndPass, ListFails, Abort, localVars
<1>2. CASE \/ Start(q) \/ DeleteReturns(q) \/ FirstList(q) \/ ReadLocal(q) \/ UpdateReturns(q)
           \/ CreateReturns(q) \/ SecondList(q) \/ Reread(q) \/ FinishDownload(q)
           \/ BeginPrune(q) \/ GiveUp(q)
  <2>1. pc'[q] # "idle"
    BY <1>2 DEF Start, DeleteReturns, FirstList, ReadLocal, UpdateReturns, CreateReturns,
       SecondList, Reread, FinishDownload, BeginPrune, GiveUp, Returned, TypeOK
  <2> QED BY <2>1
<1>3. ASSUME NEW s \in Score,
             \/ SendDelete(q, s) \/ SendUpdate(q, s) \/ SendCreate(q, s) \/ SkipCreate(q, s)
             \/ SkipDownload(q, s) \/ OpenDownload(q, s) \/ Prune(q, s)
      PROVE  FALSE
  BY <1>3 DEF SendDelete, SendUpdate, SendCreate, SkipCreate, SkipDownload, OpenDownload, Prune,
     Request, TypeOK
<1> QED BY <1>1, <1>2, <1>3 DEF SyncStep

\* Another pass's step disturbs it only while both are under way on one device.
LEMMA AbsentOther ==
  ASSUME IInv, NEW p \in Pass, Absent(p), Partial(p), NEW q \in Pass, q # p, SyncStep(q),
         pc'[p] # "idle", DeviceOf[q] = DeviceOf[p] => pc'[q] = "idle"
  PROVE  Absent(p)' /\ Partial(p)'
<1>0. /\ TypeOK
      /\ pc'[p] = pc[p] /\ todo'[p] = todo[p] /\ cur'[p] = cur[p] /\ reply'[p] = reply[p]
      /\ remote'[p] = remote[p] /\ snap'[p] = snap[p] /\ trashed' = trashed
  BY PassFrame DEF IInv
<1>1. local'[DeviceOf[p]] = local[DeviceOf[p]] /\ file'[DeviceOf[p]] = file[DeviceOf[p]]
  <2>1. CASE DeviceOf[p] # DeviceOf[q]
    <3>1. DeviceOf[p] \in Device
      OBVIOUS
    <3> QED BY <1>0, <2>1, <3>1, OwnDevice
  <2>2. CASE DeviceOf[p] = DeviceOf[q] /\ pc[q] = "idle"
    <3>1. pc'[q] = "idle"
      BY <2>2
    <3>2. ~Start(q) /\ ~GiveUp(q) /\ ~Abort(q)
      BY <1>0, <2>2, <3>1 DEF Start, GiveUp, Abort, Waiting, TypeOK
    <3> QED
      BY <2>2, <3>2 DEF SyncStep, DeleteReturns, FirstList, ReadLocal, UpdateReturns,
         CreateReturns, SecondList, Reread, FinishDownload, BeginPrune, EndPass, ListFails,
         SendDelete, SendUpdate, SendCreate, SkipCreate, SkipDownload, OpenDownload, Prune,
         Request, Returned
  <2>3. CASE DeviceOf[p] = DeviceOf[q] /\ pc[q] # "idle"
    BY <1>0, <2>3, EndLeaves
  <2> QED BY <2>1, <2>2, <2>3
<1>2. Absent(p)'
  BY <1>0, <1>1, AbsentKept
<1>3. ASSUME NEW g \in Handler, handler'[g].by = p PROVE handler'[g] = handler[g]
  <2>1. \/ handler' = handler
        \/ Orphan(q)
        \/ \E h \in Handler : \E at, s, t, data :
             handler' = [handler EXCEPT ![h] =
               [at |-> at, score |-> s, title |-> t, data |-> data, by |-> q]]
    <3>1. CASE GiveUp(q) \/ Abort(q)
      BY <3>1 DEF GiveUp, Abort
    <3>2. CASE \E s \in Score : SendDelete(q, s) \/ SendUpdate(q, s) \/ SendCreate(q, s)
      BY <3>2 DEF SendDelete, SendUpdate, SendCreate, Lost, Delivered
    <3>3. CASE handler' = handler
      BY <3>3
    <3> QED
      BY <3>1, <3>2, <3>3 DEF SyncStep, Start, DeleteReturns, FirstList, ReadLocal,
         UpdateReturns, CreateReturns, SecondList, Reread, FinishDownload, BeginPrune, EndPass,
         ListFails, SkipCreate, SkipDownload, OpenDownload, Prune, Returned
  <2> QED BY <1>0, <1>3, <2>1 DEF Orphan, TypeOK, Call
<1>4. Partial(p)'
  BY <1>0, <1>3 DEF Partial
<1> QED BY <1>2, <1>4

\* A pass that has ended concludes nothing.
LEMMA AbsentIdle ==
  ASSUME IInv', NEW p \in Pass, pc'[p] = "idle" PROVE Absent(p)' /\ Partial(p)'
<1>1. Absent(p)'
  BY DEF Absent
<1>2. ASSUME NEW h \in Handler, handler'[h].by = p PROVE handler'[h].at # "put"
  <2>1. Caller(h)' /\ p # Nobody
    BY DEF IInv
  <2> QED BY <1>2, <2>1 DEF Caller
<1> QED BY <1>1, <1>2 DEF Partial

\* So whoever takes a step.
LEMMA AbsentStep ==
  ASSUME IInv, IInv', Titled, Departures, [CalmNext]_calmVars PROVE Departures'
<1> SUFFICES ASSUME NEW p \in Pass, p \notin overlapped' PROVE Absent(p)' /\ Partial(p)'
  BY DEF Departures
<1>1. CASE UNCHANGED calmVars
  <2>1. Absent(p) /\ Partial(p)
    BY <1>1 DEF Departures, calmVars
  <2> QED BY <1>1, <2>1 DEF calmVars, vars, localVars, serverVars, passVars, Absent, Partial, Listed
<1>2. CASE pc'[p] = "idle"
  BY <1>2, AbsentIdle
<1>3. CASE CalmNext /\ pc'[p] # "idle"
  <2>1. /\ p \notin overlapped
        /\ \A q \in Pass : q # p /\ DeviceOf[q] = DeviceOf[p] => pc'[q] = "idle"
    BY <1>3 DEF CalmNext
  <2>2. Next /\ Absent(p) /\ Partial(p)
    BY <1>3, <2>1 DEF CalmNext, Departures
  <2>3. ASSUME NEW q \in Pass, SyncStep(q) PROVE Absent(p)' /\ Partial(p)'
    BY <1>3, <2>1, <2>2, <2>3, AbsentOwn, AbsentOther
  <2> QED BY <2>2, <2>3, AbsentUser, AbsentServer DEF Next
<1> QED BY <1>1, <1>2, <1>3

-----------------------------------------------------------------------------
(* ScoreSync implements Custody *)

\* What has a name somewhere was made by a user; and the server has, or is
\* about to store, only what it accepts.
Made ==
  /\ \A d \in Device, s \in Score : local[d][s].st # "none" => origin[s] # Nobody
  /\ \A s \in Score : row[s] # "none" => s \in Valid /\ origin[s] # Nobody
  /\ \A p \in Pass : /\ \A s \in todo[p] : origin[s] # Nobody
                     /\ cur[p] \in Score => origin[cur[p]] # Nobody
  /\ \A h \in Handler :
       /\ handler[h].at # "idle" => origin[handler[h].score] # Nobody
       /\ handler[h].at = "insert" => handler[h].score \in Valid

\* A deletion that was confirmed to a pass was one of a score the server has had.
Confirmed ==
  \A p \in Pass : pc[p] = "deleting" /\ reply[p] = "ok" => row[cur[p]] # "none"

\* A user makes a score, or changes one that was made.
LEMMA MadeUser ==
  ASSUME IInv, Made, Confirmed, User
  PROVE  Made' /\ Confirmed'
<1>0. TypeOK /\ UNCHANGED <<row, handler, pc, todo, cur, reply>>
  BY DEF IInv, User, AddScore, RenameScore, MarkScoreDeleted, serverVars, passVars
<1> DEFINE Touches(d, s) ==
             \A e \in Device, r \in Score : local'[e][r] = local[e][r] \/ (e = d /\ r = s)
           Kept(s) == /\ origin'[s] # Nobody
                      /\ \A r \in Score : origin[r] # Nobody => origin'[r] # Nobody
<1>a. ASSUME NEW d \in Device, NEW s \in Score, NEW new, local' = [local EXCEPT ![d][s] = new]
      PROVE  Touches(d, s)
  BY <1>0, <1>a DEF TypeOK
<1>b. ASSUME NEW d \in Device, NEW s \in Score, local[d][s].st = "live", origin' = origin
      PROVE  Kept(s)
  BY <1>b DEF Made
<1>1. PICK d \in Device, s \in Score : Touches(d, s) /\ Kept(s)
  <2>1. ASSUME NEW d \in Device, NEW s \in Score, NEW t \in Title, AddScore(d, s, t)
        PROVE  Touches(d, s) /\ Kept(s)
    <3>1. local' = [local EXCEPT ![d][s] = Row("live", t, FALSE)]
      BY <2>1 DEF AddScore
    <3>2. Touches(d, s)
      BY <1>a, <3>1
    <3>3. origin' = [origin EXCEPT ![s] = d] /\ d # Nobody
      BY <2>1 DEF AddScore
    <3>4. Kept(s)
      BY <1>0, <3>3 DEF TypeOK
    <3> QED BY <3>2, <3>4
  <2>2. ASSUME NEW d \in Device, NEW s \in Score, NEW t \in Title, RenameScore(d, s, t)
        PROVE  Touches(d, s) /\ Kept(s)
    <3>1. /\ local' = [local EXCEPT ![d][s] = Row("live", t, FALSE)]
          /\ local[d][s].st = "live" /\ origin' = origin
      BY <2>2 DEF RenameScore
    <3> HIDE DEF Touches, Kept
    <3> QED BY <1>a, <1>b, <3>1
  <2>3. ASSUME NEW d \in Device, NEW s \in Score, MarkScoreDeleted(d, s)
        PROVE  Touches(d, s) /\ Kept(s)
    <3>1. /\ local' = [local EXCEPT ![d][s] = Row("tomb", local[d][s].title, FALSE)]
          /\ local[d][s].st = "live" /\ origin' = origin
      BY <2>3 DEF MarkScoreDeleted
    <3> HIDE DEF Touches, Kept
    <3> QED BY <1>a, <1>b, <3>1
  <2> HIDE DEF Touches, Kept
  <2> QED BY <2>1, <2>2, <2>3 DEF User
<1>2. \A h \in Handler : handler[h].at # "idle" => handler[h].score \in Score
  BY DEF IInv, InHand
<1>3. \A p \in Pass : todo[p] \subseteq Score
  BY <1>0 DEF TypeOK
<1>4. \A e \in Device, r \in Score : local'[e][r].st # "none" => origin'[r] # Nobody
  BY <1>1 DEF Made
<1> QED BY <1>0, <1>1, <1>2, <1>3, <1>4 DEF Made, Confirmed

\* The server stores what a handler has in hand.
LEMMA MadeServer ==
  ASSUME IInv, Made, Confirmed, NEW h \in Handler, ServerStep(h)
  PROVE  Made' /\ Confirmed'
<1>0. /\ TypeOK /\ UNCHANGED <<origin, local, pc, todo, cur>>
      /\ handler[h] \in Call /\ InHand(h) /\ Caller(h)
      /\ \A s \in Score : row[s] # "none" => row'[s] # "none"
  BY ServerFrame DEF IInv, TypeOK
<1>1. \A s \in Score : row'[s] # "none" =>
        row[s] # "none" \/ (s = handler[h].score /\ handler[h].at = "insert")
  <2>1. CASE InsertRow(h)
    BY <1>0, <2>1 DEF InsertRow, TypeOK
  <2>2. CASE SaveRow(h) \/ SoftDelete(h)
    BY <1>0, <2>2 DEF SaveRow, SoftDelete, InHand, TypeOK
  <2>3. CASE row' = row
    BY <2>3
  <2> QED BY <2>1, <2>2, <2>3 DEF ServerStep, serverVars, RejectUpload, PutObject, InsertFails,
             ReadRow, RemoveObject, NotFound, HandlerFails
<1>2. ASSUME NEW g \in Handler, handler'[g].at # "idle"
      PROVE  /\ handler[g].at # "idle" /\ handler'[g].score = handler[g].score
             /\ handler'[g].at = "insert" =>
                  handler[g].at = "insert" \/ handler[g].score \in Valid
  <2>1. \/ handler' = [handler EXCEPT ![h] = Idle]
        \/ /\ handler[h].at = "put"
           /\ handler[h].data = "full" => handler[h].score \in Valid
           /\ handler' = [handler EXCEPT ![h].at = "insert"]
        \/ /\ handler[h].at # "idle"
           /\ \/ handler' = [handler EXCEPT ![h].at = "save"]
              \/ handler' = [handler EXCEPT ![h].at = "softDelete"]
    BY DEF ServerStep, Answer, RejectUpload, PutObject, InsertRow, InsertFails, ReadRow, SaveRow,
       RemoveObject, SoftDelete, NotFound, HandlerFails
  <2>2. CASE handler' = [handler EXCEPT ![h] = Idle]
    BY <1>0, <1>2, <2>2 DEF Idle, TypeOK
  <2>3. CASE /\ handler[h].at = "put"
             /\ handler[h].data = "full" => handler[h].score \in Valid
             /\ handler' = [handler EXCEPT ![h].at = "insert"]
    <3>1. handler[h].score \in Valid
      BY <1>0, <2>3 DEF InHand, Made
    <3> QED BY <1>0, <1>2, <2>3, <3>1 DEF Call, TypeOK
  <2>4. ASSUME handler[h].at # "idle", NEW at \in {"save", "softDelete"},
               handler' = [handler EXCEPT ![h].at = at]
        PROVE  /\ handler[g].at # "idle" /\ handler'[g].score = handler[g].score
               /\ handler'[g].at = "insert" => handler[g].at = "insert"
    BY <1>0, <1>2, <2>4 DEF Call, TypeOK
  <2> QED BY <2>1, <2>2, <2>3, <2>4
<1>3. Made'
  <2>1. \A s \in Score : row'[s] # "none" => s \in Valid /\ origin[s] # Nobody
    BY <1>1 DEF Made
  <2> QED BY <1>0, <1>2, <2>1 DEF Made
<1>4. ASSUME NEW p \in Pass, pc[p] = "deleting", reply'[p] = "ok" PROVE row'[cur[p]] # "none"
  <2>0. cur[p] \in Score
    BY <1>0, <1>4 DEF TypeOK, Waiting
  <2>1. CASE reply[p] = "ok"
    BY <1>0, <1>4, <2>0, <2>1 DEF Confirmed
  <2>2. CASE reply[p] # "ok"
    <3>1. handler[h].by = p /\ (InsertRow(h) \/ SaveRow(h) \/ SoftDelete(h))
      BY <1>0, <1>4, <2>2 DEF ServerStep, passVars, Answer, RejectUpload, PutObject, InsertRow,
         InsertFails, ReadRow, SaveRow, RemoveObject, SoftDelete, NotFound, HandlerFails, TypeOK
    <3>2. cur[p] = handler[h].score /\ handler[h].at = "softDelete" /\ p # Nobody
      BY <1>0, <1>4, <3>1 DEF Caller, InsertRow, SaveRow, SoftDelete
    <3>3. row[cur[p]] # "none"
      BY <1>0, <3>2 DEF InHand
    <3> QED BY <1>0, <2>0, <3>3
  <2> QED BY <2>1, <2>2
<1> QED BY <1>0, <1>3, <1>4 DEF Confirmed

\* A pass works on what it found on the device or the server's list.
LEMMA MadePass ==
  ASSUME IInv, Made, Confirmed, NEW p \in Pass, SyncStep(p)
  PROVE  Made' /\ Confirmed'
<1> USE DEF localVars, serverVars
<1> DEFINE Rows  == \A e \in Device, s \in Score : local[e][s].st # "none" => origin[s] # Nobody
           Hands == \A h \in Handler :
                      /\ handler[h].at # "idle" => origin[handler[h].score] # Nobody
                      /\ handler[h].at = "insert" => handler[h].score \in Valid
           Own   == /\ \A s \in todo[p] : origin[s] # Nobody
                    /\ cur[p] \in Score => origin[cur[p]] # Nobody
                    /\ pc[p] = "deleting" /\ reply[p] = "ok" => row[cur[p]] # "none"
<1>0. TypeOK /\ RememberedBy(p) /\ Recorded /\ Rows /\ Hands /\ Own /\ DeviceOf[p] \in Device
  BY DEF IInv, Made, Confirmed
<1>f. /\ UNCHANGED <<origin, row>>
      /\ \A q \in Pass : q # p => /\ pc'[q] = pc[q] /\ todo'[q] = todo[q]
                                  /\ cur'[q] = cur[q] /\ reply'[q] = reply[q]
  BY <1>0, PassFrame
<1>q. ASSUME Rows', Hands', Own' PROVE Made' /\ Confirmed'
  BY <1>f, <1>q DEF Made, Confirmed
<1>r. ASSUME local' = local PROVE Rows'
  BY <1>0, <1>f, <1>r
<1>w. ASSUME NEW s, NEW r, s \in Score => origin[s] # Nobody \/ r.st = "none",
             local' = [local EXCEPT ![DeviceOf[p]][s] = r]
      PROVE  Rows'
  BY <1>0, <1>f, <1>w DEF TypeOK
<1>d. ASSUME NEW s, HardDeleteScore(DeviceOf[p], s) PROVE Rows'
  <2>1. NoRow.st = "none" /\ local' = [local EXCEPT ![DeviceOf[p]][s] = NoRow]
    BY <1>d DEF HardDeleteScore, NoRow, Row
  <2> QED BY <1>w, <2>1
<1>s. ASSUME NEW s, NEW t, SyncScoreFromServer(DeviceOf[p], s, t), s \in Score => origin[s] # Nobody
      PROVE  Rows'
  <2>1. local' = [local EXCEPT ![DeviceOf[p]][s] = Row("live", t, TRUE)]
    BY <1>s DEF SyncScoreFromServer
  <2> QED BY <1>s, <1>w, <2>1
<1>h. ASSUME handler' = handler PROVE Hands'
  BY <1>0, <1>f, <1>h
<1>o. ASSUME Orphan(p) PROVE Hands'
  <2>1. ASSUME NEW h \in Handler
        PROVE  handler'[h].at = handler[h].at /\ handler'[h].score = handler[h].score
    <3>1. handler[h] \in Call
      BY <1>0 DEF TypeOK
    <3> QED BY <1>o, <3>1 DEF Orphan, Call
  <2> QED BY <1>0, <1>f, <2>1
<1>c. ASSUME NEW at \in {"put", "read", "remove"}, NEW s, NEW t, NEW f,
             Lost(p) \/ Delivered(p, at, s, t, f), origin[s] # Nobody
      PROVE  Hands'
  <2>1. ASSUME NEW h \in Handler
        PROVE  handler'[h] = handler[h] \/ (handler'[h].at = at /\ handler'[h].score = s)
    BY <1>0, <1>c DEF Lost, Delivered, TypeOK
  <2> QED BY <1>0, <1>c, <1>f, <2>1
<1>l. ASSUME NEW s \in Score, Listed(p, s) PROVE origin[s] # Nobody
  BY <1>0, <1>l DEF RememberedBy, Recorded, Made
<1>1. CASE Start(p)
  <2>1. todo' = [todo EXCEPT ![p] = GetDeletedScoreIDs(DeviceOf[p])] /\ UNCHANGED <<local, handler, cur>>
    BY <1>1 DEF Start
  <2>2. Own'
    BY <1>0, <1>f, <1>1, <2>1 DEF Start, GetDeletedScoreIDs, TypeOK
  <2> QED BY <1>q, <1>r, <1>h, <2>1, <2>2
<1>2. CASE EndPass(p) \/ ListFails(p)
  <2>1. Own' /\ UNCHANGED <<local, handler>>
    BY <1>0, <1>2 DEF EndPass, ListFails, Return, TypeOK
  <2> QED BY <1>q, <1>r, <1>h, <2>1
<1>3. CASE Abort(p)
  <2>1. Own' /\ local' = local /\ Orphan(p)
    BY <1>0, <1>3 DEF Abort, Return, TypeOK
  <2> QED BY <1>q, <1>r, <1>o, <2>1
<1>4. CASE GiveUp(p)
  <2>1. reply'[p] = "error" /\ UNCHANGED <<local, pc, todo, cur>> /\ Orphan(p)
    BY <1>0, <1>4 DEF GiveUp, TypeOK
  <2>2. Own'
    BY <1>0, <1>f, <2>1
  <2> QED BY <1>q, <1>r, <1>o, <2>1, <2>2
<1>5. CASE FirstList(p) \/ SecondList(p)
  <2>1. UNCHANGED <<local, handler, todo, cur, reply>> /\ pc'[p] # "deleting"
    BY <1>0, <1>5 DEF FirstList, SecondList, TypeOK
  <2>2. Own'
    BY <1>0, <1>f, <2>1
  <2> QED BY <1>q, <1>r, <1>h, <2>1, <2>2
<1>6. CASE ReadLocal(p) \/ Reread(p)
  <2>1. UNCHANGED <<local, handler, cur, reply>> /\ pc'[p] # "deleting"
    BY <1>0, <1>6 DEF ReadLocal, Reread, TypeOK
  <2>2. ASSUME NEW s \in todo'[p] PROVE origin[s] # Nobody
    <3>1. CASE ReadLocal(p)
      <4>1. s \in Score /\ GetScores(DeviceOf[p])[s].st = "live"
        BY <1>0, <2>2, <3>1 DEF ReadLocal, TypeOK
      <4>2. local[DeviceOf[p]][s].st = "live"
        BY <4>1 DEF GetScores, NoRow, Row
      <4> QED BY <1>0, <4>1, <4>2
    <3>2. CASE Reread(p)
      <4>1. s \in Score /\ Listed(p, s)
        BY <1>0, <2>2, <3>2 DEF Reread, TypeOK
      <4> QED BY <1>l, <4>1
    <3> QED BY <1>6, <3>1, <3>2
  <2>3. Own'
    BY <1>0, <1>f, <2>1, <2>2
  <2> QED BY <1>q, <1>r, <1>h, <2>1, <2>3
<1>7. CASE BeginPrune(p)
  <2>1. UNCHANGED <<local, handler, cur, reply>> /\ pc'[p] # "deleting"
    BY <1>0, <1>7 DEF BeginPrune, TypeOK
  <2>2. ASSUME NEW s \in todo'[p] PROVE origin[s] # Nobody
    <3>1. s \in Score /\ snap[p][s].clean
      BY <1>0, <1>7, <2>2 DEF BeginPrune, TypeOK
    <3> QED BY <1>0, <3>1 DEF RememberedBy, Recorded, Made
  <2>3. Own'
    BY <1>0, <1>f, <2>1, <2>2
  <2> QED BY <1>q, <1>r, <1>h, <2>1, <2>3
<1>8. CASE DeleteReturns(p) \/ UpdateReturns(p) \/ CreateReturns(p)
  <2>1. UNCHANGED <<handler, todo>> /\ pc'[p] # "deleting" /\ cur'[p] = NoScore
    BY <1>0, <1>8 DEF DeleteReturns, UpdateReturns, CreateReturns, Returned, TypeOK
  <2>2. Own'
    BY <1>0, <1>f, <2>1
  <2>3. \/ HardDeleteScore(DeviceOf[p], cur[p])
        \/ SyncScoreFromServer(DeviceOf[p], cur[p], snap[p][cur[p]].title)
        \/ local' = local
    BY <1>8 DEF DeleteReturns, UpdateReturns, CreateReturns
  <2>4. Rows'
    <3> HIDE DEF Rows
    <3>1. cur[p] \in Score => origin[cur[p]] # Nobody
      BY <1>0
    <3> QED BY <1>d, <1>r, <1>s, <2>3, <3>1
  <2> QED BY <1>q, <1>h, <2>1, <2>2, <2>4
<1>9. CASE FinishDownload(p)
  <2>1. UNCHANGED <<handler, todo, reply>> /\ pc'[p] # "deleting" /\ cur'[p] = NoScore
    BY <1>0, <1>9 DEF FinishDownload, TypeOK
  <2>2. Own'
    BY <1>0, <1>f, <2>1
  <2>3. SyncScoreFromServer(DeviceOf[p], cur[p], remote[p][cur[p]])
    BY <1>9 DEF FinishDownload
  <2>4. Rows'
    <3> HIDE DEF Rows
    <3>1. cur[p] \in Score => origin[cur[p]] # Nobody
      BY <1>0
    <3> QED BY <1>s, <2>3, <3>1
  <2> QED BY <1>q, <1>h, <2>1, <2>2, <2>4
<1>10. ASSUME NEW s \in Score, SendDelete(p, s) \/ SendUpdate(p, s) \/ SendCreate(p, s)
       PROVE  Made' /\ Confirmed'
  <2>1. /\ s \in todo[p] /\ local' = local /\ todo' = [todo EXCEPT ![p] = @ \ {s}]
        /\ cur' = [cur EXCEPT ![p] = s]
    BY <1>10 DEF SendDelete, SendUpdate, SendCreate, Request
  <2>2. reply'[p] # "ok"
    BY <1>0, <1>10 DEF SendDelete, SendUpdate, SendCreate, Lost, Delivered, TypeOK
  <2>3. origin[s] # Nobody
    BY <1>0, <2>1
  <2>4. Own'
    BY <1>0, <1>f, <2>1, <2>2, <2>3 DEF TypeOK
  <2>5. \E at \in {"put", "read", "remove"} : \E t, f : Lost(p) \/ Delivered(p, at, s, t, f)
    BY <1>10 DEF SendDelete, SendUpdate, SendCreate
  <2>6. Hands'
    <3> HIDE DEF Hands
    <3> QED BY <1>c, <2>3, <2>5
  <2> QED BY <1>q, <1>r, <2>1, <2>4, <2>6
<1>11. ASSUME NEW s \in Score, SkipCreate(p, s) \/ SkipDownload(p, s) \/ OpenDownload(p, s)
       PROVE  Made' /\ Confirmed'
  <2>1. /\ s \in todo[p] /\ UNCHANGED <<local, handler, reply>>
        /\ todo' = [todo EXCEPT ![p] = @ \ {s}]
        /\ cur' = cur \/ cur' = [cur EXCEPT ![p] = s]
        /\ pc'[p] # "deleting"
    BY <1>0, <1>11 DEF SkipCreate, SkipDownload, OpenDownload, passVars, TypeOK
  <2>2. Own'
    BY <1>0, <1>f, <2>1 DEF TypeOK
  <2> QED BY <1>q, <1>r, <1>h, <2>1, <2>2
<1>12. ASSUME NEW s \in Score, Prune(p, s) PROVE Made' /\ Confirmed'
  <2>1. /\ UNCHANGED <<handler, cur, reply, pc>> /\ todo' = [todo EXCEPT ![p] = @ \ {s}]
        /\ pc[p] = "prune" /\ HardDeleteScore(DeviceOf[p], s)
    BY <1>12 DEF Prune
  <2>2. Own'
    BY <1>0, <1>f, <2>1 DEF TypeOK
  <2>3. Rows'
    <3> HIDE DEF Rows
    <3> QED BY <1>d, <2>1
  <2> QED BY <1>q, <1>h, <2>1, <2>2, <2>3
<1> QED
  BY <1>1, <1>2, <1>3, <1>4, <1>5, <1>6, <1>7, <1>8, <1>9, <1>10, <1>11, <1>12 DEF SyncStep

\* Both are inductive, given IInv.
LEMMA MadeStays == ASSUME IInv, Made, Confirmed, [Next]_vars PROVE Made' /\ Confirmed'
<1>1. CASE UNCHANGED vars
  BY <1>1 DEF vars, localVars, serverVars, passVars, Made, Confirmed
<1> QED BY <1>1, MadeUser, MadeServer, MadePass DEF Next

\* The rows of all devices, as Custody sees them.
Fates == {"none", "dirty", "clean", "tomb"}
Copies == [d \in Device |-> [s \in Score |-> Standing(local[d][s])]]

\* A table of tables that differs from another in one place.
LEMMA OnePlace ==
  ASSUME NEW D, NEW X, NEW V, NEW f \in [D -> [X -> V]], NEW g \in [D -> [X -> V]],
         NEW d \in D, NEW x \in X, NEW v \in V,
         \A e \in D, y \in X : g[e][y] = IF e = d /\ y = x THEN v ELSE f[e][y]
  PROVE  g = [f EXCEPT ![d][x] = v]
<1> DEFINE h == [f EXCEPT ![d][x] = v]
<1>1. h \in [D -> [X -> V]]
  OBVIOUS
<1>2. \A e \in D, y \in X : h[e][y] = g[e][y]
  OBVIOUS
<1> HIDE DEF h
<1>3. ASSUME NEW e \in D PROVE h[e] = g[e]
  <2>1. h[e] \in [X -> V] /\ g[e] \in [X -> V] /\ \A y \in X : h[e][y] = g[e][y]
    BY <1>1, <1>2
  <2> QED BY <2>1
<1>4. h = g
  BY <1>1, <1>3
<1> QED BY <1>4 DEF h

\* One row more or less is one copy more or less.
LEMMA CopyOne ==
  ASSUME TypeOK, NEW d \in Device, NEW s \in Score, NEW S \in Fates,
         \A e \in Device, t \in Score :
           Standing(local'[e][t]) = IF e = d /\ t = s THEN S ELSE Standing(local[e][t])
  PROVE  Copies' = [Copies EXCEPT ![d][s] = S]
<1>1. \A e \in Device, t \in Score : Standing(local[e][t]) \in Fates
  BY DEF TypeOK, LocalRow, Standing, Fates
<1>2. /\ Copies \in [Device -> [Score -> Fates]]
      /\ \A e \in Device, t \in Score : Copies[e][t] = Standing(local[e][t])
  BY <1>1 DEF Copies
<1>3. \A e \in Device, t \in Score : Standing(local'[e][t]) \in Fates
  BY <1>1
<1>4. /\ Copies' \in [Device -> [Score -> Fates]]
      /\ \A e \in Device, t \in Score : Copies'[e][t] = Standing(local'[e][t])
  BY <1>3 DEF Copies
<1>5. \A e \in Device, t \in Score :
        Copies'[e][t] = IF e = d /\ t = s THEN S ELSE Copies[e][t]
  BY <1>2, <1>4
<1> HIDE DEF Copies
<1> QED BY <1>2, <1>4, <1>5, OnePlace

\* Nothing that Custody promises something about changes.
LEMMA Stutter ==
  ASSUME UNCHANGED <<origin, local, row, trashed>>
  PROVE  UNCHANGED Promise!library
BY DEF Promise!library

\* What the rows say of themselves.
LEMMA Standings ==
  /\ \A t : Standing(Row("live", t, TRUE)) = "clean"
  /\ \A t : Standing(Row("live", t, FALSE)) = "dirty"
  /\ \A t, c : Standing(Row("tomb", t, c)) = "tomb"
  /\ Standing(NoRow) = "none"
  /\ \A r \in LocalRow : r.st = "live" => Standing(r) \in {"dirty", "clean"}
BY DEF Standing, Row, NoRow, LocalRow

\* The copies that the rows a step writes stand for.
LEMMA CopyBecomes ==
  ASSUME TypeOK, NEW d \in Device, NEW s \in Score
  PROVE  /\ \A t : local' = [local EXCEPT ![d][s] = Row("live", t, FALSE)]
                   => Copies' = [Copies EXCEPT ![d][s] = "dirty"]
         /\ \A t : local' = [local EXCEPT ![d][s] = Row("live", t, TRUE)]
                   => Copies' = [Copies EXCEPT ![d][s] = "clean"]
         /\ \A t : local' = [local EXCEPT ![d][s] = Row("tomb", t, FALSE)]
                   => Copies' = [Copies EXCEPT ![d][s] = "tomb"]
         /\ local' = [local EXCEPT ![d][s] = NoRow]
                   => Copies' = [Copies EXCEPT ![d][s] = "none"]
<1>0. ASSUME NEW r, local' = [local EXCEPT ![d][s] = r]
      PROVE  \A e \in Device, u \in Score :
               Standing(local'[e][u]) =
                 IF e = d /\ u = s THEN Standing(r) ELSE Standing(local[e][u])
  <2>1. \A e \in Device, u \in Score :
          local'[e][u] = IF e = d /\ u = s THEN r ELSE local[e][u]
    BY <1>0 DEF TypeOK
  <2> SUFFICES ASSUME NEW e \in Device, NEW u \in Score
               PROVE  Standing(local'[e][u]) =
                        IF e = d /\ u = s THEN Standing(r) ELSE Standing(local[e][u])
    OBVIOUS
  <2>2. CASE e = d /\ u = s
    BY <2>1, <2>2
  <2>3. CASE ~(e = d /\ u = s)
    <3>1. local'[e][u] = local[e][u]
      BY <2>1, <2>3
    <3> QED BY <2>3, <3>1
  <2> QED BY <2>2, <2>3
<1>1. ASSUME NEW t, local' = [local EXCEPT ![d][s] = Row("live", t, FALSE)]
      PROVE  Copies' = [Copies EXCEPT ![d][s] = "dirty"]
  <2>1. Standing(Row("live", t, FALSE)) = "dirty" /\ "dirty" \in Fates
    BY Standings DEF Fates
  <2> DEFINE r == Row("live", t, FALSE)
  <2>2. local' = [local EXCEPT ![d][s] = r] /\ Standing(r) = "dirty"
    BY <1>1, <2>1
  <2> HIDE DEF r
  <2>3. \A e \in Device, u \in Score :
          Standing(local'[e][u]) =
            IF e = d /\ u = s THEN Standing(r) ELSE Standing(local[e][u])
    BY <1>0, <2>2, Zenon
  <2>4. \A e \in Device, u \in Score :
          Standing(local'[e][u]) = IF e = d /\ u = s THEN "dirty" ELSE Standing(local[e][u])
    BY <2>2, <2>3
  <2> QED BY <2>1, <2>4, CopyOne
<1>2. ASSUME NEW t, local' = [local EXCEPT ![d][s] = Row("live", t, TRUE)]
      PROVE  Copies' = [Copies EXCEPT ![d][s] = "clean"]
  <2>1. Standing(Row("live", t, TRUE)) = "clean" /\ "clean" \in Fates
    BY Standings DEF Fates
  <2> DEFINE r == Row("live", t, TRUE)
  <2>2. local' = [local EXCEPT ![d][s] = r] /\ Standing(r) = "clean"
    BY <1>2, <2>1
  <2> HIDE DEF r
  <2>3. \A e \in Device, u \in Score :
          Standing(local'[e][u]) =
            IF e = d /\ u = s THEN Standing(r) ELSE Standing(local[e][u])
    BY <1>0, <2>2, Zenon
  <2>4. \A e \in Device, u \in Score :
          Standing(local'[e][u]) = IF e = d /\ u = s THEN "clean" ELSE Standing(local[e][u])
    BY <2>2, <2>3
  <2> QED BY <2>1, <2>4, CopyOne
<1>3. ASSUME NEW t, local' = [local EXCEPT ![d][s] = Row("tomb", t, FALSE)]
      PROVE  Copies' = [Copies EXCEPT ![d][s] = "tomb"]
  <2>1. Standing(Row("tomb", t, FALSE)) = "tomb" /\ "tomb" \in Fates
    BY Standings DEF Fates
  <2> DEFINE r == Row("tomb", t, FALSE)
  <2>2. local' = [local EXCEPT ![d][s] = r] /\ Standing(r) = "tomb"
    BY <1>3, <2>1
  <2> HIDE DEF r
  <2>3. \A e \in Device, u \in Score :
          Standing(local'[e][u]) =
            IF e = d /\ u = s THEN Standing(r) ELSE Standing(local[e][u])
    BY <1>0, <2>2, Zenon
  <2>4. \A e \in Device, u \in Score :
          Standing(local'[e][u]) = IF e = d /\ u = s THEN "tomb" ELSE Standing(local[e][u])
    BY <2>2, <2>3
  <2> QED BY <2>1, <2>4, CopyOne
<1>4. ASSUME local' = [local EXCEPT ![d][s] = NoRow]
      PROVE  Copies' = [Copies EXCEPT ![d][s] = "none"]
  <2>1. Standing(NoRow) = "none" /\ "none" \in Fates
    BY Standings DEF Fates
  <2> DEFINE r == NoRow
  <2>2. local' = [local EXCEPT ![d][s] = r] /\ Standing(r) = "none"
    BY <1>4, <2>1
  <2> HIDE DEF r
  <2>3. \A e \in Device, u \in Score :
          Standing(local'[e][u]) =
            IF e = d /\ u = s THEN Standing(r) ELSE Standing(local[e][u])
    BY <1>0, <2>2, Zenon
  <2>4. \A e \in Device, u \in Score :
          Standing(local'[e][u]) = IF e = d /\ u = s THEN "none" ELSE Standing(local[e][u])
    BY <2>2, <2>3
  <2> QED BY <2>1, <2>4, CopyOne
<1> QED BY <1>1, <1>2, <1>3, <1>4

\* Nothing but ScoreSync's steps happens.
LEMMA CalmRefines == (CalmInit => Init) /\ ([CalmNext]_calmVars => [Next]_vars)
BY DEF CalmInit, CalmNext, calmVars

\* What users do is what Custody lets them do.
LEMMA UserSteps == ASSUME TypeOK, User PROVE Promise!Change
<1> USE DEF serverVars
<1>1. ASSUME NEW d \in Device, NEW s \in Score, NEW t \in Title, AddScore(d, s, t)
      PROVE  Promise!Change
  <2>1. local' = [local EXCEPT ![d][s] = Row("live", t, FALSE)]
    BY <1>1 DEF AddScore
  <2>2. Copies' = [Copies EXCEPT ![d][s] = "dirty"]
    BY <2>1, CopyBecomes
  <2>3. Promise!Make(d, s)
    BY <1>1, <2>2 DEF AddScore, Promise!Make, Copies
  <2> QED BY <2>3 DEF Promise!Change
<1>2. ASSUME NEW d \in Device, NEW s \in Score, local[d][s].st = "live"
      PROVE  Copies[d][s] \in Promise!Here
  <2>1. local[d][s] \in LocalRow
    BY DEF TypeOK
  <2>2. Standing(local[d][s]) \in {"dirty", "clean"}
    BY <1>2, <2>1, Standings
  <2> QED BY <2>2 DEF Copies, Promise!Here
<1>3. ASSUME NEW d \in Device, NEW s \in Score, NEW t \in Title, RenameScore(d, s, t)
      PROVE  Promise!Change
  <2>1. local' = [local EXCEPT ![d][s] = Row("live", t, FALSE)] /\ local[d][s].st = "live"
    BY <1>3 DEF RenameScore
  <2>2. Copies' = [Copies EXCEPT ![d][s] = "dirty"] /\ Copies[d][s] \in Promise!Here
    BY <1>2, <2>1, CopyBecomes
  <2>3. Promise!Edit(d, s)
    BY <1>3, <2>2 DEF RenameScore, Promise!Edit, Copies
  <2> QED BY <2>3 DEF Promise!Change
<1>4. ASSUME NEW d \in Device, NEW s \in Score, MarkScoreDeleted(d, s) PROVE Promise!Change
  <2>1. /\ local' = [local EXCEPT ![d][s] = Row("tomb", local[d][s].title, FALSE)]
        /\ local[d][s].st = "live"
    BY <1>4 DEF MarkScoreDeleted
  <2>2. Copies' = [Copies EXCEPT ![d][s] = "tomb"] /\ Copies[d][s] \in Promise!Here
    BY <1>2, <2>1, CopyBecomes
  <2>3. Promise!Trash(d, s)
    BY <1>4, <2>2 DEF MarkScoreDeleted, Promise!Trash, Copies
  <2> QED BY <2>3 DEF Promise!Change
<1> QED BY <1>1, <1>3, <1>4 DEF User

\* The server stores what was made and removes what was deleted.
LEMMA ServerSteps ==
  ASSUME IInv, Made, NEW h \in Handler, ServerStep(h)
  PROVE  Promise!Change \/ UNCHANGED Promise!library
<1>0. /\ TypeOK /\ InHand(h) /\ handler[h] \in Call
      /\ UNCHANGED <<origin, local, trashed>>
  BY ServerFrame DEF IInv, TypeOK
<1> DEFINE s == handler[h].score
<1>1. CASE InsertRow(h) \/ SaveRow(h)
  <2>1. row' = [row EXCEPT ![s] = "live"] /\ handler[h].at \in {"insert", "save"}
    BY <1>1 DEF InsertRow, SaveRow
  <2>2. s \in Score /\ s \in Valid /\ origin[s] # Nobody
    BY <1>0, <2>1 DEF InHand, Made
  <2>3. Promise!Store(s)
    BY <1>0, <2>1, <2>2 DEF Promise!Store
  <2> QED BY <2>2, <2>3 DEF Promise!Change
<1>2. CASE SoftDelete(h)
  <2>1. row' = [row EXCEPT ![s] = "gone"] /\ handler[h].at = "softDelete"
    BY <1>2 DEF SoftDelete
  <2>2. s \in Score /\ s \in trashed /\ row[s] # "none"
    BY <1>0, <2>1 DEF InHand
  <2>3. Promise!Remove(s)
    BY <1>0, <2>1, <2>2 DEF Promise!Remove
  <2> QED BY <2>2, <2>3 DEF Promise!Change
<1>3. CASE row' = row
  BY <1>0, <1>3, Stutter
<1> QED BY <1>1, <1>2, <1>3 DEF ServerStep, serverVars, RejectUpload, PutObject, InsertFails,
        ReadRow, RemoveObject, NotFound, HandlerFails

\* A device gets what has been on the server, and gives up what a user deleted
\* there, or what the server does not accept.
LEMMA PassSteps ==
  ASSUME IInv, Made, Confirmed, Departures, NEW p \in Pass, SyncStep(p)
  PROVE  Promise!Change \/ UNCHANGED Promise!library
<1> DEFINE d == DeviceOf[p]
<1>0. /\ TypeOK /\ RememberedBy(p) /\ Recorded /\ d \in Device
      /\ UNCHANGED <<origin, trashed, row>>
  BY PassFrame DEF IInv
<1>a. Absent(p) \/ d \in Crossed
  BY DEF Departures, Crossed
<1>l. ASSUME local' = local PROVE UNCHANGED Promise!library
  BY <1>0, <1>l, Stutter
<1>s. ASSUME NEW s \in Score, NEW t, SyncScoreFromServer(d, s, t), row[s] # "none"
      PROVE  Promise!Change
  <2>1. Copies' = [Copies EXCEPT ![d][s] = "clean"]
    BY <1>0, <1>s, CopyBecomes DEF SyncScoreFromServer
  <2>2. Promise!Receive(d, s)
    BY <1>0, <1>s, <2>1 DEF Promise!Receive, Promise!Here, Copies
  <2> QED BY <1>0, <2>2 DEF Promise!Change
<1>d. ASSUME NEW s \in Score, HardDeleteScore(d, s),
             ((s \in trashed \/ d \in Crossed) /\ row[s] # "none") \/ s \notin Valid
      PROVE  Promise!Change
  <2>1. local' = [local EXCEPT ![d][s] = NoRow]
    BY <1>d DEF HardDeleteScore
  <2>2. Copies' = [Copies EXCEPT ![d][s] = "none"]
    BY <1>0, <2>1, CopyBecomes
  <2>3. Promise!Drop(d, s) \/ Promise!Reject(d, s)
    BY <1>0, <1>d, <2>2 DEF Promise!Drop, Promise!Reject, Copies
  <2> QED BY <1>0, <2>3 DEF Promise!Change
<1>1. CASE DeleteReturns(p)
  <2>1. cur[p] \in Score /\ cur[p] \in trashed /\ pc[p] = "deleting"
    BY <1>0, <1>1 DEF DeleteReturns, Returned, RememberedBy, TypeOK, Waiting
  <2>2. CASE reply[p] = "ok"
    <3>1. row[cur[p]] # "none"
      BY <2>1, <2>2 DEF Confirmed
    <3>2. HardDeleteScore(d, cur[p])
      BY <1>1, <2>2 DEF DeleteReturns
    <3> QED BY <1>d, <2>1, <3>1, <3>2
  <2>3. CASE reply[p] # "ok"
    BY <1>1, <1>l, <2>3 DEF DeleteReturns
  <2> QED BY <2>2, <2>3
<1>2. CASE UpdateReturns(p) \/ CreateReturns(p)
  <2>1. cur[p] \in Score /\ pc[p] \in {"updating", "creating"}
    BY <1>0, <1>2 DEF UpdateReturns, CreateReturns, Returned, TypeOK, Waiting
  <2>2. CASE reply[p] = "ok"
    <3>1. row[cur[p]] # "none"
      BY <1>0, <2>1, <2>2 DEF RememberedBy, Recorded
    <3>2. SyncScoreFromServer(d, cur[p], snap[p][cur[p]].title)
      BY <1>2, <2>2 DEF UpdateReturns, CreateReturns
    <3> QED BY <1>s, <2>1, <3>1, <3>2
  <2>3. CASE reply[p] = "invalid" /\ CreateReturns(p)
    <3>1. pc[p] = "creating" /\ HardDeleteScore(d, cur[p])
      BY <2>3 DEF CreateReturns, Returned
    <3>2. cur[p] \in Valid => (cur[p] \in trashed \/ d \in Crossed) /\ row[cur[p]] # "none"
      BY <1>0, <1>a, <2>3, <3>1 DEF RememberedBy, Absent
    <3> QED BY <1>d, <2>1, <3>1, <3>2
  <2>4. CASE reply[p] # "ok" /\ ~(reply[p] = "invalid" /\ CreateReturns(p))
    BY <1>2, <1>l, <2>4 DEF UpdateReturns, CreateReturns
  <2> QED BY <2>2, <2>3, <2>4
<1>3. CASE FinishDownload(p)
  <2>1. cur[p] \in Score /\ Listed(p, cur[p])
    BY <1>0, <1>3 DEF FinishDownload, RememberedBy, TypeOK
  <2>2. row[cur[p]] # "none"
    BY <1>0, <2>1 DEF RememberedBy, Recorded
  <2>3. SyncScoreFromServer(d, cur[p], remote[p][cur[p]])
    BY <1>3 DEF FinishDownload
  <2> QED BY <1>s, <2>1, <2>2, <2>3
<1>4. ASSUME NEW s \in Score, Prune(p, s) PROVE Promise!Change
  <2>1. s \in todo[p] /\ pc[p] = "prune" /\ HardDeleteScore(d, s)
    BY <1>4 DEF Prune
  <2>2. (s \in trashed \/ d \in Crossed) /\ row[s] # "none"
    BY <1>0, <1>a, <2>1 DEF Absent, RememberedBy
  <2> QED BY <1>d, <2>1, <2>2
<1>5. CASE \/ Start(p) \/ FirstList(p) \/ ReadLocal(p) \/ SecondList(p) \/ Reread(p)
           \/ BeginPrune(p) \/ EndPass(p) \/ ListFails(p) \/ GiveUp(p) \/ Abort(p)
  BY <1>5, <1>l DEF localVars, Start, FirstList, ReadLocal, SecondList, Reread, BeginPrune,
     EndPass, ListFails, GiveUp, Abort
<1>6. ASSUME NEW s \in Score,
             \/ SendDelete(p, s) \/ SendUpdate(p, s) \/ SendCreate(p, s)
             \/ SkipCreate(p, s) \/ SkipDownload(p, s) \/ OpenDownload(p, s)
      PROVE  UNCHANGED Promise!library
  BY <1>6, <1>l DEF localVars, Request, SendDelete, SendUpdate, SendCreate, SkipCreate,
     SkipDownload, OpenDownload
<1> QED BY <1>1, <1>2, <1>3, <1>4, <1>5, <1>6 DEF SyncStep

\* Any number of devices and of passes on each implement Custody: every step of
\* a user, a pass or a handler is a step of Custody or leaves what it speaks of
\* alone (SynchronizeScores, ScoreService).
LEMMA CustodyInit == CalmInit => Promise!Init /\ Made /\ Confirmed /\ Departures
<1> SUFFICES ASSUME CalmInit PROVE Promise!Init /\ Made /\ Confirmed /\ Departures
  OBVIOUS
<1>1. \A d \in Device, s \in Score : local[d][s] = NoRow
  BY DEF CalmInit, Init
<1>2. Standing(NoRow) = "none" /\ NoRow.st = "none"
  BY DEF Standing, NoRow, Row
<1>3. Crossed = {}
  BY DEF CalmInit, Crossed
<1>4. Promise!Init
  BY <1>1, <1>2, <1>3 DEF CalmInit, Init, Promise!Init
<1>5. Made /\ Confirmed
  BY <1>1, <1>2 DEF CalmInit, Init, Made, Confirmed, Idle
<1>6. Departures
  BY DEF CalmInit, Init, Departures, Absent, Partial, Idle
<1> QED BY <1>4, <1>5, <1>6

\* Everything the steps rest on stays.
LEMMA CustodyKept ==
  ASSUME IInv, IInv', Titled, Made, Confirmed, Departures, [CalmNext]_calmVars
  PROVE  Made' /\ Confirmed' /\ Departures'
<1>1. [Next]_vars
  BY DEF CalmNext, calmVars
<1> QED BY <1>1, MadeStays, AbsentStep

\* Only passes that were started in overlap have crossed devices.
LEMMA CrossedType == ASSUME CalmNext PROVE Crossed' \subseteq Device
BY DEF CalmNext, Crossed

LEMMA CustodyStep ==
  ASSUME IInv, Made, Confirmed, Departures, [CalmNext]_calmVars
  PROVE  [Promise!Next]_(Promise!vars)
<1>1. CASE UNCHANGED calmVars
  <2>1. UNCHANGED <<origin, local, row, trashed, overlapped>>
    BY <1>1 DEF calmVars, vars, localVars, serverVars
  <2>2. Copies' = Copies
    BY <2>1 DEF Copies
  <2>3. Crossed' = Crossed
    BY <2>1 DEF Crossed
  <2>4. UNCHANGED Promise!vars
    BY <2>1, <2>2, <2>3 DEF Promise!vars, Promise!library, Copies
  <2> QED BY <2>4
<1>2. CASE CalmNext
  <2>1. Next
    BY <1>2 DEF CalmNext
  <2> DEFINE Kept == Promise!Change \/ UNCHANGED Promise!library
  <2>2. ASSUME User PROVE Kept
    BY <2>2, UserSteps DEF IInv
  <2>s. ASSUME NEW h \in Handler, ServerStep(h) PROVE Kept
    BY <2>s, ServerSteps
  <2>p. ASSUME NEW p \in Pass, SyncStep(p) PROVE Kept
    BY <2>p, PassSteps
  <2>3. Kept
    <3> HIDE DEF Kept
    <3> QED BY <2>1, <2>2, <2>s, <2>p DEF Next
  <2> QED BY <1>2, <2>3, CrossedType DEF Promise!Next
<1> QED BY <1>1, <1>2

THEOREM KeepsTheLibrary == CalmSpec => KeepsCustody
BY CustodyInit, CustodyKept, CustodyStep, CalmRefines, Invariance, TitlesLast, PTL
   DEF CalmSpec, Spec, Promise!Spec, KeepsCustody

\* Of Custody's steps only two take a copy away: one of something the server
\* cannot store, or of something it has had, and which some user deleted unless
\* the device's passes cross.
LEMMA DropsOnly ==
  ASSUME TypeOK, NEW d \in Device, NEW s \in Valid,
         local[d][s].st # "none", local'[d][s].st = "none",
         Promise!Change \/ UNCHANGED Promise!library
  PROVE  row[s] # "none" /\ (s \in trashed \/ d \in Crossed)
<1>1. s \in Score /\ Copies[d][s] # "none" /\ Copies'[d][s] = "none"
  <2>1. Standing(local[d][s]) # "none" /\ Standing(local'[d][s]) = "none"
    BY DEF Standing
  <2> QED BY <2>1 DEF Copies
<1>0. Copies \in [Device -> [Score -> Fates]]
  <2>1. \A e \in Device, t \in Score : Standing(local[e][t]) \in Fates
    BY DEF TypeOK, LocalRow, Standing, Fates
  <2> QED BY <2>1 DEF Copies
<1>2. ASSUME NEW e \in Device, NEW x \in Score, NEW how \in Fates \ {"none"},
             Copies' = [Copies EXCEPT ![e][x] = how]
      PROVE  FALSE
  <2>1. Copies'[d][s] = how \/ Copies'[d][s] = Copies[d][s]
    BY <1>0, <1>1, <1>2
  <2> QED BY <1>1, <2>1
<1>3. ASSUME NEW e \in Device, NEW x \in Score, Copies' = [Copies EXCEPT ![e][x] = "none"]
      PROVE  e = d /\ x = s
  BY <1>0, <1>1, <1>3
<1>4. ASSUME Copies' = Copies PROVE FALSE
  BY <1>1, <1>4
<1>5. ASSUME NEW x \in Score, Promise!Store(x) \/ Promise!Remove(x) PROVE FALSE
  BY <1>4, <1>5 DEF Promise!Store, Promise!Remove, Copies
<1>6. ASSUME NEW e \in Device, NEW x \in Score,
             \/ Promise!Make(e, x) \/ Promise!Edit(e, x) \/ Promise!Trash(e, x)
             \/ Promise!Receive(e, x)
      PROVE  FALSE
  <2>1. \E how \in Fates \ {"none"} : Copies' = [Copies EXCEPT ![e][x] = how]
    BY <1>6 DEF Promise!Make, Promise!Edit, Promise!Trash, Promise!Receive, Promise!Here,
       Copies, Fates
  <2> QED BY <1>2, <2>1
<1>7. ASSUME NEW e \in Device, NEW x \in Score, Promise!Drop(e, x)
      PROVE  row[s] # "none" /\ (s \in trashed \/ d \in Crossed)
  <2>1. e = d /\ x = s
    BY <1>3, <1>7 DEF Promise!Drop, Copies
  <2> QED BY <1>7, <2>1 DEF Promise!Drop
<1>8. ASSUME NEW e \in Device, NEW x \in Score, Promise!Reject(e, x) PROVE FALSE
  <2>1. e = d /\ x = s
    BY <1>3, <1>8 DEF Promise!Reject, Copies
  <2> QED BY <1>8, <2>1 DEF Promise!Reject
<1>9. CASE UNCHANGED Promise!library
  BY <1>4, <1>9 DEF Promise!library, Copies
<1> QED BY <1>5, <1>6, <1>7, <1>8, <1>9 DEF Promise!Change

\* So a device loses only what a user deleted, a file the server rejects, or,
\* while passes overlap on it, a copy of what the server has had.
THEOREM RemovedAfterDeletion == CalmSpec => RemovedOnlyAfterDeletion
<1>1. IInv /\ [Promise!Next]_(Promise!vars) =>
        \A d \in Device, s \in Valid :
          local[d][s].st # "none" /\ local'[d][s].st = "none" =>
            row[s] # "none" /\ (s \in trashed \/ d \in Crossed)
  <2> SUFFICES ASSUME IInv, [Promise!Next]_(Promise!vars), NEW d \in Device, NEW s \in Valid,
                      local[d][s].st # "none", local'[d][s].st = "none"
               PROVE  row[s] # "none" /\ (s \in trashed \/ d \in Crossed)
    OBVIOUS
  <2>1. TypeOK /\ (Promise!Change \/ UNCHANGED Promise!library)
    BY DEF IInv, Promise!Next, Promise!vars
  <2> QED BY <2>1, DropsOnly
<1> QED
  BY <1>1, KeepsTheLibrary, CalmRefines, Invariance, PTL
     DEF CalmSpec, Spec, KeepsCustody, Promise!Spec, RemovedOnlyAfterDeletion

-----------------------------------------------------------------------------
(* A pass that runs undisturbed *)

\* What removing a row and its file does to what a pass sees of its device.
LEMMA MineDeleted ==
  ASSUME TypeOK, NEW p \in Pass, NEW s \in Score, HardDeleteScore(DeviceOf[p], s)
  PROVE  /\ Mine(p, s)'.st = "none" /\ ~Mine(p, s)'.clean
         /\ \A r \in Score : r # s =>
              Mine(p, r)' = Mine(p, r) /\ file'[DeviceOf[p]][r] = file[DeviceOf[p]][r]
<1> DEFINE d == DeviceOf[p]
<1>1. d \in Device /\ NoRow.st = "none" /\ ~NoRow.clean
  BY DEF NoRow, Row
<1>2. /\ local' = [local EXCEPT ![d][s] = NoRow]
      /\ file' = [file EXCEPT ![d][s] = IF local[d][s].st = "none" THEN @ ELSE "none"]
  BY DEF HardDeleteScore
<1>3. /\ local'[d][s] = NoRow
      /\ \A r \in Score : r # s => local'[d][r] = local[d][r] /\ file'[d][r] = file[d][r]
  BY <1>1, <1>2 DEF TypeOK
<1> QED BY <1>1, <1>3 DEF Mine

\* What marking a row as synced does to it.
LEMMA MineSynced ==
  ASSUME TypeOK, NEW p \in Pass, NEW s \in Score, NEW t, SyncScoreFromServer(DeviceOf[p], s, t)
  PROVE  /\ Mine(p, s)'.st = "live" /\ Mine(p, s)'.clean
         /\ \A r \in Score : r # s => Mine(p, r)' = Mine(p, r)
<1> DEFINE d == DeviceOf[p]
           new == Row("live", t, TRUE)
<1>1. d \in Device /\ new.st = "live" /\ new.clean
  BY DEF Row
<1>2. local' = [local EXCEPT ![d][s] = new]
  BY DEF SyncScoreFromServer
<1> HIDE DEF new
<1>3. /\ local'[d][s] = new
      /\ \A r \in Score : r # s => local'[d][r] = local[d][r]
  BY <1>1, <1>2 DEF TypeOK
<1> QED BY <1>1, <1>3 DEF Mine

\* A row marked as synced is there, whoever writes it.
LEMMA MarkedStep == ASSUME TypeOK, Marked, [Next]_vars PROVE Marked'
<1>w. ASSUME NEW d, NEW s, NEW r, r.clean => r.st = "live", local' = [local EXCEPT ![d][s] = r]
      PROVE  Marked'
  <2>1. \A e \in Device, u \in Score : local'[e][u] = r \/ local'[e][u] = local[e][u]
    BY <1>w DEF TypeOK
  <2> QED BY <1>w, <2>1 DEF Marked
<1>u. ASSUME local' = local PROVE Marked'
  BY <1>u DEF Marked
<1>r. /\ ~NoRow.clean
      /\ \A x, t, c : Row(x, t, c).st = x /\ Row(x, t, c).clean = c
  BY DEF NoRow, Row
<1>v. ASSUME NEW d, NEW s, NEW x, NEW t, NEW c, c => x = "live",
             local' = [local EXCEPT ![d][s] = Row(x, t, c)]
      PROVE  Marked'
  <2> DEFINE new == Row(x, t, c)
  <2>1. new.clean => new.st = "live"
    BY <1>v, <1>r
  <2>2. local' = [local EXCEPT ![d][s] = new]
    BY <1>v
  <2> HIDE DEF new
  <2> QED BY <1>w, <2>1, <2>2
<1>s. ASSUME NEW d, NEW s, NEW t, SyncScoreFromServer(d, s, t) PROVE Marked'
  BY <1>s, <1>v DEF SyncScoreFromServer
<1>d. ASSUME NEW d, NEW s, HardDeleteScore(d, s) PROVE Marked'
  BY <1>d, <1>v DEF HardDeleteScore, NoRow
<1>1. CASE User
  <2>1. ASSUME NEW d \in Device, NEW s \in Score, NEW t \in Title,
               AddScore(d, s, t) \/ RenameScore(d, s, t)
        PROVE  Marked'
    <3>1. local' = [local EXCEPT ![d][s] = Row("live", t, FALSE)]
      BY <2>1 DEF AddScore, RenameScore
    <3> QED BY <1>v, <3>1
  <2>2. ASSUME NEW d \in Device, NEW s \in Score, MarkScoreDeleted(d, s) PROVE Marked'
    <3>1. local' = [local EXCEPT ![d][s] = Row("tomb", local[d][s].title, FALSE)]
      BY <2>2 DEF MarkScoreDeleted
    <3> QED BY <1>v, <3>1
  <2> QED BY <1>1, <2>1, <2>2 DEF User
<1>2. ASSUME NEW h \in Handler, ServerStep(h) PROVE Marked'
  BY <1>2, <1>u, ServerFrame
<1>3. ASSUME NEW p \in Pass, SyncStep(p) PROVE Marked'
  <2>1. CASE DeleteReturns(p) \/ UpdateReturns(p) \/ CreateReturns(p) \/ FinishDownload(p)
    BY <2>1, <1>u, <1>s, <1>d DEF DeleteReturns, UpdateReturns, CreateReturns, FinishDownload
  <2>2. CASE \/ Start(p) \/ FirstList(p) \/ ReadLocal(p) \/ SecondList(p) \/ Reread(p)
             \/ BeginPrune(p) \/ EndPass(p) \/ ListFails(p) \/ GiveUp(p) \/ Abort(p)
    BY <2>2, <1>u DEF localVars, Start, FirstList, ReadLocal, SecondList, Reread, BeginPrune,
       EndPass, ListFails, GiveUp, Abort
  <2>3. ASSUME NEW r \in Score,
               \/ SendDelete(p, r) \/ SendUpdate(p, r) \/ SendCreate(p, r)
               \/ SkipCreate(p, r) \/ SkipDownload(p, r) \/ OpenDownload(p, r)
        PROVE  Marked'
    BY <2>3, <1>u DEF localVars, Request, SendDelete, SendUpdate, SendCreate, SkipCreate,
       SkipDownload, OpenDownload
  <2>4. ASSUME NEW r \in Score, Prune(p, r) PROVE Marked'
    BY <2>4, <1>d DEF Prune
  <2> QED BY <1>3, <2>1, <2>2, <2>3, <2>4 DEF SyncStep
<1>4. CASE UNCHANGED vars
  BY <1>4, <1>u DEF vars, localVars
<1> QED BY <1>1, <1>2, <1>3, <1>4 DEF Next

\* What the server answers to the pass that runs undisturbed.
LEMMA CalmServer ==
  ASSUME IInv, NEW p \in Pass, Deletes(p), Pushes(p), Pulls(p),
         NEW h \in Handler, handler[h].by = p, ServerStep(h), ~HandlerFault(h)
  PROVE  (Deletes(p) /\ Pushes(p) /\ Pulls(p))'
<1> DEFINE c == cur[p]
<1>0. /\ TypeOK /\ InHand(h) /\ Caller(h) /\ p # Nobody /\ handler[h] \in Call
      /\ UNCHANGED <<local, file, pc, todo, cur, remote, snap>>
  BY ServerFrame DEF IInv, TypeOK
<1>1. /\ handler[h].at # "idle"
      /\ reply[p] = "none"
      /\ handler[h].score = c
      /\ \/ handler[h].at \in {"remove", "softDelete"} /\ pc[p] = "deleting"
         \/ handler[h].at \in {"put", "insert"} /\ pc[p] = "creating"
         \/ handler[h].at \in {"read", "save"} /\ pc[p] = "updating"
  <2>1. handler[h].at # "idle"
    BY <1>0 DEF InHand, Idle
  <2>2. handler[h].at \in {"put", "insert", "read", "save", "remove", "softDelete"}
    BY <1>0, <2>1 DEF Call
  <2>3. /\ reply[p] = "none"
        /\ handler[h].score = c
        /\ handler[h].at \in {"remove", "softDelete"} => pc[p] = "deleting"
        /\ handler[h].at \in {"put", "insert"} => pc[p] = "creating"
        /\ handler[h].at \in {"read", "save"} => pc[p] = "updating"
    BY <1>0 DEF Caller
  <2> QED BY <2>1, <2>2, <2>3
<1>2. c \in Score /\ pc[p] \in Waiting
  BY <1>0, <1>1 DEF TypeOK, Waiting
<1>m. \A s \in Score : Mine(p, s)' = Mine(p, s) /\ (Listed(p, s)' <=> Listed(p, s))
  BY <1>0 DEF Mine, Listed
<1>a. ASSUME NEW r, Answer(h, r) PROVE reply'[p] = r
  BY <1>0, <1>a DEF Answer, TypeOK
<1>3. \/ reply'[p] = "none" /\ row' = row
      \/ /\ reply'[p] = "ok"
         /\ \/ pc[p] \in {"creating", "updating"} /\ row' = [row EXCEPT ![c] = "live"]
            \/ pc[p] = "deleting" /\ row' = [row EXCEPT ![c] = "gone"]
      \/ reply'[p] = "invalid" /\ pc[p] = "creating" /\ row' = row
      \/ /\ reply'[p] = "error" /\ row' = row
         /\ \/ pc[p] \in {"deleting", "updating"} /\ row[c] # "live"
            \/ pc[p] = "creating" /\ row[c] # "none"
  <2>1. CASE RejectUpload(h)
    BY <1>0, <1>1, <1>a, <2>1 DEF RejectUpload, serverVars
  <2>2. CASE PutObject(h) \/ ReadRow(h) \/ RemoveObject(h)
    BY <1>0, <1>1, <2>2 DEF PutObject, ReadRow, RemoveObject, serverVars, passVars
  <2>3. CASE InsertRow(h) \/ SaveRow(h)
    BY <1>0, <1>1, <1>a, <2>3 DEF InsertRow, SaveRow
  <2>4. CASE SoftDelete(h)
    BY <1>0, <1>1, <1>a, <2>4 DEF SoftDelete
  <2>5. CASE NotFound(h)
    BY <1>0, <1>1, <1>a, <2>5 DEF NotFound, serverVars
  <2>6. CASE (HandlerFails(h) \/ InsertFails(h)) /\ ~NotFound(h)
    <3>1. Conflict(h) /\ Answer(h, "error") /\ row' = row
      BY <2>6 DEF HandlerFault, HandlerFails, InsertFails, serverVars
    <3>2. handler[h].at = "insert" /\ row[c] # "none"
      BY <1>1, <3>1 DEF Conflict
    <3> QED BY <1>1, <1>a, <3>1, <3>2
  <2> QED BY <2>1, <2>2, <2>3, <2>4, <2>5, <2>6 DEF ServerStep
<1>4. \A s \in Score : row[s] \in {"none", "live", "gone"}
                       /\ (s # c => row'[s] = row[s])
                       /\ (row' = [row EXCEPT ![c] = "live"] => row'[c] = "live")
                       /\ (row' = [row EXCEPT ![c] = "gone"] => row'[c] = "gone")
  BY <1>0, <1>2, <1>3 DEF TypeOK
<1>5. CASE pc[p] = "deleting"
  <2>1. Deletes(p)'
    BY <1>0, <1>1, <1>2, <1>3, <1>4, <1>5, <1>m DEF Deletes
  <2> QED BY <1>0, <1>5, <2>1 DEF Pushes, Pulls
<1>6. CASE pc[p] = "updating" \/ pc[p] = "creating"
  <2>0. /\ \A s \in Score : Mine(p, s).st = "tomb" => row[s] # "live"
        /\ \A s \in todo[p] : Unsent(p, s) /\ (Listed(p, s) <=> row[s] = "live")
        /\ \A s \in Score : Unsent(p, s) => s \in todo[p] \/ s = c \/ Stuck(p, s)
        /\ c \notin todo[p] /\ Unsent(p, c) /\ todo[p] \subseteq Score
        /\ pc[p] = "updating" => row[c] = "live"
        /\ pc[p] = "creating" => row[c] # "live"
    BY <1>0, <1>1, <1>6 DEF Pushes, TypeOK
  <2>1. \A s \in Score : Unsent(p, s)' <=> Unsent(p, s)
    BY <1>m DEF Unsent
  <2>2. \A s \in Score : s # c => (Stuck(p, s)' <=> Stuck(p, s))
    BY <1>0, <1>4 DEF Stuck
  <2>3. \A s \in Score : Mine(p, s)'.st = "tomb" => row'[s] # "live"
    BY <1>m, <1>4, <2>0 DEF Unsent
  <2>4. \A s \in todo[p] : Unsent(p, s)' /\ (Listed(p, s)' <=> row'[s] = "live")
    BY <1>m, <1>4, <2>0, <2>1
  <2>5. \A s \in Score : Unsent(p, s)' => s \in todo[p] \/ s = c \/ Stuck(p, s)'
    BY <2>0, <2>1, <2>2
  <2>6. pc[p] = "updating" => row'[c] = "live" /\ reply'[p] \in {"none", "ok"}
    BY <1>2, <1>3, <1>4, <2>0
  <2>7. pc[p] = "creating" => /\ reply'[p] = "none" => row'[c] # "live"
                              /\ reply'[p] = "ok" => row'[c] = "live"
                              /\ reply'[p] = "error" => row'[c] = "gone"
    BY <1>2, <1>3, <1>4, <2>0
  <2>8. Pushes(p)'
    BY <1>0, <1>2, <1>6, <2>0, <2>1, <2>3, <2>4, <2>5, <2>6, <2>7 DEF Pushes
  <2> QED BY <1>0, <1>6, <2>8 DEF Deletes, Pulls
<1> QED BY <1>1, <1>5, <1>6

\* ListMyScores has the rows that are not soft-deleted.
LEMMA ListsLive ==
  ASSUME IInv, Titled
  PROVE  \A s \in Score : ListMyScores[s] # NoTitle <=> row[s] = "live"
<1> SUFFICES ASSUME NEW s \in Score PROVE ListMyScores[s] # NoTitle <=> row[s] = "live"
  OBVIOUS
<1>1. row[s] = "live" => name[s] # NoTitle
  BY DEF IInv, Recorded, Titled
<1> QED BY <1>1 DEF ListMyScores

\* An undisturbed pass sends the deletions.
LEMMA CalmDeletes ==
  ASSUME IInv, Titled, NEW p \in Pass, Deletes(p),
         \/ Start(p) \/ DeleteReturns(p) \/ FirstList(p)
         \/ \E s \in Score : SendDelete(p, s) /\ ~Lost(p)
  PROVE  (Deletes(p) /\ Pushes(p) /\ Pulls(p))'
<1>0. TypeOK /\ row' = row
  BY DEF IInv, Start, DeleteReturns, FirstList, SendDelete, Returned, Request, serverVars
<1>u. ASSUME local' = local PROVE \A r \in Score : Mine(p, r)' = Mine(p, r)
  BY <1>u DEF Mine
<1>1. CASE Start(p)
  <2>1. /\ pc'[p] = "tombs" /\ local' = local
        /\ todo'[p] = {r \in Score : Mine(p, r).st = "tomb"}
    BY <1>0, <1>1 DEF Start, TypeOK, GetDeletedScoreIDs, Mine, localVars
  <2> QED BY <1>u, <2>1 DEF Deletes, Pushes, Pulls
<1>2. ASSUME NEW s \in Score, SendDelete(p, s), ~Lost(p)
      PROVE  (Deletes(p) /\ Pushes(p) /\ Pulls(p))'
  <2>1. /\ pc[p] = "tombs" /\ pc'[p] = "deleting" /\ local' = local
        /\ todo'[p] = todo[p] \ {s} /\ cur'[p] = s /\ reply'[p] = "none"
    BY <1>0, <1>2 DEF SendDelete, Request, Delivered, TypeOK, localVars
  <2>2. Deletes(p)'
    BY <1>0, <1>u, <2>1 DEF Deletes
  <2> QED BY <2>1, <2>2 DEF Pushes, Pulls
<1>3. CASE DeleteReturns(p)
  <2>0. PICK c \in Score : c = cur[p]
    BY <1>0, <1>3 DEF DeleteReturns, Returned, TypeOK, Waiting
  <2>1. /\ pc[p] = "deleting" /\ pc'[p] = "tombs" /\ todo' = todo /\ reply[p] # "none"
    BY <1>0, <1>3 DEF DeleteReturns, Returned, TypeOK, Waiting
  <2>2. \A r \in Score : Mine(p, r).st = "tomb" /\ row[r] = "live" => r \in todo[p] \/ r = c
    BY <2>0, <2>1 DEF Deletes
  <2>3. CASE reply[p] = "ok"
    <3>1. /\ Mine(p, c)'.st = "none"
          /\ \A r \in Score : r # c => Mine(p, r)' = Mine(p, r)
      BY <1>0, <1>3, <2>0, <2>1, <2>3, MineDeleted DEF DeleteReturns
    <3> QED BY <1>0, <2>1, <2>2, <3>1 DEF Deletes, Pushes, Pulls
  <2>4. CASE reply[p] # "ok"
    <3>1. local' = local /\ row[c] # "live"
      BY <1>3, <2>0, <2>1, <2>4 DEF DeleteReturns, Deletes
    <3> QED BY <1>0, <1>u, <2>1, <2>2, <3>1 DEF Deletes, Pushes, Pulls
  <2> QED BY <2>3, <2>4
<1>4. CASE FirstList(p)
  <2>1. /\ pc[p] = "tombs" /\ pc'[p] = "read" /\ todo[p] = {} /\ local' = local
        /\ remote'[p] = ListMyScores
    BY <1>0, <1>4 DEF FirstList, TypeOK, localVars
  <2>2. \A r \in Score : Listed(p, r)' <=> row[r] = "live"
    BY <2>1, ListsLive DEF Listed
  <2>3. \A r \in Score : Mine(p, r)'.st = "tomb" => row'[r] # "live"
    BY <1>0, <1>u, <2>1 DEF Deletes
  <2>4. Pushes(p)'
    BY <1>0, <2>1, <2>2, <2>3 DEF Pushes
  <2> QED BY <2>1, <2>4 DEF Deletes, Pulls
<1> QED BY <1>1, <1>2, <1>3, <1>4

\* Then it sends the edits.
LEMMA CalmPushes ==
  ASSUME IInv, Titled, NEW p \in Pass, Pushes(p),
         \/ ReadLocal(p) \/ UpdateReturns(p) \/ CreateReturns(p) \/ SecondList(p)
         \/ \E s \in Score : \/ SendUpdate(p, s) /\ ~Lost(p)
                             \/ SendCreate(p, s) /\ (s \in Receivable => ~Lost(p))
                             \/ SkipCreate(p, s)
  PROVE  (Deletes(p) /\ Pushes(p) /\ Pulls(p))'
<1> DEFINE d == DeviceOf[p]
           NoTomb == \A r \in Score : Mine(p, r).st = "tomb" => row[r] # "live"
           Ready(T) == \A r \in T : Unsent(p, r) /\ (Listed(p, r) <=> row[r] = "live")
           Rest(T) == \A r \in Score : Unsent(p, r) => r \in T \/ Stuck(p, r)
<1>0. /\ TypeOK /\ row' = row /\ d \in Device
      /\ pc[p] \in {"read", "push", "updating", "creating"} /\ NoTomb
  BY DEF IInv, Pushes, ReadLocal, UpdateReturns, CreateReturns, SecondList, SendUpdate,
         SendCreate, SkipCreate, Returned, Request, serverVars
<1>u. ASSUME local' = local
      PROVE  \A r \in Score : Mine(p, r)' = Mine(p, r) /\ (Unsent(p, r)' <=> Unsent(p, r))
  BY <1>u DEF Mine, Unsent
<1>f. ASSUME file' = file PROVE \A r \in Score : Stuck(p, r)' <=> Stuck(p, r)
  BY <1>0, <1>f DEF Stuck
<1>l. ASSUME remote' = remote PROVE \A r \in Score : Listed(p, r)' <=> Listed(p, r)
  BY <1>l DEF Listed
<1>1. CASE ReadLocal(p)
  <2>1. /\ pc[p] = "read" /\ pc'[p] = "push" /\ local' = local /\ remote' = remote
        /\ todo'[p] = {r \in Score : GetScores(d)[r].st = "live" /\ ~GetScores(d)[r].clean}
    BY <1>0, <1>1 DEF ReadLocal, TypeOK, localVars
  <2>2. todo'[p] = {r \in Score : Unsent(p, r)}
    <3>1. NoRow.st = "none"
      BY DEF NoRow, Row
    <3> QED BY <2>1, <3>1 DEF GetScores, Unsent, Mine
  <2>3. NoTomb' /\ Ready(todo[p])' /\ Rest(todo[p])'
    BY <1>0, <1>u, <1>l, <2>1, <2>2 DEF Pushes
  <2> QED BY <2>1, <2>3 DEF Deletes, Pushes, Pulls
<1>2. ASSUME NEW s \in Score,
             \/ SendUpdate(p, s) /\ ~Lost(p)
             \/ SendCreate(p, s) /\ (s \in Receivable => ~Lost(p))
      PROVE  (Deletes(p) /\ Pushes(p) /\ Pulls(p))'
  <2>1. /\ pc[p] = "push" /\ local' = local /\ file' = file /\ remote' = remote
        /\ s \in todo[p] /\ todo'[p] = todo[p] \ {s} /\ cur'[p] = s
        /\ \/ pc'[p] = "updating" /\ Listed(p, s) /\ reply'[p] = "none"
           \/ pc'[p] = "creating" /\ ~Listed(p, s) /\ reply'[p] = "none"
           \/ pc'[p] = "creating" /\ ~Listed(p, s) /\ reply'[p] = "error" /\ s \notin Receivable
    BY <1>0, <1>2 DEF SendUpdate, SendCreate, Request, Lost, Delivered, TypeOK, localVars
  <2>2. NoTomb /\ Ready(todo[p]) /\ Rest(todo[p]) /\ todo[p] \subseteq Score
    BY <1>0, <2>1 DEF Pushes, TypeOK
  <2>3. NoTomb' /\ Ready(todo[p])' /\ \A r \in Score : Unsent(p, r)' =>
          r \in todo'[p] \/ r = s \/ Stuck(p, r)'
    BY <1>0, <1>u, <1>f, <1>l, <2>1, <2>2
  <2>4. /\ s \notin todo'[p] /\ Unsent(p, s)'
        /\ pc'[p] = "updating" => row'[s] = "live"
        /\ pc'[p] = "creating" => row'[s] # "live"
    BY <1>0, <1>u, <2>1, <2>2
  <2> QED BY <2>1, <2>3, <2>4 DEF Deletes, Pushes, Pulls
<1>3. ASSUME NEW s \in Score, SkipCreate(p, s)
      PROVE  (Deletes(p) /\ Pushes(p) /\ Pulls(p))'
  <2>1. /\ pc[p] = "push" /\ pc' = pc /\ local' = local /\ file' = file /\ remote' = remote
        /\ s \in todo[p] /\ todo'[p] = todo[p] \ {s}
        /\ ~Listed(p, s) /\ file[d][s] = "none"
    BY <1>0, <1>3 DEF SkipCreate, TypeOK, localVars
  <2>2. NoTomb /\ Ready(todo[p]) /\ Rest(todo[p]) /\ todo[p] \subseteq Score
    BY <1>0, <2>1 DEF Pushes, TypeOK
  <2>3. Stuck(p, s)
    BY <2>1, <2>2 DEF Stuck
  <2>4. NoTomb' /\ Ready(todo[p])' /\ Rest(todo[p])'
    BY <1>0, <1>u, <1>f, <1>l, <2>1, <2>2, <2>3
  <2> QED BY <2>1, <2>4 DEF Deletes, Pushes, Pulls
<1>4. CASE UpdateReturns(p) \/ CreateReturns(p)
  <2>0. PICK c \in Score : c = cur[p]
    BY <1>0, <1>4 DEF UpdateReturns, CreateReturns, Returned, TypeOK, Waiting
  <2>1. /\ pc[p] \in {"updating", "creating"} /\ pc'[p] = "push" /\ reply[p] # "none"
        /\ todo' = todo /\ remote' = remote /\ todo[p] \subseteq Score
        /\ reply[p] \in {"ok", "invalid", "error"}
    BY <1>0, <1>4 DEF UpdateReturns, CreateReturns, Returned, TypeOK, Waiting
  <2>2. /\ Ready(todo[p]) /\ c \notin todo[p]
        /\ \A r \in Score : Unsent(p, r) => r \in todo[p] \/ r = c \/ Stuck(p, r)
    BY <2>0, <2>1 DEF Pushes
  <2>3. \/ reply[p] = "ok" /\ file' = file /\ SyncScoreFromServer(d, c, snap[p][c].title)
        \/ HardDeleteScore(d, c)
        \/ local' = local /\ file' = file /\ Stuck(p, c)
    BY <1>4, <2>0, <2>1 DEF UpdateReturns, CreateReturns, Returned, Pushes, Stuck
  <2>4. CASE HardDeleteScore(d, c) \/ (file' = file /\ SyncScoreFromServer(d, c, snap[p][c].title))
    <3>1. /\ Mine(p, c)'.st # "tomb"
          /\ ~(Mine(p, c)'.st = "live" /\ ~Mine(p, c)'.clean)
          /\ \A r \in Score : r # c =>
               Mine(p, r)' = Mine(p, r) /\ file'[d][r] = file[d][r]
      BY <1>0, <2>1, <2>4, MineDeleted, MineSynced
    <3>2. /\ ~Unsent(p, c)'
          /\ \A r \in Score : r # c =>
               (Unsent(p, r)' <=> Unsent(p, r)) /\ (Stuck(p, r)' <=> Stuck(p, r))
      BY <1>0, <3>1 DEF Unsent, Stuck
    <3>3. NoTomb' /\ Ready(todo[p])' /\ Rest(todo[p])'
      BY <1>0, <1>l, <2>1, <2>2, <3>1, <3>2
    <3> QED BY <2>1, <3>3 DEF Deletes, Pushes, Pulls
  <2>5. CASE local' = local /\ file' = file /\ Stuck(p, c)
    <3>1. NoTomb' /\ Ready(todo[p])' /\ Rest(todo[p])'
      BY <1>0, <1>u, <1>f, <1>l, <2>1, <2>2, <2>5
    <3> QED BY <2>1, <3>1 DEF Deletes, Pushes, Pulls
  <2> QED BY <2>3, <2>4, <2>5
<1>5. CASE SecondList(p)
  <2>1. /\ pc[p] = "push" /\ pc'[p] = "reread" /\ todo[p] = {} /\ local' = local
        /\ file' = file /\ remote'[p] = ListMyScores
    BY <1>0, <1>5 DEF SecondList, TypeOK, localVars
  <2>2. \A r \in Score : Listed(p, r)' <=> row[r] = "live"
    BY <2>1, ListsLive DEF Listed
  <2>3. \A r \in Score : Unsent(p, r)' => Stuck(p, r)'
    BY <1>u, <1>f, <2>1 DEF Pushes
  <2>4. NoTomb'
    BY <1>0, <1>u, <2>1
  <2>5. Pulls(p)'
    BY <1>0, <2>1, <2>2, <2>3, <2>4 DEF Pulls
  <2> QED BY <2>1, <2>5 DEF Deletes, Pushes
<1> QED BY <1>1, <1>2, <1>3, <1>4, <1>5

\* At last it fetches what the server lists and removes what it does not.
LEMMA CalmPulls ==
  ASSUME IInv, Marked, NEW p \in Pass, Pulls(p),
         \/ Reread(p) \/ FinishDownload(p) \/ BeginPrune(p) \/ EndPass(p)
         \/ \E s \in Score : OpenDownload(p, s) \/ Prune(p, s)
  PROVE  (Deletes(p) /\ Pushes(p) /\ Pulls(p))'
<1> DEFINE d == DeviceOf[p]
           Sent == \A r \in Score : /\ Listed(p, r) <=> row[r] = "live"
                                    /\ Mine(p, r).st = "tomb" => row[r] # "live"
                                    /\ Unsent(p, r) => Stuck(p, r)
<1>0. /\ TypeOK /\ RememberedBy(p) /\ row' = row /\ d \in Device
      /\ pc[p] \in {"reread", "pull", "download", "prune"} /\ Sent
  BY DEF IInv, Pulls, Reread, FinishDownload, BeginPrune, EndPass, OpenDownload, Prune,
         serverVars
<1>u. ASSUME local' = local
      PROVE  \A r \in Score : Mine(p, r)' = Mine(p, r) /\ (Unsent(p, r)' <=> Unsent(p, r))
  BY <1>u DEF Mine, Unsent
<1>s. ASSUME UNCHANGED <<local, file, remote>> PROVE Sent'
  BY <1>0, <1>u, <1>s DEF Listed, Stuck
<1>w. ASSUME remote' = remote, NEW r \in Score,
             Mine(p, r)'.st # "tomb" \/ row[r] # "live", ~Unsent(p, r)',
             \A q \in Score : q # r => Mine(p, q)' = Mine(p, q) /\ file'[d][q] = file[d][q]
      PROVE  Sent'
  BY <1>0, <1>w DEF Listed, Unsent, Stuck
<1>1. CASE Reread(p)
  <2>1. /\ pc'[p] = "pull" /\ UNCHANGED <<local, file, remote>>
        /\ snap'[p] = GetScores(d)
        /\ todo'[p] = {r \in Score : Listed(p, r) /\ ~GetScores(d)[r].clean}
    BY <1>0, <1>1 DEF Reread, TypeOK, localVars
  <2>2. \A r \in Score : GetScores(d)[r].clean <=> Mine(p, r).clean
    BY <1>0 DEF GetScores, Mine, Marked, NoRow, Row
  <2>3. \A r \in Score : /\ row[r] = "live" => Mine(p, r).clean \/ r \in todo'[p]
                         /\ Mine(p, r).clean => snap'[p][r].clean
    BY <1>0, <2>1, <2>2
  <2>4. Pulls(p)'
    BY <1>0, <1>s, <1>u, <2>1, <2>3 DEF Pulls
  <2> QED BY <2>1, <2>4 DEF Deletes, Pushes
<1>2. ASSUME NEW s \in Score, OpenDownload(p, s)
      PROVE  (Deletes(p) /\ Pushes(p) /\ Pulls(p))'
  <2>1. /\ pc[p] = "pull" /\ pc'[p] = "download" /\ UNCHANGED <<local, remote, snap>>
        /\ s \in todo[p] /\ todo'[p] = todo[p] \ {s} /\ cur'[p] = s
        /\ \A r \in Score : r # s => file'[d][r] = file[d][r]
    BY <1>0, <1>2 DEF OpenDownload, TypeOK
  <2>2. row[s] = "live" /\ ~Unsent(p, s)
    BY <1>0, <2>1 DEF RememberedBy, Stuck
  <2>3. Sent'
    BY <1>0, <1>u, <1>w, <2>1, <2>2
  <2>4. \A r \in Score :
          /\ row[r] = "live" => Mine(p, r).clean \/ r \in todo[p]
          /\ row[r] # "live" /\ Mine(p, r).clean => snap[p][r].clean
    BY <2>1 DEF Pulls
  <2>5. Pulls(p)'
    BY <1>0, <1>u, <2>1, <2>3, <2>4 DEF Pulls
  <2> QED BY <2>1, <2>5 DEF Deletes, Pushes
<1>3. CASE FinishDownload(p)
  <2>0. PICK c \in Score : c = cur[p]
    BY <1>0, <1>3 DEF FinishDownload, TypeOK
  <2>1. /\ pc[p] = "download" /\ pc'[p] = "pull" /\ UNCHANGED <<todo, remote, snap>>
        /\ SyncScoreFromServer(d, c, remote[p][c])
        /\ \A r \in Score : r # c => file'[d][r] = file[d][r]
    BY <1>0, <1>3, <2>0 DEF FinishDownload, TypeOK
  <2>2. row[c] = "live"
    BY <1>0, <2>0, <2>1 DEF RememberedBy
  <2>3. /\ Mine(p, c)'.st = "live" /\ Mine(p, c)'.clean
        /\ \A r \in Score : r # c => Mine(p, r)' = Mine(p, r)
    BY <1>0, <2>1, MineSynced
  <2>4. Sent'
    BY <1>w, <2>1, <2>3 DEF Unsent
  <2>5. \A r \in Score :
          /\ row[r] = "live" => Mine(p, r).clean \/ r \in todo[p] \/ r = c
          /\ row[r] # "live" /\ Mine(p, r).clean => snap[p][r].clean
    BY <2>0, <2>1 DEF Pulls
  <2>6. Pulls(p)'
    BY <1>0, <2>1, <2>2, <2>3, <2>4, <2>5 DEF Pulls
  <2> QED BY <2>1, <2>6 DEF Deletes, Pushes
<1>4. CASE BeginPrune(p)
  <2>1. /\ pc[p] = "pull" /\ pc'[p] = "prune" /\ UNCHANGED <<local, file, remote>>
        /\ todo[p] = {}
        /\ todo'[p] = {r \in Score : snap[p][r].clean /\ ~Listed(p, r)}
    BY <1>0, <1>4 DEF BeginPrune, TypeOK, localVars
  <2>2. \A r \in Score :
          /\ row[r] = "live" => Mine(p, r).clean /\ r \notin todo'[p]
          /\ row[r] # "live" /\ Mine(p, r).clean => r \in todo'[p]
    BY <1>0, <2>1 DEF Pulls
  <2>3. Pulls(p)'
    BY <1>0, <1>s, <1>u, <2>1, <2>2 DEF Pulls
  <2> QED BY <2>1, <2>3 DEF Deletes, Pushes
<1>5. ASSUME NEW s \in Score, Prune(p, s)
      PROVE  (Deletes(p) /\ Pushes(p) /\ Pulls(p))'
  <2>1. /\ pc[p] = "prune" /\ pc' = pc /\ remote' = remote
        /\ s \in todo[p] /\ todo'[p] = todo[p] \ {s} /\ HardDeleteScore(d, s)
    BY <1>0, <1>5 DEF Prune, TypeOK
  <2>2. /\ Mine(p, s)'.st = "none" /\ ~Mine(p, s)'.clean
        /\ \A r \in Score : r # s =>
             Mine(p, r)' = Mine(p, r) /\ file'[d][r] = file[d][r]
    BY <1>0, <2>1, MineDeleted
  <2>3. Sent'
    BY <1>w, <2>1, <2>2 DEF Unsent
  <2>4. \A r \in Score :
          /\ row[r] = "live" => Mine(p, r).clean /\ r \notin todo[p]
          /\ row[r] # "live" /\ Mine(p, r).clean => r \in todo[p]
    BY <2>1 DEF Pulls
  <2>5. Pulls(p)'
    BY <1>0, <2>1, <2>2, <2>3, <2>4 DEF Pulls
  <2> QED BY <2>1, <2>5 DEF Deletes, Pushes
<1>6. CASE EndPass(p)
  <2>1. pc'[p] = "idle"
    BY <1>0, <1>6 DEF EndPass, Return, TypeOK
  <2> QED BY <2>1 DEF Deletes, Pushes, Pulls
<1> QED BY <1>1, <1>2, <1>3, <1>4, <1>5, <1>6

\* So each step of a pass that nobody disturbs.
LEMMA CalmPass ==
  ASSUME IInv, Titled, Marked, NEW p \in Pass, Deletes(p), Pushes(p), Pulls(p),
         SyncStep(p), ~PassFault(p)
  PROVE  (Deletes(p) /\ Pushes(p) /\ Pulls(p))'
<1>1. CASE Start(p) \/ DeleteReturns(p) \/ FirstList(p)
  BY <1>1, CalmDeletes
<1>2. CASE ReadLocal(p) \/ UpdateReturns(p) \/ CreateReturns(p) \/ SecondList(p)
  BY <1>2, CalmPushes
<1>3. CASE Reread(p) \/ FinishDownload(p) \/ BeginPrune(p) \/ EndPass(p)
  BY <1>3, CalmPulls
<1>4. CASE Abort(p) \/ GiveUp(p) \/ ListFails(p)
  <2>1. EndPass(p)
    BY <1>4 DEF PassFault
  <2> QED BY <2>1, CalmPulls
<1>5. ASSUME NEW s \in Score,
             \/ SendDelete(p, s) \/ SendUpdate(p, s) \/ SendCreate(p, s)
             \/ SkipCreate(p, s) \/ SkipDownload(p, s) \/ OpenDownload(p, s)
             \/ Prune(p, s)
      PROVE  (Deletes(p) /\ Pushes(p) /\ Pulls(p))'
  <2>1. /\ ~SkipDownload(p, s)
        /\ SendDelete(p, s) \/ SendUpdate(p, s) => ~Lost(p)
        /\ SendCreate(p, s) => (s \in Receivable => ~Lost(p))
    BY DEF PassFault
  <2>2. CASE SendDelete(p, s)
    BY <2>1, <2>2, CalmDeletes
  <2>3. CASE SendUpdate(p, s) \/ SendCreate(p, s) \/ SkipCreate(p, s)
    BY <2>1, <2>3, CalmPushes
  <2>4. CASE OpenDownload(p, s) \/ Prune(p, s)
    BY <2>4, CalmPulls
  <2> QED BY <1>5, <2>1, <2>2, <2>3, <2>4
<1> QED BY <1>1, <1>2, <1>3, <1>4, <1>5 DEF SyncStep

\* A pass that nobody has disturbed yet has achieved what its stage says.
THEOREM CalmInvariance == CalmSpec => []CalmIInv
<1>1. CalmInit => CalmIInv
  <2>1. ~NoRow.clean
    BY DEF NoRow, Row
  <2> QED BY <2>1 DEF CalmInit, Init, CalmIInv, Marked
<1>2. IInv /\ Titled /\ CalmIInv /\ [CalmNext]_calmVars => CalmIInv'
  <2> SUFFICES ASSUME IInv, Titled, CalmIInv, [CalmNext]_calmVars PROVE CalmIInv'
    OBVIOUS
  <2>1. Marked'
    BY CalmRefines, MarkedStep DEF IInv, CalmIInv
  <2>2. ASSUME NEW p \in Pass, Start(p), calm' = p PROVE CalmIInv'
    <3>1. (Deletes(p) /\ Pushes(p) /\ Pulls(p))'
      <4>1. Deletes(p)
        BY <2>2 DEF Start, Deletes
      <4> QED BY <2>2, <4>1, CalmDeletes
    <3> QED BY <2>1, <2>2, <3>1 DEF CalmIInv
  <2>3. ASSUME NEW p \in Pass, calm = p, CalmStep(p), calm' = p PROVE CalmIInv'
    <3>1. Deletes(p) /\ Pushes(p) /\ Pulls(p) /\ Marked
      BY <2>3 DEF CalmIInv
    <3>2. (Deletes(p) /\ Pushes(p) /\ Pulls(p))'
      BY <2>3, <3>1, CalmPass, CalmServer DEF CalmStep
    <3> QED BY <2>1, <2>3, <3>2 DEF CalmIInv
  <2>4. CASE calm' = Nobody
    BY <2>1, <2>4 DEF CalmIInv
  <2>5. CASE UNCHANGED calmVars
    BY <2>1, <2>5 DEF calmVars, vars, localVars, serverVars, passVars, CalmIInv, Deletes, Pushes, Pulls,
       Mine, Unsent, Stuck, Listed
  <2> QED BY <2>2, <2>3, <2>4, <2>5 DEF CalmNext, CalmIInv
<1> QED BY <1>1, <1>2, CalmRefines, Invariance, TitlesLast, PTL DEF Spec, CalmSpec

\* Whatever earlier passes, aborted anywhere, lost calls and late handlers have
\* left behind, one pass that runs undisturbed makes its device and the server
\* agree (SynchronizeScores).
THEOREM UndisturbedPassAgrees == CalmSpec => []CalmPassAgrees
<1>1. CalmIInv => CalmPassAgrees
  <2> SUFFICES ASSUME CalmIInv, NEW p \in Pass, calm = p, pc[p] = "prune", todo[p] = {},
                      NEW s \in Score
               PROVE  /\ Mine(p, s).clean <=> row[s] = "live"
                      /\ Mine(p, s).st = "tomb" => row[s] # "live"
                      /\ Unsent(p, s) =>
                           row[s] = "gone" \/ file[DeviceOf[p]][s] = "none" \/ s \notin Receivable
    BY DEF CalmPassAgrees, Agrees, Mine, Unsent
  <2>1. Pulls(p)
    BY DEF CalmIInv
  <2> QED BY <2>1 DEF Pulls, Stuck
<1> QED BY <1>1, CalmInvariance, PTL
=============================================================================
