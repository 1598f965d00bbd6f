-------------------------- MODULE ConcertSyncProofs --------------------------
(***************************************************************************)
(* Theorems about ConcertSync, for any number of devices, passes,          *)
(* concerts, versions and handlers and for set lists of any length.        *)
(***************************************************************************)
EXTENDS ConcertCalm, TLAPS

USE ConcertSyncAssumption

-----------------------------------------------------------------------------
(* Typing of the values the actions write *)

\* The bags of items: none, and those of one version.
LEMMA BagType == NoItems \in Bag /\ \A v \in Version : ListOf(v) \in Bag
BY DEF NoItems, ListOf, Bag

\* The checksum of a row is typed.
LEMMA SumType ==
  /\ NoSum \in Content
  /\ \A n \in Version \cup {NoName}, b \in Bag : [name |-> n, items |-> b] \in Content
BY BagType DEF NoSum, Content

\* A row built from typed parts is typed.
LEMMA RowType ==
  ASSUME NEW st \in {"none", "live", "tomb"}, NEW n \in Version \cup {NoName},
         NEW b \in Bag, NEW sum \in Content, NEW via \in {"edit", "push", "pull"}
  PROVE  Row(st, n, b, sum, via) \in LocalRow
BY DEF Row, LocalRow

\* The fields of a typed row.
LEMMA RowFields ==
  ASSUME NEW r \in LocalRow
  PROVE  /\ r.st \in {"none", "live", "tomb"} /\ r.name \in Version \cup {NoName}
         /\ r.items \in Bag /\ r.sum \in Content /\ r.via \in {"edit", "push", "pull"}
BY DEF LocalRow

\* The row of a concert that is not on the device.
LEMMA NoRowType == NoRow \in LocalRow
BY RowType, BagType, SumType DEF NoRow

\* A row keeps its type when its checksum, or its mark, is set.
LEMMA RowUpdateType ==
  ASSUME NEW r \in LocalRow
  PROVE  /\ \A sum \in Content : [r EXCEPT !.sum = sum, !.via = "push"] \in LocalRow
         /\ [r EXCEPT !.st = "tomb", !.sum = NoSum] \in LocalRow
BY SumType DEF LocalRow

\* The fields of a typed listing.
LEMMA ListingFields ==
  ASSUME NEW l \in Listing
  PROVE  /\ l.in \in BOOLEAN /\ l.name \in Version \cup {NoName}
         /\ l.items \in Bag /\ l.sum \in Content
BY DEF Listing

\* A concert that is not listed, and the entries the three queries fill in.
LEMMA ListingType ==
  /\ Unlisted \in Listing
  /\ \A b \in BOOLEAN, n \in Version \cup {NoName} :
       [Unlisted EXCEPT !.in = b, !.name = n] \in Listing
  /\ \A l \in Listing, sum \in Content : [l EXCEPT !.sum = sum] \in Listing
  /\ \A l \in Listing, b \in Bag : [l EXCEPT !.items = b] \in Listing
BY BagType, SumType DEF Unlisted, Listing

\* What the server computes as a checksum is typed.
LEMMA ChecksumType == ASSUME TypeOK, NEW c \in Concert PROVE Checksum(c) \in Content
BY SumType DEF TypeOK, Checksum

\* Writing one row of one device keeps the database typed.
LEMMA LocalType ==
  ASSUME TypeOK, NEW d \in Device, NEW c \in Concert, NEW r \in LocalRow
  PROVE  [local EXCEPT ![d][c] = r] \in [Device -> [Concert -> LocalRow]]
BY DEF TypeOK

\* What GetConcerts returns is a typed snapshot.
LEMMA GetConcertsType ==
  ASSUME TypeOK, NEW d \in Device PROVE GetConcerts(d) \in [Concert -> LocalRow]
BY NoRowType DEF TypeOK, GetConcerts

\* HardDeleteConcert leaves the database typed.
LEMMA HardDeleteType ==
  ASSUME TypeOK, NEW d \in Device, NEW c \in Concert, HardDeleteConcert(d, c)
  PROVE  local' \in [Device -> [Concert -> LocalRow]]
BY LocalType, NoRowType DEF HardDeleteConcert

\* So does SyncConcertFromServer with a typed listing.
LEMMA SyncType ==
  ASSUME TypeOK, NEW d \in Device, NEW c \in Concert, NEW l \in Listing,
         SyncConcertFromServer(d, c, l)
  PROVE  local' \in [Device -> [Concert -> LocalRow]]
BY LocalType, RowType, ListingFields DEF SyncConcertFromServer

\* UpdateConcertChecksum writes the checksum of a row, if there is one.
LEMMA UpdateChecksumRow ==
  ASSUME TypeOK, NEW d \in Device, NEW c \in Concert, NEW sum \in Content,
         UpdateConcertChecksum(d, c, sum)
  PROVE  \E new \in LocalRow :
           /\ new.st = local[d][c].st /\ new.via = "push"
           /\ local' = local \/ local' = [local EXCEPT ![d][c] = new]
<1> DEFINE new == [local[d][c] EXCEPT !.sum = sum, !.via = "push"]
<1>1. local[d][c] \in LocalRow
  BY DEF TypeOK
<1>2. new \in LocalRow
  BY <1>1, RowUpdateType
<1>3. new.st = local[d][c].st /\ new.via = "push"
  BY <1>1 DEF LocalRow
<1>4. local' = local \/ local' = [local EXCEPT ![d][c] = new]
  <2>1. CASE local[d][c].st = "none"
    BY <2>1 DEF UpdateConcertChecksum
  <2>2. CASE local[d][c].st # "none"
    <3>1. local' = [local EXCEPT ![d][c] = new]
      BY <2>2 DEF UpdateConcertChecksum, TypeOK
    <3> QED BY <3>1
  <2> QED BY <2>1, <2>2
<1> HIDE DEF new
<1> QED BY <1>2, <1>3, <1>4

\* So it leaves the database typed, too.
LEMMA UpdateChecksumType ==
  ASSUME TypeOK, NEW d \in Device, NEW c \in Concert, NEW sum \in Content,
         UpdateConcertChecksum(d, c, sum)
  PROVE  local' \in [Device -> [Concert -> LocalRow]]
<1>1. PICK new \in LocalRow : local' = local \/ local' = [local EXCEPT ![d][c] = new]
  BY UpdateChecksumRow
<1>2. [local EXCEPT ![d][c] = new] \in [Device -> [Concert -> LocalRow]]
  BY LocalType
<1>3. local \in [Device -> [Concert -> LocalRow]]
  BY DEF TypeOK
<1> QED BY <1>1, <1>2, <1>3

\* A handler that takes up a call is typed, and so is an idle one.
LEMMA CallType ==
  /\ Idle \in Call
  /\ \A at \in {"create", "read", "item", "delete"}, c \in Concert,
        n \in Version \cup {NoName}, i \in Item \cup {NoName}, p \in Pass :
        [at |-> at, concert |-> c, name |-> n, item |-> i, by |-> p] \in Call
BY DEF Idle, Call

\* The fields of the call a handler works on.
LEMMA CallFields ==
  ASSUME NEW c \in Call
  PROVE  /\ c.at \in {"idle", "create", "read", "save", "item", "delete"}
         /\ c.concert \in Concert \cup {NoConcert} /\ c.name \in Version \cup {NoName}
         /\ c.item \in Item \cup {NoName} /\ c.by \in Pass \cup {Nobody}
BY DEF Call

\* Answering keeps handlers and replies typed.
LEMMA AnswerType ==
  ASSUME TypeOK, NEW h \in Handler, NEW r \in {"ok", "error"}, Answer(h, r)
  PROVE  /\ handler' \in [Handler -> Call]
         /\ reply' \in [Pass -> {"none", "ok", "error"}]
BY CallType DEF TypeOK, Answer

\* So does sending a call.
LEMMA SendType ==
  ASSUME TypeOK, NEW p \in Pass, NEW at \in {"create", "read", "item", "delete"},
         NEW c \in Concert, NEW n \in Version \cup {NoName}, NEW i \in Item \cup {NoName},
         Lost(p) \/ Delivered(p, at, c, n, i)
  PROVE  /\ handler' \in [Handler -> Call]
         /\ reply' \in [Pass -> {"none", "ok", "error"}]
<1>1. CASE Lost(p)  BY <1>1 DEF TypeOK, Lost
<1>2. CASE Delivered(p, at, c, n, i)
  <2> DEFINE r == [at |-> at, concert |-> c, name |-> n, item |-> i, by |-> p]
  <2>1. r \in Call
    BY CallType
  <2>2. /\ \E h \in Handler : handler' = [handler EXCEPT ![h] = r]
        /\ reply' = [reply EXCEPT ![p] = "none"]
    BY <1>2 DEF Delivered
  <2> HIDE DEF r
  <2> QED BY <2>1, <2>2 DEF TypeOK
<1> QED BY <1>1, <1>2

\* A handler keeps its type when its caller leaves.
LEMMA OrphanType ==
  ASSUME TypeOK, NEW p \in Pass, Orphan(p) PROVE handler' \in [Handler -> Call]
<1>1. ASSUME NEW c \in Call PROVE [c EXCEPT !.by = Nobody] \in Call
  BY DEF Call
<1> QED BY <1>1 DEF TypeOK, Orphan

-----------------------------------------------------------------------------
(* Type correctness *)

\* Every initial state is typed.
LEMMA TypeInitial == Init => TypeOK
<1> SUFFICES ASSUME Init PROVE TypeOK
  OBVIOUS
<1>1. local \in [Device -> [Concert -> LocalRow]] /\ snap \in [Pass -> [Concert -> LocalRow]]
  BY NoRowType DEF Init
<1>2. items \in [Concert -> Bag] /\ left \in [Pass -> Bag]
  BY BagType DEF Init
<1>3. handler \in [Handler -> Call] /\ listed \in [Pass -> [Concert -> Listing]]
  BY CallType, ListingType DEF Init
<1> QED BY <1>1, <1>2, <1>3 DEF Init, TypeOK, Stages, Waiting

\* The user's actions keep the types.
LEMMA TypeUser == ASSUME TypeOK, User PROVE TypeOK'
<1> USE DEF TypeOK, serverVars, passVars
<1>1. ASSUME NEW d \in Device, NEW c \in Concert, NEW v \in Version,
             AddConcert(d, c, v) \/ EditConcert(d, c, v)
      PROVE  TypeOK'
  <2>1. local' = [local EXCEPT ![d][c] = Row("live", v, ListOf(v), NoSum, "edit")]
    BY <1>1 DEF AddConcert, EditConcert
  <2>2. Row("live", v, ListOf(v), NoSum, "edit") \in LocalRow
    BY RowType, BagType, SumType
  <2>3. local' \in [Device -> [Concert -> LocalRow]]
    BY <2>1, <2>2, LocalType
  <2>4. saved' = saved \cup {v} /\ origin' \in [Concert -> Device \cup {Nobody}]
    BY <1>1 DEF AddConcert, EditConcert
  <2> QED BY <1>1, <2>3, <2>4 DEF AddConcert, EditConcert
<1>2. ASSUME NEW d \in Device, NEW c \in Concert, MarkConcertDeleted(d, c)
      PROVE  TypeOK'
  <2> DEFINE r == [local[d][c] EXCEPT !.st = "tomb", !.sum = NoSum]
  <2>1. local[d][c] \in LocalRow
    OBVIOUS
  <2>2. r \in LocalRow
    BY <2>1, RowUpdateType
  <2>3. local' = [local EXCEPT ![d][c] = r]
    BY <1>2 DEF MarkConcertDeleted
  <2> HIDE DEF r
  <2>4. local' \in [Device -> [Concert -> LocalRow]]
    BY <2>2, <2>3, LocalType
  <2> QED BY <1>2, <2>4 DEF MarkConcertDeleted
<1> QED BY <1>1, <1>2 DEF User

\* So do the server's.
LEMMA TypeServer == ASSUME TypeOK, NEW h \in Handler, ServerStep(h) PROVE TypeOK'
<1> USE DEF TypeOK, localVars, serverVars, passVars
<1>f. handler[h] \in Call
  OBVIOUS
<1>1. ASSUME NEW c, row' = [row EXCEPT ![c] = "live"],
             name' = [name EXCEPT ![c] = handler[h].name],
             served' = [served EXCEPT ![c] = @ \cup {handler[h].name}]
      PROVE  /\ row' \in [Concert -> {"none", "live", "gone"}]
             /\ name' \in [Concert -> Version \cup {NoName}]
             /\ served' \in [Concert -> SUBSET (Version \cup {NoName})]
  <2>1. handler[h].name \in Version \cup {NoName}
    BY <1>f, CallFields
  <2> QED BY <1>1, <2>1
<1>2. CASE CreateConcert(h)  BY <1>1, <1>2, AnswerType DEF CreateConcert
<1>3. CASE ReadRow(h)
  <2>1. [handler[h] EXCEPT !.at = "save"] \in Call
    BY <1>f DEF Call
  <2> QED BY <1>3, <2>1 DEF ReadRow
<1>4. CASE SaveRow(h)  BY <1>1, <1>4, AnswerType DEF SaveRow
<1>5. CASE AddConcertItem(h)
  <2> DEFINE c == handler[h].concert
             i == handler[h].item
  <2>1. items' = [items EXCEPT ![c][i] = IF @ < MaxCopies THEN @ + 1 ELSE @]
    BY <1>5 DEF AddConcertItem
  <2> HIDE DEF c, i
  <2>2. ASSUME c \in Concert PROVE items' \in [Concert -> Bag]
    <3> DEFINE b == [items[c] EXCEPT ![i] = IF @ < MaxCopies THEN @ + 1 ELSE @]
    <3>1. items[c] \in Bag
      BY <2>2
    <3>2. b \in Bag
      <4>1. b = [j \in Item |-> IF j # i THEN items[c][j]
                               ELSE IF items[c][j] < MaxCopies THEN items[c][j] + 1
                               ELSE items[c][j]]
        BY <3>1 DEF Bag
      <4>2. \A j \in Item : items[c][j] \in 0..MaxCopies
        BY <3>1 DEF Bag
      <4> HIDE DEF b
      <4> QED BY <4>1, <4>2 DEF Bag
    <3>3. items' = [items EXCEPT ![c] = b]
      BY <2>1
    <3> HIDE DEF b
    <3> QED BY <2>2, <3>2, <3>3
  <2>3. items' \in [Concert -> Bag]
    BY <2>1, <2>2
  <2>4. /\ handler' \in [Handler -> Call]
        /\ reply' \in [Pass -> {"none", "ok", "error"}]
    BY <1>5, AnswerType DEF AddConcertItem
  <2> QED BY <1>5, <2>3, <2>4 DEF AddConcertItem
<1>6. CASE DeleteConcert(h)  BY <1>6, AnswerType DEF DeleteConcert
<1>7. CASE Refused(h)        BY <1>7, AnswerType DEF Refused
<1>8. CASE HandlerFails(h)   BY <1>8, AnswerType DEF HandlerFails
<1> QED BY <1>2, <1>3, <1>4, <1>5, <1>6, <1>7, <1>8 DEF ServerStep

\* A pass that returns forgets everything, in types as well.
LEMMA ReturnType ==
  ASSUME TypeOK, NEW p \in Pass, Return(p)
  PROVE  /\ pc' \in [Pass -> Stages] /\ todo' \in [Pass -> SUBSET Concert]
         /\ cur' \in [Pass -> Concert \cup {NoConcert}]
         /\ \A q \in Pass : pc'[q] \in Waiting \cup {"items"} => cur'[q] \in Concert
         /\ left' \in [Pass -> Bag] /\ reply' \in [Pass -> {"none", "ok", "error"}]
         /\ remote' \in [Pass -> SUBSET Concert]
         /\ listed' \in [Pass -> [Concert -> Listing]]
         /\ snap' \in [Pass -> [Concert -> LocalRow]] /\ pushed' \in [Pass -> SUBSET Concert]
<1>1. /\ pc' \in [Pass -> Stages] /\ todo' \in [Pass -> SUBSET Concert]
      /\ cur' \in [Pass -> Concert \cup {NoConcert}]
      /\ \A q \in Pass : pc'[q] \in Waiting \cup {"items"} => cur'[q] \in Concert
      /\ reply' \in [Pass -> {"none", "ok", "error"}]
      /\ remote' \in [Pass -> SUBSET Concert] /\ pushed' \in [Pass -> SUBSET Concert]
  BY DEF Return, TypeOK, Stages, Waiting
<1>2. left' \in [Pass -> Bag] /\ snap' \in [Pass -> [Concert -> LocalRow]]
  BY BagType, NoRowType DEF Return, TypeOK
<1>3. listed' \in [Pass -> [Concert -> Listing]]
  BY ListingType DEF Return, TypeOK
<1> QED BY <1>1, <1>2, <1>3

\* The steps of a pass keep the types.
LEMMA TypePass == ASSUME TypeOK, NEW p \in Pass, SyncStep(p) PROVE TypeOK'
<1> USE DEF TypeOK, localVars, serverVars, passVars, Stages, Waiting
<1>d. DeviceOf[p] \in Device
  OBVIOUS
<1>s. ASSUME NEW c \in Concert
      PROVE  snap[p][c].name \in Version \cup {NoName} /\ snap[p][c].items \in Bag
  <2>1. snap[p][c] \in LocalRow
    OBVIOUS
  <2> QED BY <2>1, RowFields
<1>1. CASE Start(p)           BY <1>1 DEF Start, GetDeletedConcertIDs
<1>2. CASE DeleteReturns(p)
  <2>1. cur[p] \in Concert
    BY <1>2 DEF DeleteReturns
  <2>2. local' \in [Device -> [Concert -> LocalRow]]
    BY <1>2, <1>d, <2>1, HardDeleteType DEF DeleteReturns
  <2> QED BY <1>2, <2>2 DEF DeleteReturns
<1>3. CASE FirstList(p)       BY <1>3 DEF FirstList
<1>4. CASE ReadLocal(p)       BY <1>4, <1>d, GetConcertsType DEF ReadLocal
<1>5. CASE PushReturns(p)
  <2>1. cur[p] \in Concert
    BY <1>5 DEF PushReturns
  <2>2. left' \in [Pass -> Bag]
    BY <1>5, <1>s, <2>1 DEF PushReturns
  <2>3. /\ pc' \in [Pass -> Stages] /\ cur' \in [Pass -> Concert \cup {NoConcert}]
        /\ \A q \in Pass : pc'[q] \in Waiting \cup {"items"} => cur'[q] \in Concert
        /\ reply' \in [Pass -> {"none", "ok", "error"}]
    <3>1. /\ \/ pc' = [pc EXCEPT ![p] = "items"] /\ cur' = cur
             \/ pc' = [pc EXCEPT ![p] = "push"] /\ cur' = [cur EXCEPT ![p] = NoConcert]
          /\ reply' = [reply EXCEPT ![p] = "none"]
      BY <1>5 DEF PushReturns
    <3> QED BY <2>1, <3>1
  <2> QED BY <1>5, <2>2, <2>3 DEF PushReturns
<1>6. CASE ItemReturns(p)     BY <1>6 DEF ItemReturns
<1>7. CASE ItemsSent(p)
  <2>1. pushed' \in [Pass -> SUBSET Concert]
    BY <1>7 DEF ItemsSent
  <2> QED BY <1>7, <2>1 DEF ItemsSent
<1>8. CASE SecondList(p)
  <2> DEFINE new == [c \in Concert |->
               [Unlisted EXCEPT !.in = row[c] = "live",
                                !.name = IF row[c] = "live" THEN name[c] ELSE NoName]]
  <2>1. new \in [Concert -> Listing]
    BY ListingType
  <2>2. listed' = [listed EXCEPT ![p] = new]
    BY <1>8 DEF SecondList
  <2> HIDE DEF new
  <2>3. listed' \in [Pass -> [Concert -> Listing]]
    BY <2>1, <2>2
  <2> QED BY <1>8, <2>3 DEF SecondList
<1>9. CASE ListChecksums(p)
  <2> DEFINE new == [c \in Concert |->
               IF listed[p][c].in THEN [listed[p][c] EXCEPT !.sum = Checksum(c)]
               ELSE listed[p][c]]
  <2>1. new \in [Concert -> Listing]
    <3>1. ASSUME NEW c \in Concert PROVE new[c] \in Listing
      <4>1. listed[p][c] \in Listing /\ Checksum(c) \in Content
        BY ChecksumType
      <4> QED BY <4>1, ListingType
    <3> QED BY <3>1
  <2>2. listed' = [listed EXCEPT ![p] = new]
    BY <1>9 DEF ListChecksums
  <2> HIDE DEF new
  <2>3. listed' \in [Pass -> [Concert -> Listing]]
    BY <2>1, <2>2
  <2> QED BY <1>9, <2>3 DEF ListChecksums
<1>10. CASE ListItems(p)
  <2> DEFINE new == [c \in Concert |->
               IF listed[p][c].in THEN [listed[p][c] EXCEPT !.items = items[c]]
               ELSE listed[p][c]]
  <2>1. new \in [Concert -> Listing]
    <3>1. ASSUME NEW c \in Concert PROVE new[c] \in Listing
      <4>1. listed[p][c] \in Listing /\ items[c] \in Bag
        OBVIOUS
      <4> QED BY <4>1, ListingType
    <3> QED BY <3>1
  <2>2. listed' = [listed EXCEPT ![p] = new]
    BY <1>10 DEF ListItems
  <2> HIDE DEF new
  <2>3. listed' \in [Pass -> [Concert -> Listing]]
    BY <2>1, <2>2
  <2> QED BY <1>10, <2>3 DEF ListItems
<1>11. CASE Reread(p)         BY <1>11, <1>d, GetConcertsType DEF Reread
<1>12. CASE BeginPrune(p)     BY <1>12 DEF BeginPrune
<1>13. CASE EndPass(p)        BY <1>13, ReturnType DEF EndPass
<1>14. CASE ListFails(p)      BY <1>14, ReturnType DEF ListFails
<1>15. CASE GiveUp(p)         BY <1>15, OrphanType DEF GiveUp
<1>16. CASE Abort(p)          BY <1>16, ReturnType, OrphanType DEF Abort
<1>17. ASSUME NEW c \in Concert, SendDelete(p, c) PROVE TypeOK'
  <2>1. /\ handler' \in [Handler -> Call]
        /\ reply' \in [Pass -> {"none", "ok", "error"}]
    BY <1>17, SendType DEF SendDelete
  <2> QED BY <1>17, <2>1 DEF SendDelete, Request
<1>18. ASSUME NEW c \in Concert, SendUpdate(p, c) PROVE TypeOK'
  <2>1. /\ handler' \in [Handler -> Call]
        /\ reply' \in [Pass -> {"none", "ok", "error"}]
    BY <1>18, <1>s, SendType DEF SendUpdate
  <2> QED BY <1>18, <2>1 DEF SendUpdate, Request
<1>19. ASSUME NEW c \in Concert, SendCreate(p, c) PROVE TypeOK'
  <2>1. /\ handler' \in [Handler -> Call]
        /\ reply' \in [Pass -> {"none", "ok", "error"}]
    BY <1>19, <1>s, SendType DEF SendCreate
  <2> QED BY <1>19, <2>1 DEF SendCreate, Request
<1>20. ASSUME NEW i \in Item, SendItem(p, i) PROVE TypeOK'
  <2>1. cur[p] \in Concert
    BY <1>20 DEF SendItem
  <2>2. /\ handler' \in [Handler -> Call]
        /\ reply' \in [Pass -> {"none", "ok", "error"}]
    BY <1>20, <2>1, SendType DEF SendItem
  <2>3. left' \in [Pass -> Bag]
    BY <1>20 DEF SendItem, Bag
  <2> QED BY <1>20, <2>1, <2>2, <2>3 DEF SendItem
<1>21. ASSUME NEW c \in Concert, Apply(p, c) PROVE TypeOK'
  <2>1. listed[p][c] \in Listing /\ listed[p][c].sum \in Content
    BY ListingFields
  <2>2. local' \in [Device -> [Concert -> LocalRow]]
    BY <1>21, <1>d, <2>1, SyncType, UpdateChecksumType DEF Apply
  <2> QED BY <1>21, <2>2 DEF Apply
<1>22. ASSUME NEW c \in Concert, Prune(p, c) PROVE TypeOK'
  BY <1>22, <1>d, HardDeleteType DEF Prune
<1> QED
  BY <1>1, <1>2, <1>3, <1>4, <1>5, <1>6, <1>7, <1>8, <1>9, <1>10, <1>11, <1>12, <1>13,
     <1>14, <1>15, <1>16, <1>17, <1>18, <1>19, <1>20, <1>21, <1>22 DEF SyncStep

\* Type correctness for every instance: no interleaving of users, passes and
\* handlers writes a value of the wrong type anywhere.
THEOREM TypeCorrect == Spec => []TypeOK
<1>1. TypeOK /\ [Next]_vars => TypeOK'
  <2> SUFFICES ASSUME TypeOK, [Next]_vars PROVE TypeOK'
    OBVIOUS
  <2>1. CASE User
    BY <2>1, TypeUser
  <2>2. ASSUME NEW h \in Handler, ServerStep(h) PROVE TypeOK'
    BY <2>2, TypeServer
  <2>3. ASSUME NEW p \in Pass, SyncStep(p) PROVE TypeOK'
    BY <2>3, TypePass
  <2>4. CASE UNCHANGED vars
    BY <2>4 DEF vars, localVars, serverVars, passVars, TypeOK
  <2> QED BY <2>1, <2>2, <2>3, <2>4 DEF Next
<1> QED BY <1>1, TypeInitial, PTL DEF Spec
-----------------------------------------------------------------------------
(* The inductive invariant *)

AtMost(a, b) == \A i \in Item : a[i] <= b[i]

\* What the devices hold: a tombstone was made by a user, only a concert the
\* server has had is marked as synced, and a row that was pulled has at least
\* the items its checksum was computed from and none the server has not.
Held ==
  \A d \in Device, c \in Concert :
    LET mine == local[d][c] IN
      /\ mine.st = "tomb" => c \in trashed
      /\ mine.sum # NoSum => row[c] # "none"
      /\ mine.via = "pull" => AtMost(mine.sum.items, mine.items) /\ AtMost(mine.items, items[c])

\* The second list of a pass, whose checksums are older than its items.
Listed(p) ==
  \A c \in Concert :
    LET l == listed[p][c] IN
      /\ l.in => row[c] # "none"
      /\ ~l.in => l = Unlisted
      /\ AtMost(l.sum.items, items[c]) /\ AtMost(l.items, items[c])
      /\ pc[p] # "rows" => AtMost(l.sum.items, l.items)

\* What else a pass remembers, which the server and the database may have
\* moved on from.
RememberedBy(p) ==
  /\ \A c \in Concert : snap[p][c].sum # NoSum => row[c] # "none"
  /\ pc[p] \in {"tombs", "deleting"} => todo[p] \subseteq trashed
  /\ pc[p] = "deleting" => cur[p] \in trashed
  /\ pc[p] = "apply" => \A c \in todo[p] : listed[p][c].in
  /\ pc[p] = "prune" => \A c \in todo[p] : snap[p][c].sum # NoSum /\ c \notin remote[p]

\* What a handler works on.
InHand(h) ==
  /\ handler[h].at # "idle" => handler[h].concert \in Concert
  /\ handler[h].at = "delete" => handler[h].concert \in trashed

IInv ==
  /\ TypeOK /\ Held
  /\ \A p \in Pass : Listed(p) /\ RememberedBy(p)
  /\ \A h \in Handler : InHand(h)
  /\ NeverUploadedIsKept /\ DeletedByUserOnly

\* AtMost is a partial order on bags, with the empty bag at its bottom.
LEMMA AtMostOrder ==
  /\ \A a \in Bag : AtMost(NoItems, a) /\ AtMost(a, a)
  /\ \A a, b, c \in Bag : AtMost(a, b) /\ AtMost(b, c) => AtMost(a, c)
  /\ \A a, b \in Bag : AtMost(a, b) /\ AtMost(b, a) => a = b
<1>1. \A a \in Bag : a \in [Item -> 0..MaxCopies] /\ \A i \in Item : a[i] \in Nat
  BY DEF Bag
<1>2. \A a \in Bag : AtMost(NoItems, a) /\ AtMost(a, a)
  BY <1>1 DEF AtMost, NoItems
<1>3. ASSUME NEW a \in Bag, NEW b \in Bag, NEW c \in Bag, AtMost(a, b), AtMost(b, c)
      PROVE  AtMost(a, c)
  <2>1. ASSUME NEW i \in Item PROVE a[i] <= c[i]
    <3>1. a[i] \in Nat /\ b[i] \in Nat /\ c[i] \in Nat
      BY <1>1
    <3>2. a[i] <= b[i] /\ b[i] <= c[i]
      BY <1>3 DEF AtMost
    <3> QED BY <3>1, <3>2
  <2> QED BY <2>1 DEF AtMost
<1>4. ASSUME NEW a \in Bag, NEW b \in Bag, AtMost(a, b), AtMost(b, a) PROVE a = b
  <2>1. ASSUME NEW i \in Item PROVE a[i] = b[i]
    <3>1. a[i] \in Nat /\ b[i] \in Nat
      BY <1>1
    <3>2. a[i] <= b[i] /\ b[i] <= a[i]
      BY <1>4 DEF AtMost
    <3> QED BY <3>1, <3>2
  <2> QED BY <1>1, <2>1
<1> QED BY <1>2, <1>3, <1>4

\* The empty values: they are not synced and have no items.
LEMMA EmptyValues ==
  /\ NoSum.items = NoItems
  /\ NoRow.st = "none" /\ NoRow.sum = NoSum /\ NoRow.via = "edit"
  /\ ~Unlisted.in /\ Unlisted.sum = NoSum /\ Unlisted.items = NoItems
BY DEF NoSum, NoRow, Row, Unlisted

\* The bags of a typed row and of a typed listing.
LEMMA BagsOf ==
  ASSUME TypeOK
  PROVE  /\ \A d \in Device, c \in Concert :
              local[d][c].items \in Bag /\ local[d][c].sum.items \in Bag
         /\ \A p \in Pass, c \in Concert :
              listed[p][c].items \in Bag /\ listed[p][c].sum.items \in Bag
         /\ \A c \in Concert : items[c] \in Bag
<1>1. \A s \in Content : s.items \in Bag
  BY DEF Content
<1>2. ASSUME NEW d \in Device, NEW c \in Concert
      PROVE  local[d][c].items \in Bag /\ local[d][c].sum.items \in Bag
  <2>1. local[d][c] \in LocalRow
    BY DEF TypeOK
  <2> QED BY <1>1, <2>1, RowFields
<1>3. ASSUME NEW p \in Pass, NEW c \in Concert
      PROVE  listed[p][c].items \in Bag /\ listed[p][c].sum.items \in Bag
  <2>1. listed[p][c] \in Listing
    BY DEF TypeOK
  <2> QED BY <1>1, <2>1, ListingFields
<1> QED BY <1>2, <1>3 DEF TypeOK

\* Every initial state satisfies the invariant.
LEMMA InvInitial == Init => IInv
<1> SUFFICES ASSUME Init PROVE IInv
  OBVIOUS
<1>1. Held /\ NeverUploadedIsKept /\ DeletedByUserOnly
  BY EmptyValues DEF Init, Held, NeverUploadedIsKept, DeletedByUserOnly
<1>2. ASSUME NEW p \in Pass PROVE Listed(p)
  <2>1. \A c \in Concert : listed[p][c] = Unlisted /\ items[c] = NoItems
    BY DEF Init
  <2> QED BY <2>1, EmptyValues, AtMostOrder, BagType DEF Listed
<1>3. ASSUME NEW p \in Pass PROVE RememberedBy(p)
  BY EmptyValues DEF Init, RememberedBy
<1>4. ASSUME NEW h \in Handler PROVE InHand(h)
  BY DEF Init, InHand, Idle
<1> QED BY <1>1, <1>2, <1>3, <1>4, TypeInitial DEF IInv

\* What a pass remembers outlives any step of others: rows are never
\* forgotten, items only added and deletions stay confirmed.
LEMMA PassFrame ==
  ASSUME TypeOK, TypeOK', NEW p \in Pass, Listed(p), RememberedBy(p),
         pc'[p] = pc[p], todo'[p] = todo[p], cur'[p] = cur[p], remote'[p] = remote[p],
         listed'[p] = listed[p], snap'[p] = snap[p], trashed \subseteq trashed',
         \A c \in Concert : row[c] # "none" => row'[c] # "none",
         \A c \in Concert : AtMost(items[c], items'[c])
  PROVE  Listed(p)' /\ RememberedBy(p)'
<1>1. ASSUME NEW c \in Concert, NEW b \in Bag, AtMost(b, items[c])
      PROVE  AtMost(b, items'[c])
  <2>1. items[c] \in Bag /\ items'[c] \in Bag
    BY DEF TypeOK
  <2> QED BY <1>1, <2>1, AtMostOrder
<1>2. Listed(p)'
  BY <1>1, BagsOf DEF Listed
<1>3. RememberedBy(p)'
  BY DEF RememberedBy, TypeOK
<1> QED BY <1>2, <1>3

\* What the devices hold outlives any step that leaves it alone.
LEMMA HeldFrame ==
  ASSUME TypeOK, TypeOK', Held, local' = local, trashed \subseteq trashed',
         \A c \in Concert : row[c] # "none" => row'[c] # "none",
         \A c \in Concert : AtMost(items[c], items'[c])
  PROVE  Held'
<1>1. ASSUME NEW c \in Concert, NEW b \in Bag, AtMost(b, items[c])
      PROVE  AtMost(b, items'[c])
  <2>1. items[c] \in Bag /\ items'[c] \in Bag
    BY DEF TypeOK
  <2> QED BY <1>1, <2>1, AtMostOrder
<1> QED BY <1>1, BagsOf DEF Held

\* The user's actions.
LEMMA InvUser == ASSUME IInv, User, TypeOK' PROVE IInv'
<1> USE DEF serverVars, passVars
<1>0. /\ TypeOK /\ Held /\ NeverUploadedIsKept /\ DeletedByUserOnly
      /\ UNCHANGED <<serverVars, handler, passVars>>
  BY DEF IInv, User, AddConcert, EditConcert, MarkConcertDeleted
<1>1. trashed \subseteq trashed'
  BY DEF User, AddConcert, EditConcert, MarkConcertDeleted
<1>i. \A c \in Concert : AtMost(items[c], items'[c])
  BY <1>0, AtMostOrder, BagsOf
<1>2. ASSUME NEW p \in Pass PROVE (Listed(p) /\ RememberedBy(p))'
  BY <1>0, <1>1, <1>i, PassFrame DEF IInv
<1>3. ASSUME NEW h \in Handler PROVE InHand(h)'
  BY <1>0, <1>1 DEF IInv, InHand
<1>4. DeletedByUserOnly'
  BY <1>0, <1>1 DEF DeletedByUserOnly
<1>5. ASSUME NEW d \in Device, NEW c \in Concert, NEW v \in Version,
             AddConcert(d, c, v) \/ EditConcert(d, c, v)
      PROVE  Held' /\ NeverUploadedIsKept'
  <2> DEFINE new == Row("live", v, ListOf(v), NoSum, "edit")
  <2>1. local' = [local EXCEPT ![d][c] = new] /\ trashed' = trashed
        /\ (origin' = origin \/ origin' = [origin EXCEPT ![c] = d])
    BY <1>5 DEF AddConcert, EditConcert
  <2>2. new.st = "live" /\ new.name = v /\ new.items = ListOf(v) /\ new.sum = NoSum
        /\ new.via = "edit"
    BY DEF Row
  <2> HIDE DEF new
  <2>3. /\ local'[d][c] = new
        /\ \A e \in Device, k \in Concert : e # d \/ k # c => local'[e][k] = local[e][k]
    BY <1>0, <2>1 DEF TypeOK
  <2>4. Held'
    BY <1>0, <2>1, <2>2, <2>3 DEF Held
  <2>5. ASSUME NEW k \in Concert, origin'[k] # Nobody, row'[k] = "none", k \notin trashed'
        PROVE  LET mine == local'[origin'[k]][k] IN
                 mine.st = "live" /\ mine.sum = NoSum /\ mine.items = ListOf(mine.name)
    <3>1. origin'[k] \in Device
      BY <2>5 DEF TypeOK
    <3>2. CASE origin'[k] = d /\ k = c
      BY <2>2, <2>3, <3>2
    <3>3. CASE origin'[k] # d \/ k # c
      <4>1. origin'[k] = origin[k]
        BY <1>0, <2>1, <2>5, <3>3 DEF TypeOK
      <4> QED BY <1>0, <2>1, <2>3, <2>5, <3>1, <3>3, <4>1 DEF NeverUploadedIsKept
    <3> QED BY <3>2, <3>3
  <2> QED BY <2>4, <2>5 DEF NeverUploadedIsKept
<1>6. ASSUME NEW d \in Device, NEW c \in Concert, MarkConcertDeleted(d, c)
      PROVE  Held' /\ NeverUploadedIsKept'
  <2> DEFINE new == [local[d][c] EXCEPT !.st = "tomb", !.sum = NoSum]
  <2>1. local' = [local EXCEPT ![d][c] = new] /\ trashed' = trashed \cup {c}
        /\ origin' = origin
    BY <1>6 DEF MarkConcertDeleted
  <2>2. new.st = "tomb" /\ new.items = local[d][c].items /\ new.sum = NoSum
        /\ new.via = local[d][c].via
    <3>1. local[d][c] \in LocalRow
      BY <1>0 DEF TypeOK
    <3> QED BY <3>1 DEF LocalRow
  <2> HIDE DEF new
  <2>3. /\ local'[d][c] = new
        /\ \A e \in Device, k \in Concert : e # d \/ k # c => local'[e][k] = local[e][k]
    BY <1>0, <2>1 DEF TypeOK
  <2>4. AtMost(NoItems, local[d][c].items)
    BY <1>0, AtMostOrder, BagsOf
  <2>5. Held'
    BY <1>0, <2>1, <2>2, <2>3, <2>4, EmptyValues DEF Held
  <2>6. NeverUploadedIsKept'
    BY <1>0, <2>1, <2>3 DEF NeverUploadedIsKept, TypeOK
  <2> QED BY <2>5, <2>6
<1> QED BY <1>2, <1>3, <1>4, <1>5, <1>6 DEF IInv, User

\* What every step of the server leaves alone, and what it only adds to.
LEMMA ServerFrame ==
  ASSUME TypeOK, NEW h \in Handler, ServerStep(h)
  PROVE  /\ UNCHANGED <<origin, local, trashed, pc, todo, cur, remote, listed, snap>>
         /\ \A c \in Concert : row[c] # "none" => row'[c] # "none"
         /\ \A c \in Concert : AtMost(items[c], items'[c])
         /\ \A g \in Handler : g # h => handler'[g] = handler[g]
         /\ \/ handler'[h] = Idle
            \/ /\ handler'[h].at = "save"
               /\ handler'[h].concert = handler[h].concert /\ handler[h].at = "read"
<1> USE DEF TypeOK, localVars, serverVars, passVars
<1>s. \A c \in Concert : AtMost(items[c], items[c])
  BY AtMostOrder
<1>1. CASE CreateConcert(h)  BY <1>1, <1>s DEF CreateConcert, Answer
<1>2. CASE ReadRow(h)
  <2>1. handler[h] \in Call
    OBVIOUS
  <2>2. [handler[h] EXCEPT !.at = "save"].concert = handler[h].concert
    BY <2>1 DEF Call
  <2>3. [handler[h] EXCEPT !.at = "save"].at = "save"
    BY <2>1 DEF Call
  <2> QED BY <1>2, <1>s, <2>2, <2>3 DEF ReadRow
<1>3. CASE SaveRow(h)        BY <1>3, <1>s DEF SaveRow, Answer
<1>4. CASE AddConcertItem(h)
  <2> DEFINE c == handler[h].concert
             i == handler[h].item
  <2>1. items' = [items EXCEPT ![c][i] = IF @ < MaxCopies THEN @ + 1 ELSE @]
    BY <1>4 DEF AddConcertItem
  <2>2. /\ UNCHANGED <<origin, local, trashed, pc, todo, cur, remote, listed, snap, row>>
        /\ Answer(h, "ok")
    BY <1>4 DEF AddConcertItem
  <2> HIDE DEF c, i
  <2>3. ASSUME NEW k \in Concert, NEW j \in Item PROVE items[k][j] <= items'[k][j]
    <3>1. items[k] \in [Item -> 0..MaxCopies] /\ items[k][j] \in Nat
      BY DEF Bag
    <3>2. items'[k][j] = items[k][j] \/ items'[k][j] = items[k][j] + 1
      BY <2>1, <3>1
    <3> QED BY <3>1, <3>2
  <2> QED BY <2>2, <2>3 DEF Answer, AtMost
<1>5. CASE DeleteConcert(h)  BY <1>5, <1>s DEF DeleteConcert, Answer
<1>6. CASE Refused(h)        BY <1>6, <1>s DEF Refused, Answer
<1>7. CASE HandlerFails(h)   BY <1>7, <1>s DEF HandlerFails, Answer
<1> QED BY <1>1, <1>2, <1>3, <1>4, <1>5, <1>6, <1>7 DEF ServerStep

\* The steps of the server.
LEMMA InvServer == ASSUME IInv, NEW h \in Handler, ServerStep(h), TypeOK' PROVE IInv'
<1>0. /\ TypeOK /\ Held /\ NeverUploadedIsKept /\ DeletedByUserOnly
      /\ \A g \in Handler : InHand(g)
  BY DEF IInv
<1>1. /\ UNCHANGED <<origin, local, trashed, pc, todo, cur, remote, listed, snap>>
      /\ \A c \in Concert : row[c] # "none" => row'[c] # "none"
      /\ \A c \in Concert : AtMost(items[c], items'[c])
      /\ \A g \in Handler : g # h => handler'[g] = handler[g]
      /\ \/ handler'[h] = Idle
         \/ /\ handler'[h].at = "save"
            /\ handler'[h].concert = handler[h].concert /\ handler[h].at = "read"
  BY <1>0, ServerFrame
<1>2. ASSUME NEW p \in Pass PROVE (Listed(p) /\ RememberedBy(p))'
  BY <1>0, <1>1, PassFrame DEF IInv
<1>3. Held'
  BY <1>0, <1>1, HeldFrame
<1>4. NeverUploadedIsKept'
  BY <1>0, <1>1 DEF NeverUploadedIsKept
<1>5. ASSUME NEW g \in Handler PROVE InHand(g)'
  BY <1>0, <1>1 DEF InHand, Idle
<1>6. ASSUME NEW c \in Concert, row'[c] = "gone", row[c] # "gone" PROVE c \in trashed
  <2>1. DeleteConcert(h)
    <3> USE DEF TypeOK, serverVars
    <3>1. row' # row
      BY <1>6
    <3>2. ~ReadRow(h) /\ ~AddConcertItem(h) /\ ~Refused(h) /\ ~HandlerFails(h)
      BY <3>1 DEF ReadRow, AddConcertItem, Refused, HandlerFails
    <3>3. ~CreateConcert(h) /\ ~SaveRow(h)
      BY <1>0, <1>6 DEF CreateConcert, SaveRow
    <3> QED BY <3>2, <3>3 DEF ServerStep
  <2>2. handler[h].at = "delete" /\ row' = [row EXCEPT ![handler[h].concert] = "gone"]
    BY <2>1 DEF DeleteConcert
  <2>3. c = handler[h].concert
    BY <1>0, <1>6, <2>2 DEF TypeOK
  <2> QED BY <1>0, <2>2, <2>3 DEF InHand
<1>7. DeletedByUserOnly'
  BY <1>0, <1>1, <1>6 DEF DeletedByUserOnly
<1> QED BY <1>2, <1>3, <1>4, <1>5, <1>7 DEF IInv

-----------------------------------------------------------------------------
(* What a pass may write to the database *)

\* Removing a concert from a device is harmless once a user deleted it or the
\* server has had it.
LEMMA HardDeleteKeeps ==
  ASSUME IInv, NEW d \in Device, NEW c \in Concert, HardDeleteConcert(d, c),
         c \in trashed \/ row[c] # "none", UNCHANGED <<origin, trashed, row, items>>
  PROVE  Held' /\ NeverUploadedIsKept'
<1>0. TypeOK /\ Held /\ NeverUploadedIsKept
  BY DEF IInv
<1>1. /\ local'[d][c] = NoRow
      /\ \A e \in Device, k \in Concert : e # d \/ k # c => local'[e][k] = local[e][k]
  BY <1>0 DEF HardDeleteConcert, TypeOK
<1>2. Held'
  BY <1>0, <1>1, EmptyValues DEF Held
<1>3. ASSUME NEW k \in Concert, origin[k] # Nobody, row[k] = "none", k \notin trashed
      PROVE  local'[origin[k]][k] = local[origin[k]][k]
  <2>1. origin[k] \in Device /\ k # c
    BY <1>0, <1>3 DEF TypeOK
  <2> QED BY <1>1, <2>1
<1>4. NeverUploadedIsKept'
  BY <1>0, <1>3 DEF NeverUploadedIsKept
<1> QED BY <1>2, <1>4

\* Writing a row that was pulled, if its items are between those of its
\* checksum and those of the server, is harmless to a concert the server has
\* had.
LEMMA SyncKeeps ==
  ASSUME IInv, NEW d \in Device, NEW c \in Concert, NEW l, SyncConcertFromServer(d, c, l),
         row[c] # "none", AtMost(l.sum.items, l.items), AtMost(l.items, items[c]),
         UNCHANGED <<origin, trashed, row, items>>
  PROVE  Held' /\ NeverUploadedIsKept'
<1> DEFINE new == Row("live", l.name, l.items, l.sum, "pull")
<1>0. TypeOK /\ Held /\ NeverUploadedIsKept
  BY DEF IInv
<1>1. new.st = "live" /\ new.items = l.items /\ new.sum = l.sum
  BY DEF Row
<1>2. local' = [local EXCEPT ![d][c] = new]
  BY DEF SyncConcertFromServer
<1> HIDE DEF new
<1>3. /\ local'[d][c] = new
      /\ \A e \in Device, k \in Concert : e # d \/ k # c => local'[e][k] = local[e][k]
  BY <1>0, <1>2 DEF TypeOK
<1>4. Held'
  BY <1>0, <1>1, <1>3 DEF Held
<1>5. ASSUME NEW k \in Concert, origin[k] # Nobody, row[k] = "none", k \notin trashed
      PROVE  local'[origin[k]][k] = local[origin[k]][k]
  <2>1. origin[k] \in Device /\ k # c
    BY <1>0, <1>5 DEF TypeOK
  <2> QED BY <1>3, <2>1
<1>6. NeverUploadedIsKept'
  BY <1>0, <1>5 DEF NeverUploadedIsKept
<1> QED BY <1>4, <1>6

\* So is giving a pushed row its checksum.
LEMMA ChecksumKeeps ==
  ASSUME IInv, NEW d \in Device, NEW c \in Concert, NEW sum \in Content,
         UpdateConcertChecksum(d, c, sum), row[c] # "none",
         UNCHANGED <<origin, trashed, row, items>>
  PROVE  Held' /\ NeverUploadedIsKept'
<1>0. TypeOK /\ Held /\ NeverUploadedIsKept
  BY DEF IInv
<1>1. PICK new \in LocalRow :
        /\ new.st = local[d][c].st /\ new.via = "push"
        /\ local' = local \/ local' = [local EXCEPT ![d][c] = new]
  BY <1>0, UpdateChecksumRow
<1>3. /\ local'[d][c] = local[d][c] \/ local'[d][c] = new
      /\ \A e \in Device, k \in Concert : e # d \/ k # c => local'[e][k] = local[e][k]
  BY <1>0, <1>1 DEF TypeOK
<1>4. Held'
  BY <1>0, <1>1, <1>3 DEF Held
<1>5. ASSUME NEW k \in Concert, origin[k] # Nobody, row[k] = "none", k \notin trashed
      PROVE  local'[origin[k]][k] = local[origin[k]][k]
  <2>1. origin[k] \in Device /\ k # c
    BY <1>0, <1>5 DEF TypeOK
  <2> QED BY <1>3, <2>1
<1>6. NeverUploadedIsKept'
  BY <1>0, <1>5 DEF NeverUploadedIsKept
<1> QED BY <1>4, <1>6

(* What a pass does to the handlers *)

\* A call that is sent is of a concert, and a deletion is one a user asked for.
LEMMA HandSent ==
  ASSUME IInv, NEW p \in Pass, NEW at \in {"create", "read", "item", "delete"},
         NEW c \in Concert, NEW n, NEW i, Lost(p) \/ Delivered(p, at, c, n, i),
         at = "delete" => c \in trashed, trashed' = trashed
  PROVE  \A h \in Handler : InHand(h)'
<1>0. TypeOK /\ \A h \in Handler : InHand(h)
  BY DEF IInv
<1>1. ASSUME NEW h \in Handler
      PROVE  handler'[h] = handler[h] \/ (handler'[h].at = at /\ handler'[h].concert = c)
  BY <1>0 DEF Lost, Delivered, TypeOK
<1> QED BY <1>0, <1>1 DEF InHand

\* A handler works on when its caller leaves.
LEMMA HandOrphaned ==
  ASSUME IInv, NEW p \in Pass, Orphan(p), trashed' = trashed
  PROVE  \A h \in Handler : InHand(h)'
<1>1. ASSUME NEW h \in Handler
      PROVE  handler'[h].at = handler[h].at /\ handler'[h].concert = handler[h].concert
  <2>1. handler[h] \in Call
    BY DEF IInv, TypeOK
  <2> QED BY <2>1 DEF Orphan, Call
<1> QED BY <1>1 DEF IInv, InHand

\* What every step of a pass leaves alone.
LEMMA OthersKept ==
  ASSUME TypeOK, NEW p \in Pass, SyncStep(p)
  PROVE  /\ UNCHANGED <<origin, saved, trashed, row, name, items, served>>
         /\ \A q \in Pass : q # p => /\ pc'[q] = pc[q] /\ todo'[q] = todo[q]
                                     /\ cur'[q] = cur[q] /\ remote'[q] = remote[q]
                                     /\ listed'[q] = listed[q] /\ snap'[q] = snap[q]
<1> USE DEF TypeOK, localVars, serverVars, passVars, Return, Request
<1>1. CASE Start(p)           BY <1>1 DEF Start
<1>2. CASE DeleteReturns(p)   BY <1>2 DEF DeleteReturns
<1>3. CASE FirstList(p)       BY <1>3 DEF FirstList
<1>4. CASE ReadLocal(p)       BY <1>4 DEF ReadLocal
<1>5. CASE PushReturns(p)     BY <1>5 DEF PushReturns
<1>6. CASE ItemReturns(p)     BY <1>6 DEF ItemReturns
<1>7. CASE ItemsSent(p)       BY <1>7 DEF ItemsSent
<1>8. CASE SecondList(p)      BY <1>8 DEF SecondList
<1>9. CASE ListChecksums(p)   BY <1>9 DEF ListChecksums
<1>10. CASE ListItems(p)      BY <1>10 DEF ListItems
<1>11. CASE Reread(p)         BY <1>11 DEF Reread
<1>12. CASE BeginPrune(p)     BY <1>12 DEF BeginPrune
<1>13. CASE EndPass(p)        BY <1>13 DEF EndPass
<1>14. CASE ListFails(p)      BY <1>14 DEF ListFails
<1>15. CASE GiveUp(p)         BY <1>15 DEF GiveUp
<1>16. CASE Abort(p)          BY <1>16 DEF Abort
<1> DEFINE Kept == /\ UNCHANGED <<origin, saved, trashed, row, name, items, served>>
                   /\ \A q \in Pass : q # p => /\ pc'[q] = pc[q] /\ todo'[q] = todo[q]
                                               /\ cur'[q] = cur[q] /\ remote'[q] = remote[q]
                                               /\ listed'[q] = listed[q] /\ snap'[q] = snap[q]
<1>17. ASSUME NEW c \in Concert, SendDelete(p, c) \/ SendUpdate(p, c) \/ SendCreate(p, c)
       PROVE  Kept
  BY <1>17 DEF SendDelete, SendUpdate, SendCreate
<1>18. ASSUME NEW c \in Concert, Apply(p, c) \/ Prune(p, c) PROVE Kept
  BY <1>18 DEF Apply, Prune
<1>19. ASSUME NEW i \in Item, SendItem(p, i) PROVE Kept
  BY <1>19 DEF SendItem
<1> QED
  BY <1>1, <1>2, <1>3, <1>4, <1>5, <1>6, <1>7, <1>8, <1>9, <1>10, <1>11, <1>12, <1>13,
     <1>14, <1>15, <1>16, <1>17, <1>18, <1>19 DEF SyncStep

\* A pass that is not under way remembers nothing.
LEMMA RememberedIdle ==
  ASSUME TypeOK, TypeOK', NEW p \in Pass, Return(p) PROVE Listed(p)' /\ RememberedBy(p)'
<1>1. /\ pc'[p] = "idle"
      /\ \A c \in Concert : listed'[p][c] = Unlisted /\ snap'[p][c] = NoRow
  BY DEF Return, TypeOK
<1>2. \A c \in Concert : items'[c] \in Bag
  BY DEF TypeOK
<1>3. Listed(p)'
  BY <1>1, <1>2, EmptyValues, AtMostOrder, BagType DEF Listed
<1> QED BY <1>1, <1>3, EmptyValues DEF RememberedBy

\* The steps of a pass.
LEMMA InvPass == ASSUME IInv, NEW p \in Pass, SyncStep(p), TypeOK' PROVE IInv'
<1> DEFINE d     == DeviceOf[p]
           Rows  == Held /\ NeverUploadedIsKept
           Hands == \A h \in Handler : InHand(h)
<1> USE DEF localVars, serverVars
<1>0. /\ TypeOK /\ Held /\ NeverUploadedIsKept /\ Hands /\ d \in Device
      /\ \A q \in Pass : Listed(q) /\ RememberedBy(q)
  BY DEF IInv
<1>f. /\ UNCHANGED <<origin, saved, trashed, row, name, items, served>>
      /\ \A q \in Pass : q # p => /\ pc'[q] = pc[q] /\ todo'[q] = todo[q]
                                  /\ cur'[q] = cur[q] /\ remote'[q] = remote[q]
                                  /\ listed'[q] = listed[q] /\ snap'[q] = snap[q]
  BY <1>0, OthersKept
<1>i. \A c \in Concert : AtMost(items[c], items'[c])
  BY <1>0, <1>f, AtMostOrder, BagsOf
<1>u. \A q \in Pass : q # p => (Listed(q) /\ RememberedBy(q))'
  BY <1>0, <1>f, <1>i, PassFrame
<1>v. DeletedByUserOnly'
  BY <1>f DEF IInv, DeletedByUserOnly
<1>h. ASSUME handler' = handler PROVE Hands'
  BY <1>0, <1>f, <1>h DEF InHand
<1>s. ASSUME local' = local PROVE Rows'
  <2>1. Held'
    BY <1>0, <1>f, <1>i, <1>s, HeldFrame
  <2>2. NeverUploadedIsKept'
    BY <1>0, <1>f, <1>s DEF NeverUploadedIsKept
  <2> QED BY <2>1, <2>2
<1>l. ASSUME listed' = listed, pc[p] # "rows" \/ pc'[p] = "rows" PROVE Listed(p)'
  BY <1>0, <1>f, <1>l DEF Listed
<1>1. CASE Start(p)
  <2>1. RememberedBy(p)'
    BY <1>0, <1>f, <1>1 DEF Start, RememberedBy, TypeOK, GetDeletedConcertIDs, Held
  <2>2. Listed(p)' /\ Rows' /\ Hands'
    BY <1>1, <1>h, <1>s, <1>l DEF Start
  <2> QED BY <1>u, <1>v, <2>1, <2>2 DEF IInv
<1>2. CASE DeleteReturns(p)
  <2>1. RememberedBy(p)'
    BY <1>0, <1>f, <1>2 DEF DeleteReturns, RememberedBy, TypeOK
  <2>2. Listed(p)' /\ Hands'
    BY <1>2, <1>h, <1>l DEF DeleteReturns
  <2>3. cur[p] \in Concert /\ cur[p] \in trashed
    BY <1>0, <1>2 DEF DeleteReturns, RememberedBy, TypeOK, Waiting
  <2>4. Rows'
    BY <1>0, <1>f, <1>2, <1>s, <2>3, HardDeleteKeeps DEF DeleteReturns
  <2> QED BY <1>u, <1>v, <2>1, <2>2, <2>4 DEF IInv
<1>3. CASE FirstList(p)
  <2>1. RememberedBy(p)'
    BY <1>0, <1>f, <1>3 DEF FirstList, RememberedBy, TypeOK
  <2>2. Listed(p)' /\ Rows' /\ Hands'
    BY <1>0, <1>3, <1>h, <1>s, <1>l DEF FirstList, TypeOK
  <2> QED BY <1>u, <1>v, <2>1, <2>2 DEF IInv
<1>4. CASE ReadLocal(p)
  <2>1. \A c \in Concert : snap'[p][c].sum # NoSum => row[c] # "none"
    BY <1>0, <1>4, EmptyValues DEF ReadLocal, GetConcerts, TypeOK, Held
  <2>2. RememberedBy(p)'
    BY <1>0, <1>f, <1>4, <2>1 DEF ReadLocal, RememberedBy, TypeOK
  <2>3. Listed(p)' /\ Rows' /\ Hands'
    BY <1>0, <1>4, <1>h, <1>s, <1>l DEF ReadLocal, TypeOK
  <2> QED BY <1>u, <1>v, <2>2, <2>3 DEF IInv
<1>5. CASE PushReturns(p) \/ ItemReturns(p) \/ ItemsSent(p)
  <2>1. /\ pc[p] \in {"updating", "creating", "adding", "items"}
        /\ pc'[p] \in {"items", "push"} /\ UNCHANGED <<local, handler, listed, snap>>
    BY <1>0, <1>5 DEF PushReturns, ItemReturns, ItemsSent, TypeOK
  <2>2. RememberedBy(p)'
    BY <1>0, <1>f, <2>1 DEF RememberedBy, TypeOK
  <2>3. Listed(p)' /\ Rows' /\ Hands'
    BY <1>h, <1>s, <1>l, <2>1
  <2> QED BY <1>u, <1>v, <2>2, <2>3 DEF IInv
<1>6. CASE SecondList(p)
  <2>1. RememberedBy(p)'
    BY <1>0, <1>f, <1>6 DEF SecondList, RememberedBy, TypeOK
  <2>2. ASSUME NEW c \in Concert
        PROVE  /\ listed'[p][c].sum = NoSum /\ listed'[p][c].items = NoItems
               /\ listed'[p][c].in = (row[c] = "live")
               /\ row[c] # "live" => listed'[p][c] = Unlisted
    BY <1>0, <1>6 DEF SecondList, Unlisted, TypeOK
  <2>3. Listed(p)'
    <3>1. ASSUME NEW c \in Concert PROVE AtMost(NoItems, items[c]) /\ AtMost(NoItems, NoItems)
      BY <1>0, AtMostOrder, BagType, BagsOf
    <3>2. ASSUME NEW c \in Concert
          PROVE  /\ listed'[p][c].in => row'[c] # "none"
                 /\ ~listed'[p][c].in => listed'[p][c] = Unlisted
                 /\ listed'[p][c].sum.items = NoItems /\ listed'[p][c].items = NoItems
      BY <1>f, <2>2, EmptyValues
    <3> QED BY <1>f, <3>1, <3>2 DEF Listed
  <2>4. Rows' /\ Hands'
    BY <1>6, <1>h, <1>s DEF SecondList
  <2> QED BY <1>u, <1>v, <2>1, <2>3, <2>4 DEF IInv
<1>7. CASE ListChecksums(p)
  <2>1. RememberedBy(p)'
    <3>1. \A c \in Concert : listed'[p][c].in = listed[p][c].in
      <4>1. ASSUME NEW c \in Concert PROVE listed'[p][c].in = listed[p][c].in
        <5>1. listed[p][c] \in Listing
          BY <1>0 DEF TypeOK
        <5> QED BY <1>0, <1>7, <5>1 DEF ListChecksums, Listing, TypeOK
      <4> QED BY <4>1
    <3> QED BY <1>0, <1>f, <1>7, <3>1 DEF ListChecksums, RememberedBy, TypeOK
  <2>2. ASSUME NEW c \in Concert
        PROVE  \/ listed'[p][c] = listed[p][c] /\ ~listed[p][c].in
               \/ /\ listed[p][c].in /\ listed'[p][c].in
                  /\ listed'[p][c].sum = Checksum(c)
                  /\ listed'[p][c].items = listed[p][c].items
    <3>1. listed[p][c] \in Listing
      BY <1>0 DEF TypeOK
    <3> QED BY <1>0, <1>7, <3>1 DEF ListChecksums, Listing, TypeOK
  <2>3. pc'[p] = "rows"
    BY <1>0, <1>7 DEF ListChecksums, TypeOK
  <2>4. \A c \in Concert : AtMost(Checksum(c).items, items[c])
    BY <1>0, EmptyValues, AtMostOrder, BagsOf DEF Checksum
  <2>5. ASSUME NEW c \in Concert
        PROVE  /\ listed'[p][c].in => row'[c] # "none"
               /\ ~listed'[p][c].in => listed'[p][c] = Unlisted
               /\ AtMost(listed'[p][c].sum.items, items'[c])
               /\ AtMost(listed'[p][c].items, items'[c])
    <3>1. /\ listed[p][c].in => row[c] # "none"
          /\ ~listed[p][c].in => listed[p][c] = Unlisted
          /\ AtMost(listed[p][c].sum.items, items[c]) /\ AtMost(listed[p][c].items, items[c])
      BY <1>0 DEF Listed
    <3>2. CASE listed'[p][c] = listed[p][c]
      BY <1>f, <3>1, <3>2
    <3>3. CASE listed'[p][c] # listed[p][c]
      BY <1>f, <2>2, <2>4, <3>1, <3>3
    <3> QED BY <3>2, <3>3
  <2>7. Listed(p)'
    BY <2>3, <2>5 DEF Listed
  <2>6. Rows' /\ Hands'
    BY <1>7, <1>h, <1>s DEF ListChecksums
  <2> QED BY <1>u, <1>v, <2>1, <2>6, <2>7 DEF IInv
<1>8. CASE ListItems(p)
  <2>1. ASSUME NEW c \in Concert
        PROVE  \/ listed'[p][c] = listed[p][c] /\ ~listed[p][c].in
               \/ /\ listed[p][c].in /\ listed'[p][c].in
                  /\ listed'[p][c].sum = listed[p][c].sum
                  /\ listed'[p][c].items = items[c]
    <3>1. listed[p][c] \in Listing
      BY <1>0 DEF TypeOK
    <3> QED BY <1>0, <1>8, <3>1 DEF ListItems, Listing, TypeOK
  <2>2. pc[p] = "rows" /\ pc'[p] = "reread" /\ UNCHANGED <<todo, snap, remote>>
    BY <1>0, <1>8 DEF ListItems, TypeOK
  <2>3. RememberedBy(p)'
    BY <1>0, <1>f, <2>1, <2>2 DEF RememberedBy, TypeOK
  <2>4. ASSUME NEW c \in Concert
        PROVE  /\ listed'[p][c].in => row'[c] # "none"
               /\ ~listed'[p][c].in => listed'[p][c] = Unlisted
               /\ AtMost(listed'[p][c].sum.items, items'[c])
               /\ AtMost(listed'[p][c].items, items'[c])
               /\ AtMost(listed'[p][c].sum.items, listed'[p][c].items)
    <3>1. CASE ~listed[p][c].in
      <4>1. listed'[p][c] = Unlisted
        BY <1>0, <2>1, <3>1 DEF Listed
      <4> QED BY <1>0, <1>f, <4>1, EmptyValues, AtMostOrder, BagType, BagsOf
    <3>2. CASE listed[p][c].in
      <4>1. row[c] # "none" /\ AtMost(listed[p][c].sum.items, items[c])
        BY <1>0, <3>2 DEF Listed
      <4>2. AtMost(items[c], items[c])
        BY <1>0, AtMostOrder, BagsOf
      <4> QED BY <1>f, <2>1, <3>2, <4>1, <4>2
    <3> QED BY <3>1, <3>2
  <2>5. Listed(p)'
    BY <2>4 DEF Listed
  <2>6. Rows' /\ Hands'
    BY <1>8, <1>h, <1>s DEF ListItems
  <2> QED BY <1>u, <1>v, <2>3, <2>5, <2>6 DEF IInv
<1>9. CASE Reread(p)
  <2>1. \A c \in Concert : snap'[p][c].sum # NoSum => row[c] # "none"
    BY <1>0, <1>9, EmptyValues DEF Reread, GetConcerts, TypeOK, Held
  <2>2. RememberedBy(p)'
    BY <1>0, <1>f, <1>9, <2>1 DEF Reread, RememberedBy, TypeOK
  <2>3. Listed(p)' /\ Rows' /\ Hands'
    BY <1>0, <1>9, <1>h, <1>s, <1>l DEF Reread, TypeOK
  <2> QED BY <1>u, <1>v, <2>2, <2>3 DEF IInv
<1>10. CASE BeginPrune(p)
  <2>1. RememberedBy(p)'
    BY <1>0, <1>f, <1>10 DEF BeginPrune, RememberedBy, TypeOK
  <2>2. Listed(p)' /\ Rows' /\ Hands'
    BY <1>0, <1>10, <1>h, <1>s, <1>l DEF BeginPrune, TypeOK
  <2> QED BY <1>u, <1>v, <2>1, <2>2 DEF IInv
<1>11. CASE EndPass(p) \/ ListFails(p)
  <2>1. Return(p) /\ local' = local /\ handler' = handler
    BY <1>11 DEF EndPass, ListFails
  <2>2. (Listed(p) /\ RememberedBy(p))' /\ Rows' /\ Hands'
    BY <1>0, <1>h, <1>s, <2>1, RememberedIdle
  <2> QED BY <1>u, <1>v, <2>2 DEF IInv
<1>12. CASE GiveUp(p)
  <2>1. RememberedBy(p)'
    BY <1>0, <1>f, <1>12 DEF GiveUp, RememberedBy, TypeOK
  <2>2. Listed(p)' /\ Rows'
    BY <1>0, <1>12, <1>s, <1>l DEF GiveUp, Waiting
  <2>3. Hands'
    BY <1>f, <1>12, HandOrphaned DEF GiveUp
  <2> QED BY <1>u, <1>v, <2>1, <2>2, <2>3 DEF IInv
<1>13. CASE Abort(p)
  <2>1. (Listed(p) /\ RememberedBy(p))' /\ Rows'
    BY <1>0, <1>13, <1>s, RememberedIdle DEF Abort
  <2>2. Hands'
    BY <1>f, <1>13, HandOrphaned DEF Abort
  <2> QED BY <1>u, <1>v, <2>1, <2>2 DEF IInv
<1>14. ASSUME NEW c \in Concert, SendDelete(p, c) PROVE IInv'
  <2>1. RememberedBy(p)'
    BY <1>0, <1>f, <1>14 DEF SendDelete, Request, RememberedBy, TypeOK
  <2>2. c \in trashed /\ (Lost(p) \/ Delivered(p, "delete", c, NoName, NoName))
    BY <1>0, <1>14 DEF SendDelete, Request, RememberedBy
  <2>3. Hands'
    BY <1>f, <2>2, HandSent
  <2>4. Listed(p)' /\ Rows'
    BY <1>0, <1>14, <1>s, <1>l DEF SendDelete, Request, TypeOK
  <2> QED BY <1>u, <1>v, <2>1, <2>3, <2>4 DEF IInv
<1>15. ASSUME NEW c \in Concert, SendUpdate(p, c) \/ SendCreate(p, c) PROVE IInv'
  <2>1. RememberedBy(p)'
    BY <1>0, <1>f, <1>15 DEF SendUpdate, SendCreate, Request, RememberedBy, TypeOK
  <2>2. \E at \in {"read", "create"} :
          Lost(p) \/ Delivered(p, at, c, snap[p][c].name, NoName)
    BY <1>15 DEF SendUpdate, SendCreate
  <2>3. Hands'
    BY <1>f, <2>2, HandSent
  <2>4. Listed(p)' /\ Rows'
    BY <1>0, <1>15, <1>s, <1>l DEF SendUpdate, SendCreate, Request, TypeOK
  <2> QED BY <1>u, <1>v, <2>1, <2>3, <2>4 DEF IInv
<1>16. ASSUME NEW i \in Item, SendItem(p, i) PROVE IInv'
  <2>1. RememberedBy(p)'
    BY <1>0, <1>f, <1>16 DEF SendItem, RememberedBy, TypeOK
  <2>2. cur[p] \in Concert /\ (Lost(p) \/ Delivered(p, "item", cur[p], NoName, i))
    BY <1>0, <1>16 DEF SendItem, TypeOK
  <2>3. Hands'
    BY <1>f, <2>2, HandSent
  <2>4. Listed(p)' /\ Rows'
    BY <1>0, <1>16, <1>s, <1>l DEF SendItem, TypeOK
  <2> QED BY <1>u, <1>v, <2>1, <2>3, <2>4 DEF IInv
<1>17. ASSUME NEW c \in Concert, Apply(p, c) PROVE IInv'
  <2>1. RememberedBy(p)'
    BY <1>0, <1>f, <1>17 DEF Apply, RememberedBy, TypeOK
  <2>2. Listed(p)' /\ Hands'
    BY <1>0, <1>17, <1>h, <1>l DEF Apply, TypeOK
  <2>3. /\ row[c] # "none" /\ AtMost(listed[p][c].sum.items, listed[p][c].items)
        /\ AtMost(listed[p][c].items, items[c]) /\ listed[p][c].sum \in Content
    <3>1. listed[p][c] \in Listing /\ c \in todo[p] /\ pc[p] = "apply"
      BY <1>0, <1>17 DEF Apply, TypeOK
    <3>2. listed[p][c].in
      BY <1>0, <3>1 DEF RememberedBy
    <3> QED BY <1>0, <3>1, <3>2, ListingFields DEF Listed
  <2>4. Rows'
    <3>1. \/ UpdateConcertChecksum(d, c, listed[p][c].sum)
          \/ SyncConcertFromServer(d, c, listed[p][c])
          \/ local' = local
      BY <1>17 DEF Apply
    <3> QED BY <1>0, <1>f, <1>s, <2>3, <3>1, SyncKeeps, ChecksumKeeps
  <2> QED BY <1>u, <1>v, <2>1, <2>2, <2>4 DEF IInv
<1>18. ASSUME NEW c \in Concert, Prune(p, c) PROVE IInv'
  <2>1. RememberedBy(p)'
    BY <1>0, <1>f, <1>18 DEF Prune, RememberedBy, TypeOK
  <2>2. Listed(p)' /\ Hands'
    BY <1>0, <1>18, <1>h, <1>l DEF Prune, TypeOK
  <2>3. row[c] # "none"
    BY <1>0, <1>18 DEF Prune, RememberedBy
  <2>4. Rows'
    BY <1>0, <1>f, <1>18, <2>3, HardDeleteKeeps DEF Prune
  <2> QED BY <1>u, <1>v, <2>1, <2>2, <2>4 DEF IInv
<1> QED
  BY <1>1, <1>2, <1>3, <1>4, <1>5, <1>6, <1>7, <1>8, <1>9, <1>10, <1>11, <1>12,
     <1>13, <1>14, <1>15, <1>16, <1>17, <1>18 DEF SyncStep

\* The invariant holds in every reachable state.
THEOREM Invariance == Spec => []IInv
<1>1. IInv /\ [Next]_vars => IInv'
  <2> SUFFICES ASSUME IInv, [Next]_vars PROVE IInv'
    OBVIOUS
  <2>0. TypeOK
    BY DEF IInv
  <2>1. CASE User
    BY <2>0, <2>1, TypeUser, InvUser
  <2>2. ASSUME NEW h \in Handler, ServerStep(h) PROVE IInv'
    BY <2>0, <2>2, TypeServer, InvServer
  <2>3. ASSUME NEW p \in Pass, SyncStep(p) PROVE IInv'
    BY <2>0, <2>3, TypePass, InvPass
  <2>4. CASE UNCHANGED vars
    BY <2>4 DEF vars, localVars, serverVars, passVars, IInv, TypeOK, Held, Listed,
                RememberedBy, InHand, NeverUploadedIsKept, DeletedByUserOnly
  <2> QED BY <2>1, <2>2, <2>3, <2>4 DEF Next
<1> QED BY <1>1, InvInitial, PTL DEF Spec

\* No pass of any device ever removes or changes the only copy of a concert
\* its user has not deleted.
THEOREM NeverUploadedKept == Spec => []NeverUploadedIsKept
<1>1. IInv => NeverUploadedIsKept
  BY DEF IInv
<1> QED BY <1>1, Invariance, PTL

\* The server deletes a concert only after a user confirmed deleting it.
THEOREM DeletedByUser == Spec => []DeletedByUserOnly
<1>1. IInv => DeletedByUserOnly
  BY DEF IInv
<1> QED BY <1>1, Invariance, PTL

\* However pulls and pushes of any number of devices overlap, a row that was
\* pulled under the server's present checksum has the server's items: they
\* lie between those the checksum was computed from and the present ones.
THEOREM PulledAreCurrent == Spec => []PulledItemsAreCurrent
<1>1. ASSUME IInv PROVE PulledItemsAreCurrent
  <2> SUFFICES ASSUME NEW d \in Device, NEW c \in Concert,
                      local[d][c].via = "pull", local[d][c].sum # NoSum,
                      local[d][c].sum = Checksum(c)
               PROVE  local[d][c].items = items[c]
    BY DEF PulledItemsAreCurrent
  <2>1. local[d][c].sum.items = items[c]
    BY DEF Checksum
  <2>2. AtMost(items[c], local[d][c].items) /\ AtMost(local[d][c].items, items[c])
    BY <1>1, <2>1 DEF IInv, Held
  <2>3. local[d][c].items \in Bag /\ items[c] \in Bag
    BY <1>1, BagsOf DEF IInv
  <2> QED BY <2>2, <2>3, AtMostOrder
<1> QED BY <1>1, Invariance, PTL

-----------------------------------------------------------------------------
(* What leaves a device *)

\* Of a pass that was alone on its device: what its first list did not have,
\* and no user deleted, was not on the server then, so it is not marked as
\* synced on the device until the pass itself is about to do that.
Absent(p) ==
  \A c \in Concert \ remote[p] : c \notin trashed =>
    /\ pc[p] \in {"read", "push", "updating", "creating", "items", "adding",
                  "sums", "rows", "reread"} => local[DeviceOf[p]][c].sum = NoSum
    /\ pc[p] \in {"apply", "prune"} => snap[p][c].sum = NoSum

Departures == \A p \in Pass \ overlapped : Absent(p)

\* Passes write to the database of their own device only.
LEMMA OwnDevice ==
  ASSUME TypeOK, NEW p \in Pass, SyncStep(p)
  PROVE  \A d \in Device : d # DeviceOf[p] => local'[d] = local[d]
<1> DEFINE Own == \A d \in Device : d # DeviceOf[p] => local'[d] = local[d]
<1>1. ASSUME local' = local PROVE Own
  BY <1>1
<1>2. ASSUME NEW c, HardDeleteConcert(DeviceOf[p], c) PROVE Own
  BY <1>2 DEF HardDeleteConcert, TypeOK
<1>3. ASSUME NEW c, NEW l, SyncConcertFromServer(DeviceOf[p], c, l) PROVE Own
  BY <1>3 DEF SyncConcertFromServer, TypeOK
<1>4. ASSUME NEW c \in Concert, NEW sum \in Content, UpdateConcertChecksum(DeviceOf[p], c, sum)
      PROVE  Own
  <2>1. PICK new \in LocalRow :
          local' = local \/ local' = [local EXCEPT ![DeviceOf[p]][c] = new]
    BY <1>4, UpdateChecksumRow
  <2> QED BY <2>1 DEF TypeOK
<1>5. CASE DeleteReturns(p)
  BY <1>1, <1>2, <1>5 DEF DeleteReturns
<1>6. ASSUME NEW c \in Concert, Prune(p, c) PROVE Own
  BY <1>2, <1>6 DEF Prune
<1>7. ASSUME NEW c \in Concert, Apply(p, c) PROVE Own
  <2>1. listed[p][c].sum \in Content
    BY ListingFields DEF TypeOK
  <2> HIDE DEF Own
  <2> QED BY <1>1, <1>3, <1>4, <1>7, <2>1 DEF Apply
<1>8. CASE \/ Start(p) \/ FirstList(p) \/ ReadLocal(p) \/ PushReturns(p) \/ ItemReturns(p)
           \/ ItemsSent(p) \/ SecondList(p) \/ ListChecksums(p) \/ ListItems(p) \/ Reread(p)
           \/ BeginPrune(p) \/ EndPass(p) \/ ListFails(p) \/ GiveUp(p) \/ Abort(p)
  BY <1>1, <1>8 DEF localVars, Start, FirstList, ReadLocal, PushReturns, ItemReturns, ItemsSent,
     SecondList, ListChecksums, ListItems, Reread, BeginPrune, EndPass, ListFails, GiveUp, Abort
<1>9. ASSUME NEW c \in Concert, SendDelete(p, c) \/ SendUpdate(p, c) \/ SendCreate(p, c)
      PROVE  Own
  BY <1>1, <1>9 DEF localVars, Request, SendDelete, SendUpdate, SendCreate
<1>10. ASSUME NEW i \in Item, SendItem(p, i) PROVE Own
  BY <1>1, <1>10 DEF localVars, SendItem
<1> QED BY <1>5, <1>6, <1>7, <1>8, <1>9, <1>10 DEF SyncStep

\* A pass's own steps keep what the pass may conclude from its first list.
LEMMA AbsentOwn ==
  ASSUME IInv, NEW p \in Pass, SyncStep(p), Absent(p) PROVE Absent(p)'
<1> USE DEF localVars, serverVars
<1>0. /\ TypeOK /\ Held /\ DeletedByUserOnly /\ DeviceOf[p] \in Device /\ trashed' = trashed
  BY OthersKept DEF IInv
<1>1. ASSUME pc'[p] \in {"idle", "tombs", "deleting"} PROVE Absent(p)'
  BY <1>1 DEF Absent
<1>2. ASSUME UNCHANGED <<local, remote, snap>>,
             pc[p] \in {"push", "updating", "creating", "items", "adding", "sums", "rows"},
             pc'[p] \in {"push", "updating", "creating", "items", "adding",
                         "sums", "rows", "reread"}
      PROVE  Absent(p)'
  BY <1>0, <1>2 DEF Absent
<1>3. CASE Start(p) \/ DeleteReturns(p) \/ EndPass(p) \/ ListFails(p) \/ Abort(p)
  <2>1. pc'[p] \in {"idle", "tombs", "deleting"}
    BY <1>0, <1>3 DEF Start, DeleteReturns, EndPass, ListFails, Abort, Return, TypeOK
  <2> QED BY <1>1, <2>1
<1>4. CASE FirstList(p)
  <2>1. remote'[p] = {c \in Concert : row[c] = "live"} /\ pc'[p] = "read" /\ local' = local
    BY <1>0, <1>4 DEF FirstList, TypeOK
  <2>2. ASSUME NEW c \in Concert, c \notin remote'[p], c \notin trashed
        PROVE  local[DeviceOf[p]][c].sum = NoSum
    <3>1. row[c] = "none"
      BY <1>0, <2>1, <2>2 DEF DeletedByUserOnly, TypeOK
    <3> QED BY <1>0, <3>1 DEF Held
  <2> QED BY <1>0, <2>1, <2>2 DEF Absent
<1>5. CASE ReadLocal(p)
  BY <1>0, <1>5 DEF ReadLocal, Absent, TypeOK
<1>6. CASE PushReturns(p) \/ ItemReturns(p) \/ ItemsSent(p)
  <2>1. /\ UNCHANGED <<local, remote, snap>>
        /\ pc[p] \in {"updating", "creating", "adding", "items"} /\ pc'[p] \in {"items", "push"}
    BY <1>0, <1>6 DEF PushReturns, ItemReturns, ItemsSent, TypeOK
  <2> QED BY <1>2, <2>1
<1>7. CASE SecondList(p) \/ ListChecksums(p) \/ ListItems(p)
  <2>1. /\ UNCHANGED <<local, remote, snap>>
        /\ pc[p] \in {"push", "sums", "rows"} /\ pc'[p] \in {"sums", "rows", "reread"}
    BY <1>0, <1>7 DEF SecondList, ListChecksums, ListItems, TypeOK
  <2> QED BY <1>2, <2>1
<1>8. CASE Reread(p)
  <2>1. /\ UNCHANGED <<local, remote>> /\ pc[p] = "reread" /\ pc'[p] = "apply"
        /\ snap'[p] = GetConcerts(DeviceOf[p])
    BY <1>0, <1>8 DEF Reread, TypeOK
  <2>2. \A c \in Concert : snap'[p][c].sum = local[DeviceOf[p]][c].sum \/ snap'[p][c].sum = NoSum
    BY <2>1, EmptyValues DEF GetConcerts
  <2> QED BY <1>0, <2>1, <2>2 DEF Absent
<1>9. CASE BeginPrune(p)
  BY <1>0, <1>9 DEF BeginPrune, Absent, TypeOK
<1>10. CASE GiveUp(p)
  BY <1>0, <1>10 DEF GiveUp, Absent, TypeOK
<1>11. ASSUME NEW c \in Concert, SendDelete(p, c) PROVE Absent(p)'
  <2>1. pc'[p] = "deleting"
    BY <1>0, <1>11 DEF SendDelete, Request, TypeOK
  <2> QED BY <1>1, <2>1
<1>12. ASSUME NEW c \in Concert, SendUpdate(p, c) \/ SendCreate(p, c) PROVE Absent(p)'
  <2>1. /\ UNCHANGED <<local, remote, snap>>
        /\ pc[p] = "push" /\ pc'[p] \in {"updating", "creating"}
    BY <1>0, <1>12 DEF SendUpdate, SendCreate, Request, TypeOK
  <2> QED BY <1>2, <2>1
<1>13. ASSUME NEW i \in Item, SendItem(p, i) PROVE Absent(p)'
  <2>1. UNCHANGED <<local, remote, snap>> /\ pc[p] = "items" /\ pc'[p] = "adding"
    BY <1>0, <1>13 DEF SendItem, TypeOK
  <2> QED BY <1>2, <2>1
<1>14. ASSUME NEW c \in Concert, Apply(p, c) \/ Prune(p, c) PROVE Absent(p)'
  <2>1. pc' = pc /\ remote' = remote /\ snap' = snap /\ pc[p] \in {"apply", "prune"}
    BY <1>14 DEF Apply, Prune
  <2> QED BY <1>0, <2>1 DEF Absent
<1> QED
  BY <1>3, <1>4, <1>5, <1>6, <1>7, <1>8, <1>9, <1>10, <1>11, <1>12, <1>13, <1>14
  DEF SyncStep

\* What users edit is not marked as synced any more.
LEMMA AbsentUser ==
  ASSUME IInv, NEW p \in Pass, Absent(p), User PROVE Absent(p)'
<1>0. TypeOK
  BY DEF IInv
<1>1. UNCHANGED <<pc, remote, snap>> /\ trashed \subseteq trashed'
  BY DEF User, AddConcert, EditConcert, MarkConcertDeleted, passVars
<1>2. \A d \in Device, c \in Concert :
        local'[d][c].sum = local[d][c].sum \/ local'[d][c].sum = NoSum
  <2>1. ASSUME NEW d \in Device, NEW c \in Concert, NEW v \in Version,
               AddConcert(d, c, v) \/ EditConcert(d, c, v)
        PROVE  \A e \in Device, k \in Concert :
                 local'[e][k] = local[e][k] \/ local'[e][k].sum = NoSum
    <3> DEFINE new == Row("live", v, ListOf(v), NoSum, "edit")
    <3>1. new.sum = NoSum
      BY DEF Row
    <3>2. local' = [local EXCEPT ![d][c] = new]
      BY <2>1 DEF AddConcert, EditConcert
    <3> HIDE DEF new
    <3> QED BY <1>0, <3>1, <3>2 DEF TypeOK
  <2>2. ASSUME NEW d \in Device, NEW c \in Concert, MarkConcertDeleted(d, c)
        PROVE  \A e \in Device, k \in Concert :
                 local'[e][k] = local[e][k] \/ local'[e][k].sum = NoSum
    <3>1. local[d][c] \in LocalRow
      BY <1>0 DEF TypeOK
    <3>2. [local[d][c] EXCEPT !.st = "tomb", !.sum = NoSum].sum = NoSum
      BY <3>1 DEF LocalRow
    <3>3. local' = [local EXCEPT ![d][c] = [local[d][c] EXCEPT !.st = "tomb", !.sum = NoSum]]
      BY <1>0, <2>2 DEF MarkConcertDeleted, TypeOK
    <3> QED BY <1>0, <3>2, <3>3 DEF TypeOK
  <2> QED BY <2>1, <2>2 DEF User
<1> QED BY <1>1, <1>2 DEF Absent

\* A pass that ends leaves the device as it is.
LEMMA EndLeaves ==
  ASSUME TypeOK, NEW q \in Pass, SyncStep(q), pc'[q] = "idle"
  PROVE  local' = local
<1>1. CASE EndPass(q) \/ ListFails(q) \/ GiveUp(q) \/ Abort(q)
  BY <1>1 DEF EndPass, ListFails, GiveUp, Abort, localVars
<1>2. CASE \/ Start(q) \/ FirstList(q) \/ ReadLocal(q) \/ PushReturns(q) \/ ItemReturns(q)
           \/ ItemsSent(q) \/ SecondList(q) \/ ListChecksums(q) \/ ListItems(q) \/ Reread(q)
           \/ BeginPrune(q)
  BY <1>2 DEF localVars, Start, FirstList, ReadLocal, PushReturns, ItemReturns, ItemsSent,
     SecondList, ListChecksums, ListItems, Reread, BeginPrune
<1>3. CASE DeleteReturns(q)
  BY <1>3 DEF DeleteReturns, TypeOK
<1>4. ASSUME NEW c \in Concert,
             \/ SendDelete(q, c) \/ SendUpdate(q, c) \/ SendCreate(q, c)
             \/ Apply(q, c) \/ Prune(q, c)
      PROVE  local' = local
  BY <1>4 DEF localVars, SendDelete, SendUpdate, SendCreate, Apply, Prune, Request
<1>5. ASSUME NEW i \in Item, SendItem(q, i) PROVE local' = local
  BY <1>5 DEF SendItem, localVars
<1> QED BY <1>1, <1>2, <1>3, <1>4, <1>5 DEF SyncStep

\* So whoever takes a step, unless two passes are under way on one device.
LEMMA AbsentStep ==
  ASSUME IInv, Departures, [CalmNext]_calmVars PROVE Departures'
<1> SUFFICES ASSUME NEW p \in Pass, p \notin overlapped' PROVE Absent(p)'
  BY DEF Departures
<1>0. TypeOK
  BY DEF IInv
<1>1. CASE UNCHANGED calmVars
  <2>1. Absent(p)
    BY <1>1 DEF Departures, calmVars
  <2> QED BY <1>1, <2>1 DEF calmVars, vars, localVars, passVars, Absent
<1>2. CASE pc'[p] = "idle"
  BY <1>2 DEF Absent
<1>3. CASE CalmNext /\ pc'[p] # "idle"
  <2>1. /\ p \notin overlapped
        /\ \A q \in Pass : q # p /\ DeviceOf[q] = DeviceOf[p] => pc'[q] = "idle"
    BY <1>3 DEF CalmNext
  <2>2. Next /\ Absent(p)
    BY <1>3, <2>1 DEF CalmNext, Departures
  <2>3. ASSUME NEW h \in Handler, ServerStep(h) PROVE Absent(p)'
    <3>1. UNCHANGED <<local, trashed, pc, remote, snap>>
      BY <1>0, <2>3, ServerFrame
    <3> QED BY <2>2, <3>1 DEF Absent
  <2>4. ASSUME NEW q \in Pass, q # p, SyncStep(q) PROVE Absent(p)'
    <3>1. local'[DeviceOf[p]] = local[DeviceOf[p]]
      <4>1. DeviceOf[p] \in Device
        BY ConcertSyncAssumption
      <4> QED BY <1>0, <2>1, <2>4, <4>1, OwnDevice, EndLeaves
    <3>2. pc'[p] = pc[p] /\ remote'[p] = remote[p] /\ snap'[p] = snap[p] /\ trashed' = trashed
      BY <1>0, <2>4, OthersKept
    <3> QED BY <2>2, <3>1, <3>2 DEF Absent
  <2> QED BY <2>2, <2>3, <2>4, AbsentUser, AbsentOwn DEF Next
<1> QED BY <1>1, <1>2, <1>3

-----------------------------------------------------------------------------
(* ConcertSync implements Custody *)

\* A handler works on a concert some user made; and a pass that still waits
\* waits for one handler only, with the call it is in the middle of.
Bound(h) ==
  LET c == handler[h] IN
  /\ c.at # "idle" => origin[c.concert] # Nobody
  /\ c.at = "idle" => c.by = Nobody
  /\ c.by # Nobody =>
       /\ pc[c.by] \in Waiting /\ reply[c.by] = "none" /\ cur[c.by] = c.concert
       /\ pc[c.by] = "deleting" => c.at = "delete"
       /\ \A g \in Handler : handler[g].by = c.by => g = h

\* What has a name somewhere was made by a user.
Made ==
  /\ \A d \in Device, c \in Concert : local[d][c].st # "none" => origin[c] # Nobody
  /\ \A c \in Concert : row[c] # "none" => origin[c] # Nobody
  /\ \A p \in Pass : /\ \A c \in todo[p] : origin[c] # Nobody
                     /\ cur[p] \in Concert => origin[cur[p]] # Nobody
  /\ \A h \in Handler : Bound(h)

\* A deletion that was confirmed to a pass was one of a concert the server has had.
Confirmed ==
  \A p \in Pass : pc[p] = "deleting" /\ reply[p] = "ok" => row[cur[p]] # "none"

\* A user makes a concert, or changes one that was made.
LEMMA MadeUser ==
  ASSUME IInv, Made, Confirmed, User
  PROVE  Made' /\ Confirmed'
<1>0. TypeOK /\ UNCHANGED <<row, handler, pc, todo, cur, reply>>
  BY DEF IInv, User, AddConcert, EditConcert, MarkConcertDeleted, serverVars, passVars
<1> DEFINE Touches(d, c) ==
             \A e \in Device, k \in Concert : local'[e][k] = local[e][k] \/ (e = d /\ k = c)
           Kept(c) == /\ origin'[c] # Nobody
                      /\ \A k \in Concert : origin[k] # Nobody => origin'[k] # Nobody
<1>a. ASSUME NEW d \in Device, NEW c \in Concert, NEW new, local' = [local EXCEPT ![d][c] = new]
      PROVE  Touches(d, c)
  BY <1>0, <1>a DEF TypeOK
<1>b. ASSUME NEW d \in Device, NEW c \in Concert, local[d][c].st = "live", origin' = origin
      PROVE  Kept(c)
  BY <1>b DEF Made
<1>1. PICK d \in Device, c \in Concert : Touches(d, c) /\ Kept(c)
  <2>1. ASSUME NEW d \in Device, NEW c \in Concert, NEW v \in Version, AddConcert(d, c, v)
        PROVE  Touches(d, c) /\ Kept(c)
    <3>1. local' = [local EXCEPT ![d][c] = Row("live", v, ListOf(v), NoSum, "edit")]
      BY <2>1 DEF AddConcert
    <3>2. Touches(d, c)
      BY <1>a, <3>1
    <3>3. origin' = [origin EXCEPT ![c] = d] /\ d # Nobody
      BY <2>1, ConcertSyncAssumption DEF AddConcert
    <3>4. Kept(c)
      BY <1>0, <3>3 DEF TypeOK
    <3> QED BY <3>2, <3>4
  <2>2. ASSUME NEW d \in Device, NEW c \in Concert, NEW v \in Version, EditConcert(d, c, v)
        PROVE  Touches(d, c) /\ Kept(c)
    <3>1. /\ local' = [local EXCEPT ![d][c] = Row("live", v, ListOf(v), NoSum, "edit")]
          /\ local[d][c].st = "live" /\ origin' = origin
      BY <2>2 DEF EditConcert
    <3> HIDE DEF Touches, Kept
    <3> QED BY <1>a, <1>b, <3>1
  <2>3. ASSUME NEW d \in Device, NEW c \in Concert, MarkConcertDeleted(d, c)
        PROVE  Touches(d, c) /\ Kept(c)
    <3>1. local' = [local EXCEPT ![d][c] = [local[d][c] EXCEPT !.st = "tomb", !.sum = NoSum]]
      BY <1>0, <2>3 DEF MarkConcertDeleted, TypeOK
    <3>2. local[d][c].st = "live" /\ origin' = origin
      BY <2>3 DEF MarkConcertDeleted
    <3> HIDE DEF Touches, Kept
    <3> QED BY <1>a, <1>b, <3>1, <3>2
  <2> HIDE DEF Touches, Kept
  <2> QED BY <2>1, <2>2, <2>3 DEF User
<1>2. \A h \in Handler : handler[h].at # "idle" => handler[h].concert \in Concert
  BY DEF IInv, InHand
<1>3. \A p \in Pass : todo[p] \subseteq Concert
  BY <1>0 DEF TypeOK
<1>4. \A e \in Device, k \in Concert : local'[e][k].st # "none" => origin'[k] # Nobody
  BY <1>1 DEF Made
<1>5. \A h \in Handler : Bound(h)'
  BY <1>0, <1>1, <1>2 DEF Made, Bound
<1> QED BY <1>0, <1>1, <1>3, <1>4, <1>5 DEF Made, Confirmed

\* What a step of the server does to the handlers and to the waiting passes.
LEMMA ServerAnswers ==
  ASSUME TypeOK, NEW h \in Handler, ServerStep(h)
  PROVE  /\ handler[h].at # "idle"
         /\ \/ /\ handler' = [handler EXCEPT ![h].at = "save"] /\ reply' = reply
               /\ handler[h].at = "read" /\ row' = row
            \/ \E r : Answer(h, r) /\ (handler[h].at = "delete" /\ r = "ok" =>
                                         row[handler[h].concert] = "live")
<1> DEFINE Ends == \E r : Answer(h, r) /\ (handler[h].at = "delete" /\ r = "ok" =>
                                             row[handler[h].concert] = "live")
<1>1. CASE ReadRow(h)
  BY <1>1 DEF ReadRow, serverVars, passVars
<1>2. CASE CreateConcert(h) \/ SaveRow(h) \/ AddConcertItem(h)
  BY <1>2 DEF CreateConcert, SaveRow, AddConcertItem
<1>3. CASE DeleteConcert(h)
  BY <1>3 DEF DeleteConcert
<1>4. CASE Refused(h) \/ HandlerFails(h)
  <2>1. Answer(h, "error") /\ "error" # "ok" /\ handler[h].at # "idle"
    BY <1>4 DEF Refused, HandlerFails
  <2>2. Ends
    BY <2>1
  <2> QED BY <2>1, <2>2
<1> QED BY <1>1, <1>2, <1>3, <1>4 DEF ServerStep

\* The server stores and removes what a handler has in hand.
LEMMA MadeServer ==
  ASSUME IInv, Made, Confirmed, NEW h \in Handler, ServerStep(h)
  PROVE  Made' /\ Confirmed'
<1>0. /\ TypeOK /\ UNCHANGED <<origin, local, pc, todo, cur>>
      /\ handler[h] \in Call /\ InHand(h) /\ Bound(h) /\ handler[h].at # "idle"
      /\ \A c \in Concert : row[c] # "none" => row'[c] # "none"
  BY ServerFrame, ServerAnswers DEF IInv, TypeOK, Made
<1>1. \A c \in Concert : row'[c] # "none" => row[c] # "none" \/ c = handler[h].concert
  <2>1. CASE CreateConcert(h) \/ SaveRow(h) \/ DeleteConcert(h)
    BY <1>0, <2>1 DEF CreateConcert, SaveRow, DeleteConcert, TypeOK
  <2>2. CASE row' = row
    BY <2>2
  <2> QED BY <2>1, <2>2 DEF ServerStep, serverVars, ReadRow, AddConcertItem, Refused, HandlerFails
<1>2. CASE handler' = [handler EXCEPT ![h].at = "save"] /\ reply' = reply
           /\ handler[h].at = "read" /\ row' = row
  <2>1. \A g \in Handler : /\ handler'[g].by = handler[g].by
                           /\ handler'[g].concert = handler[g].concert
                           /\ handler'[g].at = IF g = h THEN "save" ELSE handler[g].at
    BY <1>0, <1>2 DEF TypeOK, Call
  <2>2. ASSUME NEW g \in Handler PROVE Bound(g)'
    BY <1>0, <1>2, <2>1 DEF Made, Bound
  <2> QED BY <1>0, <1>2, <2>2 DEF Made, Confirmed
<1>3. ASSUME NEW r, Answer(h, r),
             handler[h].at = "delete" /\ r = "ok" => row[handler[h].concert] = "live"
      PROVE  Made' /\ Confirmed'
  <2>1. handler'[h] = Idle /\ \A g \in Handler : g # h => handler'[g] = handler[g]
    BY <1>0, <1>3 DEF Answer, TypeOK
  <2>2. \A p \in Pass : reply'[p] # reply[p] => handler[h].by = p /\ reply'[p] = r
    BY <1>0, <1>3 DEF Answer, TypeOK
  <2>3. Bound(h)'
    BY <2>1 DEF Bound, Idle
  <2>4. ASSUME NEW g \in Handler, g # h PROVE Bound(g)'
    <3>1. handler[g] \in Call /\ handler'[g] = handler[g] /\ Bound(g)
      BY <1>0, <2>1, <2>4 DEF TypeOK, Made
    <3>2. ASSUME handler[g].by # Nobody PROVE reply'[handler[g].by] = reply[handler[g].by]
      BY <2>2, <2>4, <3>1, <3>2, CallFields DEF Bound
    <3>3. ASSUME NEW k \in Handler, handler[g].by # Nobody, handler'[k].by = handler[g].by
          PROVE  k = g
      BY <2>1, <3>1, <3>3 DEF Bound, Idle
    <3> QED BY <1>0, <3>1, <3>2, <3>3 DEF Bound
  <2>5. \A g \in Handler : Bound(g)'
    BY <2>3, <2>4
  <2>6. Made'
    <3>1. \A c \in Concert : row'[c] # "none" => origin'[c] # Nobody
      BY <1>0, <1>1 DEF Made, Bound
    <3> QED BY <1>0, <2>5, <3>1 DEF Made
  <2>7. ASSUME NEW p \in Pass, pc[p] = "deleting", reply'[p] = "ok" PROVE row'[cur[p]] # "none"
    <3>1. cur[p] \in Concert /\ p # Nobody
      BY <1>0, <2>7, ConcertSyncAssumption DEF TypeOK, Waiting
    <3>2. CASE reply[p] = "ok"
      BY <1>0, <2>7, <3>1, <3>2 DEF Confirmed
    <3>3. CASE reply[p] # "ok"
      <4>1. handler[h].by = p /\ r = "ok"
        BY <2>2, <2>7, <3>3
      <4>2. cur[p] = handler[h].concert /\ handler[h].at = "delete"
        BY <1>0, <2>7, <3>1, <4>1 DEF Bound
      <4> QED BY <1>0, <1>3, <3>1, <4>1, <4>2
    <3> QED BY <3>2, <3>3
  <2> QED BY <1>0, <2>6, <2>7 DEF Confirmed
<1> QED BY <1>2, <1>3, ServerAnswers DEF IInv

\* A handler works on while its caller does not wait for it.
LEMMA BoundKept ==
  ASSUME IInv, Made, NEW p \in Pass, pc[p] \notin Waiting \/ reply[p] # "none",
         UNCHANGED <<handler, origin>>,
         \A q \in Pass : q # p => pc'[q] = pc[q] /\ cur'[q] = cur[q] /\ reply'[q] = reply[q]
  PROVE  \A h \in Handler : Bound(h)'
<1>1. ASSUME NEW h \in Handler PROVE Bound(h)'
  <2>1. handler[h] \in Call /\ handler[h].by # p /\ Bound(h)
    BY DEF IInv, TypeOK, Made, Bound
  <2> QED BY <2>1, CallFields DEF Bound
<1> QED BY <1>1

\* A call that is sent has one handler, which works for the pass that sent it.
LEMMA BoundSent ==
  ASSUME IInv, Made, NEW p \in Pass, pc[p] \notin Waiting, pc'[p] \in Waiting,
         NEW at \in {"create", "read", "item", "delete"}, NEW c \in Concert, NEW n, NEW i,
         Lost(p) \/ Delivered(p, at, c, n, i), origin[c] # Nobody, origin' = origin,
         cur'[p] = c, pc'[p] = "deleting" => at = "delete",
         \A q \in Pass : q # p => pc'[q] = pc[q] /\ cur'[q] = cur[q]
  PROVE  \A h \in Handler : Bound(h)'
<1>0. /\ TypeOK /\ p # Nobody
      /\ \A h \in Handler : handler[h] \in Call /\ handler[h].by # p /\ Bound(h)
  BY ConcertSyncAssumption DEF IInv, TypeOK, Made, Bound
<1>1. \A q \in Pass : q # p => reply'[q] = reply[q]
  BY <1>0 DEF Lost, Delivered, TypeOK
<1>2. CASE Lost(p)
  <2>1. ASSUME NEW h \in Handler PROVE Bound(h)'
    BY <1>0, <1>1, <1>2, CallFields DEF Lost, Bound
  <2> QED BY <2>1
<1>3. CASE Delivered(p, at, c, n, i)
  <2>1. PICK k \in Handler :
          /\ handler[k] = Idle
          /\ handler' = [handler EXCEPT ![k] =
               [at |-> at, concert |-> c, name |-> n, item |-> i, by |-> p]]
    BY <1>3 DEF Delivered
  <2>2. reply'[p] = "none"
    BY <1>0, <1>3 DEF Delivered, TypeOK
  <2>3. /\ handler'[k].at = at /\ handler'[k].concert = c /\ handler'[k].by = p
        /\ \A h \in Handler : h # k => handler'[h] = handler[h]
    BY <1>0, <2>1 DEF TypeOK
  <2>4. Bound(k)'
    BY <1>0, <2>2, <2>3 DEF Bound
  <2>5. ASSUME NEW h \in Handler, h # k PROVE Bound(h)'
    <3>1. handler[h] \in Call /\ handler'[h] = handler[h] /\ handler[h].by # p /\ Bound(h)
      BY <1>0, <2>3, <2>5
    <3>2. \A g \in Handler : handler'[g].by = handler[h].by /\ handler[h].by # Nobody => g = h
      BY <2>3, <3>1 DEF Bound
    <3> QED BY <1>1, <3>1, <3>2, CallFields DEF Bound
  <2> QED BY <2>4, <2>5
<1> QED BY <1>2, <1>3

\* A handler whose caller left works for nobody.
LEMMA BoundOrphaned ==
  ASSUME IInv, Made, NEW p \in Pass, Orphan(p), origin' = origin,
         \A q \in Pass : q # p => pc'[q] = pc[q] /\ cur'[q] = cur[q] /\ reply'[q] = reply[q]
  PROVE  \A h \in Handler : Bound(h)'
<1>0. \A h \in Handler : handler[h] \in Call /\ Bound(h)
  BY DEF IInv, TypeOK, Made
<1>1. ASSUME NEW h \in Handler
      PROVE  /\ handler'[h].at = handler[h].at /\ handler'[h].concert = handler[h].concert
             /\ handler'[h].by = IF handler[h].by = p THEN Nobody ELSE handler[h].by
  BY <1>0 DEF Orphan, Call
<1>2. ASSUME NEW h \in Handler PROVE Bound(h)'
  <2>1. handler'[h].by # Nobody => handler[h].by # p /\ handler[h].by \in Pass
    BY <1>0, <1>1, CallFields
  <2>2. \A g \in Handler : handler'[h].by # Nobody /\ handler'[g].by = handler'[h].by
          => handler[g].by = handler[h].by
    BY <1>1, <2>1
  <2> QED BY <1>0, <1>1, <2>1, <2>2 DEF Bound
<1> QED BY <1>2

\* No pass answers another one's call.
LEMMA RepliesKept ==
  ASSUME TypeOK, NEW p \in Pass, SyncStep(p)
  PROVE  \A q \in Pass : q # p => reply'[q] = reply[q]
<1> USE DEF TypeOK, Return, Request, Lost, Delivered
<1> DEFINE Kept == \A q \in Pass : q # p => reply'[q] = reply[q]
<1>1. CASE \/ Start(p) \/ FirstList(p) \/ ReadLocal(p) \/ ItemsSent(p) \/ SecondList(p)
           \/ ListChecksums(p) \/ ListItems(p) \/ Reread(p) \/ BeginPrune(p)
  BY <1>1 DEF Start, FirstList, ReadLocal, ItemsSent, SecondList, ListChecksums, ListItems,
     Reread, BeginPrune
<1>2. CASE \/ DeleteReturns(p) \/ PushReturns(p) \/ ItemReturns(p) \/ EndPass(p)
           \/ ListFails(p) \/ GiveUp(p) \/ Abort(p)
  BY <1>2 DEF DeleteReturns, PushReturns, ItemReturns, EndPass, ListFails, GiveUp, Abort
<1>3. ASSUME NEW c \in Concert, SendDelete(p, c) \/ SendUpdate(p, c) \/ SendCreate(p, c)
      PROVE  Kept
  BY <1>3 DEF SendDelete, SendUpdate, SendCreate
<1>4. ASSUME NEW c \in Concert, Apply(p, c) \/ Prune(p, c) PROVE Kept
  BY <1>4 DEF Apply, Prune
<1>5. ASSUME NEW i \in Item, SendItem(p, i) PROVE Kept
  BY <1>5 DEF SendItem
<1> QED BY <1>1, <1>2, <1>3, <1>4, <1>5 DEF SyncStep

\* A pass works on what it found on the device or the server's list.
LEMMA MadePass ==
  ASSUME IInv, Made, Confirmed, NEW p \in Pass, SyncStep(p)
  PROVE  Made' /\ Confirmed'
<1> USE DEF localVars, serverVars
<1> DEFINE Rows == \A e \in Device, c \in Concert : local[e][c].st # "none" => origin[c] # Nobody
           Hands == \A h \in Handler : Bound(h)
           Own  == /\ \A c \in todo[p] : origin[c] # Nobody
                   /\ cur[p] \in Concert => origin[cur[p]] # Nobody
                   /\ pc[p] = "deleting" /\ reply[p] = "ok" => row[cur[p]] # "none"
<1>0. /\ TypeOK /\ RememberedBy(p) /\ Listed(p) /\ Rows /\ Hands /\ Own /\ DeviceOf[p] \in Device
      /\ \A c \in Concert : row[c] # "none" => origin[c] # Nobody
  BY ConcertSyncAssumption DEF IInv, Made, Confirmed
<1>f. /\ UNCHANGED <<origin, row>>
      /\ \A q \in Pass : q # p => /\ pc'[q] = pc[q] /\ todo'[q] = todo[q]
                                  /\ cur'[q] = cur[q] /\ reply'[q] = reply[q]
  BY <1>0, OthersKept, RepliesKept
<1>q. ASSUME Rows', Hands', Own' PROVE Made' /\ Confirmed'
  <2> HIDE DEF Hands
  <2>1. Made'
    BY <1>0, <1>f, <1>q DEF Made, Hands
  <2>2. Confirmed'
    BY <1>f, <1>q DEF Confirmed
  <2> QED BY <2>1, <2>2
<1> HIDE DEF Hands
<1>r. ASSUME local' = local PROVE Rows'
  BY <1>0, <1>f, <1>r
<1>w. ASSUME NEW c, NEW r, c \in Concert => origin[c] # Nobody \/ r.st = "none",
             local' = [local EXCEPT ![DeviceOf[p]][c] = r]
      PROVE  Rows'
  BY <1>0, <1>f, <1>w DEF TypeOK
<1>d. ASSUME NEW c, HardDeleteConcert(DeviceOf[p], c) PROVE Rows'
  <2>1. NoRow.st = "none" /\ local' = [local EXCEPT ![DeviceOf[p]][c] = NoRow]
    BY <1>d, EmptyValues DEF HardDeleteConcert
  <2> QED BY <1>w, <2>1
<1>h. ASSUME handler' = handler, pc[p] \notin Waiting \/ reply[p] # "none" PROVE Hands'
  BY <1>f, <1>h, BoundKept DEF Hands
<1>o. ASSUME Orphan(p) PROVE Hands'
  BY <1>f, <1>o, BoundOrphaned DEF Hands
<1>1. CASE Start(p)
  <2>1. /\ todo' = [todo EXCEPT ![p] = GetDeletedConcertIDs(DeviceOf[p])]
        /\ UNCHANGED <<local, handler, cur>> /\ pc[p] \notin Waiting
    BY <1>1 DEF Start, Waiting
  <2>2. Own'
    BY <1>0, <1>f, <1>1, <2>1 DEF Start, GetDeletedConcertIDs, TypeOK
  <2> QED BY <1>q, <1>r, <1>h, <2>1, <2>2
<1>2. CASE EndPass(p) \/ ListFails(p)
  <2>1. Own' /\ UNCHANGED <<local, handler>> /\ pc[p] \notin Waiting
    BY <1>0, <1>2, ConcertSyncAssumption DEF EndPass, ListFails, Return, TypeOK, Waiting
  <2> QED BY <1>q, <1>r, <1>h, <2>1
<1>3. CASE Abort(p)
  <2>1. Own' /\ local' = local /\ Orphan(p)
    BY <1>0, <1>3, ConcertSyncAssumption DEF Abort, Return, TypeOK
  <2> QED BY <1>q, <1>r, <1>o, <2>1
<1>4. CASE GiveUp(p)
  <2>1. reply'[p] = "error" /\ UNCHANGED <<local, pc, todo, cur>> /\ Orphan(p)
    BY <1>0, <1>4 DEF GiveUp, TypeOK
  <2>2. Own'
    BY <1>0, <1>f, <2>1
  <2> QED BY <1>q, <1>r, <1>o, <2>1, <2>2
<1>5. CASE FirstList(p) \/ SecondList(p) \/ ListChecksums(p) \/ ListItems(p)
  <2>1. /\ UNCHANGED <<local, handler, todo, cur, reply>> /\ pc'[p] # "deleting"
        /\ pc[p] \notin Waiting
    BY <1>0, <1>5 DEF FirstList, SecondList, ListChecksums, ListItems, TypeOK, Waiting
  <2>2. Own'
    BY <1>0, <1>f, <2>1
  <2> QED BY <1>q, <1>r, <1>h, <2>1, <2>2
<1>6. CASE ReadLocal(p) \/ Reread(p) \/ BeginPrune(p)
  <2>1. /\ UNCHANGED <<local, handler, cur, reply>> /\ pc'[p] # "deleting"
        /\ pc[p] \notin Waiting
    BY <1>0, <1>6 DEF ReadLocal, Reread, BeginPrune, TypeOK, Waiting
  <2>2. ASSUME NEW c \in todo'[p] PROVE origin[c] # Nobody
    <3>1. CASE ReadLocal(p)
      <4>1. c \in Concert /\ GetConcerts(DeviceOf[p])[c].st = "live"
        BY <1>0, <2>2, <3>1 DEF ReadLocal, TypeOK
      <4>2. local[DeviceOf[p]][c].st = "live"
        BY <4>1, EmptyValues DEF GetConcerts
      <4> QED BY <1>0, <4>1, <4>2
    <3>2. CASE Reread(p)
      <4>1. c \in Concert /\ listed[p][c].in
        BY <1>0, <2>2, <3>2 DEF Reread, TypeOK
      <4> QED BY <1>0, <4>1 DEF Listed
    <3>3. CASE BeginPrune(p)
      <4>1. c \in Concert /\ snap[p][c].sum # NoSum
        BY <1>0, <2>2, <3>3 DEF BeginPrune, TypeOK
      <4> QED BY <1>0, <4>1 DEF RememberedBy
    <3> QED BY <1>6, <3>1, <3>2, <3>3
  <2>3. Own'
    BY <1>0, <1>f, <2>1, <2>2
  <2> QED BY <1>q, <1>r, <1>h, <2>1, <2>3
<1>7. CASE DeleteReturns(p)
  <2>1. /\ UNCHANGED <<handler, todo>> /\ pc'[p] # "deleting" /\ cur'[p] = NoConcert
        /\ reply[p] # "none"
    BY <1>0, <1>7 DEF DeleteReturns, TypeOK
  <2>2. Own'
    BY <1>0, <1>f, <2>1, ConcertSyncAssumption
  <2>3. HardDeleteConcert(DeviceOf[p], cur[p]) \/ local' = local
    BY <1>7 DEF DeleteReturns
  <2>4. Rows'
    <3> HIDE DEF Rows
    <3> QED BY <1>d, <1>r, <2>3
  <2> QED BY <1>q, <1>h, <2>1, <2>2, <2>4
<1>8. CASE PushReturns(p) \/ ItemReturns(p) \/ ItemsSent(p)
  <2>1. /\ UNCHANGED <<local, handler, todo>> /\ pc'[p] # "deleting"
        /\ cur'[p] \in {cur[p], NoConcert}
        /\ pc[p] \notin Waiting \/ reply[p] # "none"
    BY <1>0, <1>8 DEF PushReturns, ItemReturns, ItemsSent, TypeOK, Waiting
  <2>2. Own'
    BY <1>0, <1>f, <2>1, ConcertSyncAssumption
  <2> QED BY <1>q, <1>r, <1>h, <2>1, <2>2
<1>9. ASSUME NEW c \in Concert, SendDelete(p, c) \/ SendUpdate(p, c) \/ SendCreate(p, c)
      PROVE  Made' /\ Confirmed'
  <2>1. /\ c \in todo[p] /\ local' = local /\ todo' = [todo EXCEPT ![p] = @ \ {c}]
        /\ cur' = [cur EXCEPT ![p] = c] /\ pc[p] \notin Waiting /\ pc'[p] \in Waiting
    BY <1>0, <1>9 DEF SendDelete, SendUpdate, SendCreate, Request, TypeOK, Waiting
  <2>2. reply'[p] # "ok"
    BY <1>0, <1>9 DEF SendDelete, SendUpdate, SendCreate, Lost, Delivered, TypeOK
  <2>3. origin[c] # Nobody /\ cur'[p] = c
    BY <1>0, <2>1 DEF TypeOK
  <2>4. Own'
    BY <1>0, <1>f, <2>1, <2>2, <2>3 DEF TypeOK
  <2>5. \E at \in {"create", "read", "delete"} :
          /\ \E n, i : Lost(p) \/ Delivered(p, at, c, n, i)
          /\ pc'[p] = "deleting" => at = "delete"
    BY <1>0, <1>9 DEF SendDelete, SendUpdate, SendCreate, Request, TypeOK
  <2>6. Hands'
    BY <1>f, <2>1, <2>3, <2>5, BoundSent DEF Hands
  <2> QED BY <1>q, <1>r, <2>1, <2>4, <2>6
<1>10. ASSUME NEW i \in Item, SendItem(p, i) PROVE Made' /\ Confirmed'
  <2>1. /\ UNCHANGED <<local, todo, cur>> /\ pc[p] = "items" /\ pc'[p] = "adding"
        /\ Lost(p) \/ Delivered(p, "item", cur[p], NoName, i)
    BY <1>0, <1>10 DEF SendItem, TypeOK
  <2>2. cur[p] \in Concert /\ origin[cur[p]] # Nobody
    BY <1>0, <2>1 DEF TypeOK
  <2>3. Own'
    BY <1>0, <1>f, <2>1
  <2>4. Hands'
    BY <1>f, <2>1, <2>2, BoundSent DEF Hands, Waiting
  <2> QED BY <1>q, <1>r, <2>1, <2>3, <2>4
<1>11. ASSUME NEW c \in Concert, Prune(p, c) PROVE Made' /\ Confirmed'
  <2>1. /\ UNCHANGED <<handler, cur, reply, pc>> /\ todo' = [todo EXCEPT ![p] = @ \ {c}]
        /\ pc[p] = "prune" /\ HardDeleteConcert(DeviceOf[p], c)
    BY <1>11 DEF Prune
  <2>2. Own'
    BY <1>0, <1>f, <2>1 DEF TypeOK
  <2>3. Rows'
    <3> HIDE DEF Rows
    <3> QED BY <1>d, <2>1
  <2> QED BY <1>q, <1>h, <2>1, <2>2, <2>3 DEF Waiting
<1>12. ASSUME NEW c \in Concert, Apply(p, c) PROVE Made' /\ Confirmed'
  <2>1. /\ UNCHANGED <<handler, cur, reply, pc>> /\ todo' = [todo EXCEPT ![p] = @ \ {c}]
        /\ pc[p] = "apply" /\ c \in todo[p]
    BY <1>12 DEF Apply
  <2>2. Own' /\ origin[c] # Nobody
    BY <1>0, <1>f, <2>1 DEF TypeOK
  <2>3. \/ UpdateConcertChecksum(DeviceOf[p], c, listed[p][c].sum)
        \/ SyncConcertFromServer(DeviceOf[p], c, listed[p][c])
        \/ local' = local
    BY <1>12 DEF Apply
  <2>4. CASE SyncConcertFromServer(DeviceOf[p], c, listed[p][c])
    <3>1. \E r : local' = [local EXCEPT ![DeviceOf[p]][c] = r]
      BY <2>4 DEF SyncConcertFromServer
    <3>2. Rows'
      BY <1>w, <2>2, <3>1
    <3> QED BY <1>q, <1>h, <2>1, <2>2, <3>2 DEF Waiting
  <2>5. CASE UpdateConcertChecksum(DeviceOf[p], c, listed[p][c].sum)
    <3>1. listed[p][c].sum \in Content
      BY <1>0, ListingFields DEF TypeOK
    <3>2. PICK r \in LocalRow :
            local' = local \/ local' = [local EXCEPT ![DeviceOf[p]][c] = r]
      BY <1>0, <2>5, <3>1, UpdateChecksumRow
    <3>3. Rows'
      BY <1>r, <1>w, <2>2, <3>2
    <3> QED BY <1>q, <1>h, <2>1, <2>2, <3>3 DEF Waiting
  <2>6. CASE local' = local
    BY <1>q, <1>r, <1>h, <2>1, <2>2, <2>6 DEF Waiting
  <2> QED BY <2>3, <2>4, <2>5, <2>6
<1> QED
  BY <1>1, <1>2, <1>3, <1>4, <1>5, <1>6, <1>7, <1>8, <1>9, <1>10, <1>11, <1>12 DEF SyncStep

\* Both are inductive, given IInv.
LEMMA MadeStays == ASSUME IInv, Made, Confirmed, [Next]_vars PROVE Made' /\ Confirmed'
<1>1. CASE UNCHANGED vars
  BY <1>1 DEF vars, localVars, serverVars, passVars, Made, Bound, Confirmed
<1> QED BY <1>1, MadeUser, MadeServer, MadePass DEF Next

\* A table of tables that differs from another in one place.
LEMMA OnePlace ==
  ASSUME NEW D, NEW X, NEW V, NEW f \in [D -> [X -> V]], NEW g \in [D -> [X -> V]],
         NEW d \in D, NEW x \in X, NEW v \in V,
         \A e \in D, y \in X : g[e][y] = IF e = d /\ y = x THEN v ELSE f[e][y]
  PROVE  g = [f EXCEPT ![d][x] = v]
<1> DEFINE h == [f EXCEPT ![d][x] = v]
<1>1. h \in [D -> [X -> V]]
  OBVIOUS
<1>2. \A e \in D, y \in X : h[e][y] = g[e][y]
  OBVIOUS
<1> HIDE DEF h
<1>3. ASSUME NEW e \in D PROVE h[e] = g[e]
  <2>1. h[e] \in [X -> V] /\ g[e] \in [X -> V] /\ \A y \in X : h[e][y] = g[e][y]
    BY <1>1, <1>2
  <2> QED BY <2>1
<1>4. h = g
  BY <1>1, <1>3
<1> QED BY <1>4 DEF h

\* The rows of all devices, as Custody sees them.
Copies == [d \in Device |-> [c \in Concert |-> Standing(local[d][c])]]

\* One row more or less is one copy more or less.
LEMMA CopyOne ==
  ASSUME TypeOK, NEW d \in Device, NEW c \in Concert, NEW S,
         \A e \in Device, k \in Concert :
           Standing(local'[e][k]) = IF e = d /\ k = c THEN S ELSE Standing(local[e][k])
  PROVE  Copies' = [Copies EXCEPT ![d][c] = S]
<1> DEFINE V == {"none", "dirty", "clean", "tomb", S}
<1>1. \A e \in Device, k \in Concert : Standing(local[e][k]) \in V
  <2>1. \A r \in LocalRow : r.st \in {"none", "live", "tomb"}
    BY RowFields
  <2>2. \A e \in Device, k \in Concert : local[e][k] \in LocalRow
    BY DEF TypeOK
  <2> QED BY <2>1, <2>2 DEF Standing
<1>2. /\ Copies \in [Device -> [Concert -> V]]
      /\ \A e \in Device, k \in Concert : Copies[e][k] = Standing(local[e][k])
  BY <1>1 DEF Copies
<1>3. \A e \in Device, k \in Concert : Standing(local'[e][k]) \in V
  BY <1>1
<1>4. /\ Copies' \in [Device -> [Concert -> V]]
      /\ \A e \in Device, k \in Concert : Copies'[e][k] = Standing(local'[e][k])
  BY <1>3 DEF Copies
<1>5. \A e \in Device, k \in Concert :
        Copies'[e][k] = IF e = d /\ k = c THEN S ELSE Copies[e][k]
  BY <1>2, <1>4
<1> HIDE DEF Copies
<1> QED BY <1>2, <1>4, <1>5, OnePlace

\* The copy that a row some step writes stands for.
LEMMA CopyBecomes ==
  ASSUME TypeOK, NEW d \in Device, NEW c \in Concert, NEW r,
         local' = [local EXCEPT ![d][c] = r]
  PROVE  Copies' = [Copies EXCEPT ![d][c] = Standing(r)]
<1>1. \A e \in Device, k \in Concert :
        local'[e][k] = IF e = d /\ k = c THEN r ELSE local[e][k]
  BY DEF TypeOK
<1>2. ASSUME NEW e \in Device, NEW k \in Concert
      PROVE  Standing(local'[e][k]) =
               IF e = d /\ k = c THEN Standing(r) ELSE Standing(local[e][k])
  <2>1. CASE e = d /\ k = c
    BY <1>1, <2>1
  <2>2. CASE ~(e = d /\ k = c)
    <3>1. local'[e][k] = local[e][k]
      BY <1>1, <2>2
    <3> QED BY <2>2, <3>1
  <2> QED BY <2>1, <2>2
<1> DEFINE S == Standing(r)
<1>3. \A e \in Device, k \in Concert :
        Standing(local'[e][k]) = IF e = d /\ k = c THEN S ELSE Standing(local[e][k])
  BY <1>2
<1> HIDE DEF S
<1>4. Copies' = [Copies EXCEPT ![d][c] = S]
  BY <1>3, CopyOne
<1> QED BY <1>4 DEF S

\* Nothing that Custody promises something about changes.
LEMMA Stutter ==
  ASSUME UNCHANGED <<origin, local, row, trashed>>
  PROVE  UNCHANGED Promise!library
BY DEF Promise!library

\* What the rows say of themselves.
LEMMA Standings ==
  /\ \A r : r.st = "live" => Standing(r) \in {"dirty", "clean"}
  /\ \A r : r.st = "live" /\ r.sum = NoSum => Standing(r) = "dirty"
  /\ \A r : r.st # "live" => Standing(r) = r.st
BY DEF Standing

\* Nothing but ConcertSync's steps happens.
LEMMA CalmRefines == (CalmInit => Init) /\ ([CalmNext]_calmVars => [Next]_vars)
BY DEF CalmInit, CalmNext, calmVars

\* What Custody may say of a concert's copy on a device.
Fates == {"none", "dirty", "clean", "tomb"}

\* What users do is what Custody lets them do.
LEMMA UserSteps == ASSUME TypeOK, User PROVE Promise!Change
<1> USE DEF serverVars
<1>1. ASSUME NEW d \in Device, NEW c \in Concert, NEW v \in Version,
             local' = [local EXCEPT ![d][c] = Row("live", v, ListOf(v), NoSum, "edit")]
      PROVE  Copies' = [Copies EXCEPT ![d][c] = "dirty"]
  <2> DEFINE r == Row("live", v, ListOf(v), NoSum, "edit")
  <2>1. r.st = "live" /\ r.sum = NoSum
    BY DEF Row
  <2>2. local' = [local EXCEPT ![d][c] = r]
    BY <1>1
  <2> HIDE DEF r
  <2>3. Standing(r) = "dirty"
    BY <2>1, Standings
  <2>4. Copies' = [Copies EXCEPT ![d][c] = Standing(r)]
    BY <2>2, CopyBecomes
  <2> QED BY <2>3, <2>4
<1>2. ASSUME NEW d \in Device, NEW c \in Concert, local[d][c].st = "live"
      PROVE  Copies[d][c] \in Promise!Here
  BY <1>2, Standings DEF Copies, Promise!Here
<1>3. ASSUME NEW d \in Device, NEW c \in Concert, NEW v \in Version, AddConcert(d, c, v)
      PROVE  Promise!Change
  <2>1. Copies' = [Copies EXCEPT ![d][c] = "dirty"]
    BY <1>1, <1>3 DEF AddConcert
  <2>2. Promise!Make(d, c)
    BY <1>3, <2>1 DEF AddConcert, Promise!Make, Copies
  <2> QED BY <2>2 DEF Promise!Change
<1>4. ASSUME NEW d \in Device, NEW c \in Concert, NEW v \in Version, EditConcert(d, c, v)
      PROVE  Promise!Change
  <2>1. Copies' = [Copies EXCEPT ![d][c] = "dirty"] /\ Copies[d][c] \in Promise!Here
    BY <1>1, <1>2, <1>4 DEF EditConcert
  <2>2. Promise!Edit(d, c)
    BY <1>4, <2>1 DEF EditConcert, Promise!Edit, Copies
  <2> QED BY <2>2 DEF Promise!Change
<1>5. ASSUME NEW d \in Device, NEW c \in Concert, MarkConcertDeleted(d, c) PROVE Promise!Change
  <2> DEFINE r == [local[d][c] EXCEPT !.st = "tomb", !.sum = NoSum]
  <2>1. local' = [local EXCEPT ![d][c] = r]
    BY <1>5 DEF MarkConcertDeleted, TypeOK
  <2>2. r.st = "tomb"
    <3>1. local[d][c] \in LocalRow
      BY DEF TypeOK
    <3> QED BY <3>1 DEF LocalRow
  <2> HIDE DEF r
  <2>3. Standing(r) = "tomb"
    BY <2>2, Standings
  <2>4. Copies' = [Copies EXCEPT ![d][c] = Standing(r)]
    BY <2>1, CopyBecomes
  <2>5. Copies' = [Copies EXCEPT ![d][c] = "tomb"] /\ Copies[d][c] \in Promise!Here
    BY <1>2, <1>5, <2>3, <2>4 DEF MarkConcertDeleted
  <2>6. Promise!Trash(d, c)
    BY <1>5, <2>5 DEF MarkConcertDeleted, Promise!Trash, Copies
  <2> QED BY <2>6 DEF Promise!Change
<1> QED BY <1>3, <1>4, <1>5 DEF User

\* The server stores what was made and removes what was deleted.
LEMMA ServerSteps ==
  ASSUME IInv, Made, NEW h \in Handler, ServerStep(h)
  PROVE  Promise!Change \/ UNCHANGED Promise!library
<1>0. /\ TypeOK /\ InHand(h) /\ Bound(h)
      /\ UNCHANGED <<origin, local, trashed>>
  BY ServerFrame DEF IInv, Made
<1> DEFINE c == handler[h].concert
<1>1. CASE CreateConcert(h) \/ SaveRow(h)
  <2>1. row' = [row EXCEPT ![c] = "live"] /\ handler[h].at # "idle"
    BY <1>1 DEF CreateConcert, SaveRow
  <2>2. c \in Concert /\ origin[c] # Nobody
    BY <1>0, <2>1 DEF InHand, Bound
  <2>3. Promise!Store(c)
    BY <1>0, <2>1, <2>2 DEF Promise!Store
  <2> QED BY <2>2, <2>3 DEF Promise!Change
<1>2. CASE DeleteConcert(h)
  <2>1. row' = [row EXCEPT ![c] = "gone"] /\ handler[h].at = "delete" /\ row[c] = "live"
    BY <1>2 DEF DeleteConcert
  <2>2. c \in Concert /\ c \in trashed
    BY <1>0, <2>1 DEF InHand
  <2>3. Promise!Remove(c)
    BY <1>0, <2>1, <2>2 DEF Promise!Remove
  <2> QED BY <2>2, <2>3 DEF Promise!Change
<1>3. CASE row' = row
  BY <1>0, <1>3, Stutter
<1> QED BY <1>1, <1>2, <1>3 DEF ServerStep, serverVars, ReadRow, AddConcertItem, Refused,
        HandlerFails

\* A device gets what has been on the server, and gives up what a user deleted
\* there.
LEMMA PassSteps ==
  ASSUME IInv, Made, Confirmed, Departures, NEW p \in Pass, SyncStep(p)
  PROVE  Promise!Change \/ UNCHANGED Promise!library
<1> DEFINE d == DeviceOf[p]
<1>0. /\ TypeOK /\ RememberedBy(p) /\ Listed(p) /\ Held /\ d \in Device
      /\ UNCHANGED <<origin, trashed, row>>
  BY ConcertSyncAssumption, OthersKept DEF IInv
<1>a. Absent(p) \/ d \in Crossed
  BY DEF Departures, Crossed
<1>l. ASSUME local' = local PROVE UNCHANGED Promise!library
  BY <1>0, <1>l, Stutter
<1>r. ASSUME NEW c \in Concert, NEW r, local' = [local EXCEPT ![d][c] = r], r.st = "live",
             row[c] # "none"
      PROVE  Promise!Change
  <2>1. Standing(r) \in {"dirty", "clean"}
    BY <1>r, Standings
  <2>2. Copies' = [Copies EXCEPT ![d][c] = Standing(r)]
    BY <1>0, <1>r, CopyBecomes
  <2>3. \E how \in Promise!Here : Copies' = [Copies EXCEPT ![d][c] = how]
    BY <2>1, <2>2 DEF Promise!Here
  <2>4. Promise!Receive(d, c)
    BY <1>0, <1>r, <2>3 DEF Promise!Receive, Copies
  <2> QED BY <1>0, <2>4 DEF Promise!Change
<1>d. ASSUME NEW c \in Concert, HardDeleteConcert(d, c), c \in trashed \/ d \in Crossed, row[c] # "none"
      PROVE  Promise!Change
  <2>1. local' = [local EXCEPT ![d][c] = NoRow]
    BY <1>d DEF HardDeleteConcert
  <2>2. Standing(NoRow) = "none"
    BY EmptyValues, Standings
  <2>3. Copies' = [Copies EXCEPT ![d][c] = Standing(NoRow)]
    BY <1>0, <2>1, CopyBecomes
  <2>4. Copies' = [Copies EXCEPT ![d][c] = "none"]
    BY <2>2, <2>3
  <2>5. Promise!Drop(d, c)
    BY <1>0, <1>d, <2>4 DEF Promise!Drop, Copies
  <2> QED BY <1>0, <2>5 DEF Promise!Change
<1>1. CASE DeleteReturns(p)
  <2>1. cur[p] \in Concert /\ cur[p] \in trashed /\ pc[p] = "deleting"
    BY <1>0, <1>1 DEF DeleteReturns, RememberedBy, TypeOK, Waiting
  <2>2. CASE reply[p] = "ok"
    <3>1. row[cur[p]] # "none"
      BY <2>1, <2>2 DEF Confirmed
    <3>2. HardDeleteConcert(d, cur[p])
      BY <1>1, <2>2 DEF DeleteReturns
    <3> QED BY <1>d, <2>1, <3>1, <3>2
  <2>3. CASE reply[p] # "ok"
    BY <1>1, <1>l, <2>3 DEF DeleteReturns
  <2> QED BY <2>2, <2>3
<1>2. ASSUME NEW c \in Concert, Apply(p, c) PROVE Promise!Change \/ UNCHANGED Promise!library
  <2>1. /\ listed[p][c] \in Listing /\ listed[p][c].sum \in Content
        /\ row[c] # "none"
    <3>1. pc[p] = "apply" /\ c \in todo[p]
      BY <1>2 DEF Apply
    <3>2. row[c] # "none"
      BY <1>0, <3>1 DEF RememberedBy, Listed
    <3> QED BY <1>0, <3>2, ListingFields DEF TypeOK
  <2>2. CASE SyncConcertFromServer(d, c, listed[p][c])
    <3> DEFINE l == listed[p][c]
               r == Row("live", l.name, l.items, l.sum, "pull")
    <3>1. local' = [local EXCEPT ![d][c] = r] /\ r.st = "live"
      BY <2>2 DEF SyncConcertFromServer, Row
    <3> HIDE DEF r
    <3> QED BY <1>r, <2>1, <3>1
  <2>3. CASE UpdateConcertChecksum(d, c, listed[p][c].sum)
    <3>1. PICK r \in LocalRow :
            /\ r.st = local[d][c].st
            /\ local' = local \/ local' = [local EXCEPT ![d][c] = r]
      BY <1>0, <2>1, <2>3, UpdateChecksumRow
    <3>2. CASE local' = local
      BY <1>l, <3>2
    <3>3. CASE r.st = "live" /\ local' = [local EXCEPT ![d][c] = r]
      BY <1>r, <2>1, <3>3
    <3>4. CASE r.st # "live" /\ local' = [local EXCEPT ![d][c] = r]
      <4>1. \A e \in Device, k \in Concert :
              local'[e][k] = IF e = d /\ k = c THEN r ELSE local[e][k]
        BY <1>0, <3>4 DEF TypeOK
      <4>2. Standing(r) = Standing(local[d][c])
        BY <3>1, <3>4, Standings
      <4>3. ASSUME NEW e \in Device, NEW k \in Concert
            PROVE  Standing(local'[e][k]) = Standing(local[e][k])
        <5>1. CASE e = d /\ k = c
          BY <4>1, <4>2, <5>1
        <5>2. CASE ~(e = d /\ k = c)
          <6>1. local'[e][k] = local[e][k]
            BY <4>1, <5>2
          <6> QED BY <6>1
        <5> QED BY <5>1, <5>2
      <4>4. Copies' = Copies
        BY <4>3 DEF Copies
      <4> QED BY <1>0, <4>4 DEF Copies, Promise!library
    <3> QED BY <3>1, <3>2, <3>3, <3>4
  <2>4. CASE local' = local
    BY <1>l, <2>4
  <2> QED BY <1>2, <2>2, <2>3, <2>4 DEF Apply
<1>3. ASSUME NEW c \in Concert, Prune(p, c) PROVE Promise!Change
  <2>1. c \in todo[p] /\ pc[p] = "prune" /\ HardDeleteConcert(d, c)
    BY <1>3 DEF Prune
  <2>2. snap[p][c].sum # NoSum /\ c \notin remote[p]
    BY <1>0, <2>1 DEF RememberedBy
  <2>3. (c \in trashed \/ d \in Crossed) /\ row[c] # "none"
    BY <1>0, <1>a, <2>1, <2>2 DEF Absent, RememberedBy
  <2> QED BY <1>d, <2>1, <2>3
<1>4. CASE \/ Start(p) \/ FirstList(p) \/ ReadLocal(p) \/ PushReturns(p) \/ ItemReturns(p)
           \/ ItemsSent(p) \/ SecondList(p) \/ ListChecksums(p) \/ ListItems(p) \/ Reread(p)
           \/ BeginPrune(p) \/ EndPass(p) \/ ListFails(p) \/ GiveUp(p) \/ Abort(p)
  BY <1>4, <1>l DEF localVars, Start, FirstList, ReadLocal, PushReturns, ItemReturns, ItemsSent,
     SecondList, ListChecksums, ListItems, Reread, BeginPrune, EndPass, ListFails, GiveUp, Abort
<1>5. ASSUME NEW c \in Concert, SendDelete(p, c) \/ SendUpdate(p, c) \/ SendCreate(p, c)
      PROVE  UNCHANGED Promise!library
  BY <1>5, <1>l DEF localVars, Request, SendDelete, SendUpdate, SendCreate
<1>6. ASSUME NEW i \in Item, SendItem(p, i) PROVE UNCHANGED Promise!library
  BY <1>6, <1>l DEF localVars, SendItem
<1> QED BY <1>1, <1>2, <1>3, <1>4, <1>5, <1>6 DEF SyncStep

\* Any number of devices and of passes on each implement Custody: every step of
\* a user, a pass or a handler is a step of Custody or leaves what it speaks of
\* alone (SynchronizeConcerts, ConcertService).
LEMMA CustodyInit == CalmInit => Promise!Init /\ Made /\ Confirmed /\ Departures
<1> SUFFICES ASSUME CalmInit PROVE Promise!Init /\ Made /\ Confirmed /\ Departures
  OBVIOUS
<1>1. \A d \in Device, c \in Concert : local[d][c] = NoRow
  BY DEF CalmInit, Init
<1>2. Standing(NoRow) = "none" /\ NoRow.st = "none"
  BY EmptyValues, Standings
<1>3. Crossed = {}
  BY DEF CalmInit, Crossed
<1>4. Promise!Init
  BY <1>1, <1>2, <1>3 DEF CalmInit, Init, Promise!Init
<1>5. Made /\ Confirmed
  <2>1. \A h \in Handler : Bound(h)
    BY DEF CalmInit, Init, Bound, Idle
  <2> QED BY <1>1, <1>2, <2>1, ConcertSyncAssumption DEF CalmInit, Init, Made, Confirmed
<1>6. Departures
  BY DEF CalmInit, Init, Departures, Absent
<1> QED BY <1>4, <1>5, <1>6

\* Everything the steps rest on stays.
LEMMA CustodyKept ==
  ASSUME IInv, Made, Confirmed, Departures, [CalmNext]_calmVars
  PROVE  Made' /\ Confirmed' /\ Departures'
<1>1. [Next]_vars
  BY DEF CalmNext, calmVars
<1> QED BY <1>1, MadeStays, AbsentStep

\* Only passes that were started in overlap have crossed devices.
LEMMA CrossedType == ASSUME CalmNext PROVE Crossed' \subseteq Device
BY DEF CalmNext, Crossed

LEMMA CustodyStep ==
  ASSUME IInv, Made, Confirmed, Departures, [CalmNext]_calmVars
  PROVE  [Promise!Next]_(Promise!vars)
<1>1. CASE UNCHANGED calmVars
  <2>1. UNCHANGED <<origin, local, row, trashed, overlapped>>
    BY <1>1 DEF calmVars, vars, localVars, serverVars
  <2>2. Copies' = Copies
    BY <2>1 DEF Copies
  <2>3. Crossed' = Crossed
    BY <2>1 DEF Crossed
  <2>4. UNCHANGED Promise!vars
    BY <2>1, <2>2, <2>3 DEF Promise!vars, Promise!library, Copies
  <2> QED BY <2>4
<1>2. CASE CalmNext
  <2>1. Next
    BY <1>2 DEF CalmNext
  <2> DEFINE Kept == Promise!Change \/ UNCHANGED Promise!library
  <2>2. ASSUME User PROVE Kept
    BY <2>2, UserSteps DEF IInv
  <2>s. ASSUME NEW h \in Handler, ServerStep(h) PROVE Kept
    BY <2>s, ServerSteps
  <2>p. ASSUME NEW p \in Pass, SyncStep(p) PROVE Kept
    BY <2>p, PassSteps
  <2>3. Kept
    <3> HIDE DEF Kept
    <3> QED BY <2>1, <2>2, <2>s, <2>p DEF Next
  <2> QED BY <1>2, <2>3, CrossedType DEF Promise!Next
<1> QED BY <1>1, <1>2

THEOREM KeepsTheLibrary == CalmSpec => KeepsCustody
BY CustodyInit, CustodyKept, CustodyStep, CalmRefines, Invariance, PTL
   DEF CalmSpec, Spec, Promise!Spec, KeepsCustody

\* Of Custody's steps only one takes the copy of a concert away: of one that the
\* server has had and some user deleted, unless the device's passes cross.
LEMMA DropsOnly ==
  ASSUME TypeOK, NEW d \in Device, NEW c \in Concert,
         local[d][c].st # "none", local'[d][c].st = "none",
         Promise!Change \/ UNCHANGED Promise!library
  PROVE  row[c] # "none" /\ (c \in trashed \/ d \in Crossed)
<1>1. c \in Concert /\ Copies[d][c] # "none" /\ Copies'[d][c] = "none"
  <2>1. Standing(local[d][c]) # "none" /\ Standing(local'[d][c]) = "none"
    BY DEF Standing
  <2> QED BY <2>1 DEF Copies
<1>0. Copies \in [Device -> [Concert -> Fates]]
  <2>1. \A e \in Device, k \in Concert : Standing(local[e][k]) \in Fates
    BY DEF TypeOK, LocalRow, Standing, Fates
  <2> QED BY <2>1 DEF Copies
<1>2. ASSUME NEW e \in Device, NEW x \in Concert, NEW how \in Fates \ {"none"},
             Copies' = [Copies EXCEPT ![e][x] = how]
      PROVE  FALSE
  <2>1. Copies'[d][c] = how \/ Copies'[d][c] = Copies[d][c]
    BY <1>0, <1>1, <1>2
  <2> QED BY <1>1, <2>1
<1>3. ASSUME NEW e \in Device, NEW x \in Concert, Copies' = [Copies EXCEPT ![e][x] = "none"]
      PROVE  e = d /\ x = c
  BY <1>0, <1>1, <1>3
<1>4. ASSUME Copies' = Copies PROVE FALSE
  BY <1>1, <1>4
<1>5. ASSUME NEW x \in Concert, Promise!Store(x) \/ Promise!Remove(x) PROVE FALSE
  BY <1>4, <1>5 DEF Promise!Store, Promise!Remove, Copies
<1>6. ASSUME NEW e \in Device, NEW x \in Concert,
             \/ Promise!Make(e, x) \/ Promise!Edit(e, x) \/ Promise!Trash(e, x)
             \/ Promise!Receive(e, x)
      PROVE  FALSE
  <2>1. \E how \in Fates \ {"none"} : Copies' = [Copies EXCEPT ![e][x] = how]
    BY <1>6 DEF Promise!Make, Promise!Edit, Promise!Trash, Promise!Receive, Promise!Here,
       Copies, Fates
  <2> QED BY <1>2, <2>1
<1>7. ASSUME NEW e \in Device, NEW x \in Concert, Promise!Drop(e, x)
      PROVE  row[c] # "none" /\ (c \in trashed \/ d \in Crossed)
  <2>1. e = d /\ x = c
    BY <1>3, <1>7 DEF Promise!Drop, Copies
  <2> QED BY <1>7, <2>1 DEF Promise!Drop
<1>8. ASSUME NEW e \in Device, NEW x \in Concert, Promise!Reject(e, x) PROVE FALSE
  <2>1. e = d /\ x = c
    BY <1>3, <1>8 DEF Promise!Reject, Copies
  <2> QED BY <1>8, <2>1 DEF Promise!Reject
<1>9. CASE UNCHANGED Promise!library
  BY <1>4, <1>9 DEF Promise!library, Copies
<1> QED BY <1>5, <1>6, <1>7, <1>8, <1>9 DEF Promise!Change

\* So a device loses only what a user deleted or, while passes overlap on it, a
\* copy of what the server has had.
THEOREM RemovedAfterDeletion == CalmSpec => RemovedOnlyAfterDeletion
<1>1. IInv /\ [Promise!Next]_(Promise!vars) =>
        \A d \in Device, c \in Concert :
          local[d][c].st # "none" /\ local'[d][c].st = "none" =>
            row[c] # "none" /\ (c \in trashed \/ d \in Crossed)
  <2> SUFFICES ASSUME IInv, [Promise!Next]_(Promise!vars), NEW d \in Device, NEW c \in Concert,
                      local[d][c].st # "none", local'[d][c].st = "none"
               PROVE  row[c] # "none" /\ (c \in trashed \/ d \in Crossed)
    OBVIOUS
  <2>1. TypeOK /\ (Promise!Change \/ UNCHANGED Promise!library)
    BY DEF IInv, Promise!Next, Promise!vars
  <2> QED BY <2>1, DropsOnly
<1> QED
  BY <1>1, KeepsTheLibrary, CalmRefines, Invariance, PTL
     DEF CalmSpec, Spec, KeepsCustody, Promise!Spec, RemovedOnlyAfterDeletion

-----------------------------------------------------------------------------
(* A pass that runs undisturbed *)

\* What removing a row does to what a pass sees of its device.
LEMMA MineDeleted ==
  ASSUME TypeOK, NEW p \in Pass, NEW c \in Concert, HardDeleteConcert(DeviceOf[p], c)
  PROVE  /\ Mine(p, c)'.st = "none"
         /\ \A k \in Concert : k # c => Mine(p, k)' = Mine(p, k)
<1>1. NoRow.st = "none" /\ DeviceOf[p] \in Device
  BY DEF NoRow, Row
<1>2. /\ local'[DeviceOf[p]][c] = NoRow
      /\ \A k \in Concert : k # c => local'[DeviceOf[p]][k] = local[DeviceOf[p]][k]
  BY <1>1 DEF HardDeleteConcert, TypeOK
<1> QED BY <1>1, <1>2 DEF Mine

\* What an answer to its handler does to a pass and its row.
LEMMA CalmAnswer ==
  ASSUME IInv, Made, NEW p \in Pass, Serves(p),
         NEW h \in Handler, handler[h].by = p, ServerStep(h), ~HandlerFault(h)
  PROVE  LET c == cur[p] IN
         /\ c \in Concert /\ reply[p] = "none" /\ pc[p] \in Waiting
         /\ \/ /\ reply'[p] = "none" /\ row' = row /\ pc[p] = "updating"
               /\ handler'[h].at = "save"
            \/ /\ reply'[p] = "error" /\ row' = row /\ pc[p] # "adding"
               /\ pc[p] \in {"deleting", "updating"} => row[c] # "live"
               /\ pc[p] = "creating" => row[c] # "none"
            \/ /\ reply'[p] = "ok"
               /\ \/ pc[p] = "deleting" /\ row' = [row EXCEPT ![c] = "gone"]
                  \/ pc[p] \in {"updating", "creating"} /\ row' = [row EXCEPT ![c] = "live"]
                  \/ pc[p] = "adding" /\ row' = row
<1>0. /\ TypeOK /\ Bound(h) /\ InHand(h) /\ p # Nobody /\ handler[h] \in Call
  BY DEF IInv, TypeOK, Made
<1>1. /\ reply[p] = "none" /\ pc[p] \in Waiting
      /\ handler[h].concert = cur[p] /\ cur[p] \in Concert
  BY <1>0 DEF Bound, TypeOK
<1>2. /\ pc[p] = "deleting" => handler[h].at = "delete"
      /\ pc[p] = "updating" => handler[h].at \in {"read", "save"}
      /\ pc[p] = "creating" => handler[h].at = "create"
      /\ pc[p] = "adding" => handler[h].at = "item"
      /\ pc[p] \in {"deleting", "updating", "creating", "adding"}
  BY DEF Serves
<1>a. ASSUME NEW r, Answer(h, r) PROVE reply'[p] = r
  BY <1>0, <1>a DEF Answer, TypeOK
<1>3. CASE CreateConcert(h) \/ SaveRow(h)
  BY <1>1, <1>2, <1>3, <1>a DEF CreateConcert, SaveRow
<1>4. CASE ReadRow(h)
  <2>1. handler'[h].at = "save"
    BY <1>0, <1>4 DEF ReadRow, TypeOK, Call
  <2> QED BY <1>1, <1>2, <1>4, <2>1 DEF ReadRow, serverVars, passVars
<1>5. CASE AddConcertItem(h)
  BY <1>1, <1>2, <1>5, <1>a DEF AddConcertItem
<1>6. CASE DeleteConcert(h)
  BY <1>1, <1>2, <1>6, <1>a DEF DeleteConcert
<1>7. CASE Refused(h) \/ HandlerFails(h)
  <2>1. Refused(h)
    BY <1>7 DEF HandlerFault
  <2> QED BY <1>1, <1>2, <2>1, <1>a DEF Refused, serverVars
<1> QED BY <1>3, <1>4, <1>5, <1>6, <1>7 DEF ServerStep

\* What the server does for the pass that runs undisturbed.
LEMMA CalmServer ==
  ASSUME IInv, Made, NEW p \in Pass, Progress(p),
         NEW h \in Handler, handler[h].by = p, ServerStep(h), ~HandlerFault(h)
  PROVE  Progress(p)'
<1>0. /\ TypeOK /\ pushed' = pushed
      /\ UNCHANGED <<local, pc, todo, cur, remote, listed, snap>>
      /\ \A g \in Handler : g # h => handler'[g] = handler[g]
  BY ServerFrame DEF IInv, ServerStep, CreateConcert, ReadRow, SaveRow, AddConcertItem,
     DeleteConcert, Refused, HandlerFails, passVars
<1>1. PICK c \in Concert : c = cur[p]
  BY CalmAnswer DEF Progress
<1>2. /\ reply[p] = "none" /\ pc[p] \in Waiting
      /\ \/ /\ reply'[p] = "none" /\ row' = row /\ pc[p] = "updating"
            /\ handler'[h].at = "save"
         \/ /\ reply'[p] = "error" /\ row' = row /\ pc[p] # "adding"
            /\ pc[p] \in {"deleting", "updating"} => row[c] # "live"
            /\ pc[p] = "creating" => row[c] # "none"
         \/ /\ reply'[p] = "ok"
            /\ \/ pc[p] = "deleting" /\ row' = [row EXCEPT ![c] = "gone"]
               \/ pc[p] \in {"updating", "creating"} /\ row' = [row EXCEPT ![c] = "live"]
               \/ pc[p] = "adding" /\ row' = row
  BY <1>1, CalmAnswer DEF Progress
<1>m. \A k \in Concert : Mine(p, k)' = Mine(p, k) /\ (Unsent(p, k)' <=> Unsent(p, k))
  BY <1>0 DEF Mine, Unsent
<1>3. Serves(p)'
  <2>1. ASSUME NEW g \in Handler, handler'[g].by = p
        PROVE  \/ pc'[p] = "deleting" /\ handler'[g].at = "delete"
               \/ pc'[p] = "updating" /\ handler'[g].at \in {"read", "save"}
               \/ pc'[p] = "creating" /\ handler'[g].at = "create"
               \/ pc'[p] = "adding" /\ handler'[g].at = "item"
    <3>1. CASE g # h
      BY <1>0, <2>1, <3>1 DEF Progress, Serves
    <3>2. CASE g = h
      <4>1. handler'[h] # Idle
        BY <2>1, <3>2 DEF Idle
      <4>2. handler'[h].at = "save" /\ handler[h].at = "read"
        BY <4>1, <1>0, ServerFrame
      <4> QED BY <1>0, <3>2, <4>2 DEF Progress, Serves
    <3> QED BY <3>1, <3>2
  <2> QED BY <2>1 DEF Serves
<1>4. \A k \in Concert : /\ row[k] \in {"none", "live", "gone"}
                         /\ k # c => row'[k] = row[k]
                         /\ row' = [row EXCEPT ![c] = "live"] => row'[c] = "live"
                         /\ row' = [row EXCEPT ![c] = "gone"] => row'[c] = "gone"
  BY <1>0, <1>2 DEF TypeOK
<1>5. CASE pc[p] = "deleting"
  <2>1. Deletes(p)'
    <3>1. \A k \in Concert : Mine(p, k)'.st = "tomb" /\ row'[k] = "live" =>
            k \in todo'[p] \/ k = cur'[p]
      BY <1>0, <1>1, <1>2, <1>4, <1>5, <1>m DEF Progress, Deletes
    <3>2. reply'[p] \notin {"none", "ok"} => row'[c] # "live"
      BY <1>2, <1>5
    <3> QED BY <1>0, <1>1, <1>5, <3>1, <3>2 DEF Progress, Deletes
  <2> QED BY <1>0, <1>3, <1>5, <2>1 DEF Progress, Pushes, Pushing, Lists, Pulls
<1>6. CASE pc[p] # "deleting"
  <2>0. pc[p] \in {"updating", "creating", "adding"} /\ pc' = pc
    BY <1>0, <1>2, <1>6 DEF Waiting
  <2>1. /\ \A k \in Concert : Mine(p, k).st = "tomb" => row[k] # "live"
        /\ \A k \in remote[p] : row[k] = "live"
        /\ \A k \in Concert : row[k] = "live" => k \in remote[p] \/ k \in pushed[p] \/ k = c
        /\ \A k \in pushed[p] : Unsent(p, k) /\ row[k] = "live" /\ k \notin todo[p]
        /\ \A k \in todo[p] : Unsent(p, k)
        /\ \A k \in Concert :
             Unsent(p, k) => k \in todo[p] \cup pushed[p] \/ k = c \/ row[k] = "gone"
        /\ c \notin todo[p] \cup pushed[p] /\ Unsent(p, c)
        /\ pc[p] = "updating" => row[c] = "live"
        /\ pc[p] = "creating" => row[c] # "live"
        /\ pc[p] = "adding" => row[c] = "live"
    BY <1>1, <1>2, <2>0 DEF Progress, Pushes, Pushing
  <2>2. /\ remote[p] \subseteq Concert /\ pushed[p] \subseteq Concert /\ todo[p] \subseteq Concert
    BY <1>0 DEF TypeOK
  <2>3. /\ \A k \in Concert : row[k] = "live" => row'[k] = "live"
        /\ \A k \in Concert : row[k] = "gone" /\ k # c => row'[k] = "gone"
    BY <1>2, <1>4, <2>0
  <2>4. /\ pc[p] = "updating" => row'[c] = "live" /\ reply'[p] \in {"none", "ok"}
        /\ pc[p] = "creating" => /\ reply'[p] = "none" => row'[c] # "live"
                                 /\ reply'[p] = "ok" => row'[c] = "live"
                                 /\ reply'[p] = "error" => row'[c] = "gone"
        /\ pc[p] = "adding" => row'[c] = "live"
    BY <1>2, <1>4, <2>1
  <2>5. \A k \in Concert : Mine(p, k)'.st = "tomb" => row'[k] # "live"
    BY <1>4, <1>m, <2>1 DEF Unsent
  <2>6. /\ \A k \in remote[p] : row'[k] = "live"
        /\ \A k \in Concert : row'[k] = "live" => k \in remote[p] \/ k \in pushed[p] \/ k = c
        /\ \A k \in pushed[p] : Unsent(p, k)' /\ row'[k] = "live" /\ k \notin todo[p]
        /\ \A k \in todo[p] : Unsent(p, k)'
        /\ \A k \in Concert :
             Unsent(p, k)' => k \in todo[p] \cup pushed[p] \/ k = c \/ row'[k] = "gone"
        /\ c \notin todo[p] \cup pushed[p] /\ Unsent(p, c)'
    BY <1>4, <1>m, <2>1, <2>2, <2>3
  <2>7. Pushes(p)'
    BY <1>0, <1>1, <2>0, <2>4, <2>5, <2>6 DEF Pushes, Pushing
  <2> QED BY <1>3, <2>0, <2>7 DEF Progress, Deletes, Lists, Pulls
<1> QED BY <1>5, <1>6

\* A pass that does not wait for an answer has no handler, and keeps none.
LEMMA CalmHands ==
  ASSUME Made, NEW p \in Pass, pc[p] \notin Waiting \/ reply[p] # "none"
  PROVE  /\ \A h \in Handler : handler[h].by # p
         /\ handler' = handler => Serves(p)'
<1>1. ASSUME NEW h \in Handler, handler[h].by = p PROVE FALSE
  BY <1>1 DEF Made, Bound
<1> QED BY <1>1 DEF Serves

\* The handler that takes up a call is at what the pass waits for.
LEMMA CalmSent ==
  ASSUME TypeOK, Made, NEW p \in Pass, pc[p] \notin Waiting,
         NEW at, NEW c, NEW n, NEW i, Delivered(p, at, c, n, i),
         \/ pc'[p] = "deleting" /\ at = "delete"
         \/ pc'[p] = "updating" /\ at = "read"
         \/ pc'[p] = "creating" /\ at = "create"
         \/ pc'[p] = "adding" /\ at = "item"
  PROVE  Serves(p)' /\ reply'[p] = "none"
<1> DEFINE new == [at |-> at, concert |-> c, name |-> n, item |-> i, by |-> p]
<1>1. PICK h \in Handler : handler' = [handler EXCEPT ![h] = new]
  BY DEF Delivered
<1>2. new.at = at
  OBVIOUS
<1> HIDE DEF new
<1>3. \A g \in Handler : handler'[g] = new \/ handler'[g].by # p
  BY <1>1, CalmHands DEF TypeOK
<1>4. reply'[p] = "none"
  BY DEF Delivered, TypeOK
<1> QED BY <1>2, <1>3, <1>4 DEF Serves

\* An undisturbed pass sends the deletions.
LEMMA CalmDeletes ==
  ASSUME IInv, Made, NEW p \in Pass, Deletes(p),
         \/ Start(p) /\ pushed[p] = {}
         \/ DeleteReturns(p)
         \/ FirstList(p)
         \/ \E c \in Concert : SendDelete(p, c) /\ ~Lost(p)
  PROVE  Progress(p)'
<1>0. TypeOK /\ row' = row /\ pushed' = pushed
  BY DEF IInv, Start, DeleteReturns, FirstList, SendDelete, Request, serverVars
<1>u. ASSUME local' = local PROVE \A k \in Concert : Mine(p, k)' = Mine(p, k)
  BY <1>u DEF Mine
<1>1. CASE Start(p) /\ pushed[p] = {}
  <2>1. /\ pc'[p] = "tombs" /\ local' = local /\ pc[p] = "idle" /\ handler' = handler
        /\ todo'[p] = {k \in Concert : Mine(p, k).st = "tomb"}
    BY <1>0, <1>1 DEF Start, TypeOK, GetDeletedConcertIDs, Mine, localVars
  <2>2. Serves(p)'
    BY <2>1, CalmHands DEF Waiting
  <2> QED BY <1>0, <1>1, <1>u, <2>1, <2>2 DEF Progress, Deletes, Pushes, Pushing, Lists, Pulls
<1>2. ASSUME NEW c \in Concert, SendDelete(p, c), ~Lost(p) PROVE Progress(p)'
  <2>1. /\ pc[p] = "tombs" /\ pc'[p] = "deleting" /\ local' = local
        /\ todo'[p] = todo[p] \ {c} /\ cur'[p] = c
        /\ Delivered(p, "delete", c, NoName, NoName)
    BY <1>0, <1>2 DEF SendDelete, Request, TypeOK, localVars
  <2>2. Serves(p)' /\ reply'[p] = "none"
    <3>1. pc[p] \notin Waiting
      BY <2>1 DEF Waiting
    <3> QED BY <1>0, <2>1, <3>1, CalmSent
  <2>3. Deletes(p)'
    BY <1>0, <1>u, <2>1, <2>2 DEF Deletes
  <2> QED BY <2>1, <2>2, <2>3 DEF Progress, Pushes, Pushing, Lists, Pulls
<1>3. CASE DeleteReturns(p)
  <2>0. PICK c \in Concert : c = cur[p]
    BY <1>0, <1>3 DEF DeleteReturns, TypeOK, Waiting
  <2>1. /\ pc[p] = "deleting" /\ pc'[p] = "tombs" /\ todo' = todo /\ reply[p] # "none"
        /\ handler' = handler
    BY <1>0, <1>3 DEF DeleteReturns, TypeOK
  <2>2. Serves(p)'
    BY <2>1, CalmHands
  <2>3. \A k \in Concert : Mine(p, k).st = "tomb" /\ row[k] = "live" => k \in todo[p] \/ k = c
    BY <2>0, <2>1 DEF Deletes
  <2>4. Deletes(p)'
    <3>1. CASE reply[p] = "ok"
      <4>1. /\ Mine(p, c)'.st = "none"
            /\ \A k \in Concert : k # c => Mine(p, k)' = Mine(p, k)
        BY <1>0, <1>3, <2>0, <3>1, MineDeleted DEF DeleteReturns
      <4> QED BY <1>0, <2>1, <2>3, <4>1 DEF Deletes
    <3>2. CASE reply[p] # "ok"
      <4>1. local' = local /\ row[c] # "live"
        BY <1>3, <2>0, <2>1, <3>2 DEF DeleteReturns, Deletes
      <4> QED BY <1>0, <1>u, <2>1, <2>3, <4>1 DEF Deletes
    <3> QED BY <3>1, <3>2
  <2> QED BY <2>1, <2>2, <2>4 DEF Progress, Pushes, Pushing, Lists, Pulls
<1>4. CASE FirstList(p)
  <2>1. /\ pc[p] = "tombs" /\ pc'[p] = "read" /\ todo[p] = {} /\ local' = local
        /\ remote'[p] = {k \in Concert : row[k] = "live"} /\ handler' = handler
    BY <1>0, <1>4 DEF FirstList, TypeOK, localVars
  <2>2. Serves(p)'
    BY <2>1, CalmHands DEF Waiting
  <2>3. pushed[p] = {} /\ \A k \in Concert : Mine(p, k)'.st = "tomb" => row'[k] # "live"
    BY <1>0, <1>u, <2>1 DEF Deletes
  <2>4. Pushes(p)'
    BY <1>0, <2>1, <2>3 DEF Pushes, Pushing
  <2> QED BY <2>1, <2>2, <2>4 DEF Progress, Deletes, Lists, Pulls
<1> QED BY <1>1, <1>2, <1>3, <1>4

\* Then it sends the edits, one concert with its items after the other.
LEMMA CalmPushes ==
  ASSUME IInv, Made, NEW p \in Pass, Pushes(p),
         \/ ReadLocal(p) \/ PushReturns(p) \/ ItemReturns(p) \/ ItemsSent(p)
         \/ \E c \in Concert : (SendUpdate(p, c) \/ SendCreate(p, c)) /\ ~Lost(p)
         \/ \E i \in Item : SendItem(p, i) /\ ~Lost(p)
  PROVE  Progress(p)'
<1> DEFINE NoTomb == \A k \in Concert : Mine(p, k).st = "tomb" => row[k] # "live"
           Known == \A k \in remote[p] : row[k] = "live"
           Done(P, T) == \A k \in P : Unsent(p, k) /\ row[k] = "live" /\ k \notin T
           Ready(T) == \A k \in T : Unsent(p, k)
<1>0. /\ TypeOK /\ row' = row /\ local' = local /\ remote' = remote
      /\ pc[p] \in Pushing /\ pc'[p] \in Pushing \ {"read"}
      /\ NoTomb /\ Known
      /\ todo[p] \subseteq Concert /\ pushed[p] \subseteq Concert /\ remote[p] \subseteq Concert
  BY DEF IInv, TypeOK, Pushes, Pushing, ReadLocal, PushReturns, ItemReturns, ItemsSent, SendUpdate,
         SendCreate, SendItem, Request, serverVars, localVars
<1>u. \A k \in Concert : Mine(p, k)' = Mine(p, k) /\ (Unsent(p, k)' <=> Unsent(p, k))
  BY <1>0 DEF Mine, Unsent
<1>o. ASSUME Pushes(p)', Serves(p)' PROVE Progress(p)'
  BY <1>0, <1>o DEF Progress, Pushing, Deletes, Lists, Pulls
<1>1. CASE ReadLocal(p)
  <2>1. /\ pc[p] = "read" /\ pc'[p] = "push" /\ pushed' = pushed /\ handler' = handler
        /\ todo'[p] = {k \in Concert : /\ GetConcerts(DeviceOf[p])[k].st = "live"
                                       /\ GetConcerts(DeviceOf[p])[k].sum = NoSum}
    BY <1>0, <1>1 DEF ReadLocal, TypeOK
  <2>2. todo'[p] = {k \in Concert : Unsent(p, k)}
    <3>1. NoRow.st = "none"
      BY DEF NoRow, Row
    <3> QED BY <2>1, <3>1 DEF GetConcerts, Unsent, Mine
  <2>3. pushed[p] = {} /\ \A k \in Concert : row[k] = "live" => k \in remote[p]
    BY <1>0, <2>1 DEF Pushes
  <2>4. Pushes(p)'
    BY <1>0, <1>u, <2>1, <2>2, <2>3 DEF Pushes
  <2>5. Serves(p)'
    BY <2>1, CalmHands DEF Waiting
  <2> QED BY <1>o, <2>4, <2>5
<1>2. ASSUME NEW c \in Concert, SendUpdate(p, c) \/ SendCreate(p, c), ~Lost(p)
      PROVE  Progress(p)'
  <2>1. /\ pc[p] = "push" /\ pushed' = pushed
        /\ c \in todo[p] /\ todo'[p] = todo[p] \ {c} /\ cur'[p] = c
    BY <1>0, <1>2 DEF SendUpdate, SendCreate, Request, TypeOK
  <2>2. /\ \/ pc'[p] = "updating" /\ c \in remote[p]
           \/ pc'[p] = "creating" /\ c \notin remote[p]
        /\ Serves(p)' /\ reply'[p] = "none"
    <3>1. CASE SendUpdate(p, c)
      <4>1. /\ Delivered(p, "read", c, snap[p][c].name, NoName)
            /\ pc'[p] = "updating" /\ c \in remote[p]
        BY <1>0, <1>2, <3>1 DEF SendUpdate, Request, TypeOK
      <4>2. pc[p] \notin Waiting
        BY <2>1 DEF Waiting
      <4>3. Serves(p)' /\ reply'[p] = "none"
        BY <1>0, <4>1, <4>2, CalmSent
      <4> QED BY <4>1, <4>3
    <3>2. CASE SendCreate(p, c)
      <4>1. /\ Delivered(p, "create", c, snap[p][c].name, NoName)
            /\ pc'[p] = "creating" /\ c \notin remote[p]
        BY <1>0, <1>2, <3>2 DEF SendCreate, Request, TypeOK
      <4>2. pc[p] \notin Waiting
        BY <2>1 DEF Waiting
      <4>3. Serves(p)' /\ reply'[p] = "none"
        BY <1>0, <4>1, <4>2, CalmSent
      <4> QED BY <4>1, <4>3
    <3> QED BY <1>2, <3>1, <3>2
  <2>3. /\ Done(pushed[p], todo[p]) /\ Ready(todo[p])
        /\ \A k \in Concert : row[k] = "live" => k \in remote[p] \/ k \in pushed[p]
        /\ \A k \in Concert : Unsent(p, k) => k \in todo[p] \cup pushed[p] \/ row[k] = "gone"
    BY <1>0, <2>1 DEF Pushes
  <2>4. /\ c \notin pushed[p]
        /\ pc'[p] = "updating" => row[c] = "live"
        /\ pc'[p] = "creating" => row[c] # "live"
    BY <1>0, <2>1, <2>2, <2>3
  <2>5. Pushes(p)'
    BY <1>0, <1>u, <2>1, <2>2, <2>3, <2>4 DEF Pushes
  <2> QED BY <1>o, <2>2, <2>5
<1>3. CASE PushReturns(p) \/ ItemReturns(p) \/ ItemsSent(p) \/ \E i \in Item : SendItem(p, i) /\ ~Lost(p)
  <2>0. PICK c \in Concert : c = cur[p]
    BY <1>0, <1>3 DEF PushReturns, ItemReturns, ItemsSent, SendItem, TypeOK, Waiting
  <2>1. /\ pc[p] \in {"updating", "creating", "items", "adding"} /\ todo' = todo
    BY <1>0, <1>3 DEF PushReturns, ItemReturns, ItemsSent, SendItem
  <2>2. /\ Done(pushed[p], todo[p]) /\ Ready(todo[p])
        /\ \A k \in Concert : row[k] = "live" => k \in remote[p] \/ k \in pushed[p] \/ k = c
        /\ \A k \in Concert :
             Unsent(p, k) => k \in todo[p] \cup pushed[p] \/ k = c \/ row[k] = "gone"
        /\ c \notin todo[p] \cup pushed[p] /\ Unsent(p, c)
    BY <1>0, <2>0, <2>1 DEF Pushes
  <2>3. ASSUME pc'[p] \in {"items", "adding"}, cur'[p] = c, pushed' = pushed, row[c] = "live"
        PROVE  Pushes(p)'
    BY <1>0, <1>u, <2>1, <2>2, <2>3 DEF Pushes
  <2>4. ASSUME pc'[p] = "push", pushed' = pushed, row[c] = "gone" PROVE Pushes(p)'
    BY <1>0, <1>u, <2>1, <2>2, <2>4 DEF Pushes
  <2>5. ASSUME pc'[p] = "push", pushed'[p] = pushed[p] \cup {c}, row[c] = "live"
        PROVE  Pushes(p)'
    BY <1>0, <1>u, <2>1, <2>2, <2>5 DEF Pushes
  <2>6. CASE PushReturns(p)
    <3>1. /\ pc[p] \in {"updating", "creating"} /\ reply[p] # "none" /\ pushed' = pushed
          /\ handler' = handler
          /\ \/ reply[p] = "ok" /\ pc'[p] = "items" /\ cur' = cur
             \/ reply[p] = "error" /\ pc'[p] = "push"
      BY <1>0, <2>6 DEF PushReturns, TypeOK
    <3>2. /\ reply[p] = "ok" => row[c] = "live"
          /\ reply[p] = "error" => row[c] = "gone"
      BY <1>0, <2>0, <3>1 DEF Pushes
    <3>3. Serves(p)'
      BY <3>1, CalmHands
    <3> QED BY <1>o, <2>0, <2>3, <2>4, <3>1, <3>2, <3>3
  <2>7. CASE ItemReturns(p)
    <3>1. /\ pc[p] = "adding" /\ reply[p] # "none" /\ pushed' = pushed /\ cur' = cur
          /\ handler' = handler /\ pc'[p] = "items"
      BY <1>0, <2>7 DEF ItemReturns, TypeOK
    <3>2. row[c] = "live"
      BY <1>0, <2>0, <3>1 DEF Pushes
    <3>3. Serves(p)'
      BY <3>1, CalmHands
    <3> QED BY <1>o, <2>0, <2>3, <3>1, <3>2, <3>3
  <2>8. CASE ItemsSent(p)
    <3>1. /\ pc[p] = "items" /\ pushed'[p] = pushed[p] \cup {c} /\ handler' = handler
          /\ pc'[p] = "push"
      BY <1>0, <2>0, <2>8 DEF ItemsSent, TypeOK
    <3>2. row[c] = "live"
      BY <1>0, <2>0, <3>1 DEF Pushes
    <3>3. Serves(p)'
      BY <3>1, CalmHands DEF Waiting
    <3> QED BY <1>o, <2>5, <3>1, <3>2, <3>3
  <2>9. ASSUME NEW i \in Item, SendItem(p, i), ~Lost(p) PROVE Progress(p)'
    <3>1. /\ pc[p] = "items" /\ pushed' = pushed /\ cur' = cur /\ pc'[p] = "adding"
          /\ Delivered(p, "item", cur[p], NoName, i)
      BY <1>0, <2>9 DEF SendItem, TypeOK
    <3>2. row[c] = "live"
      BY <1>0, <2>0, <3>1 DEF Pushes
    <3>3. Serves(p)'
      BY <1>0, <3>1, CalmSent DEF Waiting
    <3> QED BY <1>o, <2>0, <2>3, <3>1, <3>2, <3>3
  <2> QED BY <1>3, <2>6, <2>7, <2>8, <2>9
<1> QED BY <1>1, <1>2, <1>3

\* Applying the listed concert settles it.
LEMMA ApplySettles ==
  ASSUME IInv, NEW p \in Pass, pc[p] = "apply", Lists(p), Pulls(p),
         NEW c \in Concert, Apply(p, c)
  PROVE  /\ row[c] = "live" /\ Mine(p, c)'.st = "live" /\ Mine(p, c)'.sum = Checksum(c)
         /\ \A k \in Concert : k # c => Mine(p, k)' = Mine(p, k)
<1> DEFINE d == DeviceOf[p]
           sum == listed[p][c].sum
<1>0. TypeOK /\ RememberedBy(p) /\ d \in Device /\ local[d][c] \in LocalRow
  BY DEF IInv, TypeOK
<1>1. c \in todo[p] /\ row[c] = "live" /\ sum = Checksum(c)
  BY <1>0 DEF Apply, RememberedBy, Lists
<1>2. /\ snap[p][c] = IF Mine(p, c).st = "live" THEN Mine(p, c) ELSE NoRow
      /\ c \in pushed[p] => Mine(p, c).st = "live"
  BY <1>1 DEF Pulls, GetConcerts, Mine
<1>w. ASSUME NEW r, local' = [local EXCEPT ![d][c] = r], r.st = "live", r.sum = sum
      PROVE  /\ Mine(p, c)'.st = "live" /\ Mine(p, c)'.sum = sum
             /\ \A k \in Concert : k # c => Mine(p, k)' = Mine(p, k)
  <2>1. /\ local'[d][c] = r
        /\ \A k \in Concert : k # c => local'[d][k] = local[d][k]
    BY <1>0, <1>w DEF TypeOK
  <2> QED BY <1>w, <2>1 DEF Mine
<1>3. CASE c \in pushed[p]
  <2> DEFINE r == [local[d][c] EXCEPT !.sum = sum, !.via = "push"]
  <2>1. r.st = "live" /\ r.sum = sum
    BY <1>0, <1>2, <1>3 DEF LocalRow, Mine
  <2>2. local[d][c].st # "none" /\ UpdateConcertChecksum(d, c, sum)
    BY <1>2, <1>3 DEF Apply, Mine
  <2>3. local' = [local EXCEPT ![d][c] = r]
    BY <1>0, <2>2 DEF UpdateConcertChecksum, TypeOK
  <2> HIDE DEF r, sum
  <2> QED BY <1>1, <1>w, <2>1, <2>3
<1>4. CASE c \notin pushed[p] /\ (snap[p][c].st # "live" \/ snap[p][c].sum # sum)
  <2> DEFINE r == Row("live", listed[p][c].name, listed[p][c].items, sum, "pull")
  <2>1. r.st = "live" /\ r.sum = sum
    BY DEF Row
  <2>2. local' = [local EXCEPT ![d][c] = r]
    BY <1>4 DEF Apply, SyncConcertFromServer
  <2> HIDE DEF r, sum
  <2> QED BY <1>1, <1>w, <2>1, <2>2
<1>5. CASE c \notin pushed[p] /\ snap[p][c].st = "live" /\ snap[p][c].sum = sum
  <2>1. NoRow.st = "none"
    BY DEF NoRow, Row
  <2>2. local' = local /\ Mine(p, c) = snap[p][c]
    BY <1>2, <1>5, <2>1 DEF Apply
  <2> QED BY <1>1, <1>5, <2>2 DEF Mine
<1> QED BY <1>3, <1>4, <1>5

\* Then the second list is made and applied, and the first list's absentees go.
LEMMA CalmPulls ==
  ASSUME IInv, Made, NEW p \in Pass, Pushes(p), Lists(p), Pulls(p),
         \/ SecondList(p) \/ ListChecksums(p) \/ ListItems(p) \/ Reread(p)
         \/ BeginPrune(p) \/ EndPass(p)
         \/ \E c \in Concert : Apply(p, c) \/ Prune(p, c)
  PROVE  Progress(p)'
<1> DEFINE d == DeviceOf[p]
           Known == \A k \in remote[p] : row[k] = "live"
           Agree == \A k \in Concert : /\ listed[p][k].in <=> row[k] = "live"
                                       /\ Mine(p, k).st = "tomb" => row[k] # "live"
                                       /\ row[k] = "none" => ~Unsent(p, k)
           Sums == \A k \in Concert : row[k] = "live" => listed[p][k].sum = Checksum(k)
           Sent == \A k \in Concert : /\ row[k] = "live" => k \in remote[p] \cup pushed[p]
                                      /\ k \in pushed[p] => Unsent(p, k)
<1>0. /\ TypeOK /\ RememberedBy(p) /\ UNCHANGED <<row, name, items, handler>>
      /\ pc[p] \in {"push", "sums", "rows", "reread", "apply", "prune"}
      /\ d \in Device
      /\ \A k \in Concert : listed[p][k] \in Listing /\ local[d][k] \in LocalRow
  <2>1. /\ TypeOK /\ RememberedBy(p) /\ d \in Device
        /\ \A k \in Concert : listed[p][k] \in Listing /\ local[d][k] \in LocalRow
    BY DEF IInv, TypeOK
  <2>2. /\ UNCHANGED <<row, name, items, handler>>
        /\ pc[p] \in {"push", "sums", "rows", "reread", "apply", "prune"}
    BY DEF SecondList, ListChecksums, ListItems, Reread, BeginPrune, EndPass, Apply, Prune,
           serverVars
  <2> QED BY <2>1, <2>2
<1>1. Serves(p)'
  BY <1>0, CalmHands DEF Waiting
<1>2. \A k \in Concert : Checksum(k)' = Checksum(k)
  BY <1>0 DEF Checksum
<1>u. ASSUME local' = local
      PROVE  \A k \in Concert : Mine(p, k)' = Mine(p, k) /\ (Unsent(p, k)' <=> Unsent(p, k))
  BY <1>u DEF Mine, Unsent
<1>l. ASSUME Lists(p)', Pulls(p)', pc'[p] \in {"sums", "rows", "reread", "apply", "prune"}
      PROVE  Progress(p)'
  BY <1>1, <1>l DEF Progress, Deletes, Pushes, Pushing
<1>p. pc[p] # "push" => Known /\ Agree /\ (pc[p] \in {"rows", "reread", "apply"} => Sums)
                        /\ (pc[p] \in {"sums", "rows", "reread"} => Sent)
  BY <1>0 DEF Lists
<1>3. CASE SecondList(p)
  <2>1. /\ pc[p] = "push" /\ pc'[p] = "sums" /\ todo[p] = {}
        /\ UNCHANGED <<local, remote, pushed>>
        /\ \A k \in Concert : \E n : listed'[p][k] =
             [Unlisted EXCEPT !.in = row[k] = "live", !.name = n]
    BY <1>0, <1>3 DEF SecondList, TypeOK, localVars
  <2>2. \A b, n : [Unlisted EXCEPT !.in = b, !.name = n].in = b
    BY DEF Unlisted
  <2>3. ASSUME NEW k \in Concert PROVE listed'[p][k].in <=> row[k] = "live"
    <3>1. PICK n : listed'[p][k] = [Unlisted EXCEPT !.in = row[k] = "live", !.name = n]
      BY <2>1
    <3>2. listed'[p][k].in = (row[k] = "live")
      BY <2>2, <3>1, Zenon
    <3> QED BY <3>2
  <2>4. Known /\ Sent /\ \A k \in Concert : Unsent(p, k) => k \in pushed[p] \/ row[k] = "gone"
    BY <2>1 DEF Pushes, Pushing
  <2>5. \A k \in Concert : /\ Mine(p, k).st = "tomb" => row[k] # "live"
                           /\ row[k] = "none" => ~Unsent(p, k)
    BY <2>1, <2>4 DEF Pushes, Pushing
  <2>6. Lists(p)'
    BY <1>0, <1>u, <2>1, <2>3, <2>4, <2>5 DEF Lists
  <2> QED BY <1>l, <2>1, <2>6 DEF Pulls
<1>4. CASE ListChecksums(p)
  <2>1. /\ pc[p] = "sums" /\ pc'[p] = "rows" /\ UNCHANGED <<local, remote, pushed>>
        /\ \A k \in Concert : listed'[p][k] =
             IF listed[p][k].in THEN [listed[p][k] EXCEPT !.sum = Checksum(k)] ELSE listed[p][k]
    BY <1>0, <1>4 DEF ListChecksums, TypeOK, localVars
  <2>2. \A l \in Listing : \A x : [l EXCEPT !.sum = x].in = l.in /\ [l EXCEPT !.sum = x].sum = x
    BY DEF Listing
  <2>3. \A k \in Concert : /\ listed'[p][k].in <=> listed[p][k].in
                           /\ listed[p][k].in => listed'[p][k].sum = Checksum(k)
    <3> SUFFICES ASSUME NEW k \in Concert
                 PROVE  /\ listed'[p][k].in <=> listed[p][k].in
                        /\ listed[p][k].in => listed'[p][k].sum = Checksum(k)
      OBVIOUS
    <3> DEFINE l == listed[p][k]
               x == Checksum(k)
    <3>1. l \in Listing
      BY <1>0
    <3>2. listed'[p][k] = IF l.in THEN [l EXCEPT !.sum = x] ELSE l
      BY <2>1
    <3> HIDE DEF l, x
    <3>3. CASE l.in
      BY <2>2, <3>1, <3>2, <3>3 DEF l, x
    <3>4. CASE ~l.in
      BY <3>2, <3>4 DEF l
    <3> QED BY <3>3, <3>4
  <2>4. Known /\ Agree /\ Sent
    BY <1>p, <2>1
  <2>5. Lists(p)'
    BY <1>0, <1>2, <1>u, <2>1, <2>3, <2>4 DEF Lists
  <2> QED BY <1>l, <2>1, <2>5 DEF Pulls
<1>5. CASE ListItems(p)
  <2>1. /\ pc[p] = "rows" /\ pc'[p] = "reread" /\ UNCHANGED <<local, remote, pushed>>
        /\ \A k \in Concert : listed'[p][k] =
             IF listed[p][k].in THEN [listed[p][k] EXCEPT !.items = items[k]] ELSE listed[p][k]
    BY <1>0, <1>5 DEF ListItems, TypeOK, localVars
  <2>2. \A l \in Listing : \A x :
          [l EXCEPT !.items = x].in = l.in /\ [l EXCEPT !.items = x].sum = l.sum
    BY DEF Listing
  <2>3. \A k \in Concert : /\ listed'[p][k].in <=> listed[p][k].in
                           /\ listed'[p][k].sum = listed[p][k].sum
    <3> SUFFICES ASSUME NEW k \in Concert
                 PROVE  /\ listed'[p][k].in <=> listed[p][k].in
                        /\ listed'[p][k].sum = listed[p][k].sum
      OBVIOUS
    <3> DEFINE l == listed[p][k]
               x == items[k]
    <3>1. l \in Listing
      BY <1>0
    <3>2. listed'[p][k] = IF l.in THEN [l EXCEPT !.items = x] ELSE l
      BY <2>1
    <3> HIDE DEF l, x
    <3>3. CASE l.in
      BY <2>2, <3>1, <3>2, <3>3 DEF l, x
    <3>4. CASE ~l.in
      BY <3>2, <3>4 DEF l
    <3> QED BY <3>3, <3>4
  <2>4. Known /\ Agree /\ Sums /\ Sent
    BY <1>p, <2>1
  <2>5. Lists(p)'
    BY <1>0, <1>2, <1>u, <2>1, <2>3, <2>4 DEF Lists
  <2> QED BY <1>l, <2>1, <2>5 DEF Pulls
<1>6. CASE Reread(p)
  <2>1. /\ pc[p] = "reread" /\ pc'[p] = "apply" /\ UNCHANGED <<local, remote, pushed, listed>>
        /\ snap'[p] = GetConcerts(d)
        /\ todo'[p] = {k \in Concert : listed[p][k].in}
    BY <1>0, <1>6 DEF Reread, TypeOK, localVars
  <2>2. Known /\ Agree /\ Sums /\ Sent
    BY <1>p, <2>1
  <2>3. \A k \in Concert :
          /\ snap'[p][k] = GetConcerts(d)'[k]
          /\ Mine(p, k).st = "live" => snap'[p][k] = Mine(p, k)
    BY <2>1 DEF GetConcerts, Mine
  <2>4. Pulls(p)'
    BY <1>0, <1>u, <2>1, <2>2, <2>3 DEF Pulls, Unsent
  <2>5. Lists(p)'
    BY <1>0, <1>2, <1>u, <2>1, <2>2 DEF Lists
  <2> QED BY <1>l, <2>1, <2>4, <2>5
<1>7. ASSUME NEW c \in Concert, Apply(p, c) PROVE Progress(p)'
  <2>1. /\ pc[p] = "apply" /\ pc' = pc /\ UNCHANGED <<remote, pushed, listed, snap>>
        /\ c \in todo[p] /\ todo'[p] = todo[p] \ {c}
    BY <1>0, <1>7 DEF Apply, TypeOK
  <2>2. /\ row[c] = "live" /\ Mine(p, c)'.st = "live" /\ Mine(p, c)'.sum = Checksum(c)
        /\ \A k \in Concert : k # c => Mine(p, k)' = Mine(p, k)
    BY <1>7, <2>1, ApplySettles
  <2>3. /\ Known /\ Agree /\ Sums
        /\ \A k \in Concert : k # c => (Unsent(p, k)' <=> Unsent(p, k))
    BY <1>p, <2>1, <2>2 DEF Unsent
  <2>4. Lists(p)'
    BY <1>0, <1>2, <2>1, <2>2, <2>3 DEF Lists
  <2>5. \A k \in Concert : k # c => GetConcerts(d)'[k] = GetConcerts(d)[k]
    BY <2>2 DEF GetConcerts, Mine
  <2>6. \A k \in Concert : k # c => (Settled(p, k)' <=> Settled(p, k))
    BY <1>2, <2>2 DEF Settled
  <2>7. Settled(p, c)'
    BY <1>2, <2>2 DEF Settled
  <2>8. Pulls(p)'
    BY <1>0, <2>1, <2>2, <2>3, <2>5, <2>6, <2>7 DEF Pulls
  <2> QED BY <1>l, <2>1, <2>4, <2>8
<1>8. CASE BeginPrune(p)
  <2>1. /\ pc[p] = "apply" /\ pc'[p] = "prune" /\ UNCHANGED <<local, remote, listed>>
        /\ todo[p] = {}
        /\ todo'[p] = {k \in Concert : snap[p][k].sum # NoSum /\ k \notin remote[p]}
    BY <1>0, <1>8 DEF BeginPrune, TypeOK, localVars
  <2>2. Known /\ Agree
    BY <1>p, <2>1
  <2>3. \A k \in Concert :
          /\ row[k] = "live" => Settled(p, k) /\ k \notin todo'[p]
          /\ row[k] # "live" /\ Mine(p, k).st = "live" => Unsent(p, k) \/ k \in todo'[p]
    BY <2>1, <2>2 DEF Pulls
  <2>4. Pulls(p)'
    BY <1>0, <1>2, <1>u, <2>1, <2>3 DEF Pulls, Settled
  <2>5. Lists(p)'
    BY <1>0, <1>u, <2>1, <2>2 DEF Lists
  <2> QED BY <1>l, <2>1, <2>4, <2>5
<1>9. ASSUME NEW c \in Concert, Prune(p, c) PROVE Progress(p)'
  <2>1. /\ pc[p] = "prune" /\ pc' = pc /\ UNCHANGED <<remote, listed>>
        /\ c \in todo[p] /\ todo'[p] = todo[p] \ {c} /\ HardDeleteConcert(d, c)
    BY <1>0, <1>9 DEF Prune, TypeOK
  <2>2. /\ Mine(p, c)'.st = "none"
        /\ \A k \in Concert : k # c => Mine(p, k)' = Mine(p, k)
    BY <1>0, <2>1, MineDeleted
  <2>3. /\ Known /\ Agree /\ ~Unsent(p, c)'
        /\ \A k \in Concert : k # c => /\ Unsent(p, k)' <=> Unsent(p, k)
                                       /\ Settled(p, k)' <=> Settled(p, k)
    BY <1>2, <1>p, <2>1, <2>2 DEF Unsent, Settled
  <2>4. \A k \in Concert :
          /\ row[k] = "live" => Settled(p, k) /\ k \notin todo[p]
          /\ row[k] # "live" /\ Mine(p, k).st = "live" => Unsent(p, k) \/ k \in todo[p]
    BY <2>1 DEF Pulls
  <2>5. Pulls(p)'
    BY <1>0, <2>1, <2>2, <2>3, <2>4 DEF Pulls
  <2>6. Lists(p)'
    BY <1>0, <2>1, <2>2, <2>3 DEF Lists
  <2> QED BY <1>l, <2>1, <2>5, <2>6
<1>10. CASE EndPass(p)
  <2>1. pc'[p] = "idle"
    BY <1>0, <1>10 DEF EndPass, Return, TypeOK
  <2> QED BY <1>1, <2>1 DEF Progress, Deletes, Pushes, Pushing, Lists, Pulls
<1> QED BY <1>3, <1>4, <1>5, <1>6, <1>7, <1>8, <1>9, <1>10

\* So each step of a pass that nobody disturbs.
LEMMA CalmPass ==
  ASSUME IInv, Made, NEW p \in Pass, Progress(p), SyncStep(p), ~PassFault(p), ~Start(p)
  PROVE  Progress(p)'
<1>0. Deletes(p) /\ Pushes(p) /\ Lists(p) /\ Pulls(p)
  BY DEF Progress
<1>1. CASE DeleteReturns(p) \/ FirstList(p)
  BY <1>0, <1>1, CalmDeletes
<1>2. CASE ReadLocal(p) \/ PushReturns(p) \/ ItemReturns(p) \/ ItemsSent(p)
  BY <1>0, <1>2, CalmPushes
<1>3. CASE \/ SecondList(p) \/ ListChecksums(p) \/ ListItems(p) \/ Reread(p)
           \/ BeginPrune(p) \/ EndPass(p)
  BY <1>0, <1>3, CalmPulls
<1>4. CASE Abort(p) \/ GiveUp(p) \/ ListFails(p)
  <2>1. EndPass(p)
    BY <1>4 DEF PassFault
  <2> QED BY <1>0, <2>1, CalmPulls
<1>5. ASSUME NEW c \in Concert,
             SendDelete(p, c) \/ SendUpdate(p, c) \/ SendCreate(p, c) \/ Apply(p, c) \/ Prune(p, c)
      PROVE  Progress(p)'
  <2>1. SendDelete(p, c) \/ SendUpdate(p, c) \/ SendCreate(p, c) => ~Lost(p)
    BY DEF PassFault
  <2>2. CASE SendDelete(p, c)
    BY <1>0, <2>1, <2>2, CalmDeletes
  <2>3. CASE SendUpdate(p, c) \/ SendCreate(p, c)
    BY <1>0, <2>1, <2>3, CalmPushes
  <2>4. CASE Apply(p, c) \/ Prune(p, c)
    BY <1>0, <2>4, CalmPulls
  <2> QED BY <1>5, <2>2, <2>3, <2>4
<1>6. ASSUME NEW i \in Item, SendItem(p, i) PROVE Progress(p)'
  <2>1. ~Lost(p)
    BY <1>6 DEF PassFault
  <2> QED BY <1>0, <1>6, <2>1, CalmPushes
<1> QED BY <1>1, <1>2, <1>3, <1>4, <1>5, <1>6 DEF SyncStep

\* Whatever is live somewhere was saved under a name: in the databases, on the
\* server, in what a pass has read and in what a handler works on.
NamedBy(p) ==
  /\ \A c \in Concert : /\ snap[p][c].st = "live" => snap[p][c].name \in Version
                        /\ listed[p][c].in => listed[p][c].name \in Version
  /\ pc[p] \in {"push", "updating", "creating", "items", "adding"} =>
       \A c \in todo[p] : snap[p][c].st = "live"

Named ==
  /\ \A d \in Device, c \in Concert : local[d][c].st = "live" => local[d][c].name \in Version
  /\ \A c \in Concert : row[c] = "live" => name[c] \in Version
  /\ \A p \in Pass : NamedBy(p)
  /\ \A h \in Handler :
       handler[h].at \in {"create", "read", "save"} => handler[h].name \in Version

\* Writing one named row keeps the rows of the devices named.
LEMMA NamedRows ==
  ASSUME TypeOK, Named, NEW d, NEW c, NEW r, r.st = "live" => r.name \in Version,
         local' = local \/ local' = [local EXCEPT ![d][c] = r]
  PROVE  \A e \in Device, k \in Concert : local'[e][k].st = "live" => local'[e][k].name \in Version
<1>1. ASSUME local' = [local EXCEPT ![d][c] = r]
      PROVE  \A e \in Device, k \in Concert : local'[e][k] = r \/ local'[e][k] = local[e][k]
  BY <1>1 DEF TypeOK
<1> QED BY <1>1 DEF Named

\* What users save has a name.
LEMMA NamedUser == ASSUME TypeOK, Named, User PROVE Named'
<1>1. UNCHANGED <<row, name, handler, pc, todo, snap, listed>>
  BY DEF User, AddConcert, EditConcert, MarkConcertDeleted, serverVars, passVars
<1>2. ASSUME \A e \in Device, k \in Concert :
               local'[e][k].st = "live" => local'[e][k].name \in Version
      PROVE  Named'
  BY <1>1, <1>2 DEF Named, NamedBy
<1>3. ASSUME NEW d \in Device, NEW c \in Concert, NEW v \in Version,
             AddConcert(d, c, v) \/ EditConcert(d, c, v)
      PROVE  Named'
  <2> DEFINE r == Row("live", v, ListOf(v), NoSum, "edit")
  <2>1. r.name \in Version
    BY DEF Row
  <2>2. local' = [local EXCEPT ![d][c] = r]
    BY <1>3 DEF AddConcert, EditConcert
  <2> HIDE DEF r
  <2> QED BY <1>2, <2>1, <2>2, NamedRows
<1>4. ASSUME NEW d \in Device, NEW c \in Concert, MarkConcertDeleted(d, c) PROVE Named'
  <2> DEFINE r == [local[d][c] EXCEPT !.st = "tomb", !.sum = NoSum]
  <2>1. local[d][c] \in LocalRow
    BY DEF TypeOK
  <2>2. r.st # "live"
    BY <2>1 DEF LocalRow
  <2>3. local' = [local EXCEPT ![d][c] = r]
    BY <1>4 DEF MarkConcertDeleted, TypeOK
  <2> HIDE DEF r
  <2> QED BY <1>2, <2>2, <2>3, NamedRows
<1> QED BY <1>3, <1>4 DEF User

\* The server stores the names it is sent.
LEMMA NamedServer == ASSUME IInv, Named, NEW h \in Handler, ServerStep(h) PROVE Named'
<1>0. /\ TypeOK /\ InHand(h) /\ handler[h] \in Call
      /\ UNCHANGED <<local, pc, todo, listed, snap>>
      /\ \A g \in Handler : g # h => handler'[g] = handler[g]
      /\ \/ handler'[h] = Idle
         \/ handler'[h].at = "save" /\ handler[h].at = "read"
  BY ServerFrame DEF IInv, TypeOK
<1>1. \A g \in Handler :
        handler'[g].at \in {"create", "read", "save"} => handler'[g].name \in Version
  <2>1. CASE ReadRow(h)
    <3>1. /\ handler' = [handler EXCEPT ![h].at = "save"] /\ handler[h].at = "read"
      BY <2>1 DEF ReadRow
    <3>2. handler'[h].name = handler[h].name
      BY <1>0, <3>1 DEF TypeOK, Call
    <3> QED BY <1>0, <3>1, <3>2 DEF Named
  <2>2. CASE ~ReadRow(h)
    <3>1. handler'[h] = Idle
      BY <1>0, <2>2 DEF ServerStep, CreateConcert, SaveRow, AddConcertItem, DeleteConcert, Refused,
         HandlerFails, Answer, TypeOK
    <3> QED BY <1>0, <3>1 DEF Named, Idle
  <2> QED BY <2>1, <2>2
<1>2. \A c \in Concert : row'[c] = "live" => name'[c] \in Version
  <2>1. CASE CreateConcert(h) \/ SaveRow(h)
    <3> DEFINE n == handler[h].name
               k == handler[h].concert
    <3>1. /\ row' = [row EXCEPT ![k] = "live"] /\ name' = [name EXCEPT ![k] = n]
          /\ handler[h].at \in {"create", "save"}
      BY <2>1 DEF CreateConcert, SaveRow
    <3>2. n \in Version
      BY <3>1 DEF Named
    <3> HIDE DEF n, k
    <3> QED BY <1>0, <3>1, <3>2 DEF Named, TypeOK
  <2>2. CASE DeleteConcert(h)
    <3> DEFINE k == handler[h].concert
    <3>1. row' = [row EXCEPT ![k] = "gone"] /\ name' = name
      BY <2>2 DEF DeleteConcert
    <3> HIDE DEF k
    <3> QED BY <1>0, <3>1 DEF Named, TypeOK
  <2>3. CASE row' = row /\ name' = name
    BY <2>3 DEF Named
  <2> QED BY <2>1, <2>2, <2>3 DEF ServerStep, ReadRow, AddConcertItem, Refused, HandlerFails,
       serverVars
<1> QED BY <1>0, <1>1, <1>2 DEF Named, NamedBy

\* Passes carry the names between the databases and the server.
LEMMA NamedPass == ASSUME IInv, Named, NEW p \in Pass, SyncStep(p) PROVE Named'
<1> DEFINE d == DeviceOf[p]
           Rows == \A e \in Device, k \in Concert :
                     local[e][k].st = "live" => local[e][k].name \in Version
           Hands == \A h \in Handler :
                      handler[h].at \in {"create", "read", "save"} => handler[h].name \in Version
<1>0. /\ TypeOK /\ RememberedBy(p) /\ NamedBy(p) /\ Rows /\ Hands /\ d \in Device
      /\ \A k \in Concert : local[d][k] \in LocalRow /\ snap[p][k] \in LocalRow
                            /\ listed[p][k] \in Listing
  BY DEF IInv, Named, TypeOK
<1>q. /\ UNCHANGED <<row, name>>
      /\ \A q \in Pass : q # p => /\ pc'[q] = pc[q] /\ todo'[q] = todo[q]
                                  /\ snap'[q] = snap[q] /\ listed'[q] = listed[q]
  BY <1>0, OthersKept
<1>n. ASSUME Rows', NamedBy(p)', Hands' PROVE Named'
  <2>1. \A q \in Pass : NamedBy(q)'
    BY <1>q, <1>n DEF Named, NamedBy
  <2> QED BY <1>q, <1>n, <2>1 DEF Named
<1>h. ASSUME handler' = handler PROVE Hands'
  BY <1>0, <1>h
<1>r. ASSUME local' = local PROVE Rows'
  BY <1>0, <1>r
<1>d. ASSUME NEW c \in Concert, HardDeleteConcert(d, c) PROVE Rows'
  <2>1. NoRow.st # "live"
    BY DEF NoRow, Row
  <2> QED BY <1>0, <1>d, <2>1, NamedRows DEF HardDeleteConcert
<1>s. ASSUME NEW at, NEW c, NEW n, NEW i, Lost(p) \/ Delivered(p, at, c, n, i),
             at \in {"create", "read", "save"} => n \in Version
      PROVE  Hands'
  <2> DEFINE new == [at |-> at, concert |-> c, name |-> n, item |-> i, by |-> p]
  <2>1. handler' = handler \/ \E h \in Handler : handler' = [handler EXCEPT ![h] = new]
    BY <1>s DEF Lost, Delivered
  <2>2. new.at = at /\ new.name = n
    OBVIOUS
  <2> HIDE DEF new
  <2>3. \A g \in Handler : handler'[g] = new \/ handler'[g] = handler[g]
    BY <1>0, <2>1 DEF TypeOK
  <2> QED BY <1>0, <1>s, <2>2, <2>3
<1>o. ASSUME Orphan(p) PROVE Hands'
  <2>1. ASSUME NEW g \in Handler
        PROVE  handler'[g].at = handler[g].at /\ handler'[g].name = handler[g].name
    <3>1. handler[g] \in Call
      BY <1>0 DEF TypeOK
    <3>2. handler'[g] = IF handler[g].by = p THEN [handler[g] EXCEPT !.by = Nobody] ELSE handler[g]
      BY <1>o DEF Orphan
    <3> QED BY <3>1, <3>2 DEF Call
  <2> QED BY <1>0, <2>1
<1>e. ASSUME Return(p) PROVE NamedBy(p)'
  <2>1. /\ pc'[p] = "idle"
        /\ \A k \in Concert : snap'[p][k] = NoRow /\ listed'[p][k] = Unlisted
    BY <1>0, <1>e DEF Return, TypeOK
  <2>2. NoRow.st # "live" /\ ~Unlisted.in
    BY DEF NoRow, Row, Unlisted
  <2> QED BY <2>1, <2>2 DEF NamedBy
<1>g. ASSUME snap'[p] = GetConcerts(d), listed' = listed,
             \/ pc'[p] = "apply"
             \/ pc'[p] = "push" /\ \A k \in todo'[p] : GetConcerts(d)[k].st = "live"
      PROVE  NamedBy(p)'
  <2>1. NoRow.st # "live"
    BY DEF NoRow, Row
  <2>2. \A k \in Concert : GetConcerts(d)[k].st = "live" => GetConcerts(d)[k].name \in Version
    BY <1>0, <2>1 DEF GetConcerts
  <2> QED BY <1>0, <1>g, <2>2 DEF NamedBy
<1>k. ASSUME snap' = snap, todo'[p] \subseteq todo[p],
             \A k \in Concert : listed'[p][k].in => listed'[p][k].name \in Version,
             \/ pc'[p] \notin {"push", "updating", "creating", "items", "adding"}
             \/ pc[p] \in {"push", "updating", "creating", "items", "adding"}
      PROVE  NamedBy(p)'
  BY <1>0, <1>k DEF NamedBy
<1>l. ASSUME listed' = listed
      PROVE  \A k \in Concert : listed'[p][k].in => listed'[p][k].name \in Version
  BY <1>0, <1>l DEF NamedBy
<1>1. CASE Start(p) \/ FirstList(p) \/ PushReturns(p) \/ ItemReturns(p) \/ ItemsSent(p) \/ BeginPrune(p)
  <2>1. Rows' /\ Hands'
    BY <1>1, <1>h, <1>r DEF localVars, Start, FirstList, PushReturns, ItemReturns, ItemsSent,
       BeginPrune
  <2>2. /\ snap' = snap /\ listed' = listed
        /\ \/ pc'[p] \in {"tombs", "read", "prune"}
           \/ pc[p] \in {"updating", "creating", "items", "adding"} /\ todo' = todo
    BY <1>0, <1>1 DEF TypeOK, Start, FirstList, PushReturns, ItemReturns, ItemsSent, BeginPrune
  <2>3. NamedBy(p)'
    BY <1>0, <1>l, <2>2 DEF NamedBy
  <2> QED BY <1>n, <2>1, <2>3
<1>2. CASE DeleteReturns(p)
  <2>1. Hands' /\ snap' = snap /\ listed' = listed /\ pc'[p] = "tombs"
    BY <1>0, <1>2, <1>h DEF DeleteReturns, TypeOK
  <2>2. NamedBy(p)'
    BY <1>0, <1>l, <2>1 DEF NamedBy
  <2>3. cur[p] \in Concert
    BY <1>0, <1>2 DEF DeleteReturns, TypeOK, Waiting
  <2>4. Rows'
    BY <1>2, <1>d, <1>r, <2>3 DEF DeleteReturns
  <2> QED BY <1>n, <2>1, <2>2, <2>4
<1>3. CASE ReadLocal(p) \/ Reread(p)
  <2>1. Rows' /\ Hands'
    BY <1>3, <1>h, <1>r DEF localVars, ReadLocal, Reread
  <2>2. /\ snap'[p] = GetConcerts(d) /\ listed' = listed
        /\ \/ pc'[p] = "apply"
           \/ pc'[p] = "push" /\ \A k \in todo'[p] : GetConcerts(d)[k].st = "live"
    BY <1>0, <1>3 DEF TypeOK, ReadLocal, Reread
  <2> QED BY <1>n, <1>g, <2>1, <2>2
<1>4. CASE SecondList(p)
  <2>1. /\ snap' = snap /\ pc'[p] = "sums"
        /\ \A k \in Concert : listed'[p][k] =
             [Unlisted EXCEPT !.in = row[k] = "live",
                              !.name = IF row[k] = "live" THEN name[k] ELSE NoName]
    BY <1>0, <1>4 DEF TypeOK, SecondList
  <2>2. ASSUME NEW k \in Concert, listed'[p][k].in PROVE listed'[p][k].name \in Version
    <3>1. PICK n : listed'[p][k] = [Unlisted EXCEPT !.in = row[k] = "live", !.name = n]
                   /\ n = IF row[k] = "live" THEN name[k] ELSE NoName
      BY <2>1
    <3>2. \A b : /\ [Unlisted EXCEPT !.in = b, !.name = n].in = b
                 /\ [Unlisted EXCEPT !.in = b, !.name = n].name = n
      BY DEF Unlisted
    <3>3. listed'[p][k].in = (row[k] = "live")
      BY <3>1, <3>2, Zenon
    <3>4. listed'[p][k].name = n
      BY <3>1, <3>2, Zenon
    <3> QED BY <2>2, <3>1, <3>3, <3>4 DEF Named
  <2>3. NamedBy(p)'
    BY <1>0, <2>1, <2>2 DEF NamedBy
  <2> QED BY <1>4, <1>n, <1>h, <1>r, <2>3 DEF localVars, SecondList
<1>5. CASE ListChecksums(p) \/ ListItems(p)
  <2>1. snap' = snap /\ pc'[p] \in {"rows", "reread"}
    BY <1>0, <1>5 DEF TypeOK, ListChecksums, ListItems
  <2>2. \A k \in Concert : \/ listed'[p][k] = listed[p][k]
                          \/ /\ listed[p][k].in
                             /\ \/ listed'[p][k] = [listed[p][k] EXCEPT !.sum = Checksum(k)]
                                \/ listed'[p][k] = [listed[p][k] EXCEPT !.items = items[k]]
    <3>1. CASE ListChecksums(p)
      BY <1>0, <3>1 DEF TypeOK, ListChecksums
    <3>2. CASE ListItems(p)
      BY <1>0, <3>2 DEF TypeOK, ListItems
    <3> QED BY <1>5, <3>1, <3>2
  <2>3. ASSUME NEW k \in Concert, listed'[p][k].in PROVE listed'[p][k].name \in Version
    <3>1. CASE listed'[p][k] = listed[p][k]
      BY <1>0, <2>3, <3>1 DEF NamedBy
    <3>2. CASE listed'[p][k] # listed[p][k]
      <4>1. listed[p][k].in /\ listed[p][k] \in Listing
        BY <1>0, <2>2, <3>2
      <4>2. \A l \in Listing : \A x :
              [l EXCEPT !.sum = x].name = l.name /\ [l EXCEPT !.items = x].name = l.name
        BY DEF Listing
      <4>3. PICK x : \/ listed'[p][k] = [listed[p][k] EXCEPT !.sum = x]
                     \/ listed'[p][k] = [listed[p][k] EXCEPT !.items = x]
        BY <2>2, <3>2
      <4>4. listed'[p][k].name = listed[p][k].name
        <5>1. /\ [listed[p][k] EXCEPT !.sum = x].name = listed[p][k].name
              /\ [listed[p][k] EXCEPT !.items = x].name = listed[p][k].name
          BY <4>1, <4>2
        <5> QED BY <4>3, <5>1
      <4> QED BY <1>0, <4>1, <4>4 DEF NamedBy
    <3> QED BY <3>1, <3>2
  <2>4. NamedBy(p)'
    BY <1>0, <2>1, <2>3 DEF NamedBy
  <2> QED BY <1>5, <1>n, <1>h, <1>r, <2>4 DEF localVars, ListChecksums, ListItems
<1>6. CASE ListFails(p) \/ EndPass(p) \/ Abort(p)
  BY <1>6, <1>n, <1>h, <1>r, <1>o, <1>e DEF localVars, ListFails, EndPass, Abort
<1>7. CASE GiveUp(p)
  <2>1. NamedBy(p)'
    BY <1>0, <1>7, <1>k, <1>l DEF GiveUp
  <2> QED BY <1>7, <1>n, <1>r, <1>o, <2>1 DEF localVars, GiveUp
<1>8. ASSUME NEW c \in Concert, SendDelete(p, c) \/ SendUpdate(p, c) \/ SendCreate(p, c)
      PROVE  Named'
  <2>1. /\ Rows' /\ snap' = snap /\ listed' = listed
        /\ c \in todo[p] /\ todo'[p] = todo[p] \ {c}
        /\ \/ pc'[p] = "deleting"
           \/ pc[p] = "push"
    BY <1>0, <1>8, <1>r DEF TypeOK, localVars, SendDelete, SendUpdate, SendCreate, Request
  <2>2. NamedBy(p)'
    BY <1>k, <1>l, <2>1
  <2>3. Hands'
    <3>1. CASE SendDelete(p, c)
      BY <3>1, <1>s DEF SendDelete
    <3>2. CASE SendUpdate(p, c) \/ SendCreate(p, c)
      <4>1. snap[p][c].name \in Version
        BY <1>0, <2>1, <3>2 DEF NamedBy, SendUpdate, SendCreate, Request
      <4> QED BY <1>s, <3>2, <4>1 DEF SendUpdate, SendCreate
    <3> QED BY <1>8, <3>1, <3>2
  <2> QED BY <1>n, <2>1, <2>2, <2>3
<1>9. ASSUME NEW i \in Item, SendItem(p, i) PROVE Named'
  <2>1. /\ Rows' /\ snap' = snap /\ listed' = listed /\ todo' = todo /\ pc[p] = "items"
    BY <1>0, <1>9, <1>r DEF TypeOK, localVars, SendItem
  <2>2. NamedBy(p)'
    BY <1>k, <1>l, <2>1
  <2>3. Hands'
    BY <1>9, <1>s DEF SendItem
  <2> QED BY <1>n, <2>1, <2>2, <2>3
<1>10. ASSUME NEW c \in Concert, Apply(p, c) PROVE Named'
  <2>1. /\ pc[p] = "apply" /\ pc' = pc /\ snap' = snap /\ listed' = listed
        /\ c \in todo[p] /\ todo'[p] \subseteq todo[p] /\ handler' = handler
    BY <1>0, <1>10 DEF TypeOK, Apply
  <2>2. NamedBy(p)'
    BY <1>k, <1>l, <2>1
  <2>3. listed[p][c].name \in Version
    BY <1>0, <2>1 DEF RememberedBy, NamedBy
  <2>4. Rows'
    <3>1. CASE SyncConcertFromServer(d, c, listed[p][c])
      <4> DEFINE r == Row("live", listed[p][c].name, listed[p][c].items, listed[p][c].sum, "pull")
      <4>1. r.name \in Version
        BY <2>3 DEF Row
      <4>2. local' = [local EXCEPT ![d][c] = r]
        BY <3>1 DEF SyncConcertFromServer
      <4> HIDE DEF r
      <4> QED BY <1>0, <4>1, <4>2, NamedRows
    <3>2. CASE UpdateConcertChecksum(d, c, listed[p][c].sum)
      <4> DEFINE sum == listed[p][c].sum
                 r == [local[d][c] EXCEPT !.sum = sum, !.via = "push"]
      <4>1. r.st = local[d][c].st /\ r.name = local[d][c].name
        BY <1>0 DEF LocalRow
      <4>2. CASE local[d][c].st # "none"
        <5>1. local' = [local EXCEPT ![d][c] = r]
          BY <1>0, <3>2, <4>2 DEF UpdateConcertChecksum, TypeOK
        <5> HIDE DEF r, sum
        <5> QED BY <1>0, <4>1, <5>1, NamedRows
      <4>3. CASE local[d][c].st = "none"
        BY <3>2, <4>3, <1>r DEF UpdateConcertChecksum
      <4> QED BY <4>2, <4>3
    <3> QED BY <1>10, <1>r, <3>1, <3>2 DEF Apply
  <2> QED BY <1>n, <1>h, <2>1, <2>2, <2>4
<1>11. ASSUME NEW c \in Concert, Prune(p, c) PROVE Named'
  <2>1. /\ pc[p] = "prune" /\ pc' = pc /\ snap' = snap /\ listed' = listed
        /\ todo'[p] \subseteq todo[p] /\ handler' = handler /\ HardDeleteConcert(d, c)
    BY <1>0, <1>11 DEF TypeOK, Prune
  <2> QED BY <1>n, <1>h, <1>d, <1>k, <1>l, <2>1
<1> QED BY <1>1, <1>2, <1>3, <1>4, <1>5, <1>6, <1>7, <1>8, <1>9, <1>10, <1>11 DEF SyncStep

\* What is live anywhere has a name, always.
THEOREM NamesLast == Spec => []Named
<1>1. Init => Named
  <2>1. NoRow.st = "none" /\ ~Unlisted.in
    BY DEF NoRow, Row, Unlisted
  <2> QED BY <2>1 DEF Init, Named, NamedBy, Idle
<1>2. IInv /\ Named /\ [Next]_vars => Named'
  <2> SUFFICES ASSUME IInv, Named, [Next]_vars PROVE Named'
    OBVIOUS
  <2>1. CASE UNCHANGED vars
    BY <2>1 DEF vars, localVars, serverVars, passVars, Named, NamedBy
  <2>2. CASE User
    BY <2>2, NamedUser DEF IInv
  <2> QED BY <2>1, <2>2, NamedServer, NamedPass DEF Next
<1> QED BY <1>1, <1>2, Invariance, PTL DEF Spec

\* A pass forgets what it has pushed when it ends.
LEMMA FreshStep == ASSUME IInv, Fresh, [Next]_vars PROVE Fresh'
<1>0. TypeOK
  BY DEF IInv
<1>1. ASSUME pc' = pc, pushed' = pushed PROVE Fresh'
  BY <1>1 DEF Fresh
<1>2. CASE User
  BY <1>1, <1>2 DEF User, AddConcert, EditConcert, MarkConcertDeleted, passVars
<1>3. ASSUME NEW h \in Handler, ServerStep(h) PROVE Fresh'
  BY <1>1, <1>3 DEF ServerStep, CreateConcert, ReadRow, SaveRow, AddConcertItem, DeleteConcert,
     Refused, HandlerFails, passVars
<1>4. ASSUME NEW p \in Pass, SyncStep(p) PROVE Fresh'
  <2>r. ASSUME Return(p) PROVE Fresh'
    <3>1. /\ pushed'[p] = {}
          /\ \A q \in Pass : q # p => pc'[q] = pc[q] /\ pushed'[q] = pushed[q]
      BY <1>0, <2>r DEF Return, TypeOK
    <3> QED BY <3>1 DEF Fresh
  <2>g. ASSUME pc'[p] # "idle",
               \A q \in Pass : q # p => pc'[q] = pc[q] /\ pushed'[q] = pushed[q]
        PROVE  Fresh'
    BY <2>g DEF Fresh
  <2>1. CASE ListFails(p) \/ EndPass(p) \/ Abort(p)
    BY <2>1, <2>r DEF ListFails, EndPass, Abort
  <2>2. CASE \/ Start(p) \/ DeleteReturns(p) \/ FirstList(p) \/ ReadLocal(p)
             \/ PushReturns(p) \/ ItemReturns(p) \/ ItemsSent(p)
    BY <1>0, <2>2, <2>g DEF TypeOK, Start, DeleteReturns, FirstList, ReadLocal, PushReturns,
       ItemReturns, ItemsSent
  <2>3. CASE \/ SecondList(p) \/ ListChecksums(p) \/ ListItems(p) \/ Reread(p) \/ BeginPrune(p)
             \/ GiveUp(p)
    BY <1>0, <2>3, <2>g DEF TypeOK, Waiting, SecondList, ListChecksums, ListItems, Reread,
       BeginPrune, GiveUp
  <2>4. ASSUME NEW c \in Concert,
               SendDelete(p, c) \/ SendUpdate(p, c) \/ SendCreate(p, c) \/ Apply(p, c) \/ Prune(p, c)
        PROVE  Fresh'
    BY <1>0, <2>4, <2>g DEF TypeOK, Request, SendDelete, SendUpdate, SendCreate, Apply, Prune
  <2>5. ASSUME NEW i \in Item, SendItem(p, i) PROVE Fresh'
    BY <1>0, <2>5, <2>g DEF TypeOK, SendItem
  <2> QED BY <1>4, <2>1, <2>2, <2>3, <2>4, <2>5 DEF SyncStep
<1>5. CASE UNCHANGED vars
  BY <1>1, <1>5 DEF vars, passVars
<1> QED BY <1>2, <1>3, <1>4, <1>5 DEF Next

\* A pass that nobody has disturbed yet has achieved what its stage says.
THEOREM CalmInvariance == CalmSpec => []CalmIInv
<1>1. CalmInit => CalmIInv /\ Made /\ Confirmed
  <2>1. NoRow.st = "none"
    BY DEF NoRow, Row
  <2> QED BY <2>1 DEF CalmInit, Init, CalmIInv, Fresh, Made, Bound, Confirmed, Idle
<1>2. IInv /\ Made /\ CalmIInv /\ [CalmNext]_calmVars => CalmIInv'
  <2> SUFFICES ASSUME IInv, Made, CalmIInv, [CalmNext]_calmVars PROVE CalmIInv'
    OBVIOUS
  <2>1. Fresh /\ Fresh'
    BY CalmRefines, FreshStep DEF CalmIInv
  <2>2. ASSUME NEW p \in Pass, Start(p), calm' = p PROVE CalmIInv'
    <3>1. pc[p] = "idle" /\ Deletes(p) /\ pushed[p] = {}
      BY <2>1, <2>2 DEF Start, Deletes, Fresh
    <3>2. Progress(p)'
      BY <2>2, <3>1, CalmDeletes
    <3> QED BY <2>1, <2>2, <3>2 DEF CalmIInv
  <2>3. ASSUME NEW p \in Pass, calm = p, CalmStep(p), ~Start(p), calm' = p PROVE CalmIInv'
    <3>1. Progress(p)
      BY <2>3 DEF CalmIInv
    <3>2. Progress(p)'
      BY <2>3, <3>1, CalmPass, CalmServer DEF CalmStep
    <3> QED BY <2>1, <2>3, <3>2 DEF CalmIInv
  <2>4. CASE calm' = Nobody
    BY <2>1, <2>4 DEF CalmIInv
  <2>5. CASE UNCHANGED calmVars
    <3>1. UNCHANGED <<local, row, name, items, handler, pc, todo, cur, reply, remote, listed, snap,
                      pushed, calm>>
      BY <2>5 DEF calmVars, vars, localVars, serverVars, passVars
    <3>2. ASSUME NEW p \in Pass, Progress(p) PROVE Progress(p)'
      <4>1. (Deletes(p) /\ Pushes(p))'
        BY <3>1, <3>2 DEF Progress, Deletes, Pushes, Mine, Unsent
      <4>2. (Lists(p) /\ Pulls(p) /\ Serves(p))'
        BY <3>1, <3>2 DEF Progress, Lists, Pulls, Serves, Mine, Unsent, Settled, Checksum, GetConcerts
      <4> QED BY <4>1, <4>2 DEF Progress
    <3> QED BY <2>1, <3>1, <3>2 DEF CalmIInv
  <2> QED BY <2>2, <2>3, <2>4, <2>5 DEF CalmNext, CalmIInv
<1>3. IInv /\ Made /\ Confirmed /\ [Next]_vars => Made' /\ Confirmed'
  BY MadeStays
<1> QED BY <1>1, <1>2, <1>3, CalmRefines, Invariance, PTL DEF Spec, CalmSpec

\* Whatever earlier passes, aborted anywhere, lost calls and late handlers have
\* left behind, one pass that runs undisturbed makes its device and the server
\* agree, although its last loop goes by a list older than its own uploads
\* (SynchronizeConcerts).
THEOREM UndisturbedPassAgrees == CalmSpec => []CalmPassAgrees
<1>1. Named /\ CalmIInv => CalmPassAgrees
  <2> SUFFICES ASSUME Named, CalmIInv, NEW p \in Pass, calm = p, pc[p] = "prune", todo[p] = {},
                      NEW c \in Concert
               PROVE  LET mine == GetConcerts(DeviceOf[p])[c] IN
                      /\ row[c] = "live" =>
                           mine.st = "live" /\ mine.sum = Checksum(c) /\ mine.sum # NoSum
                      /\ row[c] # "live" => mine.sum = NoSum
                      /\ row[c] = "none" => mine.st = "none"
    BY DEF CalmPassAgrees, Agrees
  <2>1. Lists(p) /\ Pulls(p)
    BY DEF CalmIInv, Progress
  <2>2. /\ row[c] = "live" => Settled(p, c)
        /\ row[c] # "live" /\ Mine(p, c).st = "live" => Unsent(p, c)
        /\ row[c] = "none" => ~Unsent(p, c)
    BY <2>1 DEF Pulls, Lists
  <2>3. row[c] = "live" => Checksum(c) # NoSum
    <3>1. ASSUME row[c] = "live" PROVE Checksum(c).name # NoSum.name
      BY <3>1 DEF Named, Checksum, NoSum
    <3> QED BY <3>1
  <2>4. NoRow.st = "none" /\ NoRow.sum = NoSum
    BY DEF NoRow, Row
  <2>5. GetConcerts(DeviceOf[p])[c] = IF Mine(p, c).st = "live" THEN Mine(p, c) ELSE NoRow
    BY DEF GetConcerts, Mine
  <2> QED BY <2>2, <2>3, <2>4, <2>5 DEF Settled, Unsent
<1>2. CalmSpec => []Named
  BY CalmRefines, NamesLast, PTL DEF Spec, CalmSpec
<1> QED BY <1>1, <1>2, CalmInvariance, PTL
=============================================================================
