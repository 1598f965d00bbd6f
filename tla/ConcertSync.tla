---------------------------- MODULE ConcertSync ----------------------------
(***************************************************************************)
(* Synchronisation of one account's concerts between the sqlite databases  *)
(* of its devices and the cloud: client/network/sync.go against the        *)
(* concert tables of client/localdb and ConcertService.                    *)
(*                                                                         *)
(* A concert is edited as a whole: every save writes a new version of its  *)
(* name, place and time and replaces its set list.  An item is known by    *)
(* the version that wrote it and its position there.  The server gives     *)
(* every item it is sent a row of its own, so a set list is a bag.         *)
(*                                                                         *)
(* The checksum of a concert is a hash of its name and items: the pair     *)
(* itself.  The empty checksum, NoSum, marks a row that is not synced.     *)
(***************************************************************************)
EXTENDS Naturals

CONSTANTS
  Device,     \* the devices logged in to the account
  Pass,       \* the sync passes that may be under way at the same time
  DeviceOf,   \* the device each pass runs on
  Concert,    \* concert ids
  Version,    \* what users save, each a save of its own
  Length,     \* Length[v]: the number of items in v's set list
  MaxCopies,  \* bound: an item stored more often counts as stored so often
  Handler,    \* the handlers the server runs at the same time
  Nobody,     \* no pass, no device
  NoName,     \* no version
  NoConcert   \* no concert

Item == UNION {{v} \X (1..Length[v]) : v \in Version}

ASSUME ConcertSyncAssumption ==
  /\ DeviceOf \in [Pass -> Device]
  /\ Length \in [Version -> Nat \ {0}]
  /\ MaxCopies \in Nat \ {0}
  /\ Nobody \notin Pass \cup Device
  /\ NoName \notin Version
  /\ NoConcert \notin Concert

VARIABLES
  origin,     \* origin[c]: the device whose AddConcert minted c
  local,      \* local[d][c]: the rows of c in concerts and concert_items
  row,        \* row[c]: the server's row
  name,       \* name[c]: its name, location and start_time columns
  items,      \* items[c]: the concert_items rows of c
  handler,    \* handler[h]: the call a server handler is working on
  pc,         \* pc[p]: where a pass is
  todo,       \* todo[p]: what the pass's current loop has left to visit
  cur,        \* cur[p]: the concert whose push is under way
  left,       \* left[p]: its items that are still to be sent
  reply,      \* reply[p]: what the outstanding call returned
  remote,     \* remote[p]: remoteMap, the keys of the first list
  listed,     \* listed[p]: the second list
  snap,       \* snap[p]: the last GetConcerts result
  pushed,     \* pushed[p]: pushedConcerts
  saved,      \* history: the versions users have saved
  served,     \* history: the versions the server's row has had
  trashed     \* history: the concerts some user confirmed deleting

localVars  == <<origin, local, saved, trashed>>
serverVars == <<row, name, items, served>>
passVars   == <<pc, todo, cur, left, reply, remote, listed, snap, pushed>>
vars       == <<localVars, serverVars, handler, passVars>>

-----------------------------------------------------------------------------
(* Types *)

Bag      == [Item -> 0..MaxCopies]
NoItems  == [i \in Item |-> 0]
ListOf(v) == [i \in Item |-> IF i[1] = v THEN 1 ELSE 0]
Content  == [name : Version \cup {NoName}, items : Bag]
NoSum    == [name |-> NoName, items |-> NoItems]

\* "via" is history: whether a pull or a push set the checksum.
LocalRow == [st : {"none", "live", "tomb"}, name : Version \cup {NoName},
             items : Bag, sum : Content, via : {"edit", "push", "pull"}]
Row(st, n, is, sum, via) ==
  [st |-> st, name |-> n, items |-> is, sum |-> sum, via |-> via]
NoRow == Row("none", NoName, NoItems, NoSum, "edit")

Listing  == [in : BOOLEAN, name : Version \cup {NoName}, items : Bag, sum : Content]
Unlisted == [in |-> FALSE, name |-> NoName, items |-> NoItems, sum |-> NoSum]

Call == [at : {"idle", "create", "read", "save", "item", "delete"},
         concert : Concert \cup {NoConcert}, name : Version \cup {NoName},
         item : Item \cup {NoName}, by : Pass \cup {Nobody}]
Idle == [at |-> "idle", concert |-> NoConcert, name |-> NoName,
         item |-> NoName, by |-> Nobody]

Stages  == {"idle", "tombs", "deleting", "read", "push", "updating", "creating",
            "items", "adding", "sums", "rows", "reread", "apply", "prune"}
Waiting == {"deleting", "updating", "creating", "adding"}

TypeOK ==
  /\ origin \in [Concert -> Device \cup {Nobody}]
  /\ local \in [Device -> [Concert -> LocalRow]]
  /\ row \in [Concert -> {"none", "live", "gone"}]
  /\ name \in [Concert -> Version \cup {NoName}]
  /\ items \in [Concert -> Bag]
  /\ handler \in [Handler -> Call]
  /\ pc \in [Pass -> Stages]
  /\ todo \in [Pass -> SUBSET Concert]
  /\ cur \in [Pass -> Concert \cup {NoConcert}]
  /\ \A p \in Pass : pc[p] \in Waiting \cup {"items"} => cur[p] \in Concert
  /\ left \in [Pass -> Bag]
  /\ reply \in [Pass -> {"none", "ok", "error"}]
  /\ remote \in [Pass -> SUBSET Concert]
  /\ listed \in [Pass -> [Concert -> Listing]]
  /\ snap \in [Pass -> [Concert -> LocalRow]]
  /\ pushed \in [Pass -> SUBSET Concert]
  /\ saved \in SUBSET Version
  /\ served \in [Concert -> SUBSET (Version \cup {NoName})]
  /\ trashed \in SUBSET Concert

Init ==
  /\ origin = [c \in Concert |-> Nobody]
  /\ local = [d \in Device |-> [c \in Concert |-> NoRow]]
  /\ row = [c \in Concert |-> "none"]
  /\ name = [c \in Concert |-> NoName]
  /\ items = [c \in Concert |-> NoItems]
  /\ handler = [h \in Handler |-> Idle]
  /\ pc = [p \in Pass |-> "idle"]
  /\ todo = [p \in Pass |-> {}]
  /\ cur = [p \in Pass |-> NoConcert]
  /\ left = [p \in Pass |-> NoItems]
  /\ reply = [p \in Pass |-> "none"]
  /\ remote = [p \in Pass |-> {}]
  /\ listed = [p \in Pass |-> [c \in Concert |-> Unlisted]]
  /\ snap = [p \in Pass |-> [c \in Concert |-> NoRow]]
  /\ pushed = [p \in Pass |-> {}]
  /\ saved = {}
  /\ served = [c \in Concert |-> {}]
  /\ trashed = {}

-----------------------------------------------------------------------------
(* The local database, client/localdb/manager.go *)

\* GetConcerts: the rows that are not marked deleted, with their items.
GetConcerts(d) ==
  [c \in Concert |-> IF local[d][c].st = "live" THEN local[d][c] ELSE NoRow]

GetDeletedConcertIDsOrMissing(d) == {c \in Concert : local[d][c].st # "live"}

GetDeletedConcertIDs(d) == {c \in Concert : local[d][c].st = "tomb"}

HardDeleteConcert(d, c) == local' = [local EXCEPT ![d][c] = NoRow]

\* UpdateConcertChecksum: the checksum column of the row, if there is one.
UpdateConcertChecksum(d, c, sum) ==
  local' = IF local[d][c].st = "none" THEN local
           ELSE [local EXCEPT ![d][c].sum = sum, ![d][c].via = "push"]

\* Mutant: the items of the row stay as they were.
SyncConcertFromServerRowOnly(d, c, l) ==
  local' = [local EXCEPT ![d][c] = Row("live", l.name, @.items, l.sum, "pull")]

\* SyncConcertFromServer: an upsert that clears is_deleted and replaces the
\* items.
SyncConcertFromServer(d, c, l) ==
  local' = [local EXCEPT ![d][c] = Row("live", l.name, l.items, l.sum, "pull")]

(* The user, client/ui/concert_setup.go and concert.go *)

\* Mutant: a new concert gets its own hash at once.
AddConcertHashed(d, c, v) ==
  /\ origin[c] = Nobody /\ v \notin saved
  /\ origin' = [origin EXCEPT ![c] = d]
  /\ saved' = saved \cup {v}
  /\ local' = [local EXCEPT ![d][c] =
       Row("live", v, ListOf(v), [name |-> v, items |-> ListOf(v)], "edit")]
  /\ UNCHANGED <<trashed, serverVars, handler, passVars>>

AddConcert(d, c, v) ==
  /\ origin[c] = Nobody /\ v \notin saved
  /\ origin' = [origin EXCEPT ![c] = d]
  /\ saved' = saved \cup {v}
  /\ local' = [local EXCEPT ![d][c] = Row("live", v, ListOf(v), NoSum, "edit")]
  /\ UNCHANGED <<trashed, serverVars, handler, passVars>>

\* UpdateConcert (local) empties the checksum and rewrites the items.
EditConcert(d, c, v) ==
  /\ local[d][c].st = "live" /\ v \notin saved
  /\ saved' = saved \cup {v}
  /\ local' = [local EXCEPT ![d][c] = Row("live", v, ListOf(v), NoSum, "edit")]
  /\ UNCHANGED <<origin, trashed, serverVars, handler, passVars>>

MarkConcertDeleted(d, c) ==
  /\ local[d][c].st = "live"
  /\ local' = [local EXCEPT ![d][c].st = "tomb", ![d][c].sum = NoSum]
  /\ trashed' = trashed \cup {c}
  /\ UNCHANGED <<origin, saved, serverVars, handler, passVars>>

-----------------------------------------------------------------------------
(* Calls *)

\* The pass of handler h's caller, if it still waits, receives r.
Answer(h, r) ==
  /\ handler' = [handler EXCEPT ![h] = Idle]
  /\ reply' = IF handler[h].by = Nobody THEN reply
              ELSE [reply EXCEPT ![handler[h].by] = r]

\* Pass p calls the server: the request is lost, or a handler takes it up.
Lost(p) ==
  /\ reply' = [reply EXCEPT ![p] = "error"]
  /\ handler' = handler

Delivered(p, at, c, n, i) ==
  /\ \E h \in Handler :
       /\ handler[h] = Idle
       /\ handler' = [handler EXCEPT ![h] =
            [at |-> at, concert |-> c, name |-> n, item |-> i, by |-> p]]
  /\ reply' = [reply EXCEPT ![p] = "none"]

\* The connection breaks under a waiting call: the pass sees an error, the
\* handler carries on.
Orphan(p) ==
  handler' = [h \in Handler |->
                IF handler[h].by = p THEN [handler[h] EXCEPT !.by = Nobody]
                ELSE handler[h]]

GiveUp(p) ==
  /\ pc[p] \in Waiting
  /\ reply[p] = "none"
  /\ reply' = [reply EXCEPT ![p] = "error"]
  /\ Orphan(p)
  /\ UNCHANGED <<localVars, serverVars, pc, todo, cur, left, remote, listed, snap, pushed>>

-----------------------------------------------------------------------------
(* ConcertService, server/internal/services/concert_service.go *)

\* CreateConcert: one transaction; the client sends no items with it.
CreateConcert(h) ==
  LET c == handler[h].concert IN
  /\ handler[h].at = "create"
  /\ row[c] = "none"
  /\ row' = [row EXCEPT ![c] = "live"]
  /\ name' = [name EXCEPT ![c] = handler[h].name]
  /\ served' = [served EXCEPT ![c] = @ \cup {handler[h].name}]
  /\ Answer(h, "ok")
  /\ UNCHANGED <<localVars, items, pc, todo, cur, left, remote, listed, snap, pushed>>

\* UpdateConcert: First, then Save of the row that was read.
ReadRow(h) ==
  /\ handler[h].at = "read"
  /\ row[handler[h].concert] = "live"
  /\ handler' = [handler EXCEPT ![h].at = "save"]
  /\ UNCHANGED <<localVars, serverVars, passVars>>

\* A request without items leaves the items as they are.  gorm's Save
\* inserts with ON CONFLICT UPDATE when its UPDATE finds no row that is not
\* soft-deleted, so it also revives a concert deleted meanwhile.
SaveRow(h) ==
  LET c == handler[h].concert IN
  /\ handler[h].at = "save"
  /\ row' = [row EXCEPT ![c] = "live"]
  /\ name' = [name EXCEPT ![c] = handler[h].name]
  /\ served' = [served EXCEPT ![c] = @ \cup {handler[h].name}]
  /\ Answer(h, "ok")
  /\ UNCHANGED <<localVars, items, pc, todo, cur, left, remote, listed, snap, pushed>>

\* AddConcertItem: a row with an id of its own, whatever is there already.
\* The foreign key is content with a soft-deleted concert.
AddConcertItem(h) ==
  LET c == handler[h].concert
      i == handler[h].item
  IN
  /\ handler[h].at = "item"
  /\ row[c] # "none"
  /\ items' = [items EXCEPT ![c][i] = IF @ < MaxCopies THEN @ + 1 ELSE @]
  /\ Answer(h, "ok")
  /\ UNCHANGED <<localVars, row, name, served,
                 pc, todo, cur, left, remote, listed, snap, pushed>>

\* DeleteConcert
DeleteConcert(h) ==
  LET c == handler[h].concert IN
  /\ handler[h].at = "delete"
  /\ row[c] = "live"
  /\ row' = [row EXCEPT ![c] = "gone"]
  /\ Answer(h, "ok")
  /\ UNCHANGED <<localVars, name, items, served,
                 pc, todo, cur, left, remote, listed, snap, pushed>>

\* "concert not found", or a violated primary key.
Refused(h) ==
  LET c == handler[h].concert IN
  /\ \/ handler[h].at \in {"read", "delete"} /\ row[c] # "live"
     \/ handler[h].at = "create" /\ row[c] # "none"
  /\ Answer(h, "error")
  /\ UNCHANGED <<localVars, serverVars, pc, todo, cur, left, remote, listed, snap, pushed>>

\* A database error, an item whose score the server does not have, or a
\* restart of the server ends the handler.
HandlerFails(h) ==
  /\ handler[h].at # "idle"
  /\ Answer(h, "error")
  /\ UNCHANGED <<localVars, serverVars, pc, todo, cur, left, remote, listed, snap, pushed>>

\* calculateConcertChecksum; an error, of a row deleted meanwhile, gives "".
Checksum(c) ==
  IF row[c] = "live" THEN [name |-> name[c], items |-> items[c]] ELSE NoSum

-----------------------------------------------------------------------------
(* SynchronizeConcerts, client/network/sync.go *)

\* The pass ends, or dies with the app or its session, and forgets everything.
Return(p) ==
  /\ pc' = [pc EXCEPT ![p] = "idle"]
  /\ todo' = [todo EXCEPT ![p] = {}]
  /\ cur' = [cur EXCEPT ![p] = NoConcert]
  /\ left' = [left EXCEPT ![p] = NoItems]
  /\ reply' = [reply EXCEPT ![p] = "none"]
  /\ remote' = [remote EXCEPT ![p] = {}]
  /\ listed' = [listed EXCEPT ![p] = [c \in Concert |-> Unlisted]]
  /\ snap' = [snap EXCEPT ![p] = [c \in Concert |-> NoRow]]
  /\ pushed' = [pushed EXCEPT ![p] = {}]

Abort(p) ==
  /\ pc[p] # "idle"
  /\ Return(p)
  /\ Orphan(p)
  /\ UNCHANGED <<localVars, serverVars>>

Start(p) ==
  /\ pc[p] = "idle"
  /\ pc' = [pc EXCEPT ![p] = "tombs"]
  /\ todo' = [todo EXCEPT ![p] = GetDeletedConcertIDs(DeviceOf[p])]
  /\ UNCHANGED <<localVars, serverVars, handler,
                 cur, left, reply, remote, listed, snap, pushed>>

\* The pass leaves stage "from" to wait for its call about c.
Request(p, from, c, to) ==
  /\ pc[p] = from
  /\ c \in todo[p]
  /\ pc' = [pc EXCEPT ![p] = to]
  /\ todo' = [todo EXCEPT ![p] = @ \ {c}]
  /\ cur' = [cur EXCEPT ![p] = c]
  /\ UNCHANGED <<localVars, serverVars, remote, listed, snap, pushed>>

SendDelete(p, c) ==
  /\ Request(p, "tombs", c, "deleting")
  /\ Lost(p) \/ Delivered(p, "delete", c, NoName, NoName)
  /\ left' = left

\* The tombstone goes only when the server confirmed the deletion.
DeleteReturns(p) ==
  /\ pc[p] = "deleting" /\ reply[p] # "none"
  /\ IF reply[p] = "ok" THEN HardDeleteConcert(DeviceOf[p], cur[p]) ELSE local' = local
  /\ pc' = [pc EXCEPT ![p] = "tombs"]
  /\ cur' = [cur EXCEPT ![p] = NoConcert]
  /\ reply' = [reply EXCEPT ![p] = "none"]
  /\ UNCHANGED <<origin, saved, trashed, serverVars, handler,
                 todo, left, remote, listed, snap, pushed>>

\* Only whether a concert is listed is used of the first list, but also
\* after the push and at the very end.
FirstList(p) ==
  /\ pc[p] = "tombs" /\ todo[p] = {}
  /\ remote' = [remote EXCEPT ![p] = {c \in Concert : row[c] = "live"}]
  /\ pc' = [pc EXCEPT ![p] = "read"]
  /\ UNCHANGED <<localVars, serverVars, handler,
                 todo, cur, left, reply, listed, snap, pushed>>

\* Either list, or GetConcerts between them, fails: SynchronizeConcerts
\* returns the error.
ListFails(p) ==
  /\ pc[p] \in {"tombs", "read", "push", "sums", "rows"} /\ todo[p] = {}
  /\ Return(p)
  /\ UNCHANGED <<localVars, serverVars, handler>>

ReadLocal(p) ==
  LET mine == GetConcerts(DeviceOf[p]) IN
  /\ pc[p] = "read"
  /\ snap' = [snap EXCEPT ![p] = mine]
  /\ todo' = [todo EXCEPT ![p] =
       {c \in Concert : mine[c].st = "live" /\ mine[c].sum = NoSum}]
  /\ pc' = [pc EXCEPT ![p] = "push"]
  /\ UNCHANGED <<localVars, serverVars, handler,
                 cur, left, reply, remote, listed, pushed>>

\* A dirty concert is updated if the server listed it, created otherwise.
SendUpdate(p, c) ==
  /\ c \in remote[p]
  /\ Request(p, "push", c, "updating")
  /\ Lost(p) \/ Delivered(p, "read", c, snap[p][c].name, NoName)
  /\ left' = left

SendCreate(p, c) ==
  /\ c \notin remote[p]
  /\ Request(p, "push", c, "creating")
  /\ Lost(p) \/ Delivered(p, "create", c, snap[p][c].name, NoName)
  /\ left' = left

\* On success the items follow; an error skips the concert.
PushReturns(p) ==
  /\ pc[p] \in {"updating", "creating"} /\ reply[p] # "none"
  /\ IF reply[p] = "ok"
     THEN /\ pc' = [pc EXCEPT ![p] = "items"]
          /\ left' = [left EXCEPT ![p] = snap[p][cur[p]].items]
          /\ cur' = cur
     ELSE /\ pc' = [pc EXCEPT ![p] = "push"]
          /\ cur' = [cur EXCEPT ![p] = NoConcert]
          /\ left' = left
  /\ reply' = [reply EXCEPT ![p] = "none"]
  /\ UNCHANGED <<localVars, serverVars, handler, todo, remote, listed, snap, pushed>>

\* Every item of the snapshot is sent, by position.
SendItem(p, i) ==
  /\ pc[p] = "items"
  /\ left[p][i] > 0
  /\ \A j \in Item : left[p][j] > 0 => i[2] <= j[2]
  /\ left' = [left EXCEPT ![p][i] = @ - 1]
  /\ pc' = [pc EXCEPT ![p] = "adding"]
  /\ Lost(p) \/ Delivered(p, "item", cur[p], NoName, i)
  /\ UNCHANGED <<localVars, serverVars, todo, cur, remote, listed, snap, pushed>>

\* An item that could not be added is only logged.
ItemReturns(p) ==
  /\ pc[p] = "adding" /\ reply[p] # "none"
  /\ pc' = [pc EXCEPT ![p] = "items"]
  /\ reply' = [reply EXCEPT ![p] = "none"]
  /\ UNCHANGED <<localVars, serverVars, handler,
                 todo, cur, left, remote, listed, snap, pushed>>

ItemsSent(p) ==
  /\ pc[p] = "items" /\ left[p] = NoItems
  /\ pc' = [pc EXCEPT ![p] = "push"]
  /\ pushed' = [pushed EXCEPT ![p] = @ \cup {cur[p]}]
  /\ cur' = [cur EXCEPT ![p] = NoConcert]
  /\ UNCHANGED <<localVars, serverVars, handler, todo, left, reply, remote, listed, snap>>

\* The second ListMyConcerts runs one query after another, in no
\* transaction: the concert rows, their checksums, their items.
SecondList(p) ==
  /\ pc[p] = "push" /\ todo[p] = {}
  /\ listed' = [listed EXCEPT ![p] = [c \in Concert |->
       [Unlisted EXCEPT !.in = row[c] = "live",
                        !.name = IF row[c] = "live" THEN name[c] ELSE NoName]]]
  /\ pc' = [pc EXCEPT ![p] = "sums"]
  /\ UNCHANGED <<localVars, serverVars, handler,
                 todo, cur, left, reply, remote, snap, pushed>>

ListChecksums(p) ==
  /\ pc[p] = "sums"
  /\ listed' = [listed EXCEPT ![p] = [c \in Concert |->
       IF @[c].in THEN [@[c] EXCEPT !.sum = Checksum(c)] ELSE @[c]]]
  /\ pc' = [pc EXCEPT ![p] = "rows"]
  /\ UNCHANGED <<localVars, serverVars, handler,
                 todo, cur, left, reply, remote, snap, pushed>>

ListItems(p) ==
  /\ pc[p] = "rows"
  /\ listed' = [listed EXCEPT ![p] = [c \in Concert |->
       IF @[c].in THEN [@[c] EXCEPT !.items = items[c]] ELSE @[c]]]
  /\ pc' = [pc EXCEPT ![p] = "reread"]
  /\ UNCHANGED <<localVars, serverVars, handler,
                 todo, cur, left, reply, remote, snap, pushed>>

Reread(p) ==
  /\ pc[p] = "reread"
  /\ snap' = [snap EXCEPT ![p] = GetConcerts(DeviceOf[p])]
  /\ todo' = [todo EXCEPT ![p] = {c \in Concert : listed[p][c].in}]
  /\ pc' = [pc EXCEPT ![p] = "apply"]
  /\ UNCHANGED <<localVars, serverVars, handler, cur, left, reply, remote, listed, pushed>>

\* Mutant: only concerts the device does not have are pulled.
ApplyNewOnly(p, c) ==
  LET d == DeviceOf[p] IN
  /\ pc[p] = "apply" /\ c \in todo[p]
  /\ IF c \in pushed[p]
     THEN UpdateConcertChecksum(d, c, listed[p][c].sum)
     ELSE IF snap[p][c].st # "live"
     THEN SyncConcertFromServer(d, c, listed[p][c])
     ELSE local' = local
  /\ todo' = [todo EXCEPT ![p] = @ \ {c}]
  /\ UNCHANGED <<origin, saved, trashed, serverVars, handler,
                 pc, cur, left, reply, remote, listed, snap, pushed>>

\* A pushed concert gets the listed checksum; another one whose checksum
\* differs is overwritten, dirty or not.
Apply(p, c) ==
  LET d == DeviceOf[p] IN
  /\ pc[p] = "apply" /\ c \in todo[p]
  /\ IF c \in pushed[p]
     THEN UpdateConcertChecksum(d, c, listed[p][c].sum)
     ELSE IF snap[p][c].st # "live" \/ snap[p][c].sum # listed[p][c].sum
     THEN SyncConcertFromServer(d, c, listed[p][c])
     ELSE local' = local
  /\ todo' = [todo EXCEPT ![p] = @ \ {c}]
  /\ UNCHANGED <<origin, saved, trashed, serverVars, handler,
                 pc, cur, left, reply, remote, listed, snap, pushed>>

\* Mutants: the last loop takes dirty rows too; or it reads the rows again.
BeginPruneAll(p) ==
  /\ pc[p] = "apply" /\ todo[p] = {}
  /\ todo' = [todo EXCEPT ![p] =
       {c \in Concert : snap[p][c].st = "live" /\ c \notin remote[p]}]
  /\ pc' = [pc EXCEPT ![p] = "prune"]
  /\ UNCHANGED <<localVars, serverVars, handler,
                 cur, left, reply, remote, listed, snap, pushed>>

BeginPruneAfresh(p) ==
  /\ pc[p] = "apply" /\ todo[p] = {}
  /\ todo' = [todo EXCEPT ![p] =
       {c \in Concert : GetConcerts(DeviceOf[p])[c].sum # NoSum /\ c \notin remote[p]}]
  /\ pc' = [pc EXCEPT ![p] = "prune"]
  /\ UNCHANGED <<localVars, serverVars, handler,
                 cur, left, reply, remote, listed, snap, pushed>>

\* The last loop: rows clean at the second reading that the first list did
\* not have.
BeginPrune(p) ==
  /\ pc[p] = "apply" /\ todo[p] = {}
  /\ todo' = [todo EXCEPT ![p] =
       {c \in Concert : snap[p][c].sum # NoSum /\ c \notin remote[p]}]
  /\ pc' = [pc EXCEPT ![p] = "prune"]
  /\ UNCHANGED <<localVars, serverVars, handler,
                 cur, left, reply, remote, listed, snap, pushed>>

Prune(p, c) ==
  /\ pc[p] = "prune" /\ c \in todo[p]
  /\ HardDeleteConcert(DeviceOf[p], c)
  /\ todo' = [todo EXCEPT ![p] = @ \ {c}]
  /\ UNCHANGED <<origin, saved, trashed, serverVars, handler,
                 pc, cur, left, reply, remote, listed, snap, pushed>>

EndPass(p) ==
  /\ pc[p] = "prune" /\ todo[p] = {}
  /\ Return(p)
  /\ UNCHANGED <<localVars, serverVars, handler>>

-----------------------------------------------------------------------------

User ==
  \E d \in Device, c \in Concert :
    \/ \E v \in Version : AddConcert(d, c, v) \/ EditConcert(d, c, v)
    \/ MarkConcertDeleted(d, c)

ServerStep(h) ==
  \/ CreateConcert(h) \/ ReadRow(h) \/ SaveRow(h) \/ AddConcertItem(h)
  \/ DeleteConcert(h) \/ Refused(h) \/ HandlerFails(h)

SyncStep(p) ==
  \/ Start(p) \/ DeleteReturns(p) \/ FirstList(p) \/ ReadLocal(p)
  \/ PushReturns(p) \/ ItemReturns(p) \/ ItemsSent(p)
  \/ SecondList(p) \/ ListChecksums(p) \/ ListItems(p) \/ Reread(p)
  \/ BeginPrune(p) \/ EndPass(p)
  \/ ListFails(p) \/ GiveUp(p) \/ Abort(p)
  \/ \E c \in Concert :
       \/ SendDelete(p, c) \/ SendUpdate(p, c) \/ SendCreate(p, c)
       \/ Apply(p, c) \/ Prune(p, c)
  \/ \E i \in Item : SendItem(p, i)

Next == User \/ (\E h \in Handler : ServerStep(h)) \/ \E p \in Pass : SyncStep(p)

Spec == Init /\ [][Next]_vars

-----------------------------------------------------------------------------
(* Safety *)

\* Until the server has stored a concert, the device it was made on keeps
\* what its user saved last, complete and marked as not synced, unless the
\* user deleted it.
NeverUploadedIsKept ==
  \A c \in Concert : origin[c] # Nobody /\ row[c] = "none" /\ c \notin trashed =>
    LET mine == local[origin[c]][c] IN
      mine.st = "live" /\ mine.sum = NoSum /\ mine.items = ListOf(mine.name)

\* The server soft-deletes a concert only if a user confirmed deleting it.
DeletedByUserOnly ==
  \A c \in Concert : row[c] = "gone" => c \in trashed

\* A row whose checksum came with a pull and is the server's present one has
\* the server's present items: a pull interrupted by another device's push is
\* noticed by the next pass.  It rests on the checksum being computed before
\* the items are read (concert_service.go:290).
PulledItemsAreCurrent ==
  \A d \in Device, c \in Concert :
    LET mine == local[d][c] IN
      mine.via = "pull" /\ mine.sum # NoSum /\ mine.sum = Checksum(c) =>
        mine.items = items[c]

\* What a user saved ("Concert saved successfully", concert_setup.go:252) is
\* replaced on the device only after the server has had it, or by another save.
SavedEditIsSent ==
  [][\A d \in Device, c \in Concert :
       /\ local[d][c].st = "live" /\ local[d][c].via = "edit"
       /\ local'[d][c].name # local[d][c].name /\ saved' = saved
       => local[d][c].name \in served[c] \cup {NoName}]_vars

-----------------------------------------------------------------------------
(* Liveness: passes are started for ever and faults stop at last. *)

PassFault(p) ==
  \/ GiveUp(p) \/ ListFails(p) \/ (Abort(p) /\ ~EndPass(p))
  \/ \E c \in Concert :
       (SendDelete(p, c) \/ SendUpdate(p, c) \/ SendCreate(p, c)) /\ Lost(p)
  \/ \E i \in Item : SendItem(p, i) /\ Lost(p)

HandlerFault(h) == HandlerFails(h) /\ ~Refused(h)

Fault == (\E p \in Pass : PassFault(p)) \/ (\E h \in Handler : HandlerFault(h))

Fairness ==
  /\ \A p \in Pass : WF_vars(SyncStep(p))
  /\ \A h \in Handler : WF_vars(ServerStep(h))
  /\ <>[][~Fault]_vars

FairSpec == Spec /\ Fairness

\* A new concert reaches the server, unless its user deletes it first.
NewConcertIsUploaded ==
  \A c \in Concert : origin[c] # Nobody ~> (row[c] # "none" \/ c \in trashed)

\* Once the users leave their concerts alone the devices stop pushing and
\* pulling against each other: in the end each holds every concert of the
\* server under the server's checksum.
Converges ==
  <>[][~User]_vars =>
    <>[](\A d \in Device, c \in Concert :
           row[c] = "live" => local[d][c].st = "live" /\ local[d][c].sum = Checksum(c))

=============================================================================
