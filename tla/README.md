# Verification of the digital music stand

TLA+ models of the digital music stand: tablets that show sheet music, a cloud
service that stores scores and concerts, and what goes on between them. The
modules are translated from the Go code; line numbers below refer to `src/`.

## The system

| Component | State | Operations | Interacts with |
|---|---|---|---|
| Score synchronisation (`client/network/score_sync.go`, `client/localdb`, `services/score_service.go`) | per device: table `scores`, PDFs on disk; server: rows in postgres, objects in minio | add, rename, delete (user); one pass = push deletions, list, push, list, pull, prune; create, update, delete, list, download (server) | devices meet only in the server; passes of one device share the database |
| Concert synchronisation (`client/network/sync.go`, `services/concert_service.go`) | tables `concerts`, `concert_items` on both sides | create, edit, delete (user); a pass; create, update, add item, delete, list (server) | as above; items refer to scores |
| Scheduling and session (`client/main.go`, `network/auth.go`) | logged in or not, online or not, time of the last pass | `performFullSync`, `forceSync`, background loop, refresh and logout | starts the passes, in goroutines of their own |
| Bands, invitations, sharing (`services/band_service.go`, sharing parts of the score and concert services) | memberships, invitations, shares, soft-deleted rows under unique indexes | create, invite, respond, remove, share, revoke | decides what a list contains |
| Inbox (`network/invitation_sync.go`, `ui/inbox.go`) | table `notifications`, the list on the screen | list, store, show, accept, decline | passes fill it, goroutines send the answers; what they open is sharing |
| Accounts (`services/user_service.go`, `auth`, `admin`) | users, roles, states, tokens | register, log in, refresh, change and reset password, approve, reject | every call |
| Live sync (`services/sync_service.go`) | connections by concert | connect, broadcast, disconnect | concert mode |
| Concert mode (`ui/concert.go`) | position, page, leader, autoFollow, preview, lock, timer | page turns, take and give up the lead, follow, remote commands | live sync, LAN streams, remote control |
| Remote control and pilot (`remote/server.go`, `ui/pairing.go`, `mobile/main.go`) | PIN, open requests, command queue, the state a phone is shown; on the phone the PIN it holds and its screens | discover, pair, allow or refuse, command, poll | a running concert takes commands from the queue |
| Web upload (`webserver/server.go`, `ui/pairing.go`) | PIN, state idle / pending / connected | request PIN, confirm, upload | score library; one manager per profile session, one port |
| Set list editor (`ui/concert_setup.go`, the grid of `ui/concert.go`) | the copy in the grid, the copy in the editor, rows of `concerts` and `concert_items` | open, add, move, delete, save | passes change the same rows |
| Practice viewer and eye tracking (`ui/practice.go`, `eyetrack`, `ui/gaze_overlay.go`, `ui/eyetrack_calib.go`) | page, spread; the tracker's process and flag | taps, resizes, gaze points; start and stop by viewers and calibrations | the overlay's goroutine calls the viewer's handlers |
| Dictaphone (`audio/recorder.go`, `ui/dictaphone.go`, `localdb/recordings.go`) | flags of the recorder, offset, files, rows, the dialog's copies | record, play, pause, seek, delete | audio callbacks, a ticker goroutine |
| Metronome (`audio/metronome.go`, `ui/metronome.go`) | playing, beat, the dialog's copies, a callback per beat | start, stop, measure, beat, tick from the leader | concert mode, practice mode |
| Mixer (`plugins`, `ui/personal_mixer.go`) | connection, faders shown, bus | connect, read, move | a console that the engineer moves too |
| Profiles and lock screen (`profiles/manager.go`, `ui/profile_selector.go`, `ui/lockscreen.go`) | the registry file, tiles, current view | create, PIN, enter, lock, unlock | every session |
| Tuner, updater, system managers, widgets, start-up | see `components` in PROJECT.json | | |

What is hard here: several passes of one device run at once and share rows and
files; a call can fail on the client and succeed on the server; snapshots are
used after the database moved on; a pass can die between any two steps; server
handlers span two stores or several queries without a transaction. The list of
hazards, line by line, is in PROJECT.json.

What makes each component correct:

- synchronisation: nothing that only exists on one device is ever removed
  there; a device loses only what a user deleted, and while its passes overlap only
  what the server has had; the server deletes only what a user deleted; what is marked as synced has been on the server; in the end
  everything arrives; a pass that nothing disturbs makes its device and the
  server agree, whatever earlier passes left behind;
- sharing: nobody sees or edits a thing without an offer that was accepted, a
  removed member stays out of the band, and a revocation that met no answer
  under way is final (a removed member goes on seeing the band's concerts, see
  below);
- concert mode: a follower that stays connected learns the leader's last
  position; a stand shows pages its PDF has; no other stand learns of a
  preview; streams block each other in one known way only;
- pairing: a phone is paired by consent to the request it sent last; a command
  acts only on a concert that had begun when the stand took it;
- inbox: an answer is not undone by a list fetched before it;
- upload: only what was let in by the PIN asked for last is stored;
- editor: a concert shows the pieces last written to it; moving, adding and
  deleting change no other piece of the list;
- viewer and eye tracking: the page is in the score; nobody watching means that
  the tracker is stopped;
- dictaphone and metronome: never recording while playing, one tap stops a
  metronome that plays;
- mixer: the app sends a level only for the fader that the user moves;
- profiles: no crash and no failed save loses a profile.

## Modules

| Module | Models | Proofs |
|---|---|---|
| `ScoreSync` | scores of an account on all its devices and the server | `ScoreSyncProofs` |
| `ConcertSync` | concerts with their set lists, likewise | `ConcertSyncProofs` |
| `ScoreCalm`, `ConcertCalm` | the same, with a history of which pass runs undisturbed and which passes overlap | in `ScoreSyncProofs`, `ConcertSyncProofs` |
| `Custody` | what both promise about a library: the abstract specification that they implement | with theirs |
| `Sharing` | what the server decides about access | `SharingProofs` |
| `Consent` | what it promises: the abstract specification that `Sharing` implements | `SharingRefinement` |
| `ConcertMode` | stands that play together, the cloud service and their streams | `ConcertModeProofs` |
| `Session` | the accounts of the server, the login of a client, the goroutines that use it | `SessionProofs` |
| `Pilot`, `Inbox`, `Upload`, `ConcertSetup` | what reaches a stand from elsewhere: a phone, invitations, a browser, passes behind the editor | `VisitorProofs` |
| `Dictaphone`, `EyeTracking`, `PageTurns`, `Metronome`, `Registry`, `Mixer` | parts of one stand with goroutines of their own, and the console it shares with the engineer | `StandProofs` |

`MC*.tla` name the model values and the instances; a `.cfg` is one question.
`MCStand` composes the ten modules of the last two rows.

### ScoreSync

| Variables | Code |
|---|---|
| `local`, `file`, `origin` | table `scores` of a device (`manager.go:86`), its PDFs, the device `AddScore` ran on |
| `row`, `name`, `object` | the server's row ("gone" = soft-deleted), its name, the object in the bucket |
| `handler` | a handler of ScoreService between two of its steps; `by` is the pass that still waits for it |
| `pc`, `todo`, `cur`, `reply`, `remote`, `snap`, `got` | the local variables of a pass (`SynchronizeScores`) |
| `served`, `trashed` | history: names the server had, scores users confirmed deleting |

Each loop of a pass visits `todo` in any order (Go's lists come in database
order, so this is more than the code does). A call leaves the pass waiting:
it is lost, or a handler takes it up. While it waits the pass may give up
(the connection breaks; the handler carries on as an orphan) or be aborted
(the app is closed or the session ends). Handlers take one store access per
action: CreateScore is `RejectUpload`, or `PutObject` then `InsertRow` or
`InsertFails` with its compensating removal; UpdateScore is `ReadRow` then
`SaveRow`, where gorm's `Save` inserts when its update finds no row;
DeleteScore is `RemoveObject` then `SoftDelete`. A download may break off and
leave part of the PDF, which is recorded all the same (`:150`).

The PDF of a score never changes, so the checksum column is the flag `clean`.

`Valid` are the scores CreateScore accepts (a PDF of at most 25 MB,
`score_service.go:48`), `Receivable` those whose request gRPC delivers: the
server keeps its default of 4 MB (`server/cmd/api/main.go:133`), and a larger one
fails with ResourceExhausted before a handler sees it, which `SendCreate` makes
a call that is always lost. The client takes that for any other failure
(`score_sync.go:85-90`) and sends the score again in every pass, for ever. So what
is said to arrive is what is `Uploadable`, both of them; that the only copy is
kept is said of all valid ones.

CreateScore rejects a score without a name as well (`:43`). Only a file called
just `.pdf` gives one (`practice.go:443`); it counts as not valid here, and that
it could be renamed before the next pass is left out.

### ConcertSync

| Variables | Code |
|---|---|
| `local`, `origin` | rows of `concerts` and `concert_items` on a device (`manager.go:94`) |
| `row`, `name`, `items` | the server's row, its name/place/time, its items |
| `handler` | a handler of ConcertService between two steps |
| `pc`, `todo`, `cur`, `left`, `reply`, `remote`, `listed`, `snap`, `pushed` | the local variables of `SynchronizeConcerts` |
| `saved`, `served`, `trashed` | history: saves so far, versions the server had, concerts users deleted |

A save is a version of its own, for the name as well as for the set list; an
item is the version that wrote it and its position, and the set list on the
server is a bag, since `AddConcertItem` inserts whatever it is sent. The
checksum is the pair of name and items: a hash that collides is not modelled.
The second list of a pass is three actions, because ListMyConcerts is three
rounds of queries without a transaction: the rows, their checksums (each from
a fresh reading of the row), their items. The two queries of one checksum
(`concert_service.go:30`, `:35`) are one step, and so are the reading and the
deletion of DeleteConcert (`:243`, `:260`). The rounds run over all concerts at
once; every property is about one concert.

### ScoreCalm and ConcertCalm

These modules add to the steps of the passes what the passes as a whole are
judged by. The history variable `overlapped` has the passes under way during
which another one ran on the same device (`forceSync`, `main.go:239`, waits for
none); `Crossed` are their devices. `RemovedOnlyAfterDeletion` and `KeepsCustody`
say of every device what it may lose, and of those something weaker.

Custody says what synchronisation may never do; `calm` is about what a pass does
achieve. The history variable `calm` names the pass that has had the library to
itself since it started: every step since was its own, or of the handler that
works for it, and none was a failure (`CalmStep`); `CalmSpec` adds nothing else
to `Spec`. `CalmPassAgrees`: such a pass ends with its device and the server in
agreement (`Agrees`), from any state that earlier passes, aborted anywhere, and
orphaned calls have led to. For scores that is: the device has marked as synced
exactly what the server lists, no deletion is still to be sent, and an edit
that was not sent is of a score the server has deleted, or has no file, or has
one that gRPC refuses. (Titles are not compared: a renamed score has the same
checksum, and the code does not look further.) For concerts: every concert of
the server is live on the device under the checksum the server computes now,
and what the server has not is not marked as synced. It does not say that the
set lists are equal, and they need not be: a push adds the items of the device
to those the server has (`sync.go:57-68`; UpdateConcert, `concert_service.go:190`,
replaces items only when the request carries some, which it never does), and
the device then takes over the checksum of the sum (`sync.go:119`) but not the
items. This is the safety half of "the devices converge": what liveness adds is
only that such a pass comes.

### Custody

What is left of `ScoreSync` and of `ConcertSync` when the passes, the calls and
the lists are taken away: each device has a copy of a thing or has not, dirty,
clean or deleted (`copy`, which `Standing` reads off a row), and the server has
never had it, has it, or had it (`row`). Users make, edit and trash; the server
stores what was made and removes what was trashed; a device receives, or marks
as synced, only what has been on the server (`Receive`), and gives up a copy
only if the thing had been on the server and was trashed somewhere, or the
device's passes cross each other (`crossed`; `Drop`), or is a file the server
does not accept (`Reject`). `KeepsCustody`, in ScoreCalm
and ConcertCalm, is Custody's specification under this mapping: every step of a user, a
pass or a handler is one of these or changes none of them. It implies that the
server deletes only what a user deleted (`DeletedByUserOnly`), and says besides
who may write which copy when. `Store` may revive what was removed, and
`Receive` a copy its user had trashed: the code does both.

### Sharing

One concert or score (`thing`), one band, any users.

| Variables | Code |
|---|---|
| `owner`, `userShare`, `bandShare` | the thing's row and its shares (`concert_shares`, `score_shares`; those of a user and that of the band) |
| `member` | rows of `band_members`; "removed" = soft-deleted |
| `offer` | rows of `band_invitations` and of `concert_invitations` or `score_invitations`, by their unique indexes: one for a band or thing and an email address |
| `job` | a handler between its check and its write, with what it found |
| `granted`, `agreed`, `held`, `quiet`, `sealed` | history: what was offered, accepted, once in effect; revocations that met no answer; what they revoked for good |

The handlers run concurrently and have no transaction around check and write,
so each is two or three actions: ShareConcert to a user is `CheckOffer`,
`CreateOffer`; to a band `CheckShare`, `CreateShare`; RevokeConcertAccess is
`DeleteShare` or `DeleteShareFails`, then `DeleteOffer` or `DeleteOfferFails`,
since it ignores the errors of both and reports a success if either deleted a
row (`concert_service.go:474-484`); the three Respond handlers are `Answer`,
`ReadOffer` and then `Decline` or the transaction `JoinBand` or `AcceptShare`.
`HandlerFails` ends a call whose later check, index or query fails.

ConcertService and ScoreService differ in two places, and the initial value of
`thing` picks one: only a concert can be shared for editing, and only
ConcertService writes its membership query in SQL, which also finds the
soft-deleted rows (`concert_service.go:276`). So a removed member goes on
seeing the band's concerts, not its scores; `CountsAsMember` says so.

The table `notifications` of the devices is not a variable: each device of an
account keeps a notification of every invitation it was ever listed, so an
answer can come to any invitation there has been, any number of times. The
client sends it in a goroutine and drops its error; a lost answer is no step.
Left out: concerts owned by a band, which no client creates, and scores seen
only because they are items of a concert.

`Consent.tla` is the promise behind it: offers, agreements, what is held and
what was closed, each in one step, with neither handlers nor invitations.
`KeepsConsent` is `Consent`'s specification with `offered` for `granted`,
`share` for `userShare` and `member` for those the service counts as members
(not removed). A revocation in two steps maps to `EndShare` and then `Close`; a
call that only reads, and one that fails, is a stutter.

### ConcertMode

| Variables | Code (`ui/concert.go`, `sync_service.go`, `remote/server.go`) |
|---|---|
| `wants`, `leader`, `follow`, `preview` | `wantsToSync`, `isLeader`, `autoFollow`, `previewMode` |
| `at`, `spread`, `lead`, `saved` | `currentSongIdx` with `currentPage`, `pagesToShow`, `leaderItemIdx` with `leaderPage`, `savedItemIdx` with `savedPage` |
| `stream` | `syncStreamCloud` together with `isConnectedCloud`: None is "not connected" |
| `owner` | the stand whose goroutine still reads a cloud stream, which may outlast `isConnectedCloud` |
| `alive`, `phase`, `up`, `down`, `todo` | a stream at the service: its connection, its place in `connections`, what is buffered each way, the streams a broadcast has still to visit |
| `peer`, `lan` | the P2P stream of a follower and what it carries |
| `latest`, `tuned` | history: the last update sent, and the stands with one unbroken way from the leader since |

Each tap, each remote command, and the handling of each message is one action
with all it calls: a page turn is `renderPage` or `loadCurrentSong`, then
`sendStateUpdate`. In the code these run in goroutines that share variables
without a lock; what a handler does when another one cuts in is left out, and
listed as a hazard. A broadcast is not one action: `Broadcast` takes the read
lock and `SendTo` visits one stream, in any order, waiting when that stream's
buffer is full, while handlers of other streams do the same. `Register` and
`Unregister` wait for the lock. `EndCloud` is the goroutine's end, at any later
time, where it clears `isConnectedCloud` whichever stream is current. A stream
that a closed `playConcert` leaves running is read by its goroutine, to no
effect.

A stand that connects sends REQUEST_STATE (`Connect`, `concert.go:681`), which the
service broadcasts to every stream of the concert. Whoever reads one answers
with its state, item and page included, whether it leads, follows or previews
(`Answer`, `concert.go:525-554`), and it does so from the goroutine that reads, on
its own stream, where a full buffer makes it wait (`ReadCloud`).

- The answer carries the position in `Payload`, and `broadcast` copies every field
  but that one (`Response`, `sync_service.go:84-94`): the other stands get a
  BROADCAST_INFO without a position and ignore it. `PreviewStaysLocal` says so:
  while a leader previews it sends no update, and nothing but an update brings
  a position down from the service. It is the dropped field that keeps this,
  not the stand. A phone in the same network is shown the previewed position,
  because `/api/state` reports what is on the screen.
- A stand that waits for room to answer does not read, and a broadcast, which
  may be that of the handler this stand's own stream ends at, may be waiting
  for it to read, under the lock. This circle can be reached, and then nothing
  on the concert's streams, nor any joining or leaving, goes on until a
  connection breaks. `Flows` says that it is the only one: as long as something
  is under way, some goroutine can go on, or a broadcast waits for a stand that
  waits to answer (`WaitsToAnswer`).

Not in the model: STOP_LEADING (which no stand reacts to), UNKNOWN_ACTION (the
answer to a message that no client sends, `:562`), metronome ticks; the streams a
phone opens through the cloud, which ask for the state every second as a
connecting stand does once (`mobile/main.go:696`); the countdown's seconds; the
screen lock; the time between a P2P stream's start and its entry in
`localStreams`, and the end of such a stream's goroutine apart from its
connection. As cloud responses omit `Payload`, a remote command sent through the
cloud never carries the PIN that `handleSyncMessage` asks for, and is no action
here.

What the model shows of the code besides its properties: a follower that has
to load the leader's item opens it at the first page, wherever the leader is,
until the next update (`loadCurrentSong` sets `currentPage` after
`handleSyncMessage` did), and so does "Sync to Leader"; Cancel likewise goes
back to the first page of the saved item. `InStep` therefore speaks of what the
stand knows and of its item, not of its page.

Two variables are set to their start where nothing reads them any more, which
keeps the instances small: `saved` outside a preview, `latest` while nobody is
`tuned`.

### Session

| Variables | Code |
|---|---|
| `row`, `admin`, `reg` | `models.User` (status, role); a RegisterUser call between its three queries |
| `issued`, `expired`, `dead` | `generateTokens`: pairs are numbered; up to these numbers the access tokens, the refresh tokens have expired |
| `up` | the servers that answer |
| `open`, `tokens`, `server`, `online` | `sessionCtx`, `prefToken` with `prefRefresh`, `prefServer`, `isServerOnline` of `launchProfileSession` |
| `thread` | goroutines: a login in the dialog, loops of `startBackgroundSyncLoop`, passes of `performFullSync`, with the server and the pair each was started with or read |
| `excuse`, `renewing` | history: something happened that may end a login; who was renewing when the tokens were dropped |

Every call is two steps or more, between which the tokens may change: GetProfile
(`LoopTick` or `PassBegin`, then the answer) and RefreshSession (`PassExpired`,
`PassRenewed` at the server, `PassStore`). `PassRefused` is every way on which
`performFullSync` clears the tokens (`main.go:210`). A cancelled session
(`old`) makes its calls fail, not the RefreshSession, which has a context of
its own; its goroutines write an `isServerOnline` nobody reads.

Only one profile is modelled, left and opened again; others have tokens of
their own. Passwords, and what a pass exchanges, are left out; so is the
database of the server failing, which `validateToken` reports like a missing
account. The two tokens of a pair are stored, or cleared, in one step; the code
takes two (`SetString`).

What the code does besides its properties: leaving the profile while a pass
waits for GetProfile ends the login, since Canceled is no excuse at
`main.go:190`; so does a RefreshSession whose answer is lost. A loop whose
token has expired only shows the client offline: it renews nothing until
somebody calls `forceSync`. Loops keep the server they were started with, so
with two servers a loop of the earlier login asks the earlier server about the
new tokens, flips `isServerOnline`, and its pass may clear them: `LoginIsKept`
is about one server. Two registrations that count before either inserts are
both administrators.

### Pilot

The stand: `pin` (the start it is at), `ask` (requests with their dialogs),
`queue` (`CommandChan`), `begun` and `playing`, `drain` (`BuildConcertMode`
emptying the queue), `reader` (the goroutine that takes commands for each
concert), `locked`, `shown` (`State`). The phone: `screen`, `known` (the PIN
discovery found), `link` (`local_pin`), `waiting`, `view`, `wire`. The handlers
of `remote.Server` are `PairArrives`, `HandleCommand` and `Poll`; a dialog is
answered at any later time (`Decide`) and found by the number of its request, also when the phone has given up
(`PairGivesUp`) or restarted. A goroutine that takes commands outlives its
concert until it sees the end (`ReaderEnds`), and a profile switch leaves it: phones stay
with the server of the profile before, which keeps the ports.

`ActsOnItsConcert`: no command acts on a concert begun after the stand took it.
`PairedByConsent`: a PIN held as a link was allowed for the last request sent.
What the code does besides: `drain` looks at the length of the queue and then
takes, so beside a goroutine of the last concert it may wait for a command that
is gone, and the window with it (`DrainCheck`, `DrainTake`); `shown` stays that of a
concert that has ended.

### Upload

`status` and `code` are those of one `webserver.Manager`; every profile session
makes another, of which the first keeps the port (`Serving`), so the dialogs of
later sessions confirm PINs nobody asked for. A page keeps its PIN and offers
the upload until it is reloaded. `StoredAfterConfirm`: a file is stored only
under a PIN asked for last and confirmed; equal PINs, which two requests may
draw, are told apart by the number of the request.

### Inbox

`invited` is the server, `notifications` the local table, `toStore` what a pass
has listed and not stored yet, `inboxRows` the list as drawn, `answering` the
goroutines that carry answers. `AnswersCount`: an answer stays, and is missing
on the server only while under way or lost. Notification ids are those of the
server's rows; two servers used with one profile may give the same.

### ConcertSetup

`card` is the copy the grid holds, `editor` the copy being edited; a save writes
the row and replaces the items in one transaction. Passes may change the rows
in any of their ways between any two taps. The rows of the table, and the items
a response carries, have sort orders that repeat, because every push of an
edited concert adds its items to the server's once more with the orders they
have (`sync.go:57-68`). SyncConcertFromServer keeps titles by sort order
(`manager.go:344-366`): of several titles under one order the last one read
stays, and every item of that order gets it (`Kept`). So `SetlistIsGenuine`
claims for titles only that each stands under an order a user gave it to; it
may stand at several places, at a piece as well as at a break.

Opening the editor leaves out items whose score is not on this stand
(`concert_setup.go:55-63`), and a save then deletes them from the row: the
model does it too (`OpenEdit`). `EditorKeepsItems` is about what the editor
opened with and what the user added since. Opening the editor and counting its rows are
stated by places and sets of rows (`Nth`, `RowsOf`), not by a recursion over the
list, so that they can be reasoned about. Items saved for a concert that a pass has
removed stay in their table, unseen: `SaveConcert` shows it, and the property
says that they never come back.

### Dictaphone

`recording`, `isPlaying`, `paused`, `offset`, `length`, `output` are fields of
the recorder, behind its lock; `ours`, `playStep`, `ticking` belong to the
dialog. The Play handler takes the lock several times (`PlayBegins`,
`PlayLoads`, `PlayDevice`, `PlayStarts`). `DictaphoneIsSound` is the conjunction
of `RecordsOrPlays`, `TakeIsKnown` and `PlaysInside`. Seeking in a recording
without samples sets an offset of -1 (`recorder.go:257`), with which the callback
of the device slices the data (`:189-193`) and the app ends (`SoundPanics`):
`PlaysInside` is about recordings with samples. Recordings are named for
their second, so two that begin within one share a file, and deleting either
deletes it: that is modelled, and nothing in the repository says otherwise.

### EyeTracking and PageTurns

`process` are the tracker processes started, `cmd` and `isRunning` the fields
of the Tracker, `watcher` the ticker goroutine of each viewer, `calib`,
`listener` and `starter` the calibration's. `TrackerStops`: with nobody
watching the last process is stopped, and no older one runs unless a reader
goroutine ended late. It may (`OutputEnds` of an older process clears
`isRunning`, which belongs to the new one); `late` records it, and such a tracker
runs on.

In PageTurns a turn is its loads and stores (`TurnLoads`, `TurnStores`,
`TurnClamps`, `Renders`, `Shows`), because a tap and the gaze goroutine run the
same handler without a lock. `PageAtRest` is claimed for taps and gazes that
have not overlapped: once they have, two turns pass the same check and the page
leaves the score.

### Mixer

`console` is the console at each address, `slider` what the panel shows,
`unread` what `updateSliders` has still to read. Questions and answers go by
UDP and may be lost. The history variable `mover` has whose step the last one
was: the user's at a fader, the engineer's at the console, or nobody's, which is
every other step of the app (a panel that opens, an answer, a connection).
`OnlyHandsMoveFaders` is about every step: a level changes because the engineer
moves it, or because the user does, on the console connected last and to where
the fader on the screen now is: the main fader from the quick settings, one of
the selected bus from a personal mix that is up to date. Sessions follow one
another, and one goroutine that connects (`main.go:86`) ends before the next one
starts: that is a bound.

### Registry

`profiles` and `registryFile` are the JSON file; a save truncates it, then
writes (`SaveEnds`), and may end in between (`SaveFails`, `Ends`). The lock screen and the
dashboard are `currentView`. What ends is the app, not the machine:
`os.WriteFile` does not flush to the disk (`manager.go:151`), so after a power
failure older content may be found, which is left out. `ProfilesAreKept`. Two things the model shows and no
property forbids: a PIN with other characters than digits, or longer than
eight, is stored and can then never be typed; and a refresh of the
dashboard that was about to happen covers the lock screen.

### Metronome

`beating`, `elapsed`, `nextBeat`, `sound` are `MetronomeAudio`'s, called by the
thread of its device; `metroDialog` has copies of what it last asked for;
`beatFlights` are the goroutines of beats and the leader's ticks.
`OneTapStops`. A beat checks the dialog's callback and calls it later
(`ChecksCallback`, `CallsCallback`); closing the dialog in between ends the app
(`CallsNil`), which is listed with the hazards.

### What the synchronisation modules leave out

Errors of the local sqlite database, which the code mostly ignores with
`_ =`; scores and concerts shared by other users, whose rows are listed with
`is_owner = false`; aliases and custom titles, which stay on the device;
wording of logs and dialogs.

## Runs

| Run | Instance | Shows |
|---|---|---|
| `score_devices` | 2 devices with a pass each, 1 score that fits a request | synchronisation implements `Custody`; an undisturbed pass makes its device and the server agree |
| `score_overlap` | 1 device, 2 passes, 2 titles | a synced row has a title the server has had, even when passes overlap |
| `score_one` | 1 device, 2 handlers, 1 title, two scores of which gRPC refuses one, faults stop | the only copy of a score survives; uploads, downloads and deletions of what fits a request arrive, although a score that does not is retried for ever |
| `score_upload_lost` | 1 device, 2 handlers | violation: a retried upload removes the object of the first |
| `concert_devices` | 2 devices with a pass each, 1 save | a current pulled checksum means current items; synchronisation implements `Custody`; an undisturbed pass makes its device and the server agree on concerts and checksums |
| `concert_one` | 1 device, 2 saves, set lists of 2 and 1 items, faults stop | until the server has a concert its device keeps the whole of it; new concerts are uploaded; the device settles on the checksums the server lists |
| `concert_edit_dropped` | 1 device, 2 saves | violation: an edit whose update failed is overwritten |
| `concert_play` | a leader on a wide stand that previews, a follower on a narrow one in reach by cloud and by LAN who turns pages too, one cloud stream, a song of 2 pages and a break | pages shown exist; no other stand learns of a preview; the switch between cloud and LAN loses no update |
| `concert_cloud` | a leader and a follower over the cloud, two streams that break and are replaced, a song and a break | connected stands learn the latest update, and are on the leader's item; streams come to a standstill only in the circle of a broadcast and a stand that waits to answer |
| `sharing_races` | 2 users, either the owner, 2 handlers, 2 offers | access only after consent and with the owner's word; an unopposed revocation is final; a removed member stays out; acceptances take effect; the services implement `Consent` |
| `session_client` | two accounts of one server, one of them used on the client; two goroutines, two token pairs | somebody administrates; racing renewals do not end a login; a logout is final; what the client shows settles |
| `stand_parts` | the ten parts of a stand, one moving at a time | one property of each part, two of Pilot and of ConcertSetup (listed with their modules above) |

The type invariants of the five larger modules are theorems and no run repeats
them; those of the ten parts are conjuncts of what is proved about them, or say
what the variables hold.

Bounds. Scores, and concerts, do not interact with each other except through
the order in which loops visit them, so one is enough; `score_one` has a second
one because there the order matters: one that never gets through stands beside
one that must. Two passes suffice for every race of two snapshots; a third would
only repeat one of the two roles. In the two `devices` runs they are on two
devices, so nothing is ever in `crossed` there; that a device whose passes cross
drops only what the server has had is a theorem.
Two handlers let an orphaned call run beside its retry; where there is one, an
orphan still runs while its pass goes on to the next list. Two titles or
versions let an edit hit a call under way. `MaxCopies` = 2 in `concert_one` tells
"twice" from "once", and further copies are not counted; for two devices it is
1, since an item that is there or is not shows every race of a list with it. In Sharing, a race is between one
call's check and another call's write, so two handlers show it; two users let
the owner be the manager or the member; `MaxOffers` = 2 lets an old
notification meet a new offer. In ConcertMode two stands are the two roles;
two streams are the sender's and the receiver's, or one stand's old and new
one; `Room` = 1 fills every buffer with one update, which is where senders
wait. In Session two goroutines are two passes that renew at once, or a loop of
an earlier login beside a pass; two pairs are an expired one and its
successor, and the last pair never expires, so that renewals end; all accounts
are registered before the first login, since registrations race only with each
other. Those of
`stand_parts` follow below. Symmetry is used only for
interchangeable model values and only in runs without liveness. The theorems
hold for any number of everything.

The ten parts of `stand_parts` share no variable, so `MCStand` lets one part
move while the others rest: a behaviour of all of them, seen through the
variables of one, is a behaviour of that one, and the states add up instead of
multiplying. Two starts, concerts and pair requests let a phone come back to a
restarted stand with an old PIN and a goroutine of the first concert live on in
the second; one command and a queue of one make the queue full, and the
command is followed through all of it. Three requests of two browsers with two
codes give equal PINs and a third request between the other two. Two seconds
and one row let a recording take the file of another that began in the same
second. Three processes are an old one, its successor, and one
more for a reader that ends late; two viewers and one calibration meet on the
one tracker. Three pages with a drift of two show a turn past either end. Two
addresses, two buses of one strip and two levels tell every fader from every
other. Two profiles and PINs of three kinds (typable, too long, not digits)
reach each answer of the keypad. Two invitations: one comes while the other is
answered. One piece, a break and lists of two items let the buttons of a row
outlive a move. A measure of two beats has one with an accent and one without,
and two goroutines overlap.

The violations each contradict a message the program gives its user; they are
listed with the quoted line under `findings`. What else goes wrong in the code
is noted with its hazard: once passes of one device overlap, one whose list was
taken before another one's upload removes the upload, until the next list brings
it back (`Drop` allows it to a device in `crossed`); a deletion that could not be pushed is undone by the pull
of the same pass, and every push of an edited concert adds its items again. A
band invitation that was declined, or a member who was removed, cannot be
invited again: the soft-deleted or answered row stays in the way.

### Fairness

`FairSpec` asks weak fairness of every pass and every handler: a goroutine
that can run does, and the background loop (`main.go:248`) starts passes for
ever. It also says that faults (broken connections, database errors, aborted
passes) stop at last, because the code has no other answer to them than the
next pass. Nothing is asked of the user, with one exception stated inside the
property: `Converges` is about users who leave their concerts alone at last,
since a deletion that was not pushed comes back and can be repeated for ever.
`Session` asks that every goroutine goes on: tickers fire, and calls are
answered or fail, as RefreshSession does after ten seconds and GetProfile once
the transport notices. Its liveness properties are about what holds from some
time on, so nothing is asked of the network or of the user.

## Theorems

`ScoreSyncProofs.tla`, for every number of devices, passes, scores, titles and
handlers, from `ScoreSyncAssumption` (which only types the constants):

- `TypeCorrect`: `Spec => []TypeOK`;
- `Invariance`: `Spec => []IInv`;
- `SyncedTitles` and `NeverUploadedKept`, the invariants of the runs
  `score_overlap` and `score_one`, and `DeletedByUser`: the server deletes only
  what a user deleted;
- `RemovedAfterDeletion`: `CalmSpec => RemovedOnlyAfterDeletion`: a device loses
  a valid score only when the server has had it, and then only after a user
  deleted it or while passes of the device overlap; the run checks it as a part
  of Custody;
- `KeepsTheLibrary`: `CalmSpec => KeepsCustody`;
- `UndisturbedPassAgrees`: `CalmSpec => []CalmPassAgrees`.

All of them hold for any number of passes per device, which may overlap in any
way. `CalmSpec` is `Spec` with its history variables, which restrict no step.

None of the three invariants is inductive. A step of a pass acts on what the pass
remembers, which the server and the database may have moved on from, so IInv
adds what each remembered value still guarantees:

- `Recorded` and `Held`: a row that never was has no history, a tombstone was
  made by a user, a partial PDF is of a score the server had;
- `RememberedBy(p)`, for each pass: listed and clean titles were served, the
  deletions it still has to push were confirmed, what it is about to prune was
  on the server, a positive answer means the title was served, a rejection of
  a valid file means that it was a partial one, hence on the server;
- `InHand(h)` and `Caller(h)`, for each handler: what it works on is what its
  caller, if any, still remembers; a caller has one handler at most.

History variables only grow and a row never returns to "none", so these facts
survive every step of somebody else (the frame lemmas `RememberedFrame`,
`ServerFrame`, `PassFrame`); each action then has to re-establish only the
facts about its own pass or handler. TLC checked IInv on all instances first.

`KeepsTheLibrary` has to know why a copy is removed, which is about what is not
there: a pass prunes what its second
list lacks. `Titled` (a row on the server has a name, so a list lacks only what
is not live) and `Absent(p)` say of a pass that is not in `overlapped` that what
a list of it lacked, and no user deleted, had never been on the server, so this
device has not marked it as synced and has no part of a download of it. Nothing
but the pass itself changes that (`AbsentOwn`), because a step of another pass of
the device would mean that both are under way, and put both into `overlapped`
(`AbsentOther`). When a pass ends it leaves `overlapped`, and `EndLeaves` says
that it is idle then and removes nothing. `Partial(h)` closes the other way a
score leaves: an upload is rejected for its size only if it was a truncated
download, which is of a score the server has had.

It needs two more invariants, since Custody has neither passes
nor handlers to remember anything. `Made`: whatever is on a device, on the
server, in a pass's list or in a handler's hand was made by a user, and what a
handler is about to insert is accepted. `Confirmed`: a deletion that was
answered "ok" was of a score the server has had. Then `UserSteps`, `ServerSteps`
and `PassSteps` map each step; `CopyOne` says that one row rewritten is one copy
rewritten. `RemovedAfterDeletion` follows from it: of Custody's steps only `Drop`
and `Reject` take a copy away (`DropsOnly`).

`UndisturbedPassAgrees` follows a pass from stage to stage. `CalmIInv` says of
the pass named by `calm` what each loop has left for the ones after it:
`Deletes` (a deletion the server has not had is still in `todo`), `Pushes` (the
first list is right about what is still to be sent; an unsent edit is in `todo`
or cannot be sent, `Stuck`) and `Pulls` (the second list is right; what it has
is marked or in `todo`, and what is marked besides was so when the rows were
read and will be pruned). It says nothing of what earlier passes did, which is
why the theorem holds after any of them: Start establishes it from any state of
`IInv`, and a step that is not the pass's own ends `calm`. `CalmServer` carries
it over the steps of the pass's handler, `CalmPass` over those of the pass.
`CalmRefines` (`CalmSpec => Spec`) brings in the invariants above: that a pass
which waits has one handler, and what its answer means, is theirs.

`ConcertSyncProofs.tla`, for every number of devices, passes, concerts and
versions and set lists of any length, from `ConcertSyncAssumption`:
`TypeCorrect`, `Invariance`, `NeverUploadedKept`, `DeletedByUser`,
`PulledAreCurrent`, `RemovedAfterDeletion` and `KeepsTheLibrary`, the last two of
`CalmSpec` as above. The argument is that of ScoreSync with another kernel: only concerts the server has
had are marked as synced, and the server's bags of items only grow. So
`Listed(p)` can say that the items a pass is about to store lie between those
of the checksum it read first and those the server has now, and `Held` says it
of every row that was pulled; if its checksum is the present one, both ends are
equal, hence the items are (`AtMostOrder`). `RememberedBy(p)` and `InHand(h)` are
as above. For the refinement `Made` includes `Bound(h)`, that a pass which waits
has one handler and that one is working on the pass's concert: without it an
item that was added could pass for a deletion that was confirmed. The checksum
that `Apply` writes after a push may be of a row deleted meanwhile, which
changes nothing that Custody sees.

`UndisturbedPassAgrees` holds here too, and is less obvious: the last loop goes
by a list made before the uploads of its own pass. `Lists` relates the two
lists of a pass (the second has what the first had and what was pushed) and
`Pulls` says why the uploads are spared: they carry no checksum yet when the
rows are read again. `Serves` says what the handler of the pass can be at, and
`Fresh` that a pass starts with nothing pushed. That what was pulled or pushed
ends with a checksum at all rests on `NamesLast`: whatever is live on a device,
on the server, in a list or in a call was saved under a name, so that no
computed checksum is the empty one, which would mark it as an edit.

`SharingProofs.tla`, for every number of users, handlers and offers, from
`SharingAssumption`: `TypeCorrect`, `Invariance`, `AccessIsGranted`,
`AcceptedIsEffective`, `RevocationFinal` and `RemovedForGood`, that is every
property of `sharing_races` but `KeepsConsent`. The last three rest on an inductive invariant
again, since a handler writes what it read before:

- `Granting`: shares, pending invitations and the calls that are about to turn
  one into the other have a mode the owner granted, and an answer that is
  under way was agreed to;
- `AcceptedTookEffect`: inductive with the rest;
- `Sealing` and `Alone`: where something is sealed, no share and no pending
  invitation is left and no answer is past its check; a revocation between its
  two steps keeps that for as long as it is in `quiet`.

`SharingRefinement.tla`: `Refinement`, that Sharing implements Consent
(`Spec => KeepsConsent`), for the same constants. Beyond `IInv` it needs
`Offering`: the right that an invitation, or a call about to accept one,
carries was offered to that very user, because a call writes what it read some
steps ago. Then each action maps to one of Consent's, or to a stutter:
`ShareSteps`, `RevokeSteps`, `JoinSteps` and `EnterSteps` for those that change
who holds what.

`ConcertModeProofs.tla`, for every number of stands, streams, items and pages,
from `ConcertAssumption`: `TypeCorrect`, `ShownPagesExist`, `PreviewLocal`,
`StandsKeepInStep` and `StreamsGoOn`.
`PagesExist` is not inductive, because a stand shows what it was sent, saved or
told long ago: IInv says that every position kept or under way names a page its
item has (`Valid`), and `ShowKeeps` that showing such a position is safe. That
a preview stays local needs `Owned`: whoever sends on its current stream sends
on one of its own, even after the goroutine of an older stream has ended; and
that what comes down without being an update carries no position, which
`Response` makes sure of.
`Sending` makes the head of a queue exist while it is being broadcast.

`StandsKeepInStep` (`Spec => []InStep`) is about a leader, a stand that is tuned
to it, and everything between the two. `InStep` speaks of what has arrived;
`StepIInv` of what is still coming (`Coming(l, t)`, the leader's queue, the
broadcast under way, the stand's own queue, or the LAN stream): the last of it
is the latest update, or nothing is coming and the stand has it (`Known`). Two
facts make that inductive. A stand is tuned only while one unbroken way to it
has held since the update was sent (`Reaches`), so no step has to find a way
again, it has only to keep the one there is or to drop the stand from `tuned`.
And the latest update names the item the leader comes back to when a preview
ends (`Shared`, `Home`), which is why Cancel sends nothing new. Each step either
touches neither end nor way (`Untouched`), or appends to or takes from one queue
(`LastAppended`, `LastRead`), or breaks the way.

`StreamsGoOn` is `Flows` with the guards of the steps in place of ENABLED, which
the prover does not know: while something is under way on a cloud stream, or a
stream waits for the table, some reader, broadcast, delivery or registration
can go on, or a broadcast waits for a stand that waits for room to answer. It
rests on `Attended`: a stand is there to read what a stream
carries down to it, and the service, what a stream carries up.

`SessionProofs.tla`, for every number of accounts, servers, goroutines and
pairs, from `SessionAssumption` and `NoPairAssumption` (None is no server, no
status and no pair): `TypeCorrect`, `SomebodyAlwaysAdministrates`,
`LoggedOutForGood` and `LoginLasts`, the last for accounts of one server. IInv
adds `Governing` (a registration that was not the first has an administrator
before it), `Fit` (who dialled or renews holds a pair) and `Renewals` (without
tokens only older renewals are under way). `LoginLasts` needs `LInv`: as long as
nothing has excused the end of a login, all pairs are of active accounts and no
goroutine is left from a cancelled session (`Calm`), and everyone works with
the one server (`Placed`); then neither GetProfile nor RefreshSession can refuse
(`NeverRefused`).

`VisitorProofs.tla`, from `PilotAssumption`, `InboxAssumption`,
`UploadAssumption` and `ConcertSetupAssumption`, for every value of the bounds:

- `PairsByConsent`: `ConsentIInv` adds that a phone that waits, or holds a link,
  has sent a request and shows no login beside a link; requests that were
  decided stay decided, so a later answer to an earlier request, or a restart of
  either side, changes nothing;
- `CommandsAreNotStale`: `CommandIInv` adds that as long as a goroutine takes
  commands for concert c, everything queued, and what it has in hand, came when
  c had begun: a new concert drains the queue before its own goroutine starts,
  and older goroutines act on older concerts;
- `PilotTypeCorrect`, from both: the queue stays within its capacity, commands
  act on concerts there are, and the phone's viewer stays within the score
  (`StandTypes`, `PhoneTypes`);
- `AnswersAreCounted`: what the screen lists is unanswered, so no invitation is
  answered twice from it;
- `UploadsAreConfirmed`: an open door was opened for the PIN asked for last;
- `SetlistStaysGenuine`: by itself, since the editor writes row and items at once,
  and the title kept for an order is that of a row of this order;
- `NoItemIsLost` (`EditorKeepsItems`): `EditorIInv` says that what the editor
  shows has, of every piece and of the break, the number of rows the user's taps
  have asked for, and that row, card and editor hold lists. Counting is by
  cardinality, so the lemmas `CountAdded`, `CountSwapped` and `CountDeleted`
  count the rows by bijections of their places (FiniteSetTheorems), and none
  needs an induction over the list.

`StandProofs.tla`, from the assumptions of its modules:

- `DictaphoneStaysSound`: while the handler of Play is at work, between its
  locks, nothing records;
- `TrackerIsStopped`: unless a reader ended late, a process that runs is the
  last one and the flag is set, so a Stop meets it;
- `PageRests`: `Midway(h)` is what a handler that works alone may rely on at each
  of its steps; two at work owe nothing, because the next step of either sets
  `overlap`;
- `TapStops`, `MetronomeTypeCorrect`: the dialog's copy of "playing" is set
  wherever the metronome starts;
- `NoProfileIsLost`: a save under way holds at least what was there, and
  meanwhile nobody can read the file; a file that cannot be read is never the
  base of the next save;
- `HandsMoveFaders`: a step that is neither the user's nor the engineer's sends
  nothing (`AppSteps`), and the user's is at one fader of the console connected
  last.

Only model-checked: `Flows` in its own words, with ENABLED (`StreamsGoOn` is
what is proved of it), and all liveness properties, which need fairness; both
are out of the prover's reach. Every other invariant and action property of the
passing runs, and both refinements, are theorems.

## Not modelled

- The tuner: `ShowTunerDialog` never calls its `Start`. (Its `Stop` would hold
  the lock while Uninit waits for a callback that takes it, were it ever
  started.)
- Passwords, their change and reset, and mails. Each request overwrites one
  column; a reset does so before the mail with the new password is sent, which
  may be lost or overtaken by that of another reset.
- Discovery over UDP, which only tells addresses; the phone's lists and
  downloads, which only read. Through the cloud no command of a phone reaches a
  stand, because `LiveSyncService.broadcast` drops the payload.
- Settings forms, keyboard, dialogs, widgets: what they save enters the modules
  as user actions.
- Drawing pages, geometry of gaze, signal processing: numeric code without
  states to relate.
- Generated contracts, start-up wiring, system managers, updater: calls of the
  operating system, of git, of libraries.

## Plan

Done: all modules above with their runs, the refinements of Consent and of
Custody, theorems about every safety property of the runs, and the agreement
that an undisturbed pass brings about. What is left, in this order:

1. Type correctness of the set list editor, the tracker, page turns, the
   registry and the mixer as theorems of their own: what is proved about them
   contains most of it.
2. Password changes and resets as actions of Session, with the mails under way.
