------------------------------- MODULE Pilot -------------------------------
(***************************************************************************)
(* The mobile pilot (mobile/main.go), a phone that pairs with a stand over *)
(* the local network, shows what the stand plays and sends it commands,    *)
(* and the stand's end of it: the HTTP handlers of remote.Server, the      *)
(* confirmation dialogs (main.go), and the queue that a running concert    *)
(* takes commands from (concert.go).                                       *)
(*                                                                         *)
(* The phone's other way, over the cloud, needs the payload of a message,  *)
(* which LiveSyncService.broadcast does not pass on: no concert is ever    *)
(* discovered through it and no command gets through, so it is no action   *)
(* here, and an account is only another way to the main screen.            *)
(***************************************************************************)
EXTENDS Naturals, Sequences

CONSTANTS
  MaxStarts,    \* bound: how often the stand is started; each start has its PIN
  MaxConcerts,  \* bound: concerts played
  MaxPairs,     \* bound: pair requests sent
  MaxCommands,  \* bound: commands sent
  QueueCap,     \* what CommandChan holds (20)
  ScorePages    \* the pages of the score the phone may open

ASSUME PilotAssumption ==
  /\ MaxStarts \in Nat \ {0} /\ MaxConcerts \in Nat \ {0}
  /\ MaxPairs \in Nat \ {0} /\ MaxCommands \in Nat
  /\ QueueCap \in Nat \ {0} /\ ScorePages \in Nat \ {0}

VARIABLES
  \* the stand
  pin,      \* the start it is at, and its PIN
  ask,      \* ask[n]: the n-th request to pair
  queue,    \* CommandChan
  begun,    \* concerts begun so far, the current one among them
  playing,  \* whether the last of them still runs
  drain,    \* BuildConcertMode empties the queue: "check", "take"; "off"
  reader,   \* reader[c]: the goroutine that takes commands for concert c
  locked,   \* locked[c]: its isLocked
  shown,    \* State: what phones are told
  switched, \* another profile was chosen since the stand was started
  acted,    \* history: the commands that had an effect, and on which concert
  \* the phone
  screen,   \* "login", "main" or "score"
  account,  \* a token is stored
  known,    \* the PIN discovery found; 0: none
  link,     \* local_pin, which the paired stand accepted; 0: none
  tries,    \* requests to pair so far
  waiting,  \* the last of them has not been answered
  view,     \* what the main screen shows
  sent,     \* commands so far
  sending,  \* sendCommand waits for the answer to the last of them
  wire,     \* commands on their way to the stand
  viewer    \* page of the score that is open

standVars == <<pin, ask, queue, begun, playing, drain, reader, locked, shown, switched,
              acted>>
phoneVars == <<screen, account, known, link, tries, waiting, view, sent, sending, wire, viewer>>
pilotVars == <<standVars, phoneVars>>

-----------------------------------------------------------------------------
(* Types *)

Concert == 1..MaxConcerts
\* "move" is every command that changes item or page.
CommandKind == {"move", "toggle", "lock", "unlock"}
NoState == [concert |-> 0, locked |-> FALSE]
ShownState == [concert : 0..MaxConcerts, locked : BOOLEAN]
\* seen: the last concert that had begun when the stand took the command.
QueuedCommand == [no : 1..MaxCommands, kind : CommandKind, seen : 0..MaxConcerts]
WireCommand == [no : 1..MaxCommands, kind : CommandKind, pin : 1..MaxStarts]
NoReader == [at |-> "none", with |-> <<>>]

PilotTypeOK ==
  /\ pin \in 1..MaxStarts
  /\ ask \in [1..MaxPairs -> [at : {"none", "sent", "shown", "allowed", "refused"},
                              pin : 0..MaxStarts]]
  /\ queue \in Seq(QueuedCommand) /\ Len(queue) <= QueueCap
  /\ begun \in 0..MaxConcerts
  /\ playing \in BOOLEAN
  /\ drain \in {"off", "check", "take"}
  /\ \A c \in Concert : /\ reader[c].at \in {"none", "idle", "busy"}
                        /\ reader[c].with \in Seq(QueuedCommand)
  /\ locked \in [Concert -> BOOLEAN]
  /\ shown \in ShownState
  /\ switched \in BOOLEAN
  /\ acted \in SUBSET [no : 1..MaxCommands, on : Concert, seen : 0..MaxConcerts]
  /\ screen \in {"login", "main", "score"}
  /\ account \in BOOLEAN
  /\ known \in 0..MaxStarts /\ link \in 0..MaxStarts
  /\ tries \in 0..MaxPairs
  /\ waiting \in BOOLEAN
  /\ view \in ShownState
  /\ sent \in 0..MaxCommands
  /\ sending \in {"no", "waiting", "answered"}
  /\ wire \in SUBSET WireCommand
  /\ viewer \in 0..(ScorePages - 1)

PilotInit ==
  /\ pin = 1
  /\ ask = [n \in 1..MaxPairs |-> [at |-> "none", pin |-> 0]]
  /\ queue = <<>>
  /\ begun = 0
  /\ playing = FALSE
  /\ drain = "off"
  /\ reader = [c \in Concert |-> NoReader]
  /\ locked = [c \in Concert |-> FALSE]
  /\ shown = NoState
  /\ switched = FALSE
  /\ acted = {}
  /\ screen = "login"
  /\ account = FALSE
  /\ known = 0
  /\ link = 0
  /\ tries = 0
  /\ waiting = FALSE
  /\ view = NoState
  /\ sent = 0
  /\ sending = "no"
  /\ wire = {}
  /\ viewer = 0

-----------------------------------------------------------------------------
(* Pairing *)

\* showMain: the screen starts with nothing to show; what was discovered goes
\* with the login screen.
OpenMain == screen' = "main" /\ view' = NoState /\ known' = 0

\* DMS_DISCOVER is broadcast once; the stand answers with its PIN.
Discover ==
  /\ screen = "login" /\ known = 0 /\ ~waiting
  /\ known' = pin
  /\ UNCHANGED <<standVars, screen, account, link, tries, waiting, view, sent, sending>>
  /\ UNCHANGED <<wire, viewer>>

Pair ==
  /\ screen = "login" /\ known # 0 /\ ~waiting
  /\ tries < MaxPairs
  /\ tries' = tries + 1
  /\ ask' = [ask EXCEPT ![tries + 1] = [at |-> "sent", pin |-> known]]
  /\ waiting' = TRUE
  /\ UNCHANGED <<pin, queue, begun, playing, drain, reader, locked, shown, switched, acted>>
  /\ UNCHANGED <<screen, account, known, link, view, sent, sending, wire, viewer>>

\* handlePair: with the right PIN the request reaches the dialog.
PairArrives(n) ==
  /\ ask[n].at = "sent"
  /\ ask' = [ask EXCEPT ![n].at = IF ask[n].pin = pin THEN "shown" ELSE "refused"]
  /\ UNCHANGED <<pin, queue, begun, playing, drain, reader, locked, shown, switched, acted>>
  /\ UNCHANGED phoneVars

\* Dialogs lie on top of each other, also those of requests that nobody waits
\* for any more.
Decide(n, verdict) ==
  /\ ask[n].at = "shown"
  /\ \A m \in 1..MaxPairs : ask[m].at = "shown" => m <= n
  /\ ask' = [ask EXCEPT ![n].at = verdict]
  /\ UNCHANGED <<pin, queue, begun, playing, drain, reader, locked, shown, switched, acted>>
  /\ UNCHANGED phoneVars

\* Mutant: the requests share one channel for the answer.
PairAnsweredOnce ==
  /\ waiting
  /\ \E n \in 1..MaxPairs :
       /\ ask[n].at \in {"allowed", "refused"}
       /\ waiting' = FALSE
       /\ IF ask[n].at = "allowed"
          THEN link' = ask[tries].pin /\ OpenMain
          ELSE UNCHANGED <<link, screen, view, known>>
  /\ UNCHANGED <<standVars, account, tries, sent, sending, wire, viewer>>

PairAnswered ==
  /\ waiting
  /\ ask[tries].at \in {"allowed", "refused"}
  /\ waiting' = FALSE
  /\ IF ask[tries].at = "allowed"
     THEN link' = ask[tries].pin /\ OpenMain
     ELSE UNCHANGED <<link, screen, view, known>>
  /\ UNCHANGED <<standVars, account, tries, sent, sending, wire, viewer>>

\* After thirty seconds, or when the connection breaks; the stand's handler
\* does not notice.
PairGivesUp ==
  /\ waiting
  /\ waiting' = FALSE
  /\ UNCHANGED <<standVars, screen, account, known, link, tries, view, sent, sending>>
  /\ UNCHANGED <<wire, viewer>>

\* Login to the cloud, or Skip.
EnterUnpaired(withAccount) ==
  /\ screen = "login" /\ ~waiting
  /\ account' = withAccount
  /\ OpenMain
  /\ UNCHANGED <<standVars, link, tries, waiting, sent, sending, wire, viewer>>

\* Disconnect & Forget.
Disconnect ==
  /\ screen = "main" /\ sending = "no"
  /\ account' = FALSE
  /\ link' = 0
  /\ known' = 0
  /\ screen' = "login"
  /\ view' = NoState
  /\ UNCHANGED <<standVars, tries, waiting, sent, sending, wire, viewer>>

\* The app is closed and opened again: token and local_pin are kept.
PhoneRestarts ==
  /\ screen' = IF link # 0 \/ account THEN "main" ELSE "login"
  /\ view' = NoState
  /\ known' = 0
  /\ waiting' = FALSE
  /\ sending' = "no"
  /\ viewer' = 0
  /\ UNCHANGED <<standVars, account, link, tries, sent, wire>>

-----------------------------------------------------------------------------
(* The concert on the stand *)

\* BuildConcertMode, playConcert: first the queue is emptied ...
BeginConcert ==
  /\ ~playing /\ drain = "off" /\ ~switched
  /\ begun < MaxConcerts
  /\ begun' = begun + 1
  /\ drain' = "check"
  /\ UNCHANGED <<pin, ask, queue, playing, reader, locked, shown, switched, acted>>
  /\ UNCHANGED phoneVars

\* ... by a loop that looks at its length and then receives, which waits when a
\* goroutine of the concert before has taken the command meanwhile ...
DrainCheck ==
  /\ drain = "check" /\ queue # <<>>
  /\ drain' = "take"
  /\ UNCHANGED <<pin, ask, queue, begun, playing, reader, locked, shown, switched, acted>>
  /\ UNCHANGED phoneVars

DrainTake ==
  /\ drain = "take" /\ queue # <<>>
  /\ queue' = Tail(queue)
  /\ drain' = "check"
  /\ UNCHANGED <<pin, ask, begun, playing, reader, locked, shown, switched, acted>>
  /\ UNCHANGED phoneVars

\* Mutant: the queue is left as it is.
DrainSkipped ==
  /\ drain = "check"
  /\ drain' = "off"
  /\ playing' = TRUE
  /\ reader' = [reader EXCEPT ![begun] = [at |-> "idle", with |-> <<>>]]
  /\ shown' = [concert |-> begun, locked |-> FALSE]
  /\ UNCHANGED <<pin, ask, queue, begun, locked, switched, acted, phoneVars>>

\* ... then a goroutine is started that takes commands, and the first item is
\* shown (updateRemoteState).
DrainEnds ==
  /\ drain = "check" /\ queue = <<>>
  /\ drain' = "off"
  /\ playing' = TRUE
  /\ reader' = [reader EXCEPT ![begun] = [at |-> "idle", with |-> <<>>]]
  /\ shown' = [concert |-> begun, locked |-> FALSE]
  /\ UNCHANGED <<pin, ask, queue, begun, locked, switched, acted, phoneVars>>

\* A goroutine whose concert has ended may find the queue and stopClockChan
\* ready at the same time, and takes either.
TakeCommand(c) ==
  /\ reader[c].at = "idle" /\ queue # <<>>
  /\ reader' = [reader EXCEPT ![c] = [at |-> "busy", with |-> <<Head(queue)>>]]
  /\ queue' = Tail(queue)
  /\ UNCHANGED <<pin, ask, begun, playing, drain, locked, shown, switched, acted>>
  /\ UNCHANGED phoneVars

\* handleRemoteCommand, and updateRemoteState with the variables of c; at the
\* first or last page or item the button is disabled.
Act(c) ==
  LET cmd == Head(reader[c].with)
  IN /\ reader[c].at = "busy"
     /\ reader' = [reader EXCEPT ![c] = [at |-> "idle", with |-> <<>>]]
     /\ \/ /\ cmd.kind = "move" \/ (locked[c] /\ cmd.kind = "lock")
           /\ UNCHANGED <<locked, shown, acted>>
        \/ /\ locked[c] => cmd.kind \in {"unlock", "toggle"}
           /\ locked' = [locked EXCEPT ![c] = IF cmd.kind \in {"lock", "unlock"}
                                              THEN cmd.kind = "lock" ELSE @]
           /\ shown' = [concert |-> c, locked |-> locked'[c]]
           /\ acted' = acted \cup {[no |-> cmd.no, on |-> c, seen |-> cmd.seen]}
     /\ UNCHANGED <<pin, ask, queue, begun, playing, drain, switched, phoneVars>>

\* A tap on the stand's own unlock button, with the profile's PIN.
UnlockHere ==
  /\ playing /\ locked[begun] /\ ~switched
  /\ locked' = [locked EXCEPT ![begun] = FALSE]
  /\ shown' = [concert |-> begun, locked |-> FALSE]
  /\ UNCHANGED <<pin, ask, queue, begun, playing, drain, reader, switched, acted>>
  /\ UNCHANGED phoneVars

\* Exit closes stopClockChan: the goroutine ends, unless it is working on a
\* command.  State is left as it is.
EndConcert ==
  /\ playing /\ ~locked[begun] /\ ~switched
  /\ playing' = FALSE
  /\ reader' = [reader EXCEPT ![begun] = IF @.at = "idle" THEN NoReader ELSE @]
  /\ UNCHANGED <<pin, ask, queue, begun, drain, locked, shown, switched, acted, phoneVars>>

ReaderEnds(c) ==
  /\ reader[c].at = "idle"
  /\ c < begun \/ ~playing
  /\ reader' = [reader EXCEPT ![c] = NoReader]
  /\ UNCHANGED <<pin, ask, queue, begun, playing, drain, locked, shown, switched, acted>>
  /\ UNCHANGED phoneVars

\* Another profile: its server finds the ports taken, so phones stay with the
\* one of the profile before, whose concert nobody can see or end any more.
SwitchProfile ==
  /\ drain = "off" /\ ~switched
  /\ switched' = TRUE
  /\ UNCHANGED <<pin, ask, queue, begun, playing, drain, reader, locked, shown, acted>>
  /\ UNCHANGED phoneVars

\* The stand's app is closed and started again, with another PIN.
StandRestarts ==
  /\ pin < MaxStarts
  /\ pin' = pin + 1
  /\ ask' = [n \in 1..MaxPairs |-> IF ask[n].at \in {"sent", "shown"}
                                  THEN [ask[n] EXCEPT !.at = "refused"] ELSE ask[n]]
  /\ queue' = <<>>
  /\ playing' = FALSE
  /\ drain' = "off"
  /\ reader' = [c \in Concert |-> NoReader]
  /\ shown' = NoState
  /\ switched' = FALSE
  /\ locked' = [c \in Concert |-> FALSE]
  /\ UNCHANGED <<begun, acted, phoneVars>>

-----------------------------------------------------------------------------
(* The main screen of the phone *)

\* handleState answers the poll; a wrong PIN, or no answer, changes nothing.
Poll ==
  /\ screen = "main"
  /\ link = pin
  /\ view # shown
  /\ view' = shown
  /\ UNCHANGED <<standVars, screen, account, known, link, tries, waiting, sent, sending>>
  /\ UNCHANGED <<wire, viewer>>

\* A tap on a button: the set list takes taps also while the others are off.
SendCommand(kind) ==
  /\ screen = "main" /\ sending = "no"
  /\ link # 0
  /\ sent < MaxCommands
  /\ kind \in {"lock", "unlock"} => view.concert # 0 /\ view.locked = (kind = "unlock")
  /\ sent' = sent + 1
  /\ sending' = "waiting"
  /\ wire' = wire \cup {[no |-> sent + 1, kind |-> kind, pin |-> link]}
  /\ UNCHANGED <<standVars, screen, account, known, link, tries, waiting, view, viewer>>

\* handleCommand: a command for which the queue has no room is dropped, and
\* answered all the same.
HandleCommand(m) ==
  /\ wire' = wire \ {m}
  /\ IF m.pin = pin /\ Len(queue) < QueueCap
     THEN queue' = Append(queue, [no |-> m.no, kind |-> m.kind, seen |-> begun])
     ELSE UNCHANGED queue
  /\ sending' = IF sending = "waiting" /\ m.no = sent THEN "answered" ELSE sending
  /\ UNCHANGED <<pin, ask, begun, playing, drain, reader, locked, shown, switched, acted>>
  /\ UNCHANGED <<screen, account, known, link, tries, waiting, view, sent, viewer>>

LoseCommand(m) ==
  /\ wire' = wire \ {m}
  /\ UNCHANGED <<standVars, screen, account, known, link, tries, waiting, view, sent>>
  /\ UNCHANGED <<sending, viewer>>

\* The answer, or half a second without one.
SendingEnds ==
  /\ sending # "no"
  /\ sending' = "no"
  /\ UNCHANGED <<standVars, screen, account, known, link, tries, waiting, view, sent>>
  /\ UNCHANGED <<wire, viewer>>

-----------------------------------------------------------------------------
(* A score on the phone (viewScore) *)

\* loadPage: when the stand does not render the page, the viewer goes back one.
Back(p) == IF p > 0 THEN p - 1 ELSE 0

\* Preview, at the page the stand is at, or a score of the library.
OpenScore(p) ==
  /\ screen = "main" /\ sending = "no"
  /\ link # 0 \/ account
  /\ screen' = "score"
  /\ viewer' \in {p, Back(p)}
  /\ view' = NoState
  /\ UNCHANGED <<standVars, account, known, link, tries, waiting, sent, sending, wire>>

\* The page may fail to load, and one that does not exist always does; from
\* the cloud the whole score was loaded, and the viewer stops at its end.
ViewNext ==
  /\ screen = "score"
  /\ viewer' \in IF viewer + 1 < ScorePages THEN {viewer, viewer + 1} ELSE {viewer}
  /\ UNCHANGED <<standVars, screen, account, known, link, tries, waiting, view, sent, sending>>
  /\ UNCHANGED wire

ViewPrev ==
  /\ screen = "score" /\ viewer > 0
  /\ viewer' \in {viewer - 1, IF link # 0 THEN Back(viewer - 1) ELSE viewer - 1}
  /\ UNCHANGED <<standVars, screen, account, known, link, tries, waiting, view, sent, sending>>
  /\ UNCHANGED wire

CloseScore ==
  /\ screen = "score"
  /\ OpenMain
  /\ viewer' = 0
  /\ UNCHANGED <<standVars, account, link, tries, waiting, sent, sending, wire>>

-----------------------------------------------------------------------------

PilotNext ==
  \/ Discover \/ Pair \/ PairAnswered \/ PairGivesUp \/ Disconnect \/ PhoneRestarts
  \/ \E withAccount \in BOOLEAN : EnterUnpaired(withAccount)
  \/ \E n \in 1..MaxPairs : \/ PairArrives(n)
                            \/ \E verdict \in {"allowed", "refused"} : Decide(n, verdict)
  \/ BeginConcert \/ DrainCheck \/ DrainTake \/ DrainEnds \/ EndConcert \/ UnlockHere
  \/ \E c \in Concert : TakeCommand(c) \/ Act(c) \/ ReaderEnds(c)
  \/ SwitchProfile \/ StandRestarts
  \/ Poll \/ SendingEnds
  \/ \E kind \in CommandKind : SendCommand(kind)
  \/ \E m \in wire : HandleCommand(m) \/ LoseCommand(m)
  \/ \E p \in 0..(ScorePages - 1) : OpenScore(p)
  \/ ViewNext \/ ViewPrev \/ CloseScore

PilotSpec == PilotInit /\ [][PilotNext]_pilotVars

-----------------------------------------------------------------------------
(* Properties *)

\* A command acts only on a concert that had begun when the stand took it: not
\* on the next one, although the queue outlives the concert and a goroutine of
\* the last one may still be taking from it (playConcert, handleCommand).
ActsOnItsConcert == \A a \in acted : a.seen >= a.on

\* The phone holds a stand's PIN as its own only after the stand's user allowed
\* the very request it sent last, whatever became of earlier ones whose dialogs
\* were still open (handlePair, the dialogs of main.go).
PairedByConsent == link # 0 => ask[tries] = [at |-> "allowed", pin |-> link]
=============================================================================
