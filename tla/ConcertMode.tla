---------------------------- MODULE ConcertMode ----------------------------
(***************************************************************************)
(* Stands that play one concert together (playConcert): one of them leads, *)
(* the others follow its page turns.  The leader sends its position to the *)
(* cloud, where LiveSyncService broadcasts it to every stream of the       *)
(* concert, and to the stands that have a stream to its own server on the  *)
(* local network (SyncConcertStream and BroadcastLocal of remote.Server).  *)
(*                                                                         *)
(* A stand's handlers (taps, remote commands, the goroutines that read its *)
(* streams) are one action each.  A stand that connects asks for the state *)
(* (REQUEST_STATE), which every stand on the cloud answers on its own      *)
(* stream (BROADCAST_INFO).  Left out: the messages that move no stand and *)
(* are not answered (STOP_LEADING, metronome ticks), the countdown of      *)
(* breaks, and the streams of phones, which ask as a connecting stand does.*)
(***************************************************************************)
EXTENDS Naturals, Sequences

CONSTANTS
  Stand,
  Leaders,   \* the stands whose musician taps Lead,
  Followers, \* Join,
  Previewers,\* Preview,
  Turners,   \* or turns pages
  Items,     \* how many items the concert has
  Pages,     \* Pages[i]: pages of item i; 0: a break, or no PDF
  Wide,      \* the stands that show two pages side by side
  Near,      \* the pairs of stands that reach each other on the local network
  Stream,    \* bound: the cloud streams that exist at the same time
  Room,      \* bound: messages a stream buffers until Send blocks
  None

Item == 1..Items

ASSUME ConcertAssumption ==
  /\ Leaders \subseteq Stand /\ Followers \subseteq Stand
  /\ Previewers \subseteq Stand /\ Turners \subseteq Stand
  /\ Items \in Nat \ {0}
  /\ Pages \in [Item -> Nat]
  /\ Wide \subseteq Stand
  /\ Near \subseteq Stand \X Stand
  /\ Room \in Nat \ {0}
  /\ None \notin Stand \cup Stream

VARIABLES
  \* local variables of playConcert
  wants,     \* wantsToSync
  leader,    \* isLeader
  follow,    \* autoFollow
  preview,   \* previewMode
  at,        \* currentSongIdx and currentPage
  spread,    \* pagesToShow
  lead,      \* leaderItemIdx and leaderPage
  saved,     \* savedItemIdx and savedPage
  stream,    \* syncStreamCloud; None: not isConnectedCloud
  peer,      \* the stand the P2P stream goes to; None: not isConnectedP2P
  lan,       \* lan[s]: what that stream still carries to s
  \* cloud streams
  owner,     \* the stand whose goroutine reads the stream; None: nobody's, or
             \* that of a playConcert that has been left
  alive,     \* the connection has not broken
  phase,     \* the service's end: "new" (before the first message), "in" the
             \* table of connections, "out" of it
  up,        \* to the service
  down,      \* from the service
  todo,      \* streams the first message of up is still to be sent to
  \* history
  latest,    \* the last update sent, while somebody is tuned
  tuned      \* the stands with one unbroken way from the leader since then

playVars == <<wants, leader, follow, preview, at, spread, lead, saved>>
linkVars == <<stream, owner, alive, phase, up, down, todo>>
lanVars  == <<peer, lan>>
vars     == <<playVars, linkVars, lanVars, latest, tuned>>

-----------------------------------------------------------------------------
(* Types *)

Position == [item : Item, page : Nat]
Start == [item |-> 1, page |-> 0]

\* What the cloud carries: STATE_UPDATE of a leader, REQUEST_STATE and
\* BROADCAST_INFO.
Message == [kind : {"update", "request", "info"}, pos : Position \cup {None}]
Update(p) == [kind |-> "update", pos |-> p]
Request == [kind |-> "request", pos |-> None]
Info(p) == [kind |-> "info", pos |-> p]

TypeOK ==
  /\ wants \in [Stand -> BOOLEAN]
  /\ leader \in [Stand -> BOOLEAN]
  /\ follow \in [Stand -> BOOLEAN]
  /\ preview \in [Stand -> BOOLEAN]
  /\ at \in [Stand -> Position]
  /\ spread \in [Stand -> {1, 2}]
  /\ lead \in [Stand -> Position]
  /\ saved \in [Stand -> Position]
  /\ stream \in [Stand -> Stream \cup {None}]
  /\ peer \in [Stand -> Stand \cup {None}]
  /\ lan \in [Stand -> Seq(Message)]
  /\ owner \in [Stream -> Stand \cup {None}]
  /\ alive \in [Stream -> BOOLEAN]
  /\ phase \in [Stream -> {"new", "in", "out"}]
  /\ up \in [Stream -> Seq(Message)]
  /\ down \in [Stream -> Seq(Message)]
  /\ todo \in [Stream -> SUBSET Stream]
  /\ latest \in Position
  /\ tuned \in SUBSET Stand

-----------------------------------------------------------------------------
\* renderPage: a wide stand shows two pages unless p is the last; where there
\* is no PDF it returns before pagesToShow is set.
Facing(s, p, before) ==
  IF Pages[p.item] = 0 THEN before
  ELSE IF s \in Wide /\ p.page + 1 < Pages[p.item] THEN 2 ELSE 1

\* One stream, in the table of the service.
OnCloud(t) ==
  /\ stream[t] # None
  /\ alive[stream[t]] /\ phase[stream[t]] = "in"
  /\ \A c \in Stream : owner[c] = t => c = stream[t]

IsUpdate(m) == m.kind = "update"
NoUpdate(q) == \A k \in DOMAIN q : ~IsUpdate(q[k])

\* An update that s sends now has one way to t, with nobody else's on it.
Reaches(s, t) ==
  /\ wants[t] /\ ~leader[t]
  /\ \A l \in Stand : leader[l] => l = s
  /\ \/ /\ OnCloud(s) /\ OnCloud(t)
        /\ \A c \in Stream : c # stream[s] => NoUpdate(up[c])
     \/ /\ stream[t] = None /\ peer[t] = s
        /\ \A c \in Stream : owner[c] # t

\* The stands of S are tuned in to the update p.
Tune(S, p) ==
  /\ tuned' = S
  /\ latest' = IF S = {} THEN Start ELSE p

\* Something about the streams of s has changed.
Detune(s) ==
  Tune(IF s = None THEN tuned ELSE IF leader[s] THEN {} ELSE tuned \ {s}, latest)

Init ==
  /\ wants   = [s \in Stand |-> FALSE]
  /\ leader  = [s \in Stand |-> FALSE]
  /\ follow  = [s \in Stand |-> FALSE]
  /\ preview = [s \in Stand |-> FALSE]
  /\ at      = [s \in Stand |-> Start]
  /\ spread  = [s \in Stand |-> Facing(s, Start, 1)]
  /\ lead    = [s \in Stand |-> Start]
  /\ saved   = [s \in Stand |-> Start]
  /\ stream  = [s \in Stand |-> None]
  /\ peer    = [s \in Stand |-> None]
  /\ lan     = [s \in Stand |-> <<>>]
  /\ owner   = [c \in Stream |-> None]
  /\ alive   = [c \in Stream |-> FALSE]
  /\ phase   = [c \in Stream |-> "out"]
  /\ up      = [c \in Stream |-> <<>>]
  /\ down    = [c \in Stream |-> <<>>]
  /\ todo    = [c \in Stream |-> {}]
  /\ latest  = Start
  /\ tuned   = {}

-----------------------------------------------------------------------------
(* Moving a stand *)

\* loadCurrentSong: a PDF opens at its first page, or at its end; at a break,
\* or when there is no PDF, currentPage is not touched.
Opened(s, i, page, atEnd) ==
  LET n == Pages[i]
  IN [item |-> i,
      page |-> IF n = 0 THEN page
               ELSE IF ~atEnd THEN 0
               ELSE IF s \in Wide /\ n >= 2 THEN n - 2 ELSE n - 1]

\* The stand shows p (renderPage).
Show(s, p) ==
  /\ at' = [at EXCEPT ![s] = p]
  /\ spread' = [spread EXCEPT ![s] = Facing(s, p, @)]

\* sendStateUpdate, with the stand at p.
Publish(s, p, private) ==
  IF leader[s] /\ ~private
  THEN /\ Tune({t \in Stand : Reaches(s, t)}, p)
       /\ IF stream[s] # None /\ alive[stream[s]]
          THEN /\ Len(up[stream[s]]) < Room
               /\ up' = [up EXCEPT ![stream[s]] = Append(@, Update(p))]
          ELSE UNCHANGED up
       /\ \A t \in Stand : peer[t] = s => Len(lan[t]) < Room
       /\ lan' = [t \in Stand |-> IF peer[t] = s THEN Append(lan[t], Update(p)) ELSE lan[t]]
  ELSE UNCHANGED <<latest, tuned, up, lan>>

\* A musician who turns a page without leading stops following.
TurnAway(s) == follow' = [follow EXCEPT ![s] = @ /\ leader[s]]

\* A tap, or a remote command, that shows p and sends it.
Turn(s, p) ==
  /\ TurnAway(s)
  /\ Show(s, p)
  /\ Publish(s, p, preview[s])
  /\ UNCHANGED <<wants, leader, preview, lead, saved>>
  /\ UNCHANGED <<stream, owner, alive, phase, down, todo, peer>>

\* Mutant: the second page on a wide stand is forgotten.
NextPageAlone(s) ==
  LET i == at[s].item
  IN /\ s \in Turners
     /\ Turn(s, IF at[s].page + 1 < Pages[i]
                THEN [item |-> i, page |-> at[s].page + spread[s]]
                ELSE IF i < Items THEN Opened(s, i + 1, at[s].page, FALSE)
                ELSE at[s])

\* A wide stand turns two pages at once.
NextPage(s) ==
  LET i == at[s].item
  IN /\ s \in Turners
     /\ Turn(s, IF at[s].page + spread[s] < Pages[i]
                THEN [item |-> i, page |-> at[s].page + spread[s]]
                ELSE IF i < Items THEN Opened(s, i + 1, at[s].page, FALSE)
                ELSE at[s])

PrevPage(s) ==
  LET i == at[s].item
      k == at[s].page
  IN /\ s \in Turners
     /\ Turn(s, IF k > 0 THEN [item |-> i, page |-> IF k > spread[s] THEN k - spread[s] ELSE 0]
                ELSE IF i > 1 THEN Opened(s, i - 1, k, TRUE)
                ELSE at[s])

\* Next item, previous item, the set list, and JUMP_TO_ITEM of a remote control.
GoTo(s, i) ==
  /\ s \in Turners
  /\ Turn(s, Opened(s, i, at[s].page, FALSE))

\* The buttons of the countdown of a break, which the stands follow as well.
UseTimer(s) == s \in Turners /\ Pages[at[s].item] = 0 /\ Turn(s, at[s])

-----------------------------------------------------------------------------
(* Joining and leading *)

\* What was saved is not read again until a preview saves anew.
Forget(s) == saved' = [saved EXCEPT ![s] = Start]

Join(s) ==
  /\ s \in Followers
  /\ ~wants[s]
  /\ wants' = [wants EXCEPT ![s] = TRUE]
  /\ leader' = [leader EXCEPT ![s] = FALSE]
  /\ follow' = [follow EXCEPT ![s] = TRUE]
  /\ Detune(s)
  /\ UNCHANGED <<preview, at, spread, lead, saved, linkVars, lanVars>>

Lead(s) ==
  /\ s \in Leaders
  /\ ~wants[s]
  /\ wants' = [wants EXCEPT ![s] = TRUE]
  /\ leader' = [leader EXCEPT ![s] = TRUE]
  /\ follow' = [follow EXCEPT ![s] = FALSE]
  /\ preview' = [preview EXCEPT ![s] = FALSE]
  /\ Tune({}, latest)
  /\ UNCHANGED <<at, spread, lead, saved, linkVars, lanVars>>

Preview(s) ==
  /\ s \in Previewers
  /\ leader[s] /\ ~preview[s]
  /\ preview' = [preview EXCEPT ![s] = TRUE]
  /\ saved' = [saved EXCEPT ![s] = at[s]]
  /\ UNCHANGED <<wants, leader, follow, at, spread, lead, linkVars, lanVars, latest, tuned>>

Push(s) ==
  /\ leader[s] /\ preview[s]
  /\ preview' = [preview EXCEPT ![s] = FALSE]
  /\ Forget(s)
  /\ Publish(s, at[s], FALSE)
  /\ UNCHANGED <<wants, leader, follow, at, spread, lead>>
  /\ UNCHANGED <<stream, owner, alive, phase, down, todo, peer>>

\* The item is loaded again, at its first page, and nothing is sent.
Cancel(s) ==
  /\ leader[s] /\ preview[s]
  /\ preview' = [preview EXCEPT ![s] = FALSE]
  /\ Forget(s)
  /\ Show(s, Opened(s, saved[s].item, saved[s].page, FALSE))
  /\ UNCHANGED <<wants, leader, follow, lead, linkVars, lanVars, latest, tuned>>

SyncToLeader(s) ==
  /\ wants[s] /\ ~leader[s] /\ ~follow[s]
  /\ follow' = [follow EXCEPT ![s] = TRUE]
  /\ Show(s, Opened(s, lead[s].item, lead[s].page, FALSE))
  /\ UNCHANGED <<wants, leader, preview, lead, saved, linkVars, lanVars, latest, tuned>>

\* The streams are cancelled; the goroutine that reads the cloud's ends later.
ExitSync(s) ==
  /\ wants[s]
  /\ wants' = [wants EXCEPT ![s] = FALSE]
  /\ leader' = [leader EXCEPT ![s] = FALSE]
  /\ alive' = [c \in Stream |-> alive[c] /\ stream[s] # c]
  /\ stream' = [stream EXCEPT ![s] = None]
  /\ peer' = [peer EXCEPT ![s] = None]
  /\ lan' = [lan EXCEPT ![s] = <<>>]
  /\ Detune(s)
  /\ Forget(s)
  /\ UNCHANGED <<follow, preview, at, spread, lead>>
  /\ UNCHANGED <<owner, phase, up, down, todo>>

\* Exit, and playConcert again: the variables are new, and what still reads the
\* old streams works on the old ones.  Only the stream that isConnectedCloud
\* stands for is cancelled.
Reopen(s) ==
  /\ wants' = [wants EXCEPT ![s] = FALSE]
  /\ leader' = [leader EXCEPT ![s] = FALSE]
  /\ follow' = [follow EXCEPT ![s] = FALSE]
  /\ preview' = [preview EXCEPT ![s] = FALSE]
  /\ at' = [at EXCEPT ![s] = Start]
  /\ spread' = [spread EXCEPT ![s] = Facing(s, Start, 1)]
  /\ lead' = [lead EXCEPT ![s] = Start]
  /\ saved' = [saved EXCEPT ![s] = Start]
  /\ stream' = [stream EXCEPT ![s] = None]
  /\ owner' = [c \in Stream |-> IF owner[c] = s THEN None ELSE owner[c]]
  /\ alive' = [c \in Stream |-> alive[c] /\ stream[s] # c]
  /\ down' = [c \in Stream |-> IF owner[c] = s THEN <<>> ELSE down[c]]
  /\ peer' = [peer EXCEPT ![s] = None]
  /\ lan' = [lan EXCEPT ![s] = <<>>]
  /\ Detune(s)
  /\ UNCHANGED <<phase, up, todo>>

-----------------------------------------------------------------------------
(* Streams of a stand *)

\* Mutant: the position is sent during a preview as well.
ConnectTelling(s, c) ==
  /\ wants[s] /\ stream[s] = None
  /\ owner[c] = None /\ phase[c] = "out"
  /\ stream' = [stream EXCEPT ![s] = c]
  /\ owner' = [owner EXCEPT ![c] = s]
  /\ alive' = [alive EXCEPT ![c] = TRUE]
  /\ phase' = [phase EXCEPT ![c] = "new"]
  /\ down' = [down EXCEPT ![c] = <<>>]
  /\ up' = [up EXCEPT ![c] = IF leader[s] THEN <<Request, Update(at[s])>> ELSE <<Request>>]
  /\ Detune(s)
  /\ UNCHANGED <<playVars, todo, peer, lan>>

\* connectCloud: the stand asks for the state, and a leader sends its position
\* at once, to the new stream and to the stands near it.  What a stream starts
\* with does not block.
Connect(s, c) ==
  /\ wants[s] /\ stream[s] = None
  /\ owner[c] = None /\ phase[c] = "out"
  /\ stream' = [stream EXCEPT ![s] = c]
  /\ owner' = [owner EXCEPT ![c] = s]
  /\ alive' = [alive EXCEPT ![c] = TRUE]
  /\ phase' = [phase EXCEPT ![c] = "new"]
  /\ down' = [down EXCEPT ![c] = <<>>]
  /\ LET sends == leader[s] /\ ~preview[s]
     IN /\ up' = [up EXCEPT ![c] = IF sends THEN <<Request, Update(at[s])>> ELSE <<Request>>]
        /\ sends => \A t \in Stand : peer[t] = s => Len(lan[t]) < Room
        /\ lan' = [t \in Stand |-> IF sends /\ peer[t] = s THEN Append(lan[t], Update(at[s])) ELSE lan[t]]
  /\ Detune(s)
  /\ UNCHANGED <<playVars, todo, peer>>

\* Mutant: a stand that does not follow does not note where the leader is.
HandleFollowing(s, m) ==
  IF leader[s] \/ ~follow[s] THEN UNCHANGED <<lead, at, spread>>
  ELSE /\ lead' = [lead EXCEPT ![s] = m]
       /\ Show(s, IF at[s].item # m.item THEN Opened(s, m.item, m.page, FALSE) ELSE m)

\* handleSyncMessage with a STATE_UPDATE of a leader.
Handle(s, m) ==
  IF leader[s] THEN UNCHANGED <<lead, at, spread>>
  ELSE /\ lead' = [lead EXCEPT ![s] = m]
       /\ IF ~follow[s] THEN UNCHANGED <<at, spread>>
          ELSE Show(s, IF at[s].item # m.item THEN Opened(s, m.item, m.page, FALSE) ELSE m)

\* A stand that is asked sends its position, during a preview as well, on the
\* stream it has now, whichever stream the request came by; the goroutine that
\* reads waits until there is room.
Answer(s) ==
  IF stream[s] # None /\ alive[stream[s]]
  THEN /\ Len(up[stream[s]]) < Room
       /\ up' = [up EXCEPT ![stream[s]] = Append(@, Info(at[s]))]
  ELSE UNCHANGED up

\* Mutant: a leader, who follows nobody, does not read.
ReadCloudUnlessLeader(c) ==
  /\ owner[c] # None /\ ~leader[owner[c]]
  /\ down[c] # <<>>
  /\ down' = [down EXCEPT ![c] = Tail(@)]
  /\ LET m == Head(down[c])
     IN /\ IF IsUpdate(m) THEN Handle(owner[c], m.pos) ELSE UNCHANGED <<lead, at, spread>>
        /\ IF m = Request THEN Answer(owner[c]) ELSE UNCHANGED up
  /\ UNCHANGED <<wants, leader, follow, preview, saved, stream>>
  /\ UNCHANGED <<owner, alive, phase, todo, lanVars, latest, tuned>>

\* handleSyncMessage; a BROADCAST_INFO is for the phones.
ReadCloud(c) ==
  /\ owner[c] # None
  /\ down[c] # <<>>
  /\ down' = [down EXCEPT ![c] = Tail(@)]
  /\ LET m == Head(down[c])
     IN /\ IF IsUpdate(m) THEN Handle(owner[c], m.pos) ELSE UNCHANGED <<lead, at, spread>>
        /\ IF m = Request THEN Answer(owner[c]) ELSE UNCHANGED up
  /\ UNCHANGED <<wants, leader, follow, preview, saved, stream>>
  /\ UNCHANGED <<owner, alive, phase, todo, lanVars, latest, tuned>>

\* The goroutine that reads the stream ends, and clears isConnectedCloud even
\* when a newer stream has set it.
EndCloud(c) ==
  /\ owner[c] # None
  /\ ~alive[c]
  /\ stream' = [stream EXCEPT ![owner[c]] = None]
  /\ owner' = [owner EXCEPT ![c] = None]
  /\ down' = [down EXCEPT ![c] = <<>>]
  /\ up' = [up EXCEPT ![c] = IF phase[c] = "new" THEN <<>> ELSE @]
  /\ phase' = [phase EXCEPT ![c] = IF @ = "new" THEN "out" ELSE @]
  /\ Detune(owner[c])
  /\ UNCHANGED <<playVars, alive, todo, lanVars>>

\* Announcements are heard from a stand that leads, and kept for ten seconds.
\* The time until the peer has put the stream in its table is left out.
ConnectLan(s, t) ==
  /\ wants[s] /\ ~leader[s]
  /\ peer[s] = None
  /\ <<s, t>> \in Near /\ t \in Leaders
  /\ peer' = [peer EXCEPT ![s] = t]
  /\ UNCHANGED <<playVars, linkVars, lan, latest, tuned>>

ReadLan(s) ==
  /\ lan[s] # <<>>
  /\ lan' = [lan EXCEPT ![s] = Tail(@)]
  /\ IF stream[s] # None THEN UNCHANGED <<lead, at, spread>> ELSE Handle(s, Head(lan[s]).pos)
  /\ UNCHANGED <<wants, leader, follow, preview, saved, linkVars, peer, latest, tuned>>

BreakLan(s) ==
  /\ peer[s] # None
  /\ peer' = [peer EXCEPT ![s] = None]
  /\ lan' = [lan EXCEPT ![s] = <<>>]
  /\ IF stream[s] = None THEN Detune(s) ELSE UNCHANGED <<latest, tuned>>
  /\ UNCHANGED <<playVars, linkVars>>

\* The network breaks a stream.
Break(c) ==
  /\ alive[c]
  /\ alive' = [alive EXCEPT ![c] = FALSE]
  /\ Detune(owner[c])
  /\ UNCHANGED <<playVars, stream, owner, phase, up, down, todo, lanVars>>

-----------------------------------------------------------------------------
(* LiveSyncService *)

\* A broadcast holds the table's lock for reading, changes of it for writing.
Broadcasting == \E c \in Stream : todo[c] # {}

Register(c) ==
  /\ phase[c] = "new"
  /\ ~Broadcasting
  /\ phase' = [phase EXCEPT ![c] = "in"]
  /\ Detune(owner[c])
  /\ UNCHANGED <<playVars, stream, owner, alive, up, down, todo, lanVars>>

Unregister(c) ==
  /\ phase[c] = "in" /\ ~alive[c]
  /\ ~Broadcasting
  /\ phase' = [phase EXCEPT ![c] = "out"]
  /\ up' = [up EXCEPT ![c] = <<>>]
  /\ Detune(owner[c])
  /\ UNCHANGED <<playVars, stream, owner, alive, down, todo, lanVars>>

\* What the service passes on of a message: it builds its response without the
\* payload, which is where a BROADCAST_INFO has the position.
Response(m) == IF IsUpdate(m) THEN m ELSE [m EXCEPT !.pos = None]

\* Handlers of several streams broadcast at the same time.
Broadcast(c) ==
  /\ phase[c] = "in"
  /\ up[c] # <<>> /\ todo[c] = {}
  /\ todo' = [todo EXCEPT ![c] = {d \in Stream : phase[d] = "in"}]
  /\ UNCHANGED <<playVars, stream, owner, alive, phase, up, down, lanVars>>
  /\ UNCHANGED <<latest, tuned>>

\* Mutant: a stand that is slow to read misses the message.
SendToIfRoom(c, d) ==
  /\ d \in todo[c]
  /\ IF alive[d] /\ owner[d] # None /\ Len(down[d]) < Room
     THEN down' = [down EXCEPT ![d] = Append(@, Response(Head(up[c])))]
     ELSE UNCHANGED down
  /\ todo' = [todo EXCEPT ![c] = @ \ {d}]
  /\ up' = [up EXCEPT ![c] = IF todo[c] = {d} THEN Tail(@) ELSE @]
  /\ UNCHANGED <<playVars, stream, owner, alive, phase, lanVars, latest, tuned>>

\* Send to a stream that has broken fails, which is ignored; what a goroutine of
\* an earlier playConcert reads changes nothing.
SendTo(c, d) ==
  /\ d \in todo[c]
  /\ IF alive[d] /\ owner[d] # None
     THEN /\ Len(down[d]) < Room
          /\ down' = [down EXCEPT ![d] = Append(@, Response(Head(up[c])))]
     ELSE UNCHANGED down
  /\ todo' = [todo EXCEPT ![c] = @ \ {d}]
  /\ up' = [up EXCEPT ![c] = IF todo[c] = {d} THEN Tail(@) ELSE @]
  /\ UNCHANGED <<playVars, stream, owner, alive, phase, lanVars, latest, tuned>>

-----------------------------------------------------------------------------

Tap(s) ==
  \/ NextPage(s) \/ PrevPage(s) \/ UseTimer(s)
  \/ \E i \in Item : GoTo(s, i)
  \/ Join(s) \/ Lead(s) \/ Preview(s) \/ Push(s) \/ Cancel(s)
  \/ SyncToLeader(s) \/ ExitSync(s) \/ Reopen(s)

Carry ==
  \/ \E c \in Stream : ReadCloud(c) \/ Broadcast(c)
  \/ \E c, d \in Stream : SendTo(c, d)
  \/ \E s \in Stand : ReadLan(s)

Links ==
  \/ \E s \in Stand, c \in Stream : Connect(s, c)
  \/ \E c \in Stream : EndCloud(c) \/ Break(c) \/ Register(c) \/ Unregister(c)
  \/ \E s, t \in Stand : ConnectLan(s, t)
  \/ \E s \in Stand : BreakLan(s)

Next == (\E s \in Stand : Tap(s)) \/ Carry \/ Links

Spec == Init /\ [][Next]_vars

-----------------------------------------------------------------------------
(* Properties *)

\* What the leader l has sent and t has not read, in the order it arrives.
Coming(l, t) ==
  IF stream[t] = None THEN lan[t]
  ELSE LET q == up[stream[l]]
       IN down[stream[t]] \o
            (IF q # <<>> /\ todo[stream[l]] # {} /\ stream[t] \notin todo[stream[l]]
             THEN Tail(q) ELSE q)

\* The last update in q, if there is one, has the position p.
LastIs(q, p) ==
  \A k \in DOMAIN q : IsUpdate(q[k]) =>
    q[k].pos = p \/ \E j \in DOMAIN q : j > k /\ IsUpdate(q[j])

\* Broadcasts of several streams at once, streams that break and are replaced,
\* and the switch between cloud and local network neither lose an update nor
\* let an older one be the last: a stand whose way from the only leader has
\* held since the latest update ends up knowing it, and if it follows, on the
\* leader's item (broadcast, SyncConcertStream, handleSyncMessage).
InStep ==
  \A l, t \in Stand : leader[l] /\ t \in tuned =>
    LET q == Coming(l, t)
    IN /\ LastIs(q, latest)
       /\ NoUpdate(q) => /\ lead[t] = latest
                         /\ follow[t] /\ ~preview[l] => at[t].item = at[l].item

\* A stand that has a PDF open shows pages that it has, after whatever mix of
\* page turns, breaks (which leave the page number as it was), updates, cancelled
\* previews and jumps to the leader, on wide stands and narrow ones.
PagesExist ==
  \A s \in Stand : Pages[at[s].item] > 0 => at[s].page + spread[s] <= Pages[at[s].item]

\* During a preview the leader's stand sends no update, not even when its
\* connection is renewed meanwhile, and what it answers to those who ask for the
\* state, its position included, ends at the service: no stand is told of a
\* position by anything but an update (sendStateUpdate, connectCloud,
\* handleSyncMessage, broadcast).
PreviewStaysLocal ==
  [][/\ \A s \in Stand : leader'[s] /\ preview'[s] =>
          /\ \A c \in Stream : owner'[c] = s /\ Len(up'[c]) > Len(up[c]) =>
               ~IsUpdate(up'[c][Len(up'[c])])
          /\ \A t \in Stand : peer'[t] = s => Len(lan'[t]) <= Len(lan[t])
     /\ \A c \in Stream : \A k \in DOMAIN down'[c] :
          ~IsUpdate(down'[c][k]) => down'[c][k].pos = None]_vars

\* The goroutine that reads the stream d has a request to answer, and no room
\* for the answer.
WaitsToAnswer(d) ==
  /\ owner[d] # None /\ down[d] # <<>> /\ Head(down[d]) = Request
  /\ stream[owner[d]] # None /\ alive[stream[owner[d]]]
  /\ Len(up[stream[owner[d]]]) >= Room

\* Although a broadcast holds the table's lock while it waits for a stand to
\* read, and joining and leaving wait for the lock, the streams can only come to
\* a standstill in one way: a broadcast waits for a stand that itself waits for
\* room to answer a REQUEST_STATE.  Otherwise, as long as something is under way
\* or waits for the lock, some goroutine can go on (broadcast,
\* SyncConcertStream, handleSyncMessage).
Flows ==
  (\E c \in Stream : up[c] # <<>> \/ down[c] # <<>> \/ phase[c] = "new")
    => \/ ENABLED (Carry \/ \E c \in Stream : Register(c) \/ Unregister(c) \/ EndCloud(c))
       \/ \E c, d \in Stream : d \in todo[c] /\ WaitsToAnswer(d)
=============================================================================
