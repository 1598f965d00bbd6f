------------------------- MODULE ConcertModeProofs -------------------------
(***************************************************************************)
(* Theorems about ConcertMode, for any number of stands, streams, items    *)
(* and pages, on wide stands and narrow ones.                              *)
(***************************************************************************)
EXTENDS ConcertMode, SequenceTheorems, TLAPS

USE ConcertAssumption

-----------------------------------------------------------------------------
(* The inductive invariant *)

\* Positions whose page the item has.  Wherever a position is kept or under
\* way it is one of these, since each of them will be shown as it is.
Valid == {p \in Position : Pages[p.item] > 0 => p.page < Pages[p.item]}

\* Messages whose update, if they are one, names such a position, ...
Sound == {m \in Message : IsUpdate(m) => m.pos \in Valid}

\* ... what the local network carries, ...
News == {m \in Sound : IsUpdate(m)}

\* ... and what the service passes on.
Heard == {m \in Sound : ~IsUpdate(m) => m.pos = None}

Flags ==
  /\ wants \in [Stand -> BOOLEAN]
  /\ leader \in [Stand -> BOOLEAN]
  /\ follow \in [Stand -> BOOLEAN]
  /\ preview \in [Stand -> BOOLEAN]

Places ==
  /\ at \in [Stand -> Valid]
  /\ spread \in [Stand -> {1, 2}]
  /\ lead \in [Stand -> Valid]
  /\ saved \in [Stand -> Valid]
  /\ PagesExist

Queues ==
  /\ lan \in [Stand -> Seq(News)]
  /\ up \in [Stream -> Seq(Sound)]
  /\ down \in [Stream -> Seq(Heard)]
  /\ latest \in Valid

Connections ==
  /\ stream \in [Stand -> Stream \cup {None}]
  /\ peer \in [Stand -> Stand \cup {None}]
  /\ owner \in [Stream -> Stand \cup {None}]
  /\ alive \in [Stream -> BOOLEAN]
  /\ phase \in [Stream -> {"new", "in", "out"}]
  /\ todo \in [Stream -> SUBSET Stream]
  /\ tuned \in SUBSET Stand

\* The stream that isConnectedCloud stands for is read by the stand itself.
Owned == \A s \in Stand : stream[s] # None => owner[stream[s]] = s

\* A broadcast under way has its message at the head of the queue.
Sending == \A c \in Stream : todo[c] # {} => phase[c] = "in" /\ up[c] # <<>>

IInv == Flags /\ Places /\ Queues /\ Connections /\ Owned /\ Sending

-----------------------------------------------------------------------------
(* Positions *)

\* The parts of a position that names a page its item has.
LEMMA ValidFields ==
  ASSUME NEW p \in Valid
  PROVE  /\ p \in Position /\ p.item \in Item /\ p.page \in Nat
         /\ Pages[p.item] \in Nat
         /\ Pages[p.item] > 0 => p.page < Pages[p.item]
BY DEF Valid, Position

\* A record of an item and one of its pages.
LEMMA MakeValid ==
  ASSUME NEW i \in Item, NEW k \in Nat, Pages[i] > 0 => k < Pages[i]
  PROVE  [item |-> i, page |-> k] \in Valid
BY DEF Valid, Position

\* The start of a concert is one.
LEMMA StartValid == Start \in Valid
<1>1. 1 \in Item /\ Pages[1] \in Nat
  BY DEF Item
<1> QED BY <1>1, MakeValid DEF Start

\* The messages there are, and what becomes of them at the service.
LEMMA Messages ==
  /\ \A p \in Valid : Update(p) \in News /\ Update(p) \in Sound
                       /\ IsUpdate(Update(p)) /\ Update(p).pos = p
  /\ \A p \in Valid : Info(p) \in Sound /\ ~IsUpdate(Info(p))
  /\ Request \in Sound /\ ~IsUpdate(Request)
  /\ \A m \in Sound : /\ Response(m) \in Heard
                       /\ (IsUpdate(Response(m)) <=> IsUpdate(m))
                       /\ (IsUpdate(m) => Response(m) = m /\ m.pos \in Valid)
  /\ News \subseteq Sound /\ Heard \subseteq Sound
<1>1. Valid \subseteq Position
  BY DEF Valid
<1>2. ASSUME NEW m \in Sound
      PROVE  /\ Response(m) \in Heard
             /\ (IsUpdate(Response(m)) <=> IsUpdate(m))
             /\ (IsUpdate(m) => Response(m) = m /\ m.pos \in Valid)
  <2>1. m \in Message /\ (IsUpdate(m) => m.pos \in Valid)
    BY DEF Sound
  <2>2. CASE IsUpdate(m)
    BY <2>1, <2>2 DEF Response, Heard, Sound
  <2>3. CASE ~IsUpdate(m)
    BY <2>1, <2>3 DEF Response, Heard, Sound, Message, IsUpdate
  <2> QED BY <2>2, <2>3
<1>3. \A p \in Valid : Update(p) \in News /\ Update(p) \in Sound
                      /\ IsUpdate(Update(p)) /\ Update(p).pos = p
  BY <1>1 DEF Update, IsUpdate, News, Sound, Message
<1>4. \A p \in Valid : Info(p) \in Sound /\ ~IsUpdate(Info(p))
  BY <1>1 DEF Info, IsUpdate, Sound, Message
<1>5. Request \in Sound /\ ~IsUpdate(Request)
  BY DEF Request, IsUpdate, Sound, Message
<1>6. News \subseteq Sound /\ Heard \subseteq Sound
  BY DEF News, Heard
<1> QED BY <1>2, <1>3, <1>4, <1>5, <1>6

\* Adding to a queue.
LEMMA Grown ==
  ASSUME NEW S, NEW q \in Seq(S), NEW m \in S
  PROVE  Append(q, m) \in Seq(S) /\ Append(q, m) # <<>>
BY AppendProperties

\* renderPage never shows a page after the last.
LEMMA FacingFits ==
  ASSUME NEW s \in Stand, NEW p \in Valid, NEW before \in {1, 2}
  PROVE  /\ Facing(s, p, before) \in {1, 2}
         /\ Pages[p.item] > 0 => p.page + Facing(s, p, before) <= Pages[p.item]
BY ValidFields DEF Facing

\* loadCurrentSong ends on a page of the item.
LEMMA OpenedValid ==
  ASSUME NEW s \in Stand, NEW i \in Item, NEW page \in Nat, NEW atEnd \in BOOLEAN
  PROVE  Opened(s, i, page, atEnd) \in Valid
<1> DEFINE n == Pages[i]
           k == IF n = 0 THEN page
                ELSE IF ~atEnd THEN 0
                ELSE IF s \in Wide /\ n >= 2 THEN n - 2 ELSE n - 1
<1>1. n \in Nat
  OBVIOUS
<1>2. k \in Nat /\ (n > 0 => k < n)
  BY <1>1
<1>3. Opened(s, i, page, atEnd) = [item |-> i, page |-> k]
  BY DEF Opened
<1> HIDE DEF k
<1> QED BY <1>2, <1>3, MakeValid

-----------------------------------------------------------------------------
(* What the parts of the actions preserve *)

\* Showing such a position is safe.
LEMMA ShowKeeps ==
  ASSUME Places, NEW s \in Stand, NEW p \in Valid, Show(s, p)
  PROVE  /\ at' \in [Stand -> Valid]
         /\ spread' \in [Stand -> {1, 2}]
         /\ PagesExist'
<1>1. spread[s] \in {1, 2} /\ at \in [Stand -> Valid] /\ spread \in [Stand -> {1, 2}]
  BY DEF Places
<1>2. /\ at' \in [Stand -> Valid] /\ at'[s] = p
      /\ \A t \in Stand \ {s} : at'[t] = at[t]
  BY <1>1 DEF Show
<1>3. /\ spread' \in [Stand -> {1, 2}] /\ spread'[s] = Facing(s, p, spread[s])
      /\ \A t \in Stand \ {s} : spread'[t] = spread[t]
  BY <1>1, FacingFits DEF Show
<1>4. Pages[p.item] > 0 => p.page + spread'[s] <= Pages[p.item]
  BY <1>1, <1>3, FacingFits
<1> QED BY <1>2, <1>3, <1>4 DEF Places, PagesExist

\* What is tuned in stays a set of stands, and the update one of theirs.
LEMMA TuneType ==
  ASSUME NEW S, NEW p \in Valid, Tune(S, p), S \subseteq Stand
  PROVE  tuned' \in SUBSET Stand /\ latest' \in Valid
BY StartValid DEF Tune

\* Losing track of the leader keeps the types.
LEMMA DetuneType ==
  ASSUME Queues, Connections, NEW s, Detune(s)
  PROVE  tuned' \in SUBSET Stand /\ latest' \in Valid
<1> DEFINE S == IF s = None THEN tuned ELSE IF leader[s] THEN {} ELSE tuned \ {s}
<1>1. S \subseteq Stand /\ latest \in Valid
  BY DEF Queues, Connections
<1>2. Tune(S, latest)
  BY DEF Detune
<1> HIDE DEF S
<1> QED BY <1>1, <1>2, TuneType

\* What a stand sends on its streams is valid if it was before.
LEMMA PublishKeeps ==
  ASSUME Queues, Connections, NEW s \in Stand, NEW p \in Valid, NEW private,
         Publish(s, p, private)
  PROVE  /\ lan' \in [Stand -> Seq(News)]
         /\ up' \in [Stream -> Seq(Sound)]
         /\ latest' \in Valid
         /\ tuned' \in SUBSET Stand
         /\ \A c \in Stream : up[c] # <<>> => up'[c] # <<>>
<1>1. CASE leader[s] /\ ~private
  <2>1. /\ latest' \in Valid /\ tuned' \in SUBSET Stand
    <3>1. Tune({t \in Stand : Reaches(s, t)}, p)
      BY <1>1 DEF Publish
    <3>2. {t \in Stand : Reaches(s, t)} \subseteq Stand
      OBVIOUS
    <3> QED BY <3>1, <3>2, TuneType
  <2>9. /\ lan' = [t \in Stand |-> IF peer[t] = s THEN Append(lan[t], Update(p)) ELSE lan[t]]
        /\ \/ up' = up
           \/ up' = [up EXCEPT ![stream[s]] = Append(@, Update(p))]
    BY <1>1 DEF Publish
  <2>2. \A t \in Stand : lan[t] \in Seq(News) /\ Append(lan[t], Update(p)) \in Seq(News)
    BY Messages, Grown DEF Queues
  <2>3. \A c \in Stream : up[c] \in Seq(Sound) /\ Append(up[c], Update(p)) \in Seq(Sound)
                           /\ Append(up[c], Update(p)) # <<>>
    BY Messages, Grown DEF Queues
  <2>4. /\ up' \in [Stream -> Seq(Sound)]
        /\ \A c \in Stream : up[c] # <<>> => up'[c] # <<>>
    <3>1. CASE up' = up
      BY <3>1 DEF Queues
    <3>2. CASE up' = [up EXCEPT ![stream[s]] = Append(@, Update(p))]
      <4>1. up' = [c \in Stream |-> IF c = stream[s] THEN Append(up[c], Update(p)) ELSE up[c]]
        BY <3>2 DEF Queues
      <4> QED BY <4>1, <2>3
    <3> QED BY <2>9, <3>1, <3>2
  <2> QED BY <2>9, <2>1, <2>2, <2>4
<1>2. CASE ~(leader[s] /\ ~private)
  BY <1>2 DEF Publish, Queues, Connections
<1> QED BY <1>1, <1>2

\* So is what a stand does with an update.
LEMMA HandleKeeps ==
  ASSUME Places, NEW s \in Stand, NEW p \in Valid, Handle(s, p)
  PROVE  /\ at' \in [Stand -> Valid]
         /\ spread' \in [Stand -> {1, 2}]
         /\ lead' \in [Stand -> Valid]
         /\ PagesExist'
<1>1. CASE leader[s]
  BY <1>1 DEF Handle, Places, PagesExist
<1>2. CASE ~leader[s]
  <2>1. lead' \in [Stand -> Valid]
    BY <1>2 DEF Handle, Places
  <2>2. CASE ~follow[s]
    BY <1>2, <2>1, <2>2 DEF Handle, Places, PagesExist
  <2>3. CASE follow[s]
    <3>1. PICK q \in Valid : q = (IF at[s].item # p.item THEN Opened(s, p.item, p.page, FALSE) ELSE p)
      BY ValidFields, OpenedValid
    <3>2. Show(s, q)
      BY <1>2, <2>3, <3>1 DEF Handle
    <3> QED BY <2>1, <3>2, ShowKeeps
  <2> QED BY <2>2, <2>3
<1> QED BY <1>1, <1>2

\* A tap that shows a page the item has.
LEMMA TurnKeeps ==
  ASSUME IInv, NEW s \in Stand, NEW p \in Valid, Turn(s, p)
  PROVE  IInv'
<1>1. /\ at' \in [Stand -> Valid]
      /\ spread' \in [Stand -> {1, 2}]
      /\ PagesExist'
  BY ShowKeeps DEF IInv, Turn
<1>2. /\ lan' \in [Stand -> Seq(News)]
      /\ up' \in [Stream -> Seq(Sound)]
      /\ latest' \in Valid
      /\ tuned' \in SUBSET Stand
      /\ \A c \in Stream : up[c] # <<>> => up'[c] # <<>>
  BY PublishKeeps DEF IInv, Turn
<1>3. Flags'
  BY DEF IInv, Flags, Turn, TurnAway
<1>4. Places'
  BY <1>1 DEF IInv, Places, Turn
<1>5. Queues'
  BY <1>2 DEF IInv, Queues, Turn
<1>6. Connections' /\ Owned' /\ Sending'
  BY <1>2 DEF IInv, Connections, Owned, Sending, Turn
<1> QED BY <1>3, <1>4, <1>5, <1>6 DEF IInv

-----------------------------------------------------------------------------
(* The actions *)

\* The invariant holds at first, ...
LEMMA InitInvariant == Init => IInv
<1> SUFFICES ASSUME Init PROVE IInv
  OBVIOUS
<1>1. Start \in Valid /\ Start.item \in Item /\ Start.page \in Nat
  BY StartValid, ValidFields
<1>2. Flags
  BY DEF Init, Flags
<1>3. Places
  <2>1. \A s \in Stand : /\ Facing(s, Start, 1) \in {1, 2}
                         /\ Pages[Start.item] > 0 => Start.page + Facing(s, Start, 1) <= Pages[Start.item]
    BY <1>1, FacingFits
  <2> QED BY <1>1, <2>1 DEF Init, Places, PagesExist
<1>4. Queues
  BY <1>1 DEF Init, Queues
<1>5. Connections /\ Owned /\ Sending
  BY DEF Init, Connections, Owned, Sending
<1> QED BY <1>2, <1>3, <1>4, <1>5 DEF IInv

\* Taps that turn pages: the position they show is one of the item's.
LEMMA TurnsAreValid ==
  ASSUME IInv, NEW s \in Stand,
         \/ NextPage(s) \/ PrevPage(s) \/ UseTimer(s) \/ \E i \in Item : GoTo(s, i)
  PROVE  \E p \in Valid : Turn(s, p)
<1>1. /\ at[s] \in Valid /\ at[s].item \in Item /\ at[s].page \in Nat
      /\ spread[s] \in {1, 2}
      /\ Pages[at[s].item] \in Nat
      /\ Pages[at[s].item] > 0 => at[s].page < Pages[at[s].item]
      /\ Items \in Nat
  BY ValidFields DEF IInv, Places
<1> DEFINE i == at[s].item
           k == at[s].page
<1>2. CASE NextPage(s)
  <2>1. CASE k + spread[s] < Pages[i]
    BY <1>1, <1>2, <2>1, MakeValid DEF NextPage
  <2>2. CASE ~(k + spread[s] < Pages[i]) /\ i < Items
    <3>1. i + 1 \in Item
      BY <1>1, <2>2 DEF Item
    <3> QED BY <1>1, <1>2, <2>2, <3>1, OpenedValid DEF NextPage
  <2>3. CASE ~(k + spread[s] < Pages[i]) /\ ~(i < Items)
    BY <1>1, <1>2, <2>3 DEF NextPage
  <2> QED BY <2>1, <2>2, <2>3
<1>3. CASE PrevPage(s)
  <2>1. CASE k > 0
    <3> DEFINE m == IF k > spread[s] THEN k - spread[s] ELSE 0
    <3>1. m \in Nat /\ (Pages[i] > 0 => m < Pages[i])
      BY <1>1
    <3>2. Turn(s, [item |-> i, page |-> m])
      BY <1>3, <2>1 DEF PrevPage
    <3> HIDE DEF m
    <3> QED BY <1>1, <3>1, <3>2, MakeValid
  <2>2. CASE ~(k > 0) /\ i > 1
    <3>1. i - 1 \in Item
      BY <1>1, <2>2 DEF Item
    <3> QED BY <1>1, <1>3, <2>2, <3>1, OpenedValid DEF PrevPage
  <2>3. CASE ~(k > 0) /\ ~(i > 1)
    BY <1>1, <1>3, <2>3 DEF PrevPage
  <2> QED BY <2>1, <2>2, <2>3
<1>4. CASE UseTimer(s)
  BY <1>1, <1>4 DEF UseTimer
<1>5. CASE \E j \in Item : GoTo(s, j)
  <2>1. PICK j \in Item : GoTo(s, j)
    BY <1>5
  <2>2. Opened(s, j, k, FALSE) \in Valid
    BY <1>1, OpenedValid
  <2> QED BY <2>1, <2>2 DEF GoTo
<1> QED BY <1>2, <1>3, <1>4, <1>5

\* Taps that show, or go back to, a position that was kept.
LEMMA ReturnsKeep ==
  ASSUME IInv, NEW s \in Stand, Cancel(s) \/ SyncToLeader(s)
  PROVE  IInv'
<1>1. /\ saved[s] \in Valid /\ saved[s].item \in Item /\ saved[s].page \in Nat
      /\ lead[s] \in Valid /\ lead[s].item \in Item /\ lead[s].page \in Nat
  BY ValidFields DEF IInv, Places
<1>2. PICK p \in Valid : Show(s, p)
  BY <1>1, OpenedValid DEF Cancel, SyncToLeader
<1>3. /\ at' \in [Stand -> Valid]
      /\ spread' \in [Stand -> {1, 2}]
      /\ PagesExist'
  BY <1>2, ShowKeeps DEF IInv
<1>4. Flags'
  BY DEF IInv, Flags, Cancel, SyncToLeader
<1>5. Places'
  <2>1. saved' \in [Stand -> Valid] /\ lead' = lead
    <3>1. saved' = saved \/ saved' = [saved EXCEPT ![s] = Start]
      BY DEF Cancel, SyncToLeader, Forget
    <3>2. lead' = lead
      BY DEF Cancel, SyncToLeader
    <3> QED BY <3>1, <3>2, StartValid DEF IInv, Places
  <2> QED BY <1>3, <2>1 DEF IInv, Places
<1>6. Queues' /\ Connections' /\ Owned' /\ Sending'
  BY DEF IInv, Queues, Connections, Owned, Sending, Cancel, SyncToLeader, linkVars, lanVars
<1> QED BY <1>4, <1>5, <1>6 DEF IInv

\* Taps that leave the page alone.
LEMMA TapsKeep ==
  ASSUME IInv, NEW s \in Stand, Join(s) \/ Lead(s) \/ Preview(s) \/ Push(s) \/ ExitSync(s)
  PROVE  IInv'
<1>1. CASE Join(s)
  <2>1. tuned' \in SUBSET Stand /\ latest' \in Valid
    BY <1>1, DetuneType DEF IInv, Join
  <2> QED BY <1>1, <2>1
    DEF Join, IInv, Flags, Places, PagesExist, Queues, Connections, Owned, Sending, linkVars, lanVars
<1>2. CASE Lead(s)
  <2>1. tuned' \in SUBSET Stand /\ latest' \in Valid
    BY <1>2, StartValid DEF Lead, Tune
  <2> QED BY <1>2, <2>1
    DEF Lead, IInv, Flags, Places, PagesExist, Queues, Connections, Owned, Sending, linkVars, lanVars
<1>3. CASE Preview(s)
  BY <1>3 DEF Preview, IInv, Flags, Places, PagesExist, Queues, Connections, Owned, Sending, linkVars, lanVars
<1>4. CASE Push(s)
  <2>1. at[s] \in Valid
    BY DEF IInv, Places
  <2>2. /\ lan' \in [Stand -> Seq(News)]
        /\ up' \in [Stream -> Seq(Sound)]
        /\ latest' \in Valid
        /\ tuned' \in SUBSET Stand
        /\ \A c \in Stream : up[c] # <<>> => up'[c] # <<>>
    BY <1>4, <2>1, PublishKeeps DEF IInv, Push
  <2>3. Flags' /\ Places'
    BY <1>4, StartValid DEF IInv, Flags, Places, PagesExist, Push, Forget
  <2>4. Queues' /\ Connections' /\ Owned' /\ Sending'
    BY <1>4, <2>2 DEF IInv, Queues, Connections, Owned, Sending, Push
  <2> QED BY <2>3, <2>4 DEF IInv
<1>5. CASE ExitSync(s)
  <2>1. tuned' \in SUBSET Stand /\ latest' \in Valid
    BY <1>5, DetuneType DEF IInv, ExitSync
  <2>2. Flags' /\ Places'
    BY <1>5, StartValid DEF IInv, Flags, Places, PagesExist, ExitSync, Forget
  <2>3. Queues'
    BY <1>5, <2>1 DEF IInv, Queues, ExitSync
  <2>4. Connections' /\ Owned' /\ Sending'
    BY <1>5, <2>1 DEF IInv, Connections, Owned, Sending, ExitSync
  <2> QED BY <2>2, <2>3, <2>4 DEF IInv
<1> QED BY <1>1, <1>2, <1>3, <1>4, <1>5

\* Playing the concert again keeps it, ...
LEMMA ReopenKeeps ==
  ASSUME IInv, NEW s \in Stand, Reopen(s)
  PROVE  IInv'
<1>1. Start \in Valid /\ Start.item \in Item /\ Start.page \in Nat
  BY StartValid, ValidFields
<1>2. Flags'
  BY DEF IInv, Flags, Reopen
<1>3. Places'
  <2>1. /\ Facing(s, Start, 1) \in {1, 2}
        /\ Pages[Start.item] > 0 => Start.page + Facing(s, Start, 1) <= Pages[Start.item]
    BY <1>1, FacingFits
  <2> QED BY <1>1, <2>1 DEF IInv, Places, PagesExist, Reopen
<1>4. tuned' \in SUBSET Stand /\ latest' \in Valid
  BY DetuneType DEF IInv, Reopen
<1>5. Queues'
  BY <1>4 DEF IInv, Queues, Reopen
<1>6. Connections' /\ Owned' /\ Sending'
  BY <1>4 DEF IInv, Connections, Owned, Sending, Reopen
<1> QED BY <1>2, <1>3, <1>5, <1>6 DEF IInv

\* The streams of the stands.
LEMMA ConnectKeeps ==
  ASSUME IInv, NEW s \in Stand, NEW c \in Stream, Connect(s, c)
  PROVE  IInv'
<1>1. at[s] \in Valid /\ tuned' \in SUBSET Stand /\ latest' \in Valid
  BY DetuneType DEF IInv, Places, Connect
<1>2. up' \in [Stream -> Seq(Sound)]
  <2>1. <<Request, Update(at[s])>> \in Seq(Sound) /\ <<Request>> \in Seq(Sound)
    BY <1>1, Messages
  <2>2. \/ up' = [up EXCEPT ![c] = <<Request, Update(at[s])>>]
        \/ up' = [up EXCEPT ![c] = <<Request>>]
    BY DEF Connect
  <2> QED BY <2>1, <2>2 DEF IInv, Queues
<1>3. lan' \in [Stand -> Seq(News)]
  <2>1. \A t \in Stand : lan[t] \in Seq(News) /\ Append(lan[t], Update(at[s])) \in Seq(News)
    BY <1>1, Messages, Grown DEF IInv, Queues
  <2> QED BY <1>1, <2>1 DEF Connect, IInv, Queues
<1>4. Queues'
  BY <1>1, <1>2, <1>3 DEF Connect, IInv, Queues
<1>5. Connections' /\ Owned' /\ Sending'
  BY <1>1 DEF Connect, IInv, Connections, Owned, Sending
<1>6. Flags' /\ Places'
  BY DEF Connect, IInv, Flags, Places, PagesExist, playVars
<1> QED BY <1>4, <1>5, <1>6 DEF IInv

\* ... the end of a cloud stream does, ...
LEMMA EndingsKeep ==
  ASSUME IInv, NEW c \in Stream, EndCloud(c) \/ Break(c)
  PROVE  IInv'
<1>1. CASE EndCloud(c)
  <2>1. tuned' \in SUBSET Stand /\ latest' \in Valid
    BY <1>1, DetuneType DEF IInv, EndCloud
  <2>2. Flags' /\ Places'
    BY <1>1 DEF EndCloud, IInv, Flags, Places, PagesExist, playVars
  <2>3. Queues'
    BY <1>1, <2>1 DEF EndCloud, IInv, Queues, lanVars
  <2>4. Connections' /\ Owned' /\ Sending'
    BY <1>1, <2>1 DEF EndCloud, IInv, Connections, Owned, Sending, lanVars
  <2> QED BY <2>2, <2>3, <2>4 DEF IInv
<1>2. CASE Break(c)
  <2>1. tuned' \in SUBSET Stand /\ latest' \in Valid
    BY <1>2, DetuneType DEF IInv, Break
  <2> QED BY <1>2, <2>1
    DEF Break, IInv, Flags, Places, PagesExist, Queues, Connections, Owned, Sending, playVars, lanVars
<1> QED BY <1>1, <1>2

\* ... a P2P stream that begins or breaks does, ...
LEMMA LanKeeps ==
  ASSUME IInv, NEW s \in Stand, NEW t \in Stand, ConnectLan(s, t) \/ BreakLan(s)
  PROVE  IInv'
<1>1. CASE ConnectLan(s, t)
  BY <1>1
  DEF ConnectLan, IInv, Flags, Places, PagesExist, Queues, Connections, Owned, Sending, playVars, linkVars
<1>2. CASE BreakLan(s)
  <2>1. tuned' \in SUBSET Stand /\ latest' \in Valid
    <3>1. CASE stream[s] = None
      BY <1>2, <3>1, DetuneType DEF IInv, BreakLan
    <3>2. CASE stream[s] # None
      BY <1>2, <3>2 DEF IInv, BreakLan, Queues, Connections
    <3> QED BY <3>1, <3>2
  <2> QED BY <1>2, <2>1
    DEF BreakLan, IInv, Flags, Places, PagesExist, Queues, Connections, Owned, Sending, playVars, linkVars
<1> QED BY <1>1, <1>2

\* An answer is added to what the stand sends, whose stream is in the table.
LEMMA AnswerKeeps ==
  ASSUME IInv, NEW s \in Stand, Answer(s) \/ UNCHANGED up
  PROVE  /\ up' \in [Stream -> Seq(Sound)]
         /\ \A c \in Stream : up[c] # <<>> => up'[c] # <<>>
<1>1. at[s] \in Valid /\ up \in [Stream -> Seq(Sound)]
  BY DEF IInv, Places, Queues
<1>2. up' = up \/ up' = [up EXCEPT ![stream[s]] = Append(@, Info(at[s]))]
  BY DEF Answer
<1>3. \A c \in Stream : /\ Append(up[c], Info(at[s])) \in Seq(Sound)
                        /\ Append(up[c], Info(at[s])) # <<>>
  BY <1>1, Messages, Grown
<1> QED BY <1>1, <1>2, <1>3

\* What the goroutine that reads a stream does with a message.
LEMMA ReadCloudSteps ==
  ASSUME IInv, NEW c \in Stream, ReadCloud(c)
  PROVE  /\ owner[c] \in Stand /\ down[c] # <<>>
         /\ Head(down[c]) \in Heard /\ Head(down[c]) \in Sound /\ Tail(down[c]) \in Seq(Heard)
         /\ IsUpdate(Head(down[c])) => Head(down[c]).pos \in Valid
         /\ IF IsUpdate(Head(down[c])) THEN Handle(owner[c], Head(down[c]).pos) /\ UNCHANGED up
            ELSE UNCHANGED <<lead, at, spread>> /\ (Answer(owner[c]) \/ UNCHANGED up)
<1>1. owner[c] \in Stand /\ down[c] # <<>> /\ down[c] \in Seq(Heard)
  BY DEF ReadCloud, IInv, Queues, Connections
<1>2. Head(down[c]) \in Heard /\ Tail(down[c]) \in Seq(Heard)
  BY <1>1
<1>3. Head(down[c]) \in Sound /\ (IsUpdate(Head(down[c])) => Head(down[c]).pos \in Valid)
  BY <1>2 DEF Heard, Sound
<1>4. IF IsUpdate(Head(down[c])) THEN Handle(owner[c], Head(down[c]).pos) /\ UNCHANGED up
      ELSE UNCHANGED <<lead, at, spread>> /\ (Answer(owner[c]) \/ UNCHANGED up)
  BY Messages DEF ReadCloud
<1> QED BY <1>1, <1>2, <1>3, <1>4

\* Reading a message, and answering it.
LEMMA ReadCloudKeeps ==
  ASSUME IInv, NEW c \in Stream, ReadCloud(c)
  PROVE  IInv'
<1>1. /\ owner[c] \in Stand /\ Tail(down[c]) \in Seq(Heard)
      /\ \/ \E p \in Valid : Handle(owner[c], p)
         \/ UNCHANGED <<lead, at, spread>>
      /\ Answer(owner[c]) \/ UNCHANGED up
  BY ReadCloudSteps
<1>2. /\ at' \in [Stand -> Valid]
      /\ spread' \in [Stand -> {1, 2}]
      /\ lead' \in [Stand -> Valid]
      /\ PagesExist'
  <2>1. CASE \E p \in Valid : Handle(owner[c], p)
    BY <1>1, <2>1, HandleKeeps DEF IInv
  <2>2. CASE UNCHANGED <<lead, at, spread>>
    BY <2>2 DEF IInv, Places, PagesExist
  <2> QED BY <1>1, <2>1, <2>2
<1>3. Flags' /\ Places'
  BY <1>2 DEF ReadCloud, IInv, Flags, Places
<1>4. /\ up' \in [Stream -> Seq(Sound)]
      /\ \A d \in Stream : up[d] # <<>> => up'[d] # <<>>
  BY <1>1, AnswerKeeps
<1>5. Queues'
  BY <1>1, <1>4 DEF ReadCloud, IInv, Queues, lanVars
<1>6. Connections' /\ Owned' /\ Sending'
  BY <1>4 DEF ReadCloud, IInv, Connections, Owned, Sending, lanVars
<1> QED BY <1>3, <1>5, <1>6 DEF IInv

\* ... and an update read from one.
LEMMA ReadLanKeeps ==
  ASSUME IInv, NEW s \in Stand, ReadLan(s)
  PROVE  IInv'
<1>1. Head(lan[s]).pos \in Valid /\ Tail(lan[s]) \in Seq(News)
  <2>1. Head(lan[s]) \in News /\ Tail(lan[s]) \in Seq(News)
    BY DEF ReadLan, IInv, Queues
  <2> QED BY <2>1 DEF News, Sound
<1>2. /\ at' \in [Stand -> Valid]
      /\ spread' \in [Stand -> {1, 2}]
      /\ lead' \in [Stand -> Valid]
      /\ PagesExist'
  <2>1. CASE stream[s] # None
    BY <2>1 DEF ReadLan, IInv, Places, PagesExist
  <2>2. CASE stream[s] = None
    BY <1>1, <2>2, HandleKeeps DEF ReadLan, IInv
  <2> QED BY <2>1, <2>2
<1>3. Flags' /\ Places'
  BY <1>2 DEF ReadLan, IInv, Flags, Places
<1>4. Queues'
  BY <1>1 DEF ReadLan, IInv, Queues, linkVars
<1>5. Connections' /\ Owned' /\ Sending'
  BY DEF ReadLan, IInv, Connections, Owned, Sending, linkVars
<1> QED BY <1>3, <1>4, <1>5 DEF IInv

\* The service.
LEMMA ServiceKeeps ==
  ASSUME IInv, NEW c \in Stream, NEW d \in Stream,
         Register(c) \/ Unregister(c) \/ Broadcast(c) \/ SendTo(c, d)
  PROVE  IInv'
<1>1. CASE Register(c)
  <2>1. tuned' \in SUBSET Stand /\ latest' \in Valid
    BY <1>1, DetuneType DEF IInv, Register
  <2> QED BY <1>1, <2>1
    DEF Register, IInv, Flags, Places, PagesExist, Queues, Connections, Owned, Sending, playVars, lanVars
<1>2. CASE Unregister(c)
  <2>1. tuned' \in SUBSET Stand /\ latest' \in Valid
    BY <1>2, DetuneType DEF IInv, Unregister
  <2>2. todo' = todo /\ \A e \in Stream : todo[e] = {}
    BY <1>2 DEF Unregister, Broadcasting
  <2> QED BY <1>2, <2>1, <2>2
    DEF Unregister, IInv, Flags, Places, PagesExist, Queues, Connections, Owned, Sending, playVars, lanVars
<1>3. CASE Broadcast(c)
  BY <1>3
  DEF Broadcast, IInv, Flags, Places, PagesExist, Queues, Connections, Owned, Sending, playVars, lanVars
<1>4. CASE SendTo(c, d)
  <2>1. /\ up[c] \in Seq(Sound) /\ up[c] # <<>> /\ phase[c] = "in"
        /\ Head(up[c]) \in Sound /\ Tail(up[c]) \in Seq(Sound)
        /\ down[d] \in Seq(Heard)
    BY <1>4 DEF SendTo, IInv, Queues, Sending
  <2>2. Append(down[d], Response(Head(up[c]))) \in Seq(Heard)
    <3>1. Response(Head(up[c])) \in Heard
      BY <2>1, Messages
    <3> QED BY <2>1, <3>1, Grown
  <2>3. Queues'
    BY <1>4, <2>1, <2>2 DEF SendTo, IInv, Queues, lanVars
  <2>4. Flags' /\ Places'
    BY <1>4 DEF SendTo, IInv, Flags, Places, PagesExist, playVars
  <2>5. Connections' /\ Owned'
    BY <1>4 DEF SendTo, IInv, Connections, Owned, lanVars
  <2>6. Sending'
    BY <1>4 DEF SendTo, IInv, Connections, Queues, Sending
  <2> QED BY <2>3, <2>4, <2>5, <2>6 DEF IInv
<1> QED BY <1>1, <1>2, <1>3, <1>4

\* Hence every step does.
LEMMA NextInvariant == IInv /\ [Next]_vars => IInv'
<1> SUFFICES ASSUME IInv, [Next]_vars PROVE IInv'
  OBVIOUS
<1>1. CASE UNCHANGED vars
  BY <1>1
  DEF vars, playVars, linkVars, lanVars, IInv, Flags, Places, PagesExist, Queues, Connections,
      Owned, Sending
<1>2. ASSUME NEW s \in Stand, Tap(s) PROVE IInv'
  BY <1>2, TurnsAreValid, TurnKeeps, ReturnsKeep, TapsKeep, ReopenKeeps DEF Tap
<1>3. CASE Carry
  <2>1. CASE \E c \in Stream : ReadCloud(c) \/ Broadcast(c)
    BY <2>1, ReadCloudKeeps, ServiceKeeps
  <2>2. CASE \E c, d \in Stream : SendTo(c, d)
    BY <2>2, ServiceKeeps
  <2>3. CASE \E s \in Stand : ReadLan(s)
    BY <2>3, ReadLanKeeps
  <2> QED BY <1>3, <2>1, <2>2, <2>3 DEF Carry
<1>4. CASE Links
  <2>1. CASE \E s \in Stand, c \in Stream : Connect(s, c)
    BY <2>1, ConnectKeeps
  <2>2. CASE \E c \in Stream : EndCloud(c) \/ Break(c) \/ Register(c) \/ Unregister(c)
    BY <2>2, EndingsKeep, ServiceKeeps
  <2>3. CASE \/ \E s, t \in Stand : ConnectLan(s, t)
             \/ \E s \in Stand : BreakLan(s)
    BY <2>3, LanKeeps
  <2> QED BY <1>4, <2>1, <2>2, <2>3 DEF Links
<1> QED BY <1>1, <1>2, <1>3, <1>4 DEF Next

-----------------------------------------------------------------------------
(* Theorems *)

\* IInv is invariant.
THEOREM Invariance == Spec => []IInv
BY InitInvariant, NextInvariant, PTL DEF Spec

\* Every variable of the stands, the streams and the service keeps its type.
THEOREM TypeCorrect == Spec => []TypeOK
<1>1. IInv => TypeOK
  <2> SUFFICES ASSUME IInv PROVE TypeOK
    OBVIOUS
  <2>1. Valid \subseteq Position
    BY DEF Valid
  <2>2. News \subseteq Message /\ Sound \subseteq Message /\ Heard \subseteq Message
    BY DEF News, Sound, Heard
  <2>3. /\ at \in [Stand -> Position] /\ lead \in [Stand -> Position]
        /\ saved \in [Stand -> Position] /\ latest \in Position
    BY <2>1 DEF IInv, Places, Queues
  <2>4. /\ \A q \in Seq(News) : q \in Seq(Message)
        /\ \A q \in Seq(Sound) : q \in Seq(Message)
        /\ \A q \in Seq(Heard) : q \in Seq(Message)
    BY <2>2
  <2>5. /\ lan \in [Stand -> Seq(Message)] /\ up \in [Stream -> Seq(Message)]
        /\ down \in [Stream -> Seq(Message)]
    BY <2>4 DEF IInv, Queues
  <2> QED BY <2>3, <2>5 DEF TypeOK, IInv, Flags, Places, Connections
<1> QED BY <1>1, Invariance, PTL

\* Whatever was opened, turned to, received or gone back to, the pages a stand
\* shows are pages of the PDF (renderPage, loadCurrentSong, handleSyncMessage).
THEOREM ShownPagesExist == Spec => []PagesExist
<1>1. IInv => PagesExist
  BY DEF IInv, Places
<1> QED BY <1>1, Invariance, PTL

\* Lengths of queues: reading makes them shorter.
LEMMA Lengths ==
  ASSUME NEW S, NEW q \in Seq(S)
  PROVE  /\ Len(q) \in Nat /\ ~(Len(q) > Len(q)) /\ Len(q) <= Len(q)
         /\ q # <<>> => Len(Tail(q)) <= Len(q) /\ ~(Len(Tail(q)) > Len(q))
         /\ Len(<<>>) <= Len(q) /\ ~(Len(<<>>) > Len(q))
<1>1. q # <<>> => Len(Tail(q)) = Len(q) - 1
  OBVIOUS
<1> QED BY <1>1

\* What sendStateUpdate adds to are the queues of the stand that sends.
LEMMA PublishLocal ==
  ASSUME IInv, NEW s \in Stand, NEW p \in Valid, NEW private, Publish(s, p, private),
         NEW v \in Stand, v # s \/ private
  PROVE  /\ \A c \in Stream : owner[c] = v => up'[c] = up[c]
         /\ \A t \in Stand : peer[t] = v => lan'[t] = lan[t]
<1>1. CASE leader[s] /\ ~private
  <2>1. s # v
    BY <1>1
  <2>2. \/ up' = up
        \/ stream[s] # None /\ up' = [up EXCEPT ![stream[s]] = Append(@, Update(p))]
    BY <1>1 DEF Publish
  <2>3. \A c \in Stream : owner[c] = v => c # stream[s] \/ stream[s] = None
    BY <2>1 DEF IInv, Owned
  <2>4. lan' = [t \in Stand |-> IF peer[t] = s THEN Append(lan[t], Update(p)) ELSE lan[t]]
    BY <1>1 DEF Publish
  <2> QED BY <2>1, <2>2, <2>3, <2>4 DEF IInv, Queues
<1>2. CASE ~(leader[s] /\ ~private)
  BY <1>2 DEF Publish
<1> QED BY <1>1, <1>2

\* What a previewing stand v adds to what it sends is no update.
Local(v) ==
  /\ \A c \in Stream : owner'[c] = v /\ Len(up'[c]) > Len(up[c]) =>
       ~IsUpdate(up'[c][Len(up'[c])])
  /\ \A t \in Stand : peer'[t] = v => Len(lan'[t]) <= Len(lan[t])

\* No update leaves the leader's stand during a preview, and what is not an
\* update tells nobody a position (sendStateUpdate, connectCloud,
\* handleSyncMessage, broadcast).
THEOREM PreviewLocal == Spec => PreviewStaysLocal
<1> DEFINE Quiet == \A s \in Stand : leader'[s] /\ preview'[s] => Local(s)
           Mute == \A c \in Stream : \A k \in DOMAIN down'[c] :
                     ~IsUpdate(down'[c][k]) => down'[c][k].pos = None
<1>1. IInv /\ [Next]_vars => [Quiet]_vars
  <2> SUFFICES ASSUME IInv, Next, NEW v \in Stand, leader'[v], preview'[v]
               PROVE  Local(v)
    OBVIOUS
  <2> USE DEF Local
  <2>1. /\ \A c \in Stream : up[c] \in Seq(Sound)
        /\ \A t \in Stand : lan[t] \in Seq(News)
    BY DEF IInv, Queues
  <2>2. /\ \A c \in Stream : ~(Len(up[c]) > Len(up[c]))
        /\ \A t \in Stand : Len(lan[t]) <= Len(lan[t])
    BY <2>1, Lengths
  <2>3. ASSUME up' = up, lan' = lan PROVE Local(v)
    BY <2>2, <2>3
  \* Queues that are read or dropped get shorter.
  <2>4. ASSUME lan' = lan, NEW c \in Stream,
               up' = [up EXCEPT ![c] = <<>>] \/ (up[c] # <<>> /\ up' = [up EXCEPT ![c] = Tail(@)])
        PROVE  Local(v)
    <3>1. ASSUME NEW d \in Stream PROVE ~(Len(up'[d]) > Len(up[d]))
      <4>1. up'[d] = up[d] \/ up'[d] = <<>> \/ (up[d] # <<>> /\ up'[d] = Tail(up[d]))
        BY <2>4 DEF IInv, Queues
      <4> QED BY <2>1, <2>2, <4>1, Lengths
    <3> QED BY <2>2, <2>4, <3>1
  <2>5. ASSUME up' = up, NEW s \in Stand,
               lan' = [lan EXCEPT ![s] = <<>>] \/ (lan[s] # <<>> /\ lan' = [lan EXCEPT ![s] = Tail(@)])
        PROVE  Local(v)
    <3>1. ASSUME NEW t \in Stand PROVE Len(lan'[t]) <= Len(lan[t])
      <4>1. lan'[t] = lan[t] \/ lan'[t] = <<>> \/ (lan[t] # <<>> /\ lan'[t] = Tail(lan[t]))
        BY <2>5 DEF IInv, Queues
      <4> QED BY <2>1, <2>2, <4>1, Lengths
    <3> QED BY <2>2, <2>5, <3>1
  <2>6. ASSUME NEW s \in Stand, NEW p \in Valid, Turn(s, p) PROVE Local(v)
    <3>1. /\ preview[v] /\ owner' = owner /\ peer' = peer
          /\ Publish(s, p, preview[s])
      BY <2>6 DEF Turn
    <3>2. v # s \/ preview[s]
      BY <3>1
    <3> QED BY <2>2, <3>1, <3>2, PublishLocal
  <2>7. ASSUME NEW s \in Stand, Push(s) PROVE Local(v)
    <3>1. /\ at[s] \in Valid /\ v # s /\ owner' = owner /\ peer' = peer
          /\ preview'[s] = FALSE /\ Publish(s, at[s], FALSE)
      BY <2>7 DEF Push, IInv, Flags, Places
    <3>2. Publish(s, at[s], preview'[s])
      BY <3>1
    <3>3. /\ \A c \in Stream : owner[c] = v => up'[c] = up[c]
          /\ \A t \in Stand : peer[t] = v => lan'[t] = lan[t]
      BY <3>1, <3>2, PublishLocal
    <3> QED BY <2>2, <3>1, <3>3
  <2>8. ASSUME NEW s \in Stand, NEW c \in Stream, Connect(s, c) PROVE Local(v)
    <3>1. CASE v = s
      <4>1. lan' = [t \in Stand |-> lan[t]] /\ up' = [up EXCEPT ![c] = <<Request>>]
        BY <2>8, <3>1 DEF Connect, playVars
      <4>2. lan' = lan
        BY <4>1 DEF IInv, Queues
      <4>3. \A d \in Stream : up'[d] = IF d = c THEN <<Request>> ELSE up[d]
        BY <4>1 DEF IInv, Queues
      <4>4. Len(<<Request>>) = 1 /\ <<Request>>[1] = Request
        OBVIOUS
      <4> QED BY <2>2, <4>2, <4>3, <4>4, Messages
    <3>2. CASE v # s
      <4>1. /\ owner' = [owner EXCEPT ![c] = s] /\ peer' = peer
            /\ \A d \in Stream \ {c} : up'[d] = up[d]
            /\ \A t \in Stand : peer[t] # s => lan'[t] = lan[t]
        BY <2>8 DEF Connect, IInv, Queues
      <4> QED BY <2>2, <3>2, <4>1 DEF IInv, Connections
    <3> QED BY <3>1, <3>2
  <2>9. ASSUME NEW s \in Stand, Tap(s) PROVE Local(v)
    <3>1. CASE \/ NextPage(s) \/ PrevPage(s) \/ UseTimer(s) \/ \E i \in Item : GoTo(s, i)
      BY <2>6, <3>1, TurnsAreValid
    <3>2. CASE Join(s) \/ Lead(s) \/ Preview(s) \/ Cancel(s) \/ SyncToLeader(s)
      BY <2>3, <3>2 DEF Join, Lead, Preview, Cancel, SyncToLeader, linkVars, lanVars
    <3>3. CASE ExitSync(s) \/ Reopen(s)
      BY <2>5, <3>3 DEF ExitSync, Reopen
    <3> QED BY <2>7, <2>9, <3>1, <3>2, <3>3 DEF Tap
  <2>10. CASE Carry
    <3>1. ASSUME NEW c \in Stream, ReadCloud(c) PROVE Local(v)
      <4>1. lan' = lan /\ owner[c] \in Stand /\ (Answer(owner[c]) \/ UNCHANGED up)
        BY <3>1, ReadCloudSteps DEF ReadCloud, lanVars
      <4> DEFINE d == stream[owner[c]]
                 i == Info(at[owner[c]])
      <4>2. up' = up \/ up' = [up EXCEPT ![d] = Append(@, i)]
        BY <4>1 DEF Answer
      <4>3. i \in Sound /\ ~IsUpdate(i)
        BY <4>1, Messages DEF IInv, Places
      <4> HIDE DEF d, i
      <4>4. CASE up' = [up EXCEPT ![d] = Append(@, i)]
        <5>1. \A e \in Stream : up'[e] = IF e = d THEN Append(up[e], i) ELSE up[e]
          BY <4>4 DEF IInv, Queues
        <5>2. \A e \in Stream : Append(up[e], i)[Len(Append(up[e], i))] = i
          BY <2>1, <4>3, AppendProperties
        <5> QED BY <2>2, <4>1, <4>3, <5>1, <5>2
      <4> QED BY <2>3, <4>1, <4>2, <4>4
    <3>4. ASSUME NEW c \in Stream, Broadcast(c) PROVE Local(v)
      BY <2>3, <3>4 DEF Broadcast, lanVars
    <3>2. ASSUME NEW c \in Stream, NEW d \in Stream, SendTo(c, d) PROVE Local(v)
      <4>1. up[c] # <<>> /\ lan' = lan
        BY <3>2 DEF SendTo, IInv, Sending, lanVars
      <4>2. up' = up \/ up' = [up EXCEPT ![c] = Tail(@)]
        BY <3>2 DEF SendTo, IInv, Queues
      <4> QED BY <2>3, <2>4, <4>1, <4>2
    <3>3. ASSUME NEW s \in Stand, ReadLan(s) PROVE Local(v)
      BY <2>5, <3>3 DEF ReadLan, linkVars
    <3> QED BY <2>10, <3>1, <3>2, <3>3, <3>4 DEF Carry
  <2>11. CASE Links
    <3>1. ASSUME NEW c \in Stream, EndCloud(c) PROVE Local(v)
      <4>1. lan' = lan /\ (up' = up \/ up' = [up EXCEPT ![c] = <<>>])
        BY <3>1 DEF EndCloud, lanVars, IInv, Queues
      <4> QED BY <2>3, <2>4, <4>1
    <3>2. ASSUME NEW c \in Stream, Unregister(c) PROVE Local(v)
      BY <2>4, <3>2 DEF Unregister, lanVars
    <3>3. ASSUME NEW c \in Stream, Break(c) \/ Register(c) PROVE Local(v)
      BY <2>3, <3>3 DEF Break, Register, lanVars
    <3>4. ASSUME NEW s \in Stand, NEW t \in Stand, ConnectLan(s, t) PROVE Local(v)
      BY <2>3, <3>4 DEF ConnectLan, linkVars
    <3>5. ASSUME NEW s \in Stand, BreakLan(s) PROVE Local(v)
      BY <2>5, <3>5 DEF BreakLan, linkVars
    <3> QED BY <2>8, <2>11, <3>1, <3>2, <3>3, <3>4, <3>5 DEF Links
  <2> QED BY <2>9, <2>10, <2>11 DEF Next
<1>2. IInv' => Mute
  <2> SUFFICES ASSUME IInv', NEW c \in Stream, NEW k \in DOMAIN down'[c], ~IsUpdate(down'[c][k])
               PROVE  down'[c][k].pos = None
    OBVIOUS
  <2>1. down'[c] \in Seq(Heard)
    BY DEF IInv, Queues
  <2>2. down'[c][k] \in Heard
    BY <2>1
  <2> QED BY <2>2 DEF Heard
<1>3. IInv /\ IInv' /\ [Next]_vars =>
        [/\ \A s \in Stand : leader'[s] /\ preview'[s] =>
              /\ \A c \in Stream : owner'[c] = s /\ Len(up'[c]) > Len(up[c]) =>
                   ~IsUpdate(up'[c][Len(up'[c])])
              /\ \A t \in Stand : peer'[t] = s => Len(lan'[t]) <= Len(lan[t])
         /\ \A c \in Stream : \A k \in DOMAIN down'[c] :
              ~IsUpdate(down'[c][k]) => down'[c][k].pos = None]_vars
  BY <1>1, <1>2 DEF Local
<1> QED BY <1>3, Invariance, PTL DEF Spec, PreviewStaysLocal

-----------------------------------------------------------------------------
(* Staying in step: the inductive invariant *)

\* A stand leads only while it takes part.
Leading == \A s \in Stand : leader[s] => wants[s]

\* The last update on its way to t is the latest, or t has it already.
Known(l, t) ==
  LET q == Coming(l, t)
  IN /\ LastIs(q, latest)
     /\ NoUpdate(q) => /\ lead[t] = latest
                       /\ follow[t] => at[t].item = latest.item

\* The item the leader l is on for the others: the one it shows, or during a
\* preview the one it comes back to.
Home(l) == IF preview[l] THEN saved[l].item ELSE at[l].item

\* It is the one the latest update names.
Shared(l) == Home(l) = latest.item

\* What holds between the leader and a stand that is tuned in.  The way does not
\* have to be reestablished by each step: it has held since the update was sent.
Linked(l, t) == Reaches(l, t) /\ Known(l, t) /\ Shared(l)

StepIInv ==
  /\ IInv /\ Leading
  /\ \A l, t \in Stand : leader[l] /\ t \in tuned => Linked(l, t)

-----------------------------------------------------------------------------
(* Queues *)

\* Two queues that bring the same updates, as far as the last of them goes.
Alike(q, r) ==
  /\ NoUpdate(q) <=> NoUpdate(r)
  /\ \A p \in Valid : LastIs(q, p) <=> LastIs(r, p)

\* The queue q, when m has been read from it and r is left.
Takes(q, m, r) ==
  /\ \A p \in Valid : LastIs(q, p) => LastIs(r, p) /\ (NoUpdate(r) /\ IsUpdate(m) => m.pos = p)
  /\ NoUpdate(r) /\ ~IsUpdate(m) => NoUpdate(q)

\* What the queues hold are messages.
LEMMA AllMessages ==
  /\ \A q \in Seq(Sound) : q \in Seq(Message)
  /\ \A q \in Seq(News) : q \in Seq(Message)
  /\ \A q \in Seq(Heard) : q \in Seq(Message)
<1>1. News \subseteq Message /\ Sound \subseteq Message /\ Heard \subseteq Message
  BY DEF News, Sound, Heard
<1> QED BY <1>1

\* What is appended to a queue is the last of it.
LEMMA LastAppended ==
  ASSUME NEW q \in Seq(Message), NEW m \in Message, NEW p
  PROVE  /\ Append(q, m) \in Seq(Message)
         /\ LastIs(Append(q, m), p) <=> IF IsUpdate(m) THEN m.pos = p ELSE LastIs(q, p)
         /\ NoUpdate(Append(q, m)) <=> NoUpdate(q) /\ ~IsUpdate(m)
<1> DEFINE r == Append(q, m)
           n == Len(q)
<1>1. /\ n \in Nat /\ DOMAIN q = 1..n /\ r \in Seq(Message) /\ DOMAIN r = 1..(n + 1)
      /\ r[n + 1] = m
      /\ \A k \in 1..n : r[k] = q[k]
  BY AppendProperties
<1> HIDE DEF r, n
<1>2. NoUpdate(r) <=> NoUpdate(q) /\ ~IsUpdate(m)
  BY <1>1 DEF NoUpdate
<1>3. CASE IsUpdate(m)
  <2>1. LastIs(r, p) => m.pos = p
    BY <1>1, <1>3 DEF LastIs
  <2>2. m.pos = p => LastIs(r, p)
    BY <1>1, <1>3 DEF LastIs
  <2> QED BY <1>1, <1>2, <1>3, <2>1, <2>2 DEF r
<1>4. CASE ~IsUpdate(m)
  <2>1. ASSUME LastIs(r, p) PROVE LastIs(q, p)
    <3> SUFFICES ASSUME NEW k \in DOMAIN q, IsUpdate(q[k]),
                        ~ \E j \in DOMAIN q : j > k /\ IsUpdate(q[j])
                 PROVE  q[k].pos = p
      BY DEF LastIs
    <3>1. k \in DOMAIN r /\ r[k] = q[k]
      BY <1>1
    <3>2. ~ \E j \in DOMAIN r : j > k /\ IsUpdate(r[j])
      BY <1>1, <1>4
    <3> QED BY <2>1, <3>1, <3>2 DEF LastIs
  <2>2. ASSUME LastIs(q, p) PROVE LastIs(r, p)
    <3> SUFFICES ASSUME NEW k \in DOMAIN r, IsUpdate(r[k]),
                        ~ \E j \in DOMAIN r : j > k /\ IsUpdate(r[j])
                 PROVE  r[k].pos = p
      BY DEF LastIs
    <3>1. k \in DOMAIN q /\ r[k] = q[k]
      BY <1>1, <1>4
    <3>2. ~ \E j \in DOMAIN q : j > k /\ IsUpdate(q[j])
      BY <1>1
    <3> QED BY <2>2, <3>1, <3>2 DEF LastIs
  <2> QED BY <1>1, <1>2, <1>4, <2>1, <2>2 DEF r
<1> QED BY <1>3, <1>4

\* The last of a queue stays the last until it is read.
LEMMA LastRead ==
  ASSUME NEW q \in Seq(Message), q # <<>>, NEW p
  PROVE  /\ Head(q) \in Message /\ Tail(q) \in Seq(Message)
         /\ LastIs(q, p) <=> /\ LastIs(Tail(q), p)
                             /\ NoUpdate(Tail(q)) /\ IsUpdate(Head(q)) => Head(q).pos = p
         /\ NoUpdate(q) <=> NoUpdate(Tail(q)) /\ ~IsUpdate(Head(q))
<1> DEFINE r == Tail(q)
           m == Head(q)
           n == Len(r)
<1>1. /\ n \in Nat /\ DOMAIN r = 1..n /\ DOMAIN q = 1..(n + 1) /\ r \in Seq(Message)
      /\ m \in Message /\ q[1] = m
      /\ \A k \in 1..n : r[k] = q[k + 1]
  <2>1. /\ Len(q) \in Nat \ {0} /\ Len(r) = Len(q) - 1 /\ r \in Seq(Message) /\ m \in Message
        /\ \A k \in 1..Len(r) : r[k] = q[k + 1]
    BY EmptySeq, HeadTailProperties
  <2>2. m = q[1]
    OBVIOUS
  <2> QED BY <2>1, <2>2
<1> HIDE DEF r, n, m
<1>2. \A k \in DOMAIN q : k = 1 \/ (k - 1 \in DOMAIN r /\ q[k] = r[k - 1])
  BY <1>1
<1>3. \A k \in DOMAIN r : k + 1 \in DOMAIN q /\ q[k + 1] = r[k]
  BY <1>1
<1>4. NoUpdate(q) <=> NoUpdate(r) /\ ~IsUpdate(m)
  <2>1. 1 \in DOMAIN q
    BY <1>1
  <2> QED BY <1>1, <1>2, <1>3, <2>1 DEF NoUpdate
<1>5. ASSUME LastIs(q, p) PROVE LastIs(r, p)
  <2> SUFFICES ASSUME NEW k \in DOMAIN r, IsUpdate(r[k]),
                      ~ \E j \in DOMAIN r : j > k /\ IsUpdate(r[j])
               PROVE  r[k].pos = p
    BY DEF LastIs
  <2>1. k + 1 \in DOMAIN q /\ IsUpdate(q[k + 1]) /\ q[k + 1] = r[k] /\ k \in Nat
    BY <1>1, <1>3
  <2>2. ASSUME NEW j \in DOMAIN q, j > k + 1, IsUpdate(q[j]) PROVE FALSE
    <3>1. j \in Nat /\ j # 1
      BY <1>1, <2>1, <2>2
    <3>2. j - 1 \in DOMAIN r /\ q[j] = r[j - 1] /\ j - 1 > k
      BY <1>2, <2>1, <2>2, <3>1
    <3> QED BY <2>2, <3>2
  <2> QED BY <1>5, <2>1, <2>2 DEF LastIs
<1>6. ASSUME LastIs(q, p), NoUpdate(r), IsUpdate(m) PROVE m.pos = p
  <2>1. 1 \in DOMAIN q /\ IsUpdate(q[1])
    BY <1>1, <1>6
  <2>2. ASSUME NEW j \in DOMAIN q, j > 1, IsUpdate(q[j]) PROVE FALSE
    BY <1>2, <1>6, <2>2 DEF NoUpdate
  <2> QED BY <1>1, <1>6, <2>1, <2>2 DEF LastIs
<1>7. ASSUME LastIs(r, p), NoUpdate(r) /\ IsUpdate(m) => m.pos = p PROVE LastIs(q, p)
  <2> SUFFICES ASSUME NEW k \in DOMAIN q, IsUpdate(q[k]),
                      ~ \E j \in DOMAIN q : j > k /\ IsUpdate(q[j])
               PROVE  q[k].pos = p
    BY DEF LastIs
  <2>1. \A j \in DOMAIN r : IsUpdate(r[j]) => ~(j + 1 > k)
    BY <1>3
  <2>2. CASE k = 1
    <3>1. NoUpdate(r)
      BY <1>1, <2>1, <2>2 DEF NoUpdate
    <3> QED BY <1>1, <1>7, <2>2, <3>1
  <2>3. CASE k # 1
    <3>1. k - 1 \in DOMAIN r /\ q[k] = r[k - 1] /\ k \in Nat
      BY <1>1, <1>2, <2>3
    <3>2. ~ \E j \in DOMAIN r : j > k - 1 /\ IsUpdate(r[j])
      BY <1>1, <2>1, <3>1
    <3> QED BY <1>7, <3>1, <3>2 DEF LastIs
  <2> QED BY <2>2, <2>3
<1> QED BY <1>1, <1>4, <1>5, <1>6, <1>7 DEF r, m

\* Two queues in a row: the second counts first.
LEMMA LastJoined ==
  ASSUME NEW x \in Seq(Message), NEW y \in Seq(Message), NEW p
  PROVE  /\ x \o y \in Seq(Message)
         /\ LastIs(x \o y, p) <=> LastIs(y, p) /\ (NoUpdate(y) => LastIs(x, p))
         /\ NoUpdate(x \o y) <=> NoUpdate(x) /\ NoUpdate(y)
<1> DEFINE z == x \o y
           a == Len(x)
           b == Len(y)
<1>1. /\ a \in Nat /\ b \in Nat /\ DOMAIN x = 1..a /\ DOMAIN y = 1..b /\ DOMAIN z = 1..(a + b)
      /\ z \in Seq(Message)
      /\ \A k \in 1..(a + b) : z[k] = IF k <= a THEN x[k] ELSE y[k - a]
  BY ConcatProperties
<1> HIDE DEF z, a, b
<1>2. \A k \in DOMAIN x : k \in DOMAIN z /\ z[k] = x[k] /\ k <= a
  BY <1>1
<1>3. \A k \in DOMAIN y : k + a \in DOMAIN z /\ z[k + a] = y[k] /\ k + a > a
  BY <1>1
<1>4. \A k \in DOMAIN z : \/ k \in DOMAIN x /\ z[k] = x[k]
                          \/ k - a \in DOMAIN y /\ z[k] = y[k - a] /\ k > a
  BY <1>1
<1>5. NoUpdate(z) <=> NoUpdate(x) /\ NoUpdate(y)
  <2>1. NoUpdate(z) => NoUpdate(x)
    BY <1>2 DEF NoUpdate
  <2>2. NoUpdate(z) => NoUpdate(y)
    BY <1>3 DEF NoUpdate
  <2>3. NoUpdate(x) /\ NoUpdate(y) => NoUpdate(z)
    BY <1>4 DEF NoUpdate
  <2> QED BY <2>1, <2>2, <2>3
<1>6. ASSUME LastIs(z, p) PROVE LastIs(y, p)
  <2> SUFFICES ASSUME NEW k \in DOMAIN y, IsUpdate(y[k]),
                      ~ \E j \in DOMAIN y : j > k /\ IsUpdate(y[j])
               PROVE  y[k].pos = p
    BY DEF LastIs
  <2>1. k + a \in DOMAIN z /\ z[k + a] = y[k] /\ k \in Nat
    BY <1>1, <1>3
  <2>2. ASSUME NEW j \in DOMAIN z, j > k + a, IsUpdate(z[j]) PROVE FALSE
    <3>1. j - a \in DOMAIN y /\ z[j] = y[j - a] /\ j - a > k
      BY <1>1, <1>4, <2>1, <2>2
    <3> QED BY <2>2, <3>1
  <2> QED BY <1>6, <2>1, <2>2 DEF LastIs
<1>7. ASSUME LastIs(z, p), NoUpdate(y) PROVE LastIs(x, p)
  <2> SUFFICES ASSUME NEW k \in DOMAIN x, IsUpdate(x[k]),
                      ~ \E j \in DOMAIN x : j > k /\ IsUpdate(x[j])
               PROVE  x[k].pos = p
    BY DEF LastIs
  <2>1. k \in DOMAIN z /\ z[k] = x[k]
    BY <1>2
  <2>2. ASSUME NEW j \in DOMAIN z, j > k, IsUpdate(z[j]) PROVE FALSE
    BY <1>4, <1>7, <2>2 DEF NoUpdate
  <2> QED BY <1>7, <2>1, <2>2 DEF LastIs
<1>8. ASSUME LastIs(y, p), NoUpdate(y) => LastIs(x, p) PROVE LastIs(z, p)
  <2> SUFFICES ASSUME NEW k \in DOMAIN z, IsUpdate(z[k]),
                      ~ \E j \in DOMAIN z : j > k /\ IsUpdate(z[j])
               PROVE  z[k].pos = p
    BY DEF LastIs
  <2>1. CASE k \in DOMAIN x /\ z[k] = x[k]
    <3>1. NoUpdate(y)
      <4>1. \A j \in DOMAIN y : j + a > k
        BY <1>1, <2>1
      <4> QED BY <1>3, <4>1 DEF NoUpdate
    <3>2. ~ \E j \in DOMAIN x : j > k /\ IsUpdate(x[j])
      BY <1>2
    <3> QED BY <1>8, <2>1, <3>1, <3>2 DEF LastIs
  <2>2. CASE k - a \in DOMAIN y /\ z[k] = y[k - a] /\ k > a
    <3>1. ~ \E j \in DOMAIN y : j > k - a /\ IsUpdate(y[j])
      <4>1. \A j \in DOMAIN y : j > k - a => j + a > k
        BY <1>1
      <4> QED BY <1>3, <4>1
    <3> QED BY <1>8, <2>2, <3>1 DEF LastIs
  <2> QED BY <1>4, <2>1, <2>2
<1> QED BY <1>1, <1>5, <1>6, <1>7, <1>8 DEF z

\* A queue is read from its front, ...
LEMMA Reading ==
  ASSUME NEW x \in Seq(Message), NEW y \in Seq(Message), x # <<>>
  PROVE  /\ Takes(x, Head(x), Tail(x))
         /\ Takes(x \o y, Head(x), Tail(x) \o y)
<1>1. Tail(x) \in Seq(Message)
  BY LastRead
<1>2. Takes(x, Head(x), Tail(x))
  BY LastRead DEF Takes
<1>3. Takes(x \o y, Head(x), Tail(x) \o y)
  BY <1>1, LastRead, LastJoined DEF Takes
<1> QED BY <1>2, <1>3

\* ... what passes from the second to the first stays in order, ...
LEMMA Passing ==
  ASSUME NEW x \in Seq(Message), NEW y \in Seq(Message), y # <<>>, NEW m \in Message,
         IsUpdate(m) <=> IsUpdate(Head(y)), IsUpdate(m) => m = Head(y)
  PROVE  Alike(x \o y, Append(x, m) \o Tail(y))
<1>1. Tail(y) \in Seq(Message) /\ Append(x, m) \in Seq(Message)
  BY LastRead, LastAppended
<1>2. NoUpdate(x \o y) <=> NoUpdate(Append(x, m) \o Tail(y))
  BY <1>1, LastRead, LastAppended, LastJoined
<1>3. ASSUME NEW p \in Valid PROVE LastIs(x \o y, p) <=> LastIs(Append(x, m) \o Tail(y), p)
  BY <1>1, LastRead, LastAppended, LastJoined
<1> QED BY <1>2, <1>3 DEF Alike

\* ... and what is no update makes no difference.
LEMMA Adding ==
  ASSUME NEW x \in Seq(Message), NEW y \in Seq(Message), NEW m \in Message, ~IsUpdate(m)
  PROVE  /\ Alike(x \o y, Append(x, m) \o y)
         /\ Alike(x \o y, x \o Append(y, m))
<1>1. Append(x, m) \in Seq(Message) /\ Append(y, m) \in Seq(Message)
  BY LastAppended
<1>2. /\ NoUpdate(x \o y) <=> NoUpdate(Append(x, m) \o y)
      /\ NoUpdate(x \o y) <=> NoUpdate(x \o Append(y, m))
  BY <1>1, LastAppended, LastJoined
<1>3. ASSUME NEW p \in Valid
      PROVE  /\ LastIs(x \o y, p) <=> LastIs(Append(x, m) \o y, p)
             /\ LastIs(x \o y, p) <=> LastIs(x \o Append(y, m), p)
  <2>1. LastIs(x \o y, p) <=> LastIs(y, p) /\ (NoUpdate(y) => LastIs(x, p))
    BY LastJoined
  <2>2. LastIs(x \o y, p) <=> LastIs(Append(x, m) \o y, p)
    <3>1. LastIs(Append(x, m), p) <=> LastIs(x, p)
      BY LastAppended
    <3> QED BY <1>1, <2>1, <3>1, LastJoined
  <2>3. LastIs(x \o y, p) <=> LastIs(x \o Append(y, m), p)
    <3>1. /\ LastIs(Append(y, m), p) <=> LastIs(y, p)
          /\ NoUpdate(Append(y, m)) <=> NoUpdate(y)
      BY LastAppended
    <3> QED BY <1>1, <2>1, <3>1, LastJoined
  <2> QED BY <2>2, <2>3
<1> QED BY <1>2, <1>3 DEF Alike

-----------------------------------------------------------------------------
(* The way from the leader to a stand *)

\* What a way is made of.
LEMMA Way ==
  ASSUME IInv, NEW l \in Stand, NEW t \in Stand, leader[l], Reaches(l, t)
  PROVE  /\ l # t /\ wants[t] /\ ~leader[t] /\ \A k \in Stand : leader[k] => k = l
         /\ stream[t] = None =>
              peer[t] = l /\ \A c \in Stream : owner[c] # t
         /\ stream[t] # None =>
              /\ stream[l] \in Stream /\ stream[t] \in Stream /\ stream[l] # stream[t]
              /\ owner[stream[l]] = l /\ owner[stream[t]] = t
              /\ alive[stream[l]] /\ alive[stream[t]]
              /\ phase[stream[l]] = "in" /\ phase[stream[t]] = "in"
              /\ \A c \in Stream : owner[c] = l => c = stream[l]
              /\ \A c \in Stream : owner[c] = t => c = stream[t]
              /\ \A c \in Stream : c # stream[l] => NoUpdate(up[c])
<1>1. l # t /\ wants[t] /\ ~leader[t] /\ \A k \in Stand : leader[k] => k = l
  BY DEF Reaches
<1>2. CASE stream[t] = None
  BY <1>1, <1>2 DEF Reaches, OnCloud
<1>3. CASE stream[t] # None
  <2>1. OnCloud(l) /\ OnCloud(t) /\ \A c \in Stream : c # stream[l] => NoUpdate(up[c])
    BY <1>3 DEF Reaches
  <2>2. /\ stream[l] \in Stream /\ stream[t] \in Stream
        /\ owner[stream[l]] = l /\ owner[stream[t]] = t
    BY <2>1 DEF OnCloud, IInv, Connections, Owned
  <2> QED BY <1>1, <1>3, <2>1, <2>2 DEF OnCloud
<1> QED BY <1>2, <1>3

\* A step that leaves the way alone, ...
Untouched(l, t) ==
  /\ wants'[t] = wants[t] /\ leader'[t] = leader[t]
  /\ \A k \in Stand : leader'[k] => leader[k]
  /\ stream'[l] = stream[l] /\ stream'[t] = stream[t]
  /\ stream[t] = None => peer'[t] = peer[t]
  /\ \A c \in Stream : c = stream[l] \/ c = stream[t] => alive'[c] = alive[c] /\ phase'[c] = phase[c]
  /\ \A c \in Stream : \A k \in {l, t} : owner'[c] = k => owner[c] = k
  /\ \A c \in Stream : c # stream[l] /\ NoUpdate(up[c]) => NoUpdate(up'[c])

\* ... what is on it, ...
SameComing(l, t) ==
  /\ stream[t] = None => lan'[t] = lan[t]
  /\ stream[t] # None =>
       /\ down'[stream[t]] = down[stream[t]]
       /\ up'[stream[l]] = up[stream[l]]
       /\ todo'[stream[l]] = todo[stream[l]]

\* ... and what the two stands know.  (The follower may turn away, or go to
\* where it knows the leader to be.)
SamePlaces(l, t) ==
  /\ latest' = latest
  /\ lead'[t] = lead[t]
  /\ follow'[t] => \/ follow[t] /\ at'[t] = at[t]
                   \/ at'[t].item = lead[t].item
  /\ Home(l)' = Home(l)

\* It stays a way.
LEMMA WayHolds ==
  ASSUME IInv, NEW l \in Stand, NEW t \in Stand, leader[l], Reaches(l, t), Untouched(l, t)
  PROVE  Reaches(l, t)'
<1>1. wants'[t] /\ ~leader'[t] /\ \A k \in Stand : leader'[k] => k = l
  BY Way DEF Untouched
<1>2. CASE stream[t] = None
  <2>1. stream'[t] = None /\ peer'[t] = l /\ \A c \in Stream : owner'[c] # t
    BY <1>2, Way DEF Untouched
  <2> QED BY <1>1, <2>1 DEF Reaches
<1>3. CASE stream[t] # None
  <2>1. /\ stream[l] \in Stream /\ stream[t] \in Stream /\ None \notin Stream
        /\ alive[stream[l]] /\ alive[stream[t]]
        /\ phase[stream[l]] = "in" /\ phase[stream[t]] = "in"
        /\ \A c \in Stream : owner[c] = l => c = stream[l]
        /\ \A c \in Stream : owner[c] = t => c = stream[t]
        /\ \A c \in Stream : c # stream[l] => NoUpdate(up[c])
    BY <1>3, Way
  <2>2. stream'[l] = stream[l] /\ stream'[t] = stream[t]
    BY DEF Untouched
  <2>3. /\ alive'[stream[l]] /\ phase'[stream[l]] = "in"
        /\ alive'[stream[t]] /\ phase'[stream[t]] = "in"
    BY <2>1 DEF Untouched
  <2>4. OnCloud(l)' /\ OnCloud(t)'
    BY <2>1, <2>2, <2>3 DEF OnCloud, Untouched
  <2>5. \A c \in Stream : c # stream'[l] => NoUpdate(up'[c])
    BY <2>1, <2>2 DEF Untouched
  <2> QED BY <1>1, <2>4, <2>5 DEF Reaches
<1> QED BY <1>2, <1>3

\* What holds between the two goes on to hold, when the same updates come, ...
LEMMA LinkLasts ==
  ASSUME IInv, NEW l \in Stand, NEW t \in Stand, leader[l], Linked(l, t),
         Untouched(l, t), SamePlaces(l, t),
         NEW q, NEW r, q = Coming(l, t), r = Coming(l, t)', Alike(q, r)
  PROVE  Linked(l, t)'
<1>1. Reaches(l, t)'
  BY WayHolds DEF Linked
<1>2. /\ LastIs(q, latest)
      /\ NoUpdate(q) => /\ lead[t] = latest
                        /\ follow[t] => at[t].item = latest.item
  BY DEF Linked, Known
<1>3. /\ LastIs(r, latest)
      /\ NoUpdate(r) <=> NoUpdate(q)
  BY <1>2 DEF Alike, IInv, Queues
<1>4. Known(l, t)'
  BY <1>2, <1>3 DEF Known, SamePlaces
<1>5. Shared(l)'
  BY DEF Linked, Shared, SamePlaces
<1> QED BY <1>1, <1>4, <1>5 DEF Linked

\* ... or the very same messages.
LEMMA LinkHolds ==
  ASSUME IInv, NEW l \in Stand, NEW t \in Stand, leader[l], Linked(l, t),
         Untouched(l, t), SameComing(l, t), SamePlaces(l, t)
  PROVE  Linked(l, t)'
<1>1. Coming(l, t)' = Coming(l, t)
  BY DEF Coming, Untouched, SameComing
<1> QED BY <1>1, LinkLasts DEF Alike

\* What l has sent and the service has not passed on to t.
Sent(l, t) ==
  LET q == up[stream[l]]
  IN IF q # <<>> /\ todo[stream[l]] # {} /\ stream[t] \notin todo[stream[l]] THEN Tail(q) ELSE q

\* The parts of what comes over the cloud.
LEMMA ComingParts ==
  ASSUME IInv, NEW l \in Stand, NEW t \in Stand, leader[l], Reaches(l, t), stream[t] # None
  PROVE  /\ Coming(l, t) = down[stream[t]] \o Sent(l, t)
         /\ down[stream[t]] \in Seq(Message) /\ Sent(l, t) \in Seq(Message)
<1>1. up[stream[l]] \in Seq(Message) /\ down[stream[t]] \in Seq(Message)
  BY Way, AllMessages DEF IInv, Queues
<1>2. Sent(l, t) \in Seq(Message)
  BY <1>1, LastRead DEF Sent
<1> QED BY <1>1, <1>2 DEF Coming, Sent

\* It grows with what l sends.
LEMMA SentGrows ==
  ASSUME IInv, NEW l \in Stand, NEW t \in Stand, leader[l], Reaches(l, t), stream[t] # None,
         NEW m \in Sound, UNCHANGED <<stream, todo>>,
         up'[stream[l]] = Append(up[stream[l]], m)
  PROVE  Sent(l, t)' = Append(Sent(l, t), m)
<1> DEFINE q == up[stream[l]]
<1>1. q \in Seq(Sound) /\ (todo[stream[l]] # {} => q # <<>>)
  BY Way DEF IInv, Queues, Sending
<1> HIDE DEF q
<1>2. Append(q, m) # <<>> /\ (q # <<>> => Tail(Append(q, m)) = Append(Tail(q), m))
  BY <1>1, HeadTailAppend, AppendProperties
<1>3. up'[stream'[l]] = Append(q, m) /\ stream' = stream /\ todo' = todo
  BY DEF q
<1>4. Sent(l, t)' = IF todo[stream[l]] # {} /\ stream[t] \notin todo[stream[l]]
                    THEN Tail(Append(q, m)) ELSE Append(q, m)
  BY <1>2, <1>3 DEF Sent
<1>5. Sent(l, t) = IF todo[stream[l]] # {} /\ stream[t] \notin todo[stream[l]] THEN Tail(q) ELSE q
  BY <1>1 DEF Sent, q
<1> QED BY <1>1, <1>2, <1>4, <1>5

\* Queues without updates.
LEMMA Without ==
  /\ NoUpdate(<<>>) /\ NoUpdate(<<Request>>)
  /\ \A q \in Seq(Sound) :
       NoUpdate(q) /\ q # <<>> => NoUpdate(Tail(q)) /\ ~IsUpdate(Head(q))
<1>1. NoUpdate(<<>>) /\ NoUpdate(<<Request>>)
  BY Messages DEF NoUpdate
<1>2. ASSUME NEW q \in Seq(Sound), NoUpdate(q), q # <<>>
      PROVE  NoUpdate(Tail(q)) /\ ~IsUpdate(Head(q))
  BY <1>2, AllMessages, LastRead
<1> QED BY <1>1, <1>2

\* What is lost when something about the streams of s changes.
LEMMA Detuned ==
  ASSUME IInv, NEW s, Detune(s), NEW l \in Stand, leader[l], NEW t \in tuned'
  PROVE  t \in tuned /\ latest' = latest /\ s # t /\ s # l
<1>1. s # None => s # t /\ s # l /\ t \in tuned
  BY DEF Detune, Tune
<1>2. s = None => t \in tuned /\ tuned' = tuned
  BY DEF Detune, Tune
<1>3. latest' = latest
  BY DEF Detune, Tune
<1> QED BY <1>1, <1>2, <1>3 DEF IInv, Connections

-----------------------------------------------------------------------------
(* Staying in step: the actions *)

\* What every step is to preserve.
Stays == \A l, t \in Stand : leader'[l] /\ t \in tuned' => Linked(l, t)'

\* A step after which the stands that are tuned in were so before, and nothing
\* between them and the leader has changed.
LEMMA FrameStays ==
  ASSUME StepIInv,
         \A l, t \in Stand : leader'[l] /\ t \in tuned' =>
           /\ leader[l] /\ t \in tuned
           /\ Untouched(l, t) /\ SameComing(l, t) /\ SamePlaces(l, t)
  PROVE  Stays
BY LinkHolds DEF StepIInv, Stays

\* Joining, and the streams of other stands.
LEMMA JoinStays == ASSUME StepIInv, NEW s \in Stand, Join(s) PROVE Stays
<1>1. SUFFICES ASSUME NEW l \in Stand, NEW t \in Stand, leader'[l], t \in tuned'
               PROVE  /\ leader[l] /\ t \in tuned
                      /\ Untouched(l, t) /\ SameComing(l, t) /\ SamePlaces(l, t)
  BY FrameStays
<1>2. leader[l]
  BY <1>1 DEF Join, StepIInv, IInv, Flags
<1>3. t \in tuned /\ latest' = latest /\ s # t /\ s # l
  BY <1>1, <1>2, Detuned DEF Join, StepIInv
<1> QED BY <1>2, <1>3
  DEF Join, linkVars, lanVars, Untouched, SameComing, SamePlaces, Home, StepIInv, IInv, Flags

\* A stand that leaves, or plays the concert again, ...
LEMMA ExitStays == ASSUME StepIInv, NEW s \in Stand, ExitSync(s) \/ Reopen(s) PROVE Stays
<1>1. SUFFICES ASSUME NEW l \in Stand, NEW t \in Stand, leader'[l], t \in tuned'
               PROVE  /\ leader[l] /\ t \in tuned
                      /\ Untouched(l, t) /\ SameComing(l, t) /\ SamePlaces(l, t)
  BY FrameStays
<1>2. leader[l]
  BY <1>1 DEF ExitSync, Reopen, StepIInv, IInv, Flags
<1>3. Detune(s)
  BY DEF ExitSync, Reopen
<1>4. t \in tuned /\ latest' = latest /\ s # t /\ s # l
  BY <1>1, <1>2, <1>3, Detuned DEF StepIInv
<1>5. Reaches(l, t)
  BY <1>2, <1>4 DEF StepIInv, Linked
<1>6. \A c \in Stream : c = stream[l] \/ c = stream[t] => c # stream[s] /\ owner[c] # s
  BY <1>4 DEF StepIInv, IInv, Owned
<1>7. /\ wants'[t] = wants[t] /\ leader'[t] = leader[t] /\ \A k \in Stand : leader'[k] => leader[k]
      /\ stream'[l] = stream[l] /\ stream'[t] = stream[t] /\ peer'[t] = peer[t]
      /\ lan'[t] = lan[t] /\ lead'[t] = lead[t] /\ follow'[t] = follow[t] /\ at'[t] = at[t]
      /\ at'[l] = at[l] /\ preview'[l] = preview[l] /\ saved'[l] = saved[l]
  <2> USE DEF StepIInv, IInv, Flags, Places, Queues, Connections
  <2>1. CASE ExitSync(s)
    BY <1>4, <2>1 DEF ExitSync, Forget
  <2>2. CASE Reopen(s)
    BY <1>4, <2>2 DEF Reopen
  <2> QED BY <2>1, <2>2
<1>8. /\ phase' = phase /\ up' = up /\ todo' = todo
      /\ alive' = [c \in Stream |-> alive[c] /\ stream[s] # c]
      /\ \/ owner' = owner /\ down' = down
         \/ /\ owner' = [c \in Stream |-> IF owner[c] = s THEN None ELSE owner[c]]
            /\ down' = [c \in Stream |-> IF owner[c] = s THEN <<>> ELSE down[c]]
  BY DEF ExitSync, Reopen
<1>9. \A c \in Stream : c = stream[l] \/ c = stream[t] =>
        alive'[c] = alive[c] /\ phase'[c] = phase[c] /\ down'[c] = down[c]
  BY <1>6, <1>8 DEF StepIInv, IInv, Connections
<1>10. \A c \in Stream : \A k \in {l, t} : owner'[c] = k => owner[c] = k
  BY <1>8
<1>11. Untouched(l, t)
  BY <1>7, <1>8, <1>9, <1>10 DEF Untouched
<1>12. SameComing(l, t) /\ SamePlaces(l, t)
  BY <1>2, <1>4, <1>5, <1>7, <1>8, <1>9, Way DEF SameComing, SamePlaces, Home, StepIInv
<1> QED BY <1>2, <1>4, <1>11, <1>12

\* ... and streams that begin: the new one is nobody's before.
LEMMA ConnectStays ==
  ASSUME StepIInv, NEW s \in Stand, NEW c \in Stream, Connect(s, c) PROVE Stays
<1>1. SUFFICES ASSUME NEW l \in Stand, NEW t \in Stand, leader'[l], t \in tuned'
               PROVE  /\ leader[l] /\ t \in tuned
                      /\ Untouched(l, t) /\ SameComing(l, t) /\ SamePlaces(l, t)
  BY FrameStays
<1>2. leader[l]
  BY <1>1 DEF Connect, playVars
<1>3. t \in tuned /\ latest' = latest /\ s # t /\ s # l
  BY <1>1, <1>2, Detuned DEF Connect, StepIInv
<1>4. Reaches(l, t)
  BY <1>2, <1>3 DEF StepIInv, Linked
<1>5. ~leader[s] /\ c # stream[l] /\ c # stream[t]
  <2>1. ~leader[s]
    BY <1>2, <1>3, <1>4, Way DEF StepIInv
  <2>2. \A k \in Stand : stream[k] # None => stream[k] # c
    BY DEF Connect, StepIInv, IInv, Owned
  <2> QED BY <2>1, <2>2
<1>6. /\ lan' = [k \in Stand |-> lan[k]]
      /\ up' = [up EXCEPT ![c] = <<Request>>]
  BY <1>5 DEF Connect
<1>7. /\ stream' = [stream EXCEPT ![s] = c] /\ owner' = [owner EXCEPT ![c] = s]
      /\ alive' = [alive EXCEPT ![c] = TRUE] /\ phase' = [phase EXCEPT ![c] = "new"]
      /\ down' = [down EXCEPT ![c] = <<>>]
      /\ todo' = todo /\ peer' = peer /\ UNCHANGED playVars
  BY DEF Connect
<1>8. Untouched(l, t)
  <2>1. \A d \in Stream : NoUpdate(up[d]) => NoUpdate(up'[d])
    BY <1>6, Without DEF StepIInv, IInv, Queues
  <2> QED BY <1>3, <1>5, <1>7, <2>1 DEF playVars, Untouched, StepIInv, IInv, Connections
<1>9. SameComing(l, t)
  BY <1>2, <1>4, <1>5, <1>6, <1>7, Way DEF SameComing, StepIInv, IInv, Connections, Queues
<1>10. SamePlaces(l, t)
  BY <1>3, <1>7 DEF playVars, SamePlaces, Home
<1> QED BY <1>2, <1>3, <1>8, <1>9, <1>10

\* Streams that end, break, or enter and leave the service's table.
LEMMA StreamStays ==
  ASSUME StepIInv, NEW c \in Stream,
         EndCloud(c) \/ Break(c) \/ Register(c) \/ Unregister(c)
  PROVE  Stays
<1>1. SUFFICES ASSUME NEW l \in Stand, NEW t \in Stand, leader'[l], t \in tuned'
               PROVE  /\ leader[l] /\ t \in tuned
                      /\ Untouched(l, t) /\ SameComing(l, t) /\ SamePlaces(l, t)
  BY FrameStays
<1>2. UNCHANGED playVars /\ todo' = todo /\ UNCHANGED lanVars /\ Detune(owner[c])
  BY DEF EndCloud, Break, Register, Unregister
<1>3. leader[l]
  BY <1>1, <1>2 DEF playVars
<1>4. t \in tuned /\ latest' = latest /\ owner[c] # t /\ owner[c] # l
  BY <1>1, <1>2, <1>3, Detuned DEF StepIInv
<1>5. Reaches(l, t)
  BY <1>3, <1>4 DEF StepIInv, Linked
<1>6. c # stream[l] /\ c # stream[t]
  BY <1>4 DEF StepIInv, IInv, Owned
<1>7. /\ stream' = stream \/ stream' = [stream EXCEPT ![owner[c]] = None]
      /\ owner' = owner \/ owner' = [owner EXCEPT ![c] = None]
      /\ alive' = alive \/ alive' = [alive EXCEPT ![c] = FALSE]
      /\ \E p \in {"new", "in", "out"} : phase' = [phase EXCEPT ![c] = p]
      /\ up' = up \/ up' = [up EXCEPT ![c] = <<>>]
      /\ down' = down \/ down' = [down EXCEPT ![c] = <<>>]
  <2> USE DEF StepIInv, IInv, Connections, Queues
  <2>1. CASE EndCloud(c)
    BY <2>1 DEF EndCloud
  <2>2. CASE Break(c) \/ Register(c) \/ Unregister(c)
    BY <2>2 DEF Break, Register, Unregister
  <2> QED BY <2>1, <2>2
<1>8. Untouched(l, t)
  <2>1. stream'[l] = stream[l] /\ stream'[t] = stream[t]
    BY <1>4, <1>7 DEF StepIInv, IInv, Connections
  <2>2. \A d \in Stream : d # c => alive'[d] = alive[d] /\ phase'[d] = phase[d]
    BY <1>7 DEF StepIInv, IInv, Connections
  <2>3. \A d \in Stream : \A k \in {l, t} : owner'[d] = k => owner[d] = k
    BY <1>7 DEF StepIInv, IInv, Connections
  <2>4. \A d \in Stream : up'[d] = up[d] \/ up'[d] = <<>>
    BY <1>7 DEF StepIInv, IInv, Queues
  <2> QED BY <1>2, <1>6, <2>1, <2>2, <2>3, <2>4, Without DEF playVars, lanVars, Untouched
<1>9. SameComing(l, t)
  <2>1. \A d \in Stream : d # c => up'[d] = up[d] /\ down'[d] = down[d]
    BY <1>7 DEF StepIInv, IInv, Queues
  <2> QED BY <1>2, <1>3, <1>5, <1>6, <2>1, Way DEF lanVars, SameComing, StepIInv
<1>10. SamePlaces(l, t)
  BY <1>2, <1>4 DEF playVars, SamePlaces, Home
<1> QED BY <1>3, <1>4, <1>8, <1>9, <1>10

\* P2P streams that begin and break.
LEMMA LanStays ==
  ASSUME StepIInv, NEW s \in Stand, NEW k \in Stand, ConnectLan(s, k) \/ BreakLan(s)
  PROVE  Stays
<1>1. SUFFICES ASSUME NEW l \in Stand, NEW t \in Stand, leader'[l], t \in tuned'
               PROVE  /\ leader[l] /\ t \in tuned
                      /\ Untouched(l, t) /\ SameComing(l, t) /\ SamePlaces(l, t)
  BY FrameStays
<1>2. UNCHANGED playVars /\ UNCHANGED linkVars
  BY DEF ConnectLan, BreakLan
<1>3. leader[l]
  BY <1>1, <1>2 DEF playVars
<1>4. /\ t \in tuned /\ latest' = latest
      /\ stream[t] = None => peer'[t] = peer[t] /\ lan'[t] = lan[t]
  <2>1. CASE ConnectLan(s, k)
    <3>1. t \in tuned /\ latest' = latest
      BY <1>1, <2>1 DEF ConnectLan
    <3>2. Reaches(l, t)
      BY <1>3, <3>1 DEF StepIInv, Linked
    <3>3. stream[t] = None => t # s
      BY <1>3, <2>1, <3>2, Way DEF ConnectLan, StepIInv
    <3> QED BY <2>1, <3>1, <3>3 DEF ConnectLan, StepIInv, IInv, Connections
  <2>2. CASE BreakLan(s) /\ stream[s] = None
    BY <1>1, <1>3, <2>2, Detuned DEF BreakLan, StepIInv, IInv, Connections, Queues
  <2>3. CASE BreakLan(s) /\ stream[s] # None
    BY <1>1, <2>3 DEF BreakLan, StepIInv, IInv, Connections, Queues
  <2> QED BY <2>1, <2>2, <2>3
<1> QED BY <1>2, <1>3, <1>4 DEF playVars, linkVars, Untouched, SameComing, SamePlaces, Home

\* Going into a preview and back, and back to the leader.
LEMMA PlacesStay ==
  ASSUME StepIInv, NEW s \in Stand, Preview(s) \/ Cancel(s) \/ SyncToLeader(s)
  PROVE  Stays
<1>1. SUFFICES ASSUME NEW l \in Stand, NEW t \in Stand, leader'[l], t \in tuned'
               PROVE  /\ leader[l] /\ t \in tuned
                      /\ Untouched(l, t) /\ SameComing(l, t) /\ SamePlaces(l, t)
  BY FrameStays
<1>2. /\ UNCHANGED <<wants, leader, linkVars, lanVars, latest, tuned>>
      /\ lead' = lead
  BY DEF Preview, Cancel, SyncToLeader
<1>3. leader[l] /\ t \in tuned /\ Reaches(l, t) /\ l # t /\ ~leader[t]
  BY <1>1, <1>2, Way DEF StepIInv, Linked
<1>4. Untouched(l, t) /\ SameComing(l, t)
  BY <1>2 DEF linkVars, lanVars, Untouched, SameComing
<1>5. SamePlaces(l, t)
  <2> USE DEF StepIInv, IInv, Flags, Places
  <2>1. CASE Preview(s)
    BY <1>2, <1>3, <2>1 DEF Preview, SamePlaces, Home
  <2>2. CASE Cancel(s)
    <3>1. s # t /\ follow' = follow /\ at'[t] = at[t]
      BY <1>3, <2>2 DEF Cancel, Show
    <3>2. Home(l)' = Home(l)
      <4>1. CASE s = l
        BY <2>2, <4>1 DEF Cancel, Show, Opened, Home
      <4>2. CASE s # l
        BY <2>2, <4>2 DEF Cancel, Show, Forget, Home
      <4> QED BY <4>1, <4>2
    <3> QED BY <1>2, <3>1, <3>2 DEF SamePlaces
  <2>3. CASE SyncToLeader(s)
    <3>1. s # l /\ Home(l)' = Home(l)
      BY <1>3, <2>3 DEF SyncToLeader, Show, Home
    <3>2. CASE s = t
      BY <1>2, <2>3, <3>1, <3>2 DEF SyncToLeader, Show, Opened, SamePlaces
    <3>3. CASE s # t
      BY <1>2, <2>3, <3>1, <3>3 DEF SyncToLeader, Show, SamePlaces
    <3> QED BY <3>2, <3>3
  <2> QED BY <2>1, <2>2, <2>3
<1> QED BY <1>3, <1>4, <1>5

\* An update is the last that comes to every stand that is then tuned in.
LEMMA PublishStays ==
  ASSUME StepIInv, NEW s \in Stand, NEW p \in Valid, leader[s], Publish(s, p, FALSE),
         UNCHANGED <<wants, leader, stream, owner, alive, phase, down, todo, peer>>,
         Home(s)' = p.item
  PROVE  Stays
<1>1. SUFFICES ASSUME NEW l \in Stand, NEW t \in Stand, leader'[l], t \in tuned'
               PROVE  Linked(l, t)'
  BY DEF Stays
<1>2. /\ Tune({k \in Stand : Reaches(s, k)}, p)
      /\ IF stream[s] # None /\ alive[stream[s]]
         THEN up' = [up EXCEPT ![stream[s]] = Append(@, Update(p))]
         ELSE up' = up
      /\ lan' = [k \in Stand |-> IF peer[k] = s THEN Append(lan[k], Update(p)) ELSE lan[k]]
  BY DEF Publish
<1>3. Reaches(s, t) /\ latest' = p
  BY <1>1, <1>2 DEF Tune
<1>4. l = s
  BY <1>1, <1>3, Way DEF StepIInv
<1>5. Reaches(s, t)'
  <2>1. \A c \in Stream : c # stream[s] => up'[c] = up[c]
    BY <1>2 DEF StepIInv, IInv, Queues
  <2> QED BY <1>3, <2>1, WayHolds DEF StepIInv, Untouched
<1>6. LastIs(Coming(s, t)', p) /\ ~NoUpdate(Coming(s, t)')
  <2> DEFINE m == Update(p)
  <2>1. m \in Sound /\ m \in Message /\ IsUpdate(m) /\ m.pos = p
    BY Messages DEF Sound
  <2>2. CASE stream[t] = None
    <3>1. lan[t] \in Seq(Message) /\ lan'[t] = Append(lan[t], m)
      BY <1>2, <1>3, <2>2, Way, AllMessages DEF StepIInv, IInv, Queues
    <3>2. Coming(s, t)' = Append(lan[t], m)
      BY <2>2, <3>1 DEF Coming
    <3> HIDE DEF m
    <3> QED BY <2>1, <3>1, <3>2, LastAppended
  <2>3. CASE stream[t] # None
    <3>1. up'[stream[s]] = Append(up[stream[s]], m)
      BY <1>2, <1>3, <2>3, Way DEF StepIInv, IInv, Queues
    <3> HIDE DEF m
    <3>2. Sent(s, t)' = Append(Sent(s, t), m)
      BY <1>3, <2>1, <2>3, <3>1, SentGrows DEF StepIInv
    <3>3. /\ Coming(s, t)' = down[stream[t]] \o Sent(s, t)'
          /\ down[stream[t]] \in Seq(Message) /\ Sent(s, t) \in Seq(Message)
      <4>1. down[stream[t]] \in Seq(Message) /\ Sent(s, t) \in Seq(Message)
        BY <1>3, <2>3, ComingParts DEF StepIInv
      <4>2. Coming(s, t)' = down[stream[t]] \o Sent(s, t)'
        BY <2>3 DEF Coming, Sent
      <4> QED BY <4>1, <4>2
    <3>4. PICK x \in Seq(Message), y \in Seq(Message) : Coming(s, t)' = x \o Append(y, m)
      BY <3>2, <3>3
    <3>5. /\ Append(y, m) \in Seq(Message)
          /\ LastIs(Append(y, m), p) /\ ~NoUpdate(Append(y, m))
      BY <2>1, LastAppended
    <3>6. LastIs(x \o Append(y, m), p) /\ ~NoUpdate(x \o Append(y, m))
      BY <3>5, LastJoined
    <3> QED BY <3>4, <3>6
  <2> QED BY <2>2, <2>3
<1>7. Known(s, t)'
  BY <1>3, <1>6 DEF Known
<1>8. Shared(s)'
  BY <1>3 DEF Shared
<1> QED BY <1>4, <1>5, <1>7, <1>8 DEF Linked

\* A page turn: the leader's is sent, a follower's makes it turn away.
LEMMA TurnStays ==
  ASSUME StepIInv, NEW s \in Stand, NEW p \in Valid, Turn(s, p)
  PROVE  Stays
<1>1. /\ UNCHANGED <<wants, leader, preview, lead, saved>>
      /\ UNCHANGED <<stream, owner, alive, phase, down, todo, peer>>
      /\ Publish(s, p, preview[s])
      /\ at' = [at EXCEPT ![s] = p]
      /\ follow' = [follow EXCEPT ![s] = @ /\ leader[s]]
  BY DEF Turn, TurnAway, Show
<1>2. CASE leader[s] /\ ~preview[s]
  <2>1. Home(s)' = p.item
    BY <1>1, <1>2 DEF Home, StepIInv, IInv, Places
  <2>2. Publish(s, p, FALSE)
    BY <1>1, <1>2 DEF Publish
  <2> QED BY <1>1, <1>2, <2>1, <2>2, PublishStays
<1>3. CASE ~(leader[s] /\ ~preview[s])
  <2>1. SUFFICES ASSUME NEW l \in Stand, NEW t \in Stand, leader'[l], t \in tuned'
                 PROVE  /\ leader[l] /\ t \in tuned
                        /\ Untouched(l, t) /\ SameComing(l, t) /\ SamePlaces(l, t)
    BY FrameStays
  <2>2. UNCHANGED <<latest, tuned, up, lan>>
    BY <1>1, <1>3 DEF Publish
  <2>3. leader[l] /\ t \in tuned /\ Reaches(l, t) /\ l # t /\ ~leader[t]
    BY <1>1, <2>1, <2>2, Way DEF StepIInv, Linked
  <2>4. Untouched(l, t) /\ SameComing(l, t)
    BY <1>1, <2>2 DEF Untouched, SameComing
  <2>5. Home(l)' = Home(l)
    BY <1>1, <1>3, <2>3 DEF Home, StepIInv, IInv, Places
  <2>6. follow'[t] => follow[t] /\ at'[t] = at[t]
    <3>1. CASE s = t
      BY <1>1, <2>3, <3>1 DEF StepIInv, IInv, Flags
    <3>2. CASE s # t
      BY <1>1, <3>2 DEF StepIInv, IInv, Flags, Places
    <3> QED BY <3>1, <3>2
  <2> QED BY <1>1, <2>2, <2>3, <2>4, <2>5, <2>6 DEF SamePlaces
<1> QED BY <1>2, <1>3

\* A preview that is pushed is an update of its own.
LEMMA PushStays == ASSUME StepIInv, NEW s \in Stand, Push(s) PROVE Stays
<1>1. at[s] \in Valid /\ leader[s]
  BY DEF Push, StepIInv, IInv, Places
<1>2. Home(s)' = at[s].item
  BY DEF Push, Home, StepIInv, IInv, Flags
<1> QED BY <1>1, <1>2, PublishStays DEF Push

\* The stand that reads the first of what comes to it stays in step.
LEMMA ReadingLinks ==
  ASSUME StepIInv, NEW l \in Stand, NEW t \in Stand, leader[l], t \in tuned,
         NEW q, NEW m, NEW r, q = Coming(l, t), r = Coming(l, t)', Takes(q, m, r),
         IF IsUpdate(m) THEN Handle(t, m.pos) ELSE UNCHANGED <<lead, at, spread>>,
         latest' = latest, follow' = follow, Untouched(l, t), Home(l)' = Home(l)
  PROVE  Linked(l, t)'
<1>1. Linked(l, t) /\ Reaches(l, t)
  BY DEF StepIInv, Linked
<1>2. /\ LastIs(q, latest)
      /\ NoUpdate(q) => /\ lead[t] = latest
                        /\ follow[t] => at[t].item = latest.item
  BY <1>1 DEF Linked, Known
<1>3. /\ LastIs(r, latest)
      /\ NoUpdate(r) /\ IsUpdate(m) => m.pos = latest
      /\ NoUpdate(r) /\ ~IsUpdate(m) => NoUpdate(q)
  BY <1>2 DEF Takes, StepIInv, IInv, Queues
<1>4. IsUpdate(m) => /\ lead'[t] = m.pos
                     /\ follow'[t] => at'[t].item = m.pos.item
  <2>1. ~leader[t]
    BY <1>1, Way DEF StepIInv
  <2> QED BY <2>1 DEF Handle, Show, Opened, StepIInv, IInv, Places
<1>5. NoUpdate(r) => /\ lead'[t] = latest
                     /\ follow'[t] => at'[t].item = latest.item
  BY <1>2, <1>3, <1>4
<1>6. Known(l, t)'
  BY <1>3, <1>5 DEF Known
<1>7. Reaches(l, t)'
  BY <1>1, WayHolds DEF StepIInv
<1>8. Shared(l)'
  BY <1>1 DEF Linked, Shared
<1> QED BY <1>6, <1>7, <1>8 DEF Linked

\* Who handles an update does not lead, or does nothing.
LEMMA HandleElsewhere ==
  ASSUME IInv, NEW s \in Stand, NEW m, Handle(s, m) \/ UNCHANGED <<lead, at, spread>>,
         UNCHANGED <<leader, preview, saved>>, NEW l \in Stand, leader[l]
  PROVE  /\ Home(l)' = Home(l)
         /\ \A t \in Stand \ {s} : lead'[t] = lead[t] /\ at'[t] = at[t]
<1>1. CASE UNCHANGED <<lead, at, spread>>
  BY <1>1 DEF Home
<1>2. CASE Handle(s, m) /\ ~leader[s]
  <2>1. \A t \in Stand \ {s} : lead'[t] = lead[t] /\ at'[t] = at[t]
    BY <1>2 DEF Handle, Show, IInv, Places
  <2> QED BY <1>2, <2>1 DEF Home
<1> QED BY <1>1, <1>2 DEF Handle

\* A stand reads its cloud stream, and answers.
LEMMA ReadCloudStays == ASSUME StepIInv, NEW c \in Stream, ReadCloud(c) PROVE Stays
<1>1. SUFFICES ASSUME NEW l \in Stand, NEW t \in Stand, leader'[l], t \in tuned'
               PROVE  Linked(l, t)'
  BY DEF Stays
<1>2. /\ UNCHANGED <<wants, leader, follow, preview, saved, stream>>
      /\ UNCHANGED <<owner, alive, phase, todo, peer, lan, latest, tuned>>
      /\ owner[c] \in Stand /\ down[c] # <<>> /\ down' = [down EXCEPT ![c] = Tail(@)]
      /\ IF IsUpdate(Head(down[c])) THEN Handle(owner[c], Head(down[c]).pos)
         ELSE UNCHANGED <<lead, at, spread>>
      /\ Answer(owner[c]) \/ UNCHANGED up
  BY ReadCloudSteps DEF ReadCloud, lanVars, StepIInv
<1>3. leader[l] /\ t \in tuned /\ Linked(l, t) /\ Reaches(l, t)
  BY <1>1, <1>2 DEF StepIInv, Linked
<1>4. PICK i \in Sound :
        /\ ~IsUpdate(i)
        /\ \A d \in Stream : \/ up'[d] = up[d]
                             \/ d = stream[owner[c]] /\ up'[d] = Append(up[d], i)
  <2> DEFINE i == Info(at[owner[c]])
             a == stream[owner[c]]
  <2>1. i \in Sound /\ ~IsUpdate(i)
    BY <1>2, Messages DEF StepIInv, IInv, Places
  <2>2. up' = up \/ up' = [up EXCEPT ![a] = Append(@, i)]
    BY <1>2 DEF Answer
  <2> HIDE DEF i
  <2>3. \A d \in Stream : up'[d] = up[d] \/ (d = a /\ up'[d] = Append(up[d], i))
    BY <2>2 DEF StepIInv, IInv, Queues
  <2> QED BY <2>1, <2>3
<1>5. Untouched(l, t)
  <2>1. ASSUME NEW d \in Stream, NoUpdate(up[d]) PROVE NoUpdate(up'[d])
    <3>1. up[d] \in Seq(Message) /\ i \in Message
      BY AllMessages DEF StepIInv, IInv, Queues, Sound
    <3>2. NoUpdate(Append(up[d], i))
      BY <1>4, <2>1, <3>1, LastAppended
    <3> QED BY <1>4, <2>1, <3>2
  <2> QED BY <1>2, <2>1 DEF Untouched
<1>6. /\ Home(l)' = Home(l)
      /\ \A k \in Stand \ {owner[c]} : lead'[k] = lead[k] /\ at'[k] = at[k]
  BY <1>2, <1>3, HandleElsewhere DEF StepIInv
<1>7. CASE owner[c] # t
  <2>1. stream[t] # c
    BY <1>2, <1>7 DEF StepIInv, IInv, Owned, Connections
  <2>2. SamePlaces(l, t)
    BY <1>2, <1>6, <1>7 DEF SamePlaces
  <2>3. stream[t] # None => /\ stream[l] \in Stream /\ stream[t] \in Stream
                            /\ down'[stream[t]] = down[stream[t]]
    BY <1>2, <1>3, <2>1, Way DEF StepIInv, IInv, Queues
  <2>4. CASE stream[t] = None \/ up'[stream[l]] = up[stream[l]]
    <3>1. SameComing(l, t)
      BY <1>2, <2>3, <2>4 DEF SameComing
    <3> QED BY <1>3, <1>5, <2>2, <3>1, LinkHolds DEF StepIInv
  <2>5. CASE stream[t] # None /\ up'[stream[l]] = Append(up[stream[l]], i)
    <3>1. Sent(l, t)' = Append(Sent(l, t), i)
      BY <1>2, <1>3, <2>5, SentGrows DEF StepIInv
    <3>2. /\ Coming(l, t) = down[stream[t]] \o Sent(l, t)
          /\ down[stream[t]] \in Seq(Message) /\ Sent(l, t) \in Seq(Message)
      BY <1>3, <2>5, ComingParts DEF StepIInv
    <3>3. Coming(l, t)' = down[stream[t]] \o Append(Sent(l, t), i)
      <4>1. Coming(l, t)' = down'[stream'[t]] \o Sent(l, t)'
        BY <1>2, <2>5 DEF Coming, Sent
      <4> QED BY <1>2, <2>3, <2>5, <3>1, <4>1
    <3>4. Alike(Coming(l, t), down[stream[t]] \o Append(Sent(l, t), i))
      BY <1>4, <3>2, Adding DEF Sound
    <3> QED BY <1>3, <1>5, <2>2, <3>3, <3>4, LinkLasts DEF StepIInv
  <2> QED BY <1>4, <2>3, <2>4, <2>5
<1>8. CASE owner[c] = t
  <2>1. stream[t] = c /\ c # None /\ stream[l] \in Stream /\ stream[l] # c
    BY <1>3, <1>8, Way DEF StepIInv
  <2>2. down'[c] = Tail(down[c]) /\ up'[stream[l]] = up[stream[l]]
    BY <1>2, <1>4, <1>8, <2>1 DEF StepIInv, IInv, Queues
  <2>3. /\ Coming(l, t) = down[c] \o Sent(l, t)
        /\ down[c] \in Seq(Message) /\ Sent(l, t) \in Seq(Message)
    BY <1>3, <2>1, ComingParts DEF StepIInv
  <2>4. Coming(l, t)' = Tail(down[c]) \o Sent(l, t)
    <3>1. Coming(l, t)' = down'[stream'[t]] \o Sent(l, t)'
      BY <1>2, <2>1 DEF Coming, Sent
    <3>2. Sent(l, t)' = Sent(l, t)
      BY <1>2, <2>2 DEF Sent
    <3> QED BY <1>2, <2>1, <2>2, <3>1, <3>2
  <2>5. Takes(Coming(l, t), Head(down[c]), Tail(down[c]) \o Sent(l, t))
    BY <1>2, <2>3, Reading
  <2> QED BY <1>2, <1>3, <1>5, <1>6, <1>8, <2>4, <2>5, ReadingLinks
<1> QED BY <1>7, <1>8

\* A stand reads its P2P stream, and drops what comes while it is on the cloud.
LEMMA ReadLanStays == ASSUME StepIInv, NEW s \in Stand, ReadLan(s) PROVE Stays
<1>1. SUFFICES ASSUME NEW l \in Stand, NEW t \in Stand, leader'[l], t \in tuned'
               PROVE  Linked(l, t)'
  BY DEF Stays
<1>2. /\ UNCHANGED <<wants, leader, follow, preview, saved, stream>>
      /\ UNCHANGED <<owner, alive, phase, up, down, todo, peer, latest, tuned>>
      /\ lan[s] # <<>> /\ lan' = [lan EXCEPT ![s] = Tail(@)]
      /\ IF stream[s] # None THEN UNCHANGED <<lead, at, spread>> ELSE Handle(s, Head(lan[s]).pos)
  BY DEF ReadLan, linkVars
<1>3. leader[l] /\ t \in tuned /\ Linked(l, t) /\ Reaches(l, t)
  BY <1>1, <1>2 DEF StepIInv, Linked
<1>4. Untouched(l, t)
  BY <1>2 DEF Untouched
<1>5. /\ Home(l)' = Home(l)
      /\ \A k \in Stand \ {s} : lead'[k] = lead[k] /\ at'[k] = at[k]
  BY <1>2, <1>3, HandleElsewhere DEF StepIInv
<1>6. CASE s # t \/ stream[s] # None
  <2>1. lead'[t] = lead[t] /\ at'[t] = at[t]
    BY <1>2, <1>5, <1>6
  <2>2. SameComing(l, t)
    BY <1>2, <1>6 DEF SameComing, StepIInv, IInv, Queues
  <2>3. SamePlaces(l, t)
    BY <1>2, <1>5, <2>1 DEF SamePlaces
  <2> QED BY <1>3, <1>4, <2>2, <2>3, LinkHolds DEF StepIInv
<1>7. CASE s = t /\ stream[s] = None
  <2>1. Coming(l, t) = lan[t] /\ Coming(l, t)' = Tail(lan[t])
    BY <1>2, <1>7 DEF Coming, StepIInv, IInv, Queues
  <2>2. lan[t] \in Seq(Message) /\ IsUpdate(Head(lan[t]))
    <3>1. lan[t] \in Seq(News) /\ lan[t] # <<>>
      BY <1>2, <1>7 DEF StepIInv, IInv, Queues
    <3>2. Head(lan[t]) \in News
      BY <3>1
    <3> QED BY <3>1, <3>2, AllMessages DEF News
  <2>3. Takes(Coming(l, t), Head(lan[t]), Tail(lan[t])) /\ Handle(t, Head(lan[t]).pos)
    BY <1>2, <1>7, <2>1, <2>2, Reading
  <2> QED BY <1>2, <1>3, <1>4, <1>5, <2>1, <2>2, <2>3, ReadingLinks
<1> QED BY <1>6, <1>7

\* The service begins a broadcast, ...
LEMMA BroadcastStays == ASSUME StepIInv, NEW c \in Stream, Broadcast(c) PROVE Stays
<1>1. SUFFICES ASSUME NEW l \in Stand, NEW t \in Stand, leader'[l], t \in tuned'
               PROVE  Linked(l, t)'
  BY DEF Stays
<1>2. /\ UNCHANGED <<playVars, stream, owner, alive, phase, up, down, peer, lan, latest, tuned>>
      /\ up[c] # <<>> /\ todo[c] = {}
      /\ todo' = [todo EXCEPT ![c] = {d \in Stream : phase[d] = "in"}]
  BY DEF Broadcast, lanVars
<1>3. leader[l] /\ t \in tuned /\ Linked(l, t) /\ Reaches(l, t)
  BY <1>1, <1>2 DEF StepIInv, Linked, playVars
<1>4. Reaches(l, t)'
  <2>1. Untouched(l, t)
    BY <1>2 DEF Untouched, playVars
  <2> QED BY <1>3, <2>1, WayHolds DEF StepIInv
<1>5. Coming(l, t)' = Coming(l, t)
  <2>1. CASE stream[t] = None
    BY <1>2, <2>1 DEF Coming
  <2>2. CASE stream[t] # None
    <3>1. stream[l] \in Stream /\ stream[t] \in Stream /\ phase[stream[t]] = "in"
      BY <1>3, <2>2, Way DEF StepIInv
    <3>2. CASE c = stream[l]
      <4>1. stream[t] \in todo'[c]
        BY <1>2, <3>1, <3>2 DEF StepIInv, IInv, Connections
      <4> QED BY <1>2, <2>2, <3>2, <4>1 DEF Coming
    <3>3. CASE c # stream[l]
      <4>1. todo'[stream[l]] = todo[stream[l]]
        BY <1>2, <3>1, <3>3 DEF StepIInv, IInv, Connections
      <4> QED BY <1>2, <4>1 DEF Coming
    <3> QED BY <3>2, <3>3
  <2> QED BY <2>1, <2>2
<1>6. Known(l, t)' /\ Shared(l)'
  BY <1>2, <1>3, <1>5 DEF Linked, Known, Shared, Home, playVars
<1> QED BY <1>4, <1>6 DEF Linked

\* ... and sends the message to one stream after the other.  What it passes on
\* from others than the leader are no updates.
LEMMA SendToStays ==
  ASSUME StepIInv, NEW c \in Stream, NEW d \in Stream, SendTo(c, d) PROVE Stays
<1>1. SUFFICES ASSUME NEW l \in Stand, NEW t \in Stand, leader'[l], t \in tuned'
               PROVE  Linked(l, t)'
  BY DEF Stays
<1>2. /\ UNCHANGED <<playVars, stream, owner, alive, phase, peer, lan, latest, tuned>>
      /\ d \in todo[c]
      /\ todo' = [todo EXCEPT ![c] = @ \ {d}]
      /\ up' = [up EXCEPT ![c] = IF todo[c] = {d} THEN Tail(@) ELSE @]
      /\ IF alive[d] /\ owner[d] # None
         THEN down' = [down EXCEPT ![d] = Append(@, Response(Head(up[c])))]
         ELSE down' = down
  BY DEF SendTo, lanVars
<1>3. leader[l] /\ t \in tuned /\ Linked(l, t) /\ Reaches(l, t)
  BY <1>1, <1>2 DEF StepIInv, Linked, playVars
<1>4. up[c] # <<>> /\ up[c] \in Seq(Sound) /\ Head(up[c]) \in Sound
  BY <1>2 DEF StepIInv, IInv, Sending, Queues
<1>5. /\ todo'[c] = todo[c] \ {d}
      /\ up'[c] = IF todo[c] = {d} THEN Tail(up[c]) ELSE up[c]
      /\ \A e \in Stream \ {c} : todo'[e] = todo[e] /\ up'[e] = up[e]
  BY <1>2 DEF StepIInv, IInv, Queues, Connections
<1>6. Untouched(l, t)
  <2>1. \A e \in Stream : NoUpdate(up[e]) => NoUpdate(up'[e])
    BY <1>4, <1>5, Without DEF StepIInv, IInv, Queues
  <2> QED BY <1>2, <2>1 DEF Untouched, playVars
<1>7. SamePlaces(l, t)
  BY <1>2 DEF SamePlaces, Home, playVars
<1>8. CASE stream[t] = None
  <2>1. SameComing(l, t)
    BY <1>2, <1>8 DEF SameComing
  <2> QED BY <1>3, <1>6, <1>7, <2>1, LinkHolds DEF StepIInv
<1>9. CASE stream[t] # None
  <2> DEFINE e == stream[t]
             a == stream[l]
             q == up[c]
             m == Response(Head(q))
  <2>1. /\ a \in Stream /\ e \in Stream /\ alive[e] /\ owner[e] = t /\ None \notin Stand
        /\ \A b \in Stream : b # a => NoUpdate(up[b])
    BY <1>3, <1>9, Way DEF StepIInv
  <2>2. /\ Coming(l, t) = down[e] \o Sent(l, t)
        /\ down[e] \in Seq(Message) /\ Sent(l, t) \in Seq(Message)
    BY <1>3, <1>9, ComingParts DEF StepIInv
  <2>3. Coming(l, t)' = down'[e] \o Sent(l, t)'
    BY <1>2, <1>9 DEF Coming, Sent
  <2>4. IF d = e THEN down'[e] = Append(down[e], m) ELSE down'[e] = down[e]
    BY <1>2, <2>1 DEF StepIInv, IInv, Queues
  <2>5. /\ m \in Message /\ (IsUpdate(m) <=> IsUpdate(Head(q)))
        /\ IsUpdate(m) => m = Head(q)
    BY <1>4, Messages DEF Heard, Sound
  <2>6. Sent(l, t) = IF up[a] # <<>> /\ todo[a] # {} /\ e \notin todo[a] THEN Tail(up[a]) ELSE up[a]
    BY DEF Sent
  <2>7. Sent(l, t)' = IF up'[a] # <<>> /\ todo'[a] # {} /\ e \notin todo'[a]
                      THEN Tail(up'[a]) ELSE up'[a]
    BY <1>2 DEF Sent
  <2>8. q \in Seq(Message) /\ q # <<>> /\ d \in todo[c]
    BY <1>2, <1>4, AllMessages
  <2> HIDE DEF e, q, m
  <2>9. CASE c = a /\ d = e
    <3>1. Sent(l, t) = q
      BY <2>6, <2>8, <2>9 DEF q
    <3>2. Sent(l, t)' = Tail(q)
      <4>1. CASE todo[c] = {d}
        <5>1. todo'[a] = {} /\ up'[a] = Tail(q)
          BY <1>5, <2>9, <4>1 DEF q
        <5> QED BY <2>7, <5>1
      <4>2. CASE todo[c] # {d}
        <5>1. todo'[a] # {} /\ e \notin todo'[a] /\ up'[a] = q
          BY <1>5, <2>8, <2>9, <4>2 DEF q
        <5> QED BY <2>7, <2>8, <5>1
      <4> QED BY <4>1, <4>2
    <3>3. Coming(l, t) = down[e] \o q /\ Coming(l, t)' = Append(down[e], m) \o Tail(q)
      BY <2>2, <2>3, <2>4, <2>9, <3>1, <3>2
    <3>4. Alike(down[e] \o q, Append(down[e], m) \o Tail(q))
      BY <2>2, <2>5, <2>8, Passing
    <3> QED BY <1>3, <1>6, <1>7, <3>3, <3>4, LinkLasts DEF StepIInv
  <2>10. CASE c = a /\ d # e
    <3>1. Sent(l, t)' = Sent(l, t)
      <4>1. CASE todo[c] = {d}
        <5>1. todo'[a] = {} /\ up'[a] = Tail(q)
          BY <1>5, <2>10, <4>1 DEF q
        <5>2. Sent(l, t) = Tail(q)
          BY <2>6, <2>8, <2>10, <4>1 DEF q
        <5> QED BY <2>7, <5>1, <5>2
      <4>2. CASE todo[c] # {d}
        <5>1. /\ todo'[a] # {} /\ todo[a] # {} /\ up'[a] = up[a]
              /\ e \in todo'[a] <=> e \in todo[a]
          BY <1>5, <2>8, <2>10, <4>2
        <5> QED BY <2>6, <2>7, <5>1
      <4> QED BY <4>1, <4>2
    <3>2. Coming(l, t)' = Coming(l, t)
      BY <2>2, <2>3, <2>4, <2>10, <3>1
    <3> QED BY <1>3, <1>6, <1>7, <3>2, LinkLasts DEF StepIInv, Alike
  <2>11. CASE c # a
    <3>1. Sent(l, t)' = Sent(l, t)
      BY <1>5, <2>1, <2>6, <2>7, <2>11
    <3>2. CASE d = e
      <4>1. ~IsUpdate(m)
        <5>1. NoUpdate(q) /\ q \in Seq(Sound)
          BY <1>4, <2>1, <2>11 DEF q
        <5> QED BY <2>5, <2>8, <5>1, Without
      <4>2. Coming(l, t)' = Append(down[e], m) \o Sent(l, t)
        BY <2>3, <2>4, <3>1, <3>2
      <4>3. Alike(Coming(l, t), Append(down[e], m) \o Sent(l, t))
        BY <2>2, <2>5, <4>1, Adding
      <4> QED BY <1>3, <1>6, <1>7, <4>2, <4>3, LinkLasts DEF StepIInv
    <3>3. CASE d # e
      <4>1. Coming(l, t)' = Coming(l, t)
        BY <2>2, <2>3, <2>4, <3>1, <3>3
      <4> QED BY <1>3, <1>6, <1>7, <4>1, LinkLasts DEF StepIInv, Alike
    <3> QED BY <3>2, <3>3
  <2> QED BY <2>9, <2>10, <2>11
<1> QED BY <1>8, <1>9

\* Only Lead makes a leader, and what leaves the concert stops leading.
LEMMA LeadingStays == ASSUME IInv, Leading, [Next]_vars PROVE Leading'
<1>1. CASE UNCHANGED <<wants, leader>>
  BY <1>1 DEF Leading
<1>2. ASSUME NEW s \in Stand, Join(s) \/ Lead(s) \/ ExitSync(s) \/ Reopen(s) PROVE Leading'
  BY <1>2 DEF Join, Lead, ExitSync, Reopen, Leading, IInv, Flags
<1>3. ASSUME NEW s \in Stand, Tap(s), ~(Join(s) \/ Lead(s) \/ ExitSync(s) \/ Reopen(s))
      PROVE  UNCHANGED <<wants, leader>>
  <2>1. CASE \/ NextPage(s) \/ PrevPage(s) \/ UseTimer(s) \/ \E i \in Item : GoTo(s, i)
    BY <2>1 DEF NextPage, PrevPage, UseTimer, GoTo, Turn
  <2>2. CASE Preview(s) \/ Push(s) \/ Cancel(s) \/ SyncToLeader(s)
    BY <2>2 DEF Preview, Push, Cancel, SyncToLeader
  <2> QED BY <1>3, <2>1, <2>2 DEF Tap
<1>4. Carry \/ Links => UNCHANGED <<wants, leader>>
  BY DEF Carry, ReadCloud, Broadcast, SendTo, ReadLan,
         Links, Connect, EndCloud, Break, Register, Unregister, ConnectLan, BreakLan, playVars
<1>5. CASE UNCHANGED vars
  BY <1>1, <1>5 DEF vars, playVars
<1> QED BY <1>1, <1>2, <1>3, <1>4, <1>5 DEF Next

\* Nobody is tuned in to a new leader yet.
LEMMA LeadStays == ASSUME NEW s \in Stand, Lead(s) PROVE Stays
BY DEF Lead, Tune, Stays

\* Hence StepIInv is inductive.
LEMMA NextStep == StepIInv /\ [Next]_vars => StepIInv'
<1> SUFFICES ASSUME StepIInv, [Next]_vars PROVE StepIInv'
  OBVIOUS
<1>1. IInv'
  BY NextInvariant DEF StepIInv
<1>2. Leading'
  BY LeadingStays DEF StepIInv
<1>3. Stays
  <2>1. CASE UNCHANGED vars
    BY <2>1, FrameStays
    DEF vars, playVars, linkVars, lanVars, Untouched, SameComing, SamePlaces, Home, StepIInv
  <2>2. ASSUME NEW s \in Stand, Tap(s) PROVE Stays
    <3>1. CASE \/ NextPage(s) \/ PrevPage(s) \/ UseTimer(s) \/ \E i \in Item : GoTo(s, i)
      BY <3>1, TurnsAreValid, TurnStays DEF StepIInv
    <3> QED BY <2>2, <3>1, JoinStays, LeadStays, PlacesStay, PushStays, ExitStays DEF Tap
  <2>3. CASE Carry
    BY <2>3, ReadCloudStays, BroadcastStays, SendToStays, ReadLanStays DEF Carry
  <2>4. CASE Links
    BY <2>4, ConnectStays, StreamStays, LanStays DEF Links
  <2> QED BY <2>1, <2>2, <2>3, <2>4 DEF Next
<1> QED BY <1>1, <1>2, <1>3 DEF StepIInv, Stays

\* It holds in every reachable state.
THEOREM StepInvariance == Spec => []StepIInv
<1>1. Init => StepIInv
  BY InitInvariant DEF Init, StepIInv, Leading
<1> QED BY <1>1, NextStep, PTL DEF Spec

\* However many stands, streams and broadcasts there are, and whatever breaks
\* and is replaced: a stand whose way from the leader has held since the latest
\* update ends up knowing it, and on the leader's item if it follows
\* (broadcast, SyncConcertStream, handleSyncMessage).
THEOREM StandsKeepInStep == Spec => []InStep
<1>1. StepIInv => InStep
  BY DEF StepIInv, Linked, Known, Shared, Home, InStep
<1> QED BY <1>1, StepInvariance, PTL

-----------------------------------------------------------------------------
(* Nothing waits for ever *)

\* A stand is there to read what a stream carries to it, and the service is
\* there to read what it carries to the service.
Attended ==
  \A c \in Stream :
    /\ down[c] # <<>> => owner[c] # None
    /\ up[c] # <<>> \/ alive[c] => phase[c] # "out"

\* A message is under way on a cloud stream, or a stream waits for the table.
Waits == \E c \in Stream : up[c] # <<>> \/ down[c] # <<>> \/ phase[c] = "new"

\* A goroutine can go on: a stand can read, and answer if it has to, a handler
\* can begin a broadcast, or send without the buffer being full, or enter its
\* stream in the table.
GoesOn ==
  \/ \E c \in Stream : owner[c] # None /\ down[c] # <<>> /\ ~WaitsToAnswer(c)
  \/ \E c \in Stream : phase[c] = "in" /\ up[c] # <<>> /\ todo[c] = {}
  \/ \E c, d \in Stream : d \in todo[c] /\ (alive[d] /\ owner[d] # None => Len(down[d]) < Room)
  \/ \E c \in Stream : phase[c] = "new" /\ ~Broadcasting

\* A broadcast waits for a stand that waits for room to answer.
Stuck == \E c, d \in Stream : d \in todo[c] /\ WaitsToAnswer(d)

\* Steps that leave the cloud streams alone, or only take from them.
LEMMA AttendedHolds ==
  ASSUME IInv, Attended,
         UNCHANGED <<owner, phase>>,
         \A c \in Stream : /\ alive'[c] => alive[c]
                           /\ up'[c] # <<>> => up[c] # <<>> \/ alive[c]
                           /\ down'[c] # <<>> => down[c] # <<>> \/ owner[c] # None
  PROVE  Attended'
BY DEF Attended

\* Attended is inductive, given IInv.
LEMMA AttendedNext == ASSUME IInv, Attended, [Next]_vars PROVE Attended'
<1>1. CASE UNCHANGED linkVars
  BY <1>1 DEF linkVars, Attended
<1>2. ASSUME NEW s \in Stand, NEW p \in Valid, NEW private, Publish(s, p, private),
             UNCHANGED <<owner, alive, phase, down>>
      PROVE  Attended'
  <2>1. \/ up' = up
        \/ stream[s] # None /\ alive[stream[s]] /\ up' = [up EXCEPT ![stream[s]] = Append(@, Update(p))]
    BY <1>2 DEF Publish
  <2>2. \A c \in Stream : up'[c] # <<>> => up[c] # <<>> \/ alive[c]
    BY <2>1 DEF IInv, Queues
  <2> QED BY <1>2, <2>2, AttendedHolds
<1>3. ASSUME NEW s \in Stand, Tap(s) PROVE Attended'
  <2>1. CASE \/ NextPage(s) \/ PrevPage(s) \/ UseTimer(s) \/ \E i \in Item : GoTo(s, i)
    BY <1>2, <2>1, TurnsAreValid DEF Turn
  <2>2. CASE Push(s)
    BY <1>2, <2>2 DEF Push, IInv, Places
  <2>3. CASE Join(s) \/ Lead(s) \/ Preview(s) \/ Cancel(s) \/ SyncToLeader(s)
    BY <1>1, <2>3 DEF Join, Lead, Preview, Cancel, SyncToLeader
  <2>4. CASE ExitSync(s)
    BY <2>4, AttendedHolds DEF ExitSync
  <2>5. CASE Reopen(s)
    BY <2>5 DEF Reopen, Attended
  <2> QED BY <1>3, <2>1, <2>2, <2>3, <2>4, <2>5 DEF Tap
<1>4. CASE Carry
  <2>1. ASSUME NEW c \in Stream, ReadCloud(c) PROVE Attended'
    <3>1. \A d \in Stream : up'[d] # <<>> => up[d] # <<>> \/ alive[d]
      <4>1. \/ up' = up
            \/ /\ stream[owner[c]] # None /\ alive[stream[owner[c]]]
               /\ up' = [up EXCEPT ![stream[owner[c]]] = Append(@, Info(at[owner[c]]))]
        BY <2>1, ReadCloudSteps DEF Answer
      <4> QED BY <4>1 DEF IInv, Queues
    <3> QED BY <2>1, <3>1, AttendedHolds DEF ReadCloud, IInv, Queues
  <2>2. ASSUME NEW c \in Stream, Broadcast(c) PROVE Attended'
    BY <2>2, AttendedHolds DEF Broadcast
  <2>3. ASSUME NEW c \in Stream, NEW d \in Stream, SendTo(c, d) PROVE Attended'
    <3>1. up[c] # <<>>
      BY <2>3 DEF SendTo, IInv, Sending
    <3>2. /\ \A e \in Stream : up'[e] # <<>> => up[e] # <<>>
          /\ \A e \in Stream : down'[e] # <<>> => down[e] # <<>> \/ owner[e] # None
      BY <2>3, <3>1 DEF SendTo, IInv, Queues
    <3> QED BY <2>3, <3>2, AttendedHolds DEF SendTo
  <2>4. ASSUME NEW s \in Stand, ReadLan(s) PROVE Attended'
    BY <1>1, <2>4 DEF ReadLan
  <2> QED BY <1>4, <2>1, <2>2, <2>3, <2>4 DEF Carry
<1>5. CASE Links
  <2> USE DEF Attended, IInv, Queues, Connections
  <2>1. ASSUME NEW s \in Stand, NEW c \in Stream, Connect(s, c) PROVE Attended'
    BY <2>1 DEF Connect
  <2>2. ASSUME NEW c \in Stream, EndCloud(c) PROVE Attended'
    BY <2>2 DEF EndCloud
  <2>3. ASSUME NEW c \in Stream, Break(c) PROVE Attended'
    BY <2>3 DEF Break
  <2>4. ASSUME NEW c \in Stream, Register(c) \/ Unregister(c) PROVE Attended'
    BY <2>4 DEF Register, Unregister
  <2>5. ASSUME NEW s \in Stand, NEW t \in Stand, ConnectLan(s, t) \/ BreakLan(s) PROVE Attended'
    BY <1>1, <2>5 DEF ConnectLan, BreakLan
  <2> QED BY <1>5, <2>1, <2>2, <2>3, <2>4, <2>5 DEF Links
<1> QED BY <1>1, <1>3, <1>4, <1>5 DEF Next, vars

\* The handlers, the broadcasts and the stands wait for each other in one way
\* only: a broadcast waits for a stand that waits for room to answer a
\* REQUEST_STATE.  Otherwise, as long as something is under way on a cloud stream
\* or a stream waits for the table, the guard of a step of ReadCloud, Broadcast,
\* SendTo or Register holds (SyncConcertStream, broadcast, handleSyncMessage).
\* Flows says it with ENABLED.
THEOREM StreamsGoOn == Spec => [](Waits => GoesOn \/ Stuck)
<1>1. Init => Attended
  BY DEF Init, Attended
<1>2. IInv /\ Attended /\ [Next]_vars => Attended'
  BY AttendedNext
<1>3. IInv /\ Attended => (Waits => GoesOn \/ Stuck)
  <2> SUFFICES ASSUME IInv, Attended, Waits,
                      \A c \in Stream : owner[c] # None /\ down[c] # <<>> => WaitsToAnswer(c)
               PROVE  GoesOn \/ Stuck
    BY DEF GoesOn
  <2>1. \A c \in Stream : down[c] # <<>> => WaitsToAnswer(c)
    BY DEF Attended
  <2>2. CASE Broadcasting
    <3>1. PICK c \in Stream, d \in Stream : d \in todo[c]
      BY <2>2 DEF Broadcasting, IInv, Connections
    <3>2. CASE Len(down[d]) < Room
      BY <3>1, <3>2 DEF GoesOn
    <3>3. CASE ~(Len(down[d]) < Room)
      <4>1. down[d] # <<>>
        BY <3>3
      <4> QED BY <2>1, <3>1, <4>1 DEF Stuck
    <3> QED BY <3>2, <3>3
  <2>3. CASE ~Broadcasting
    \* Who waits for room to answer has sent something.
    <3>1. PICK c \in Stream : up[c] # <<>> \/ phase[c] = "new"
      <4>1. CASE \E c \in Stream : down[c] # <<>>
        <5>1. PICK c \in Stream : WaitsToAnswer(c)
          BY <2>1, <4>1
        <5>2. owner[c] \in Stand /\ stream[owner[c]] \in Stream /\ Len(up[stream[owner[c]]]) >= Room
          BY <5>1 DEF WaitsToAnswer, IInv, Connections
        <5>3. up[stream[owner[c]]] # <<>>
          BY <5>2
        <5> QED BY <5>2, <5>3
      <4>2. CASE ~ \E c \in Stream : down[c] # <<>>
        BY <4>2 DEF Waits
      <4> QED BY <4>1, <4>2
    <3>2. phase[c] \in {"new", "in", "out"} /\ todo[c] = {}
      BY <2>3 DEF Broadcasting, IInv, Connections
    <3> QED BY <2>3, <3>1, <3>2 DEF GoesOn, Attended
  <2> QED BY <2>2, <2>3
<1> QED BY <1>1, <1>2, <1>3, Invariance, PTL DEF Spec
=============================================================================
