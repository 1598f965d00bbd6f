------------------------------- MODULE Mixer -------------------------------
(***************************************************************************)
(* The stage mixer (plugins/mixer.go, plugins/behringer_xair.go), the      *)
(* personal monitor mix (ui/personal_mixer.go), the master fader of the    *)
(* quick settings and the mixer view of the settings.  There is one plugin,*)
(* shared by the UI goroutine and a goroutine that every profile session   *)
(* starts to connect it (main.go), and it has no lock.  Questions and      *)
(* orders go to the console by UDP and may be lost; the engineer moves the *)
(* same faders.                                                            *)
(***************************************************************************)
EXTENDS Naturals

CONSTANTS
  Address,  \* the addresses of consoles
  MaxBus,   \* buses of a console
  MaxStrip, \* faders of a bus: the channels' sends and the bus itself
  MaxLevel  \* the top of a fader

ASSUME MixerAssumption ==
  /\ Address # {}
  /\ {MaxBus, MaxStrip, MaxLevel} \subseteq Nat \ {0}

VARIABLES
  console,   \* the level of every fader of the console at each address
  \* the plugin
  ip, connected,
  active,    \* activeMixer is the plugin, and not nil
  launch,    \* the goroutine of a session: "none", "starts", "asks" or "sets"
  \* the UI goroutine
  apply,     \* it waits in updateConnection
  quick,     \* the quick settings: "closed", "open", or "mixer" with the fader
  master,    \* the master fader of the quick settings, as shown
  panel,     \* the personal mix is shown
  bus,       \* currentBus, and the preference it is kept in
  slider,    \* the faders of the personal mix, as shown
  unread,    \* those that updateSliders has yet to read
  mover      \* history: whose hand moved a fader in the last step

pluginVars == <<ip, connected, active>>
panelVars == <<quick, master, panel, bus, slider, unread>>
mixerVars == <<console, pluginVars, launch, apply, panelVars, mover>>

-----------------------------------------------------------------------------

Level == 0..MaxLevel
Bus == 1..MaxBus
Strip == 1..MaxStrip
Main == <<0, 0>>
Fader == (Bus \X Strip) \cup {Main}

MixerTypeOK ==
  /\ console \in [Address -> [Fader -> Level]]
  /\ ip \in Address
  /\ {connected, active, apply, panel} \subseteq BOOLEAN
  /\ launch \in {"none", "starts", "asks", "sets"}
  /\ quick \in {"closed", "open", "mixer"}
  /\ master \in Level
  /\ bus \in Bus
  /\ slider \in [Strip -> Level]
  /\ unread \in SUBSET Strip
  /\ mover \in {"nobody", "user", "engineer"}

MixerInit ==
  /\ console = [a \in Address |-> [f \in Fader |-> MaxLevel]]
  /\ ip \in Address
  /\ connected = FALSE /\ active = FALSE
  /\ launch = "none" /\ apply = FALSE
  /\ quick = "closed" /\ panel = FALSE
  /\ master = 0
  /\ bus = 1
  /\ slider = [s \in Strip |-> 0]
  /\ unread = {}
  /\ mover = "nobody"

\* The UI goroutine does not wait for an answer.
UiFree == ~apply /\ unread = {}

-----------------------------------------------------------------------------
(* The plugin *)

\* queryOSC: the level, unless there is an error.
Heard(f) == IF connected THEN {console[ip][f]} ELSE {}

\* sendOSC: to the address of the last Connect, and unacknowledged.
Send(f, level) ==
  \/ UNCHANGED console
  \/ connected /\ console' = [console EXCEPT ![ip][f] = level]

\* Connect, up to the question it asks ...
ConnectBegins(a) == ip' = a /\ connected' = TRUE

\* ... and from its answer on, which comes although it was disconnected meanwhile.
ConnectSucceeds == UNCHANGED <<ip, connected>>
ConnectFails == connected' = FALSE /\ UNCHANGED ip

-----------------------------------------------------------------------------
(* The goroutine of a session *)

\* A session starts, with a mixer saved in its preferences; sessions follow one
\* another, and bound: at most one of their goroutines is under way.
LaunchSession ==
  /\ UiFree /\ launch = "none"
  /\ launch' = "starts" /\ mover' = "nobody"
  /\ UNCHANGED <<console, pluginVars, apply, panelVars>>

LaunchConnects(a) ==
  /\ launch = "starts"
  /\ ConnectBegins(a)
  /\ launch' = "asks" /\ mover' = "nobody"
  /\ UNCHANGED <<console, active, apply, panelVars>>

LaunchHears ==
  /\ launch = "asks"
  /\ ConnectSucceeds \/ ConnectFails
  /\ launch' = "sets" /\ mover' = "nobody"
  /\ UNCHANGED <<console, active, apply, panelVars>>

\* The mixer becomes the active one also when it could not be reached.
LaunchSets ==
  /\ launch = "sets"
  /\ active' = TRUE
  /\ launch' = "none" /\ mover' = "nobody"
  /\ UNCHANGED <<console, ip, connected, apply, panelVars>>

-----------------------------------------------------------------------------
(* The UI goroutine *)

\* updateConnection: the view connects by itself when no mixer is active, and
\* on Apply.
ApplyConnects(a) ==
  /\ UiFree /\ quick = "closed" /\ ~panel
  /\ ConnectBegins(a)
  /\ active' = FALSE /\ apply' = TRUE /\ mover' = "nobody"
  /\ UNCHANGED <<console, launch, panelVars>>

ApplyHears ==
  /\ apply
  /\ \/ ConnectSucceeds /\ active' = TRUE
     \/ ConnectFails /\ UNCHANGED active
  /\ apply' = FALSE /\ mover' = "nobody"
  /\ UNCHANGED <<console, launch, panelVars>>

\* Apply with no plugin selected.
ApplyNone ==
  /\ UiFree /\ quick = "closed" /\ ~panel
  /\ connected' = (connected /\ ~active)
  /\ active' = FALSE /\ mover' = "nobody"
  /\ UNCHANGED <<console, ip, launch, apply, panelVars>>

\* Mutant: ignoreSliderChange is not looked at, and the fader that is set sends
\* what was read before the engineer moved it.
OpenQuickAndSend ==
  /\ UiFree /\ quick = "closed" /\ ~panel
  /\ IF active /\ connected
     THEN quick' = "mixer" /\ master' \in Level /\ Send(Main, master')
     ELSE quick' = "open" /\ UNCHANGED <<console, master>>
  /\ mover' = "nobody"
  /\ UNCHANGED <<pluginVars, launch, apply, panel, bus, slider, unread>>

\* The fader takes the level the console answers, and sends nothing
\* (ignoreSliderChange); without an answer it stays where it was.
OpenQuick ==
  /\ UiFree /\ quick = "closed" /\ ~panel
  /\ IF active /\ connected
     THEN quick' = "mixer" /\ master' \in {master} \cup Heard(Main)
     ELSE quick' = "open" /\ UNCHANGED master
  /\ mover' = "nobody"
  /\ UNCHANGED <<console, pluginVars, launch, apply, panel, bus, slider, unread>>

CloseQuick ==
  /\ UiFree /\ quick # "closed"
  /\ quick' = "closed" /\ mover' = "nobody"
  /\ UNCHANGED <<console, pluginVars, launch, apply, master, panel, bus, slider, unread>>

\* The user moves the master fader, with a plugin that may have been connected
\* anew.
MoveMain(level) ==
  /\ UiFree /\ quick = "mixer" /\ level # master
  /\ master' = level /\ mover' = "user"
  /\ IF active THEN Send(Main, level) ELSE UNCHANGED console
  /\ UNCHANGED <<pluginVars, launch, apply, quick, panel, bus, slider, unread>>

\* The button is there with the fader; ShowPersonalMixerDialog looks again.
OpenPanel ==
  /\ UiFree /\ quick = "mixer"
  /\ quick' = "closed"
  /\ panel' = (active /\ connected)
  /\ unread' = IF active /\ connected THEN Strip ELSE {}
  /\ slider' = IF active /\ connected THEN [s \in Strip |-> 0] ELSE slider
  /\ mover' = "nobody"
  /\ UNCHANGED <<console, pluginVars, launch, apply, master, bus>>

SelectBus(b) ==
  /\ UiFree /\ panel /\ b # bus
  /\ bus' = b
  /\ unread' = Strip /\ mover' = "nobody"
  /\ UNCHANGED <<console, pluginVars, launch, apply, quick, master, panel, slider>>

\* updateSliders, one fader after another: OnChanged runs for every fader that
\* takes another level, sees isUpdating and sends nothing.  Without an answer it
\* takes level 0.
ReadFader ==
  /\ unread # {}
  /\ LET s == CHOOSE s \in unread : \A t \in unread : s <= t IN
     \E level \in {0} \cup Heard(<<bus, s>>) :
       /\ slider' = [slider EXCEPT ![s] = level]
       /\ unread' = unread \ {s}
  /\ mover' = "nobody"
  /\ UNCHANGED <<console, pluginVars, launch, apply, quick, master, panel, bus>>

\* The user moves a fader of the personal mix.
MoveFader(s, level) ==
  /\ UiFree /\ panel /\ level # slider[s]
  /\ slider' = [slider EXCEPT ![s] = level]
  /\ mover' = "user"
  /\ Send(<<bus, s>>, level)
  /\ UNCHANGED <<pluginVars, launch, apply, quick, master, panel, bus, unread>>

ClosePanel ==
  /\ UiFree /\ panel
  /\ panel' = FALSE /\ mover' = "nobody"
  /\ UNCHANGED <<console, pluginVars, launch, apply, quick, master, bus, slider, unread>>

-----------------------------------------------------------------------------

EngineerMoves(a, f, level) ==
  /\ console' = [console EXCEPT ![a][f] = level] /\ mover' = "engineer"
  /\ UNCHANGED <<pluginVars, launch, apply, panelVars>>

MixerNext ==
  \/ \E a \in Address : LaunchConnects(a) \/ ApplyConnects(a)
  \/ LaunchSession \/ LaunchHears \/ LaunchSets
  \/ ApplyHears \/ ApplyNone
  \/ OpenQuick \/ CloseQuick \/ OpenPanel \/ ClosePanel
  \/ \E b \in Bus : SelectBus(b)
  \/ ReadFader
  \/ \E level \in Level : MoveMain(level) \/ \E s \in Strip : MoveFader(s, level)
  \/ \E a \in Address, f \in Fader, level \in Level : EngineerMoves(a, f, level)

MixerSpec == MixerInit /\ [][MixerNext]_mixerVars

-----------------------------------------------------------------------------
(* Properties *)

\* The app moves a fader of the desk only under the user's hand, and to where the
\* user put the fader on the screen: on the console connected last, and there the
\* main fader from the quick settings, or one of the bus that is selected from a
\* personal mix that is up to date.  Neither opening the quick settings or the
\* personal mix, nor another bus, nor a connection, nor an answer that was lost
\* and is shown as silence makes it send a level (togglePanel, updateSliders).
OnlyHandsMoveFaders ==
  [][console' # console =>
       \/ mover' = "engineer"
       \/ /\ mover' = "user" /\ UiFree /\ connected
          /\ \A a \in Address, f \in Fader : console'[a][f] # console[a][f] =>
               /\ a = ip
               /\ IF f = Main THEN quick = "mixer" /\ console'[a][f] = master'
                  ELSE panel /\ f[1] = bus /\ console'[a][f] = slider'[f[2]]]_mixerVars
=============================================================================
