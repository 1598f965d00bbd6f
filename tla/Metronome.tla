----------------------------- MODULE Metronome -----------------------------
(***************************************************************************)
(* The metronome of a stand: MetronomeAudio, whose device calls it from a  *)
(* thread of its own (audio/metronome.go), the dialog with its own copy of *)
(* what it last asked for (ui/metronome.go), the goroutine every beat      *)
(* starts, and the ticks of the leader that a follower sounds              *)
(* (ui/concert.go, ui/practice.go).  Time is counted in beats; the tempo   *)
(* itself is left out.                                                     *)
(***************************************************************************)
EXTENDS Naturals, FiniteSets

CONSTANTS
  MaxMeasure,  \* beats of the longest measure, 7 in the code
  MaxElapsed,  \* bound: beats counted from a start
  MaxFlying    \* bound: goroutines and messages at the same time

ASSUME MetronomeAssumption ==
  MaxMeasure \in Nat \ {0} /\ MaxElapsed \in Nat /\ MaxFlying \in Nat

VARIABLES
  stand,           \* "off", "concert", "practice", or "crashed"
  device,          \* the sound device was there on opening
  beating,         \* "playing" of MetronomeAudio
  beatsPerMeasure,
  elapsed,         \* expectedBeats: whole beats since startTime
  nextBeat,
  sound,           \* what the frames left are of: "none", "own" or "leader"
  isAccent,
  metroDialog,     \* {} or the dialog's copies of playing and beatsPerMeasure
  leads,           \* isLeader
  beatFlights      \* OnBeat goroutines and handleSyncMessage calls; two in
                   \* the same state count as one

audioVars == <<device, beating, beatsPerMeasure, elapsed, nextBeat, sound, isAccent>>
metronomeVars == <<stand, audioVars, metroDialog, leads, beatFlights>>

MetroDialog == [playing : BOOLEAN, beats : 1..MaxMeasure]

\* "called": dialogBeatCb is done with; "quiet": the metronome was seen to rest.
Flight == [of : {"own", "leader"}, accent : BOOLEAN,
           at : {"new", "checked", "called", "quiet"}]

MetronomeTypeOK ==
  /\ stand \in {"off", "concert", "practice", "crashed"}
  /\ device \in BOOLEAN /\ beating \in BOOLEAN
  /\ beatsPerMeasure \in 1..MaxMeasure
  /\ elapsed \in 0..MaxElapsed /\ nextBeat \in 0..MaxElapsed + 1
  /\ sound \in {"none", "own", "leader"} /\ isAccent \in BOOLEAN
  /\ metroDialog \subseteq MetroDialog /\ Cardinality(metroDialog) <= 1
  /\ leads \in BOOLEAN
  /\ beatFlights \subseteq Flight /\ Cardinality(beatFlights) <= MaxFlying

Silent ==
  /\ beating' = FALSE /\ sound' = "none"

\* NewMetronomeAudio; four beats, or what there is of them.
FourBeats == IF MaxMeasure < 4 THEN MaxMeasure ELSE 4
Fresh ==
  /\ Silent
  /\ beatsPerMeasure' = FourBeats
  /\ elapsed' = 0 /\ nextBeat' = 0 /\ isAccent' = FALSE

MetronomeInit ==
  /\ stand = "off" /\ device = FALSE
  /\ beating = FALSE /\ beatsPerMeasure = FourBeats
  /\ elapsed = 0 /\ nextBeat = 0 /\ sound = "none" /\ isAccent = FALSE
  /\ metroDialog = {} /\ leads = FALSE /\ beatFlights = {}

Works == stand \in {"concert", "practice"}

OpenStand ==
  /\ stand = "off"
  /\ stand' \in {"concert", "practice"}
  /\ device' \in BOOLEAN
  /\ Fresh
  /\ UNCHANGED <<metroDialog, leads, beatFlights>>

\* Exit, from under no dialog: Stop and Close.  What is still in flight has
\* nobody left to tell.
ExitStand ==
  /\ Works /\ metroDialog = {}
  /\ stand' = "off" /\ device' = FALSE /\ leads' = FALSE /\ beatFlights' = {}
  /\ Fresh
  /\ UNCHANGED metroDialog

-----------------------------------------------------------------------------
(* The device *)

BeatPasses ==
  /\ beating /\ elapsed < MaxElapsed
  /\ elapsed' = elapsed + 1
  /\ UNCHANGED <<stand, device, beating, beatsPerMeasure, nextBeat, sound, isAccent,
                 metroDialog, leads, beatFlights>>

\* onSendFrames with a beat due; one that is overdue takes the place of those
\* that were missed.
SendBeat ==
  LET accent == beatsPerMeasure > 1 /\ elapsed % beatsPerMeasure = 0
      flight == [of |-> "own", accent |-> accent, at |-> "new"] IN
  /\ beating /\ elapsed >= nextBeat
  /\ Cardinality(beatFlights) < MaxFlying
  /\ nextBeat' = elapsed + 1
  /\ isAccent' = accent /\ sound' = "own"
  /\ beatFlights' = beatFlights \cup {flight}
  /\ UNCHANGED <<stand, device, beating, beatsPerMeasure, elapsed, metroDialog, leads>>

\* onSendFrames has sent the last frame of a tick.
SoundEnds ==
  /\ sound # "none"
  /\ sound' = "none"
  /\ UNCHANGED <<stand, device, beating, beatsPerMeasure, elapsed, nextBeat, isAccent,
                 metroDialog, leads, beatFlights>>

-----------------------------------------------------------------------------
(* The dialog *)

\* Mutant: the dialog does not ask whether the metronome plays.
OpenMetronomeAnew ==
  /\ Works /\ metroDialog = {}
  /\ metroDialog' = {[playing |-> FALSE, beats |-> beatsPerMeasure]}
  /\ UNCHANGED <<stand, audioVars, leads, beatFlights>>

\* ShowMetronomeDialog, which also sets dialogBeatCb.
OpenMetronome ==
  /\ Works /\ metroDialog = {}
  /\ metroDialog' = {[playing |-> beating, beats |-> beatsPerMeasure]}
  /\ UNCHANGED <<stand, audioVars, leads, beatFlights>>

\* Start or Stop, by the dialog's own idea.
ToggleMetronome ==
  \E d \in metroDialog :
    /\ metroDialog' = {[d EXCEPT !.playing = ~@]}
    /\ beating' = (device /\ ~d.playing) /\ sound' = "none"
    /\ IF device /\ ~d.playing THEN elapsed' = 0 /\ nextBeat' = 0
       ELSE UNCHANGED <<elapsed, nextBeat>>
    /\ UNCHANGED <<stand, device, beatsPerMeasure, isAccent, leads, beatFlights>>

\* SetTimeSignature, after the last from one again.
MeasureTapped ==
  \E d \in metroDialog :
    LET beats == (d.beats % MaxMeasure) + 1 IN
    /\ metroDialog' = {[d EXCEPT !.beats = beats]}
    /\ beatsPerMeasure' = IF device THEN beats ELSE beatsPerMeasure
    /\ UNCHANGED <<stand, device, beating, elapsed, nextBeat, sound, isAccent,
                   leads, beatFlights>>

\* updateBPM: SetBPM counts from the start again.
TempoChanges ==
  /\ metroDialog # {} /\ beating
  /\ elapsed' = 0 /\ nextBeat' = 0
  /\ UNCHANGED <<stand, device, beating, beatsPerMeasure, sound, isAccent,
                 metroDialog, leads, beatFlights>>

\* Close: dialogBeatCb is nil again.
CloseMetronome ==
  /\ metroDialog # {}
  /\ metroDialog' = {}
  /\ UNCHANGED <<stand, audioVars, leads, beatFlights>>

-----------------------------------------------------------------------------
(* The concert around it *)

\* loadCurrentSong, by the user, a pilot, the leader or the countdown, with the
\* dialog open or not.
LoadSong ==
  /\ stand = "concert"
  /\ Silent
  /\ UNCHANGED <<stand, device, beatsPerMeasure, elapsed, nextBeat, isAccent,
                 metroDialog, leads, beatFlights>>

\* Leading starts and ends (ConcertMode).
LeadChanges ==
  /\ stand = "concert"
  /\ leads' = ~leads
  /\ UNCHANGED <<stand, audioVars, metroDialog, beatFlights>>

\* A METRONOME_TICK from the cloud or the network.
TickArrives(accent) ==
  /\ stand = "concert" /\ Cardinality(beatFlights) < MaxFlying
  /\ beatFlights' = beatFlights \cup {[of |-> "leader", accent |-> accent, at |-> "new"]}
  /\ UNCHANGED <<stand, audioVars, metroDialog, leads>>

-----------------------------------------------------------------------------
(* Beats and ticks under way *)

Moves(f, at) == beatFlights' = (beatFlights \ {f}) \cup {[f EXCEPT !.at = at]}

\* Is there a dialogBeatCb?
ChecksCallback(f) ==
  /\ f.at = "new"
  /\ Moves(f, IF metroDialog = {} THEN "called" ELSE "checked")
  /\ UNCHANGED <<stand, audioVars, metroDialog, leads>>

\* The call.  Nothing orders it after the check: when the dialog has closed in
\* between, the variable read again is nil, or what the check read is used.
CallsCallback(f) ==
  /\ f.at = "checked"
  /\ Moves(f, "called")
  /\ UNCHANGED <<stand, audioVars, metroDialog, leads>>

CallsNil(f) ==
  /\ f.at = "checked" /\ metroDialog = {}
  /\ stand' = "crashed" /\ device' = FALSE /\ leads' = FALSE /\ beatFlights' = {}
  /\ Fresh
  /\ UNCHANGED metroDialog

\* A leader that does not preview sends its beat to the others; nobody here
\* sees that.
BeatDone(f) ==
  /\ f.of = "own" /\ f.at = "called"
  /\ beatFlights' = beatFlights \ {f}
  /\ UNCHANGED <<stand, audioVars, metroDialog, leads>>

\* A tick is for followers whose own metronome rests.
ChecksPlaying(f) ==
  /\ f.of = "leader" /\ f.at = "called"
  /\ IF ~leads /\ device /\ ~beating THEN Moves(f, "quiet")
     ELSE beatFlights' = beatFlights \ {f}
  /\ UNCHANGED <<stand, audioVars, metroDialog, leads>>

\* PlayTick.
PlayTick(f) ==
  /\ f.at = "quiet"
  /\ beatFlights' = beatFlights \ {f}
  /\ isAccent' = f.accent /\ sound' = "leader"
  /\ UNCHANGED <<stand, device, beating, beatsPerMeasure, elapsed, nextBeat,
                 metroDialog, leads>>

MetronomeNext ==
  \/ OpenStand \/ ExitStand
  \/ BeatPasses \/ SendBeat \/ SoundEnds
  \/ OpenMetronome \/ ToggleMetronome \/ MeasureTapped \/ TempoChanges \/ CloseMetronome
  \/ LoadSong \/ LeadChanges
  \/ \E accent \in BOOLEAN : TickArrives(accent)
  \/ \E f \in beatFlights :
       \/ ChecksCallback(f) \/ CallsCallback(f) \/ CallsNil(f)
       \/ BeatDone(f) \/ ChecksPlaying(f) \/ PlayTick(f)

MetronomeSpec == MetronomeInit /\ [][MetronomeNext]_metronomeVars

-----------------------------------------------------------------------------
(* Properties *)

\* The metronome is in the player's hand: whenever it plays, one tap in the
\* open dialog stops it, also in a dialog that was opened while it played and
\* whatever songs were loaded since (ui/metronome.go:29, 117); and once stopped,
\* by hand or with the song, no beat of its own sounds on
\* (audio/metronome.go:138).
OneTapStops ==
  /\ \A d \in metroDialog : beating => d.playing
  /\ sound = "own" => beating
=============================================================================
