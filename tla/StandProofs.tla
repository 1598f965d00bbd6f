---------------------------- MODULE StandProofs ----------------------------
(***************************************************************************)
(* Proofs about the parts of a stand that its own goroutines share: the    *)
(* dictaphone, the eye tracker, the viewer's pages, the metronome, the     *)
(* registry of profiles and the mixer.  Each has an inductive invariant,   *)
(* named after it, and the property it is for follows.                     *)
(***************************************************************************)
EXTENDS Dictaphone, EyeTracking, PageTurns, Metronome, Registry, Mixer, FiniteSetTheorems,
        TLAPS

-----------------------------------------------------------------------------
(* The dictaphone *)

\* The types, by kinds.
DictaFlags ==
  /\ recording \in BOOLEAN /\ isPlaying \in BOOLEAN /\ paused \in BOOLEAN
  /\ open \in BOOLEAN /\ ticking \in BOOLEAN
  /\ output \in {"nil", "ready", "runs"}
  /\ playStep \in {"no", "load", "device", "start"}
  /\ song \in Song
DictaNumbers ==
  /\ second \in Path
  /\ rows \in 0..MaxTakes
  /\ recordPath \in 0..MaxSeconds /\ ours \in 0..MaxSeconds /\ playFile \in 0..MaxSeconds
  /\ offset \in -1..MaxLength /\ length \in 0..MaxLength
DictaSets ==
  /\ file \in [Path -> NoFile..MaxLength]
  /\ row \subseteq Recording
  /\ follow \subseteq {"ended", "stopped"}

\* While the handler of Play is at work nothing records, and what records or is
\* loaded has a file.
DictaphoneIInv ==
  /\ DictaFlags /\ DictaNumbers /\ DictaSets
  /\ RecordsOrPlays /\ TakeIsKnown /\ PlaysInside
  /\ playStep # "no" => ~recording
  /\ recording => recordPath \in Path
  /\ playStep = "load" => playFile \in Path

\* It holds at first, ...
LEMMA DictaInitInvariant == DictaInit => DictaphoneIInv
<1> SUFFICES ASSUME DictaInit PROVE DictaphoneIInv
  OBVIOUS
<1>1. DictaFlags
  BY DEF DictaInit, DictaFlags
<1>2. DictaNumbers
  BY DictaphoneAssumption DEF DictaInit, DictaNumbers, Path
<1>3. DictaSets
  BY DictaphoneAssumption DEF DictaInit, DictaSets, NoFile
<1> QED
  BY <1>1, <1>2, <1>3 DEF DictaInit, DictaphoneIInv, RecordsOrPlays, TakeIsKnown, PlaysInside

\* ... recording keeps it, ...
LEMMA RecordingStep ==
  ASSUME DictaphoneIInv, ToggleOn \/ ToggleOff \/ Capture \/ ClockTicks
  PROVE  DictaphoneIInv'
<1> USE DictaphoneAssumption DEF DictaphoneIInv, RecordsOrPlays, TakeIsKnown, PlaysInside
<1>1. CASE ToggleOn
  <2>1. DictaFlags'
    BY <1>1 DEF DictaFlags, ToggleOn, StopPlayback
  <2>2. DictaNumbers'
    BY <1>1 DEF DictaNumbers, Path, ToggleOn, StopPlayback
  <2>3. file' = file \/ file' = [file EXCEPT ![second] = 0]
    BY <1>1 DEF ToggleOn
  <2>4. 0 \in NoFile..MaxLength
    BY DEF NoFile
  <2>5. file' \in [Path -> NoFile..MaxLength]
    BY <2>3, <2>4 DEF DictaNumbers, DictaSets
  <2>7. UNCHANGED <<row, follow>>
    BY <1>1 DEF ToggleOn
  <2>6. DictaSets'
    BY <2>5, <2>7 DEF DictaSets
  <2> QED
    BY <1>1, <2>1, <2>2, <2>6 DEF DictaNumbers, Path, ToggleOn, AtDialog, StopPlayback
<1>2. CASE ToggleOff
  <2>1. DictaFlags'
    BY <1>2 DEF DictaFlags, ToggleOff, KeepsPlayback
  <2>2. DictaNumbers'
    BY <1>2 DEF DictaNumbers, Path, ToggleOff, KeepsPlayback
  <2>4. UNCHANGED <<file, follow>>
    BY <1>2 DEF ToggleOff
  <2>5. /\ ours # 0 /\ rows < MaxTakes
        /\ row' = row \cup {[id |-> rows + 1, song |-> song, path |-> ours]}
        \/ UNCHANGED row
    BY <1>2 DEF ToggleOff
  <2>6. ours # 0 /\ rows < MaxTakes =>
          [id |-> rows + 1, song |-> song, path |-> ours] \in Recording
    BY DEF DictaFlags, DictaNumbers, Recording, Path
  <2>3. DictaSets'
    BY <2>4, <2>5, <2>6 DEF DictaSets
  <2> QED
    BY <1>2, <2>1, <2>2, <2>3 DEF ToggleOff, AtDialog, KeepsPlayback
<1>3. CASE Capture
  <2>1. DictaFlags'
    BY <1>3 DEF DictaFlags, Capture, recorderVars, dialogVars
  <2>2. DictaNumbers'
    BY <1>3 DEF DictaNumbers, Path, Capture, recorderVars, dialogVars
  <2>3. DictaSets'
    BY <1>3 DEF DictaSets, DictaNumbers, NoFile, Capture, recorderVars, dialogVars
  <2> QED
    BY <1>3, <2>1, <2>2, <2>3 DEF Capture, recorderVars, dialogVars
<1>4. CASE ClockTicks
  <2>1. DictaFlags'
    BY <1>4 DEF DictaFlags, ClockTicks, recorderVars, dialogVars
  <2>2. DictaNumbers'
    BY <1>4 DEF DictaNumbers, Path, ClockTicks, recorderVars, dialogVars
  <2>3. DictaSets'
    BY <1>4 DEF DictaSets, ClockTicks, recorderVars, dialogVars
  <2> QED
    BY <1>4, <2>1, <2>2, <2>3 DEF ClockTicks, recorderVars, dialogVars
<1> QED
  BY <1>1, <1>2, <1>3, <1>4

\* ... playing does, ...
LEMMA PlayingStep ==
  ASSUME DictaphoneIInv,
         \/ \E r \in row : PlayBegins(r)
         \/ PlayLoads \/ PlayDevice \/ PlayStarts \/ Sound \/ TogglePause \/ StopButton
         \/ \E to \in 0..MaxLength : Seek(to)
         \/ Follow \/ FollowEnds \/ FollowStops
  PROVE  DictaphoneIInv'
<1> USE DictaphoneAssumption DEF DictaphoneIInv, RecordsOrPlays, TakeIsKnown, PlaysInside
<1>1. ASSUME NEW r \in row, PlayBegins(r) PROVE DictaphoneIInv'
  <2>1. DictaFlags'
    BY <1>1 DEF DictaFlags, PlayBegins, StopPlayback
  <2>2. DictaNumbers'
    BY <1>1 DEF DictaNumbers, Path, DictaSets, Recording, PlayBegins, StopPlayback
  <2>3. DictaSets'
    BY <1>1 DEF DictaSets, PlayBegins
  <2> QED
    BY <1>1, <2>1, <2>2, <2>3 DEF DictaSets, Recording, DictaNumbers, Path, PlayBegins,
       AtDialog, StopPlayback
<1>2. CASE PlayLoads
  <2>1. DictaFlags'
    BY <1>2 DEF DictaFlags, PlayLoads, KeepsPlayback
  <2>2. DictaNumbers'
    BY <1>2 DEF DictaNumbers, Path, DictaSets, NoFile, PlayLoads, KeepsPlayback
  <2>3. DictaSets'
    BY <1>2 DEF DictaSets, PlayLoads
  <2> QED
    BY <1>2, <2>1, <2>2, <2>3 DEF DictaNumbers, Path, PlayLoads, KeepsPlayback
<1>3. CASE PlayDevice
  <2>1. DictaFlags'
    BY <1>3 DEF DictaFlags, PlayDevice
  <2>2. DictaNumbers'
    BY <1>3 DEF DictaNumbers, Path, PlayDevice
  <2>3. DictaSets'
    BY <1>3 DEF DictaSets, PlayDevice
  <2> QED
    BY <1>3, <2>1, <2>2, <2>3 DEF PlayDevice
<1>4. CASE PlayStarts
  <2>1. DictaFlags'
    BY <1>4 DEF DictaFlags, PlayStarts
  <2>2. DictaNumbers'
    BY <1>4 DEF DictaNumbers, Path, PlayStarts
  <2>3. DictaSets'
    BY <1>4 DEF DictaSets, PlayStarts
  <2> QED
    BY <1>4, <2>1, <2>2, <2>3 DEF PlayStarts
<1>5. CASE Sound
  <2>1. DictaFlags'
    BY <1>5 DEF DictaFlags, Sound, dialogVars
  <2>2. DictaNumbers'
    BY <1>5 DEF DictaNumbers, Path, Sound, dialogVars
  <2>3. DictaSets'
    BY <1>5 DEF DictaSets, Sound, dialogVars
  <2> QED
    BY <1>5, <2>1, <2>2, <2>3 DEF DictaNumbers, Path, Sound, dialogVars
<1>6. CASE TogglePause
  <2>1. DictaFlags'
    BY <1>6 DEF DictaFlags, TogglePause, dialogVars
  <2>2. DictaNumbers'
    BY <1>6 DEF DictaNumbers, Path, TogglePause, dialogVars
  <2>3. DictaSets'
    BY <1>6 DEF DictaSets, TogglePause, dialogVars
  <2> QED
    BY <1>6, <2>1, <2>2, <2>3 DEF TogglePause, AtDialog, dialogVars
<1>7. CASE StopButton
  <2>1. DictaFlags'
    BY <1>7 DEF DictaFlags, StopButton, StopPlayback
  <2>2. DictaNumbers'
    BY <1>7 DEF DictaNumbers, Path, StopButton, StopPlayback
  <2>3. DictaSets'
    BY <1>7 DEF DictaSets, StopButton
  <2> QED
    BY <1>7, <2>1, <2>2, <2>3 DEF StopButton, AtDialog, StopPlayback
<1>8. ASSUME NEW to \in 0..MaxLength, Seek(to) PROVE DictaphoneIInv'
  <2>1. DictaFlags'
    BY <1>8 DEF DictaFlags, Seek, dialogVars
  <2>2. DictaNumbers'
    BY <1>8 DEF DictaNumbers, Path, Seek, dialogVars
  <2>3. DictaSets'
    BY <1>8 DEF DictaSets, Seek, dialogVars
  <2> QED
    BY <1>8, <2>1, <2>2, <2>3 DEF DictaNumbers, Path, Seek, AtDialog, dialogVars
<1>9. CASE Follow
  <2>1. DictaFlags'
    BY <1>9 DEF DictaFlags, Follow, recorderVars
  <2>2. DictaNumbers'
    BY <1>9 DEF DictaNumbers, Path, Follow, recorderVars
  <2>3. DictaSets'
    BY <1>9 DEF DictaSets, Follow, recorderVars
  <2> QED
    BY <1>9, <2>1, <2>2, <2>3 DEF Follow, recorderVars
<1>10. CASE FollowEnds
  <2>1. DictaFlags'
    BY <1>10 DEF DictaFlags, FollowEnds, StopPlayback
  <2>2. DictaNumbers'
    BY <1>10 DEF DictaNumbers, Path, FollowEnds, StopPlayback
  <2>3. DictaSets'
    BY <1>10 DEF DictaSets, FollowEnds
  <2> QED
    BY <1>10, <2>1, <2>2, <2>3 DEF FollowEnds, StopPlayback
<1>11. CASE FollowStops
  <2>1. DictaFlags'
    BY <1>11 DEF DictaFlags, FollowStops, recorderVars
  <2>2. DictaNumbers'
    BY <1>11 DEF DictaNumbers, Path, FollowStops, recorderVars
  <2>3. DictaSets'
    BY <1>11 DEF DictaSets, FollowStops, recorderVars
  <2> QED
    BY <1>11, <2>1, <2>2, <2>3 DEF FollowStops, recorderVars
<1> QED
  BY <1>1, <1>2, <1>3, <1>4, <1>5, <1>6, <1>7, <1>8, <1>9, <1>10, <1>11

\* ... and so do the dialog and the screens around it.
LEMMA DialogStep ==
  ASSUME DictaphoneIInv,
         \/ \E r \in row : DeleteRecording(r)
         \/ OpenDictaphone \/ CloseDictaphone \/ Leave \/ SoundPanics
         \/ \E s \in Song : ChangeSong(s)
         \/ UNCHANGED dictaVars
  PROVE  DictaphoneIInv'
<1> USE DictaphoneAssumption DEF DictaphoneIInv, RecordsOrPlays, TakeIsKnown, PlaysInside
<1>1. ASSUME NEW r \in row, DeleteRecording(r) PROVE DictaphoneIInv'
  <2>1. DictaFlags'
    BY <1>1 DEF DictaFlags, DeleteRecording, recorderVars, dialogVars
  <2>2. DictaNumbers'
    BY <1>1 DEF DictaNumbers, Path, DeleteRecording, recorderVars, dialogVars
  <2>3. DictaSets'
    BY <1>1 DEF DictaSets, NoFile, Recording, DeleteRecording, recorderVars, dialogVars
  <2> QED
    BY <1>1, <2>1, <2>2, <2>3 DEF DeleteRecording, recorderVars, dialogVars
<1>2. CASE OpenDictaphone
  <2>1. DictaFlags'
    BY <1>2 DEF DictaFlags, OpenDictaphone, recorderVars
  <2>2. DictaNumbers'
    BY <1>2 DEF DictaNumbers, Path, OpenDictaphone, recorderVars
  <2>3. DictaSets'
    BY <1>2 DEF DictaSets, OpenDictaphone, recorderVars
  <2> QED
    BY <1>2, <2>1, <2>2, <2>3 DEF OpenDictaphone, recorderVars
<1>3. CASE CloseDictaphone
  <2>1. DictaFlags'
    BY <1>3 DEF DictaFlags, CloseDictaphone, recorderVars
  <2>2. DictaNumbers'
    BY <1>3 DEF DictaNumbers, Path, CloseDictaphone, recorderVars
  <2>3. DictaSets'
    BY <1>3 DEF DictaSets, CloseDictaphone, recorderVars
  <2> QED
    BY <1>3, <2>1, <2>2, <2>3 DEF CloseDictaphone, AtDialog, recorderVars
<1>4. CASE Leave \/ SoundPanics
  <2>1. DictaFlags'
    BY <1>4 DEF DictaFlags, Leave, SoundPanics
  <2>2. DictaNumbers'
    BY <1>4 DEF DictaNumbers, Path, Leave, SoundPanics
  <2>3. DictaSets'
    BY <1>4 DEF DictaSets, Leave, SoundPanics
  <2> QED
    BY <1>4, <2>1, <2>2, <2>3 DEF Leave, SoundPanics
<1>5. ASSUME NEW s \in Song, ChangeSong(s) PROVE DictaphoneIInv'
  <2>1. DictaFlags'
    BY <1>5 DEF DictaFlags, ChangeSong, recorderVars
  <2>2. DictaNumbers'
    BY <1>5 DEF DictaNumbers, Path, ChangeSong, recorderVars
  <2>3. DictaSets'
    BY <1>5 DEF DictaSets, ChangeSong, recorderVars
  <2> QED
    BY <1>5, <2>1, <2>2, <2>3 DEF ChangeSong, recorderVars
<1>6. CASE UNCHANGED dictaVars
  <2>1. DictaFlags'
    BY <1>6 DEF DictaFlags, dictaVars, recorderVars, dialogVars
  <2>2. DictaNumbers'
    BY <1>6 DEF DictaNumbers, Path, dictaVars, recorderVars, dialogVars
  <2>3. DictaSets'
    BY <1>6 DEF DictaSets, dictaVars, recorderVars, dialogVars
  <2> QED
    BY <1>6, <2>1, <2>2, <2>3 DEF dictaVars, recorderVars, dialogVars
<1> QED
  BY <1>1, <1>2, <1>3, <1>4, <1>5, <1>6

\* So it is inductive.
THEOREM DictaphoneInvariance == DictaSpec => []DictaphoneIInv
<1>1. DictaphoneIInv /\ [DictaNext]_dictaVars => DictaphoneIInv'
  BY RecordingStep, PlayingStep, DialogStep DEF DictaNext
<1> QED
  BY <1>1, DictaInitInvariant, PTL DEF DictaSpec

\* The recorder never records while it plays, a dialog knows the take under way,
\* and playback stays inside its data (audio/recorder.go).
THEOREM DictaphoneStaysSound == DictaSpec => []DictaphoneIsSound
<1>1. DictaphoneIInv => DictaphoneIsSound
  BY DEF DictaphoneIInv, DictaphoneIsSound
<1> QED
  BY <1>1, DictaphoneInvariance, PTL

-----------------------------------------------------------------------------
(* Eye tracking *)

ProcessTypes ==
  process \in [Process -> {"none", "runs", "dead"}] /\ cmd \in 0..MaxProcesses
WatchTypes ==
  /\ viewers \in [ViewerId -> {"none", "open", "closed", "left"}]
  /\ watcher \in [ViewerId -> {"none", "waits", "starts", "stops", "done"}]
  /\ calib \in [Calibration ->
       {"none", "scanning", "camera", "progress", "left dot", "right dot", "closed"}]
  /\ listener \in [Calibration -> {"none", "on", "done"}]
  /\ starter \in [Calibration -> {"none", "starts", "shows"}]

\* Unless a reader ended late, a process that runs is the last one started, and
\* the flag is set.
OnlyLastRuns == ~late => \A p \in Process : process[p] = "runs" => p = cmd /\ isRunning

\* With nobody watching the last process does not run.
LastIsStopped == NobodyWatches /\ cmd # 0 => process[cmd] # "runs"

EyeIInv == ProcessTypes /\ WatchTypes /\ OnlyLastRuns /\ LastIsStopped

\* A process, viewer or calibration that is not used yet is one.
LEMMA FreeOne == ASSUME NEW of, SomeUnused(of) PROVE Unused(of) \in DOMAIN of
BY DEF SomeUnused, Unused

\* What the tracker's own methods keep, whoever calls them.
LEMMA TrackerMethods ==
  ASSUME ProcessTypes, OnlyLastRuns, Start \/ StartFails \/ Stop
  PROVE  ProcessTypes' /\ OnlyLastRuns'
<1> USE EyeAssumption DEF ProcessTypes, OnlyLastRuns, Process
<1>1. CASE Start
  <2>1. CASE isRunning
    BY <1>1, <2>1 DEF Start, trackerVars
  <2>2. CASE ~isRunning
    BY <1>1, <2>2, FreeOne DEF Start
  <2> QED
    BY <2>1, <2>2
<1>2. CASE StartFails
  BY <1>2 DEF StartFails
<1>3. CASE Stop
  BY <1>3 DEF Stop
<1> QED
  BY <1>1, <1>2, <1>3

\* Stop leaves the last process stopped.
LEMMA StopStops == ASSUME EyeIInv, Stop PROVE cmd' # 0 => process'[cmd'] # "runs"
BY DEF EyeIInv, ProcessTypes, Stop, Process

\* Of the viewers and calibrations, a step that lets somebody watch disturbs
\* nothing.
LEMMA SomebodyWatches ==
  ASSUME WatchTypes,
         \/ \E v \in ViewerId : watcher'[v] \in {"waits", "starts", "stops"}
         \/ \E c \in Calibration : calib'[c] \notin {"none", "closed"}
  PROVE  ~NobodyWatches'
BY DEF NobodyWatches

\* The three are inductive.
THEOREM EyeInvariance == EyeSpec => []EyeIInv
<1>1. EyeInit => EyeIInv
  <2> SUFFICES ASSUME EyeInit PROVE EyeIInv
    OBVIOUS
  <2>1. ProcessTypes
    BY EyeAssumption DEF EyeInit, ProcessTypes
  <2>2. WatchTypes
    BY DEF EyeInit, WatchTypes
  <2>3. OnlyLastRuns /\ LastIsStopped
    BY DEF EyeInit, OnlyLastRuns, LastIsStopped
  <2> QED
    BY <2>1, <2>2, <2>3 DEF EyeIInv
<1>2. EyeIInv /\ [EyeNext]_eyeVars => EyeIInv'
  <2> SUFFICES ASSUME EyeIInv, [EyeNext]_eyeVars PROVE EyeIInv'
    OBVIOUS
  <2> USE DEF EyeIInv
  <2>1. ASSUME NEW p \in Process, ProcessDies(p) PROVE EyeIInv'
    <3>1. /\ process' = [process EXCEPT ![p] = "dead"]
          /\ UNCHANGED <<cmd, isRunning, late, viewers, watcher, calib, listener, starter>>
      BY <2>1 DEF ProcessDies, calibVars
    <3>2. ProcessTypes' /\ \A q \in Process : process'[q] = "runs" => process[q] = "runs"
      BY <3>1 DEF ProcessTypes
    <3>3. WatchTypes' /\ OnlyLastRuns'
      BY <3>1, <3>2 DEF WatchTypes, OnlyLastRuns
    <3>4. LastIsStopped'
      BY <3>1, <3>2, EyeAssumption DEF ProcessTypes, LastIsStopped, NobodyWatches, Process
    <3> QED
      BY <3>2, <3>3, <3>4
  <2>2. ASSUME NEW p \in Process, OutputEnds(p) PROVE EyeIInv'
    BY <2>2 DEF OutputEnds, ProcessTypes, WatchTypes, OnlyLastRuns, LastIsStopped,
       NobodyWatches, calibVars
  <2>3. CASE OpenViewer
    <3>1. Unused(viewers) \in ViewerId
      BY <2>3, FreeOne DEF OpenViewer, WatchTypes
    <3>2. WatchTypes' /\ watcher'[Unused(viewers)] = "waits"
      BY <2>3, <3>1 DEF OpenViewer, WatchTypes, calibVars
    <3>3. ProcessTypes' /\ OnlyLastRuns'
      BY <2>3 DEF OpenViewer, trackerVars, ProcessTypes, OnlyLastRuns
    <3> QED
      BY <3>1, <3>2, <3>3, SomebodyWatches DEF LastIsStopped
  <2>4. CASE OpenCalibration
    <3>1. Unused(calib) \in Calibration
      BY <2>4, FreeOne DEF OpenCalibration, WatchTypes
    <3>2. WatchTypes' /\ calib'[Unused(calib)] = "scanning"
      BY <2>4, <3>1 DEF OpenCalibration, WatchTypes
    <3>3. ProcessTypes' /\ OnlyLastRuns'
      BY <2>4 DEF OpenCalibration, trackerVars, ProcessTypes, OnlyLastRuns
    <3> QED
      BY <3>1, <3>2, <3>3, SomebodyWatches DEF LastIsStopped
  <2>5. ASSUME NEW v \in ViewerId,
               WatcherTicks(v) \/ WatcherStarts(v) \/ WatcherStops(v)
        PROVE  EyeIInv'
    <3>1. WatchTypes' /\ watcher'[v] \in {"waits", "starts", "stops"}
      BY <2>5 DEF WatcherTicks, WatcherStarts, WatcherStops, WatchTypes, calibVars
    <3>2. ProcessTypes' /\ OnlyLastRuns'
      <4>1. CASE WatcherTicks(v)
        BY <4>1 DEF WatcherTicks, trackerVars, ProcessTypes, OnlyLastRuns
      <4>2. CASE Start \/ StartFails \/ Stop
        BY <4>2, TrackerMethods
      <4> QED
        BY <2>5, <4>1, <4>2 DEF WatcherStarts, WatcherStops
    <3> QED
      BY <3>1, <3>2, SomebodyWatches DEF LastIsStopped
  <2>6. ASSUME NEW v \in ViewerId, WatcherEnds(v) PROVE EyeIInv'
    <3>1. WatchTypes' /\ Stop
      BY <2>6 DEF WatcherEnds, WatchTypes, calibVars
    <3> QED
      BY <3>1, TrackerMethods, StopStops DEF LastIsStopped
  <2>7. ASSUME NEW v \in ViewerId, CloseViewer(v) \/ LeaveViewer(v) PROVE EyeIInv'
    <3>1. UNCHANGED <<trackerVars, watcher, calibVars>>
      BY <2>7 DEF CloseViewer, LeaveViewer
    <3>3. PICK s \in {"closed", "left"} : viewers' = [viewers EXCEPT ![v] = s]
      BY <2>7 DEF CloseViewer, LeaveViewer
    <3>2. viewers' \in [ViewerId -> {"none", "open", "closed", "left"}]
      BY <3>3 DEF WatchTypes
    <3> QED
      BY <3>1, <3>2 DEF trackerVars, calibVars, ProcessTypes, WatchTypes, OnlyLastRuns,
         LastIsStopped, NobodyWatches
  <2>8. ASSUME UNCHANGED <<trackerVars, viewers, watcher, calibVars>> PROVE EyeIInv'
    BY <2>8 DEF trackerVars, calibVars, ProcessTypes, WatchTypes, OnlyLastRuns, LastIsStopped,
       NobodyWatches
  <2>9. ASSUME NEW c \in Calibration,
               CamerasFound(c) \/ StartCalibration(c) \/ StarterShows(c) \/ NextDot(c)
        PROVE  EyeIInv'
    <3>1. WatchTypes' /\ calib'[c] \notin {"none", "closed"}
      BY <2>9 DEF CamerasFound, StartCalibration, StarterShows, NextDot, WatchTypes
    <3>2. UNCHANGED trackerVars
      BY <2>9 DEF CamerasFound, StartCalibration, StarterShows, NextDot
    <3>3. ProcessTypes' /\ OnlyLastRuns'
      BY <3>2 DEF trackerVars, ProcessTypes, OnlyLastRuns
    <3> QED
      BY <3>1, <3>3, SomebodyWatches DEF LastIsStopped
  <2>10. ASSUME NEW c \in Calibration, StarterStarts(c) PROVE EyeIInv'
    <3>1. WatchTypes' /\ calib'[c] \notin {"none", "closed"}
      BY <2>10 DEF StarterStarts, WatchTypes
    <3>2. Start \/ StartFails
      BY <2>10 DEF StarterStarts
    <3> QED
      BY <3>1, <3>2, TrackerMethods, SomebodyWatches DEF LastIsStopped
  <2>11. ASSUME NEW c \in Calibration, CloseCalibration(c) \/ ListenerEnds(c) PROVE EyeIInv'
    <3>1. WatchTypes' /\ Stop
      BY <2>11 DEF CloseCalibration, ListenerEnds, WatchTypes
    <3> QED
      BY <3>1, TrackerMethods, StopStops DEF LastIsStopped
  <2> HIDE DEF EyeIInv
  <2>12. CASE (\E on \in BOOLEAN : SetEyesOn(on)) \/ UNCHANGED eyeVars
    BY <2>8, <2>12 DEF SetEyesOn, eyeVars
  <2> QED
    BY <2>1, <2>2, <2>3, <2>4, <2>5, <2>6, <2>7, <2>9, <2>10, <2>11, <2>12 DEF EyeNext
<1> QED
  BY <1>1, <1>2, PTL DEF EyeSpec

\* When nobody watches any more the tracker has stopped, for any number of
\* viewers, calibrations and processes (Tracker.Stop).
THEOREM TrackerIsStopped == EyeSpec => []TrackerStops
<1>1. EyeIInv => TrackerStops
  BY DEF EyeIInv, OnlyLastRuns, LastIsStopped, TrackerStops
<1> QED
  BY <1>1, EyeInvariance, PTL

-----------------------------------------------------------------------------
(* Turning pages *)

InScore == currentPage \in 0..(Pages - 1)
AtRest == InScore /\ onScreen = currentPage

TurnStep == {"idle", "back", "on", "put back", "put on", "clamp", "render", "show"}
TurnTypes ==
  /\ currentPage \in Int /\ spread \in 1..MaxSpread
  /\ hand \in [Hand -> [at : TurnStep, page : Int]]
TurnFlags == viewing \in BOOLEAN /\ overlap \in BOOLEAN

\* What a handler that works alone may rely on, at each of its steps.
Midway(h) ==
  LET at == hand[h].at
      p  == hand[h].page
  IN /\ at \in {"back", "on"} => AtRest
     /\ at = "on" => currentPage + spread < Pages
     /\ at = "put back" => p < Pages
     /\ at = "put on" => p \in 0..(Pages - 1)
     /\ at = "clamp" => currentPage < Pages
     /\ at = "render" => InScore
     /\ at = "show" => InScore /\ p = currentPage

Alone(h) == \A g \in Hand \ {h} : ~Busy(g)

\* Two handlers at work owe nothing: the next step of either sets overlap.
TurnIInv ==
  /\ TurnTypes /\ TurnFlags
  /\ viewing /\ ~overlap => \A h \in Hand : Busy(h) /\ Alone(h) => Midway(h)
  /\ gaze # "turns" => ~Busy("gaze")
  /\ PageAtRest

\* The step a handler goes on to, and nothing else, is what To changes.
LEMMA ToStep ==
  ASSUME TurnTypes, NEW h \in Hand, NEW step \in TurnStep, NEW p \in Int, To(h, step, p)
  PROVE  /\ hand' \in [Hand -> [at : TurnStep, page : Int]]
         /\ hand'[h].at = step /\ hand'[h].page = p
         /\ \A g \in Hand \ {h} : hand'[g] = hand[g]
BY DEF TurnTypes, To

\* A handler takes its next step.
HandlerActs(h) == TurnLoads(h) \/ TurnStores(h) \/ TurnClamps(h) \/ Renders(h) \/ Shows(h)

\* What every step of a handler has in common.
LEMMA HandlerFrame ==
  ASSUME TurnIInv, NEW h \in Hand, HandlerActs(h)
  PROVE  /\ Busy(h)
         /\ Overlaps
         /\ UNCHANGED <<spread, viewing, gaze>>
BY DEF TurnIInv, HandlerActs, TurnLoads, TurnStores, TurnClamps, Renders, Shows, Busy, gazeVars

\* What the steps of a handler do, in one form.
HandlerMoves(h, step, p) ==
  /\ To(h, step, p)
  /\ currentPage' \in Int
  /\ \/ /\ step = "put back" /\ hand[h].at = "back" /\ p = currentPage - spread
     \/ /\ step = "put on" /\ hand[h].at = "on" /\ p = currentPage + spread
     \/ /\ step = "clamp" /\ hand[h].at = "put back" /\ currentPage' = hand[h].page
     \/ /\ step = "render" /\ hand[h].at = "put on" /\ currentPage' = hand[h].page
     \/ /\ step = "render" /\ hand[h].at = "clamp"
        /\ currentPage' = IF currentPage < 0 THEN 0 ELSE currentPage
     \/ /\ step = "show" /\ hand[h].at = "render" /\ currentPage' = currentPage
        /\ viewing /\ InScore => p = currentPage
     \/ /\ step = "idle" /\ hand[h].at = "show" /\ currentPage' = currentPage
        /\ onScreen' = hand[h].page

\* Every step of a handler has that form.
LEMMA StepForms ==
  ASSUME TurnTypes, NEW h \in Hand, HandlerActs(h)
  PROVE  \E step \in TurnStep, p \in Int : HandlerMoves(h, step, p)
<1> USE DEF HandlerMoves
<1>0. currentPage \in Int /\ hand[h].page \in Int /\ 0 \in Int /\ Failed \in Int
  BY PagesAssumption DEF TurnTypes, Failed
<1>1. CASE TurnLoads(h)
  <2>1. currentPage - spread \in Int /\ currentPage + spread \in Int
    BY DEF TurnTypes, MaxSpread
  <2>2. currentPage' = currentPage
    BY <1>1 DEF TurnLoads
  <2>3. CASE hand[h].at = "back" /\ To(h, "put back", currentPage - spread)
    BY <1>0, <2>1, <2>2, <2>3 DEF TurnStep
  <2>4. CASE hand[h].at = "on" /\ To(h, "put on", currentPage + spread)
    BY <1>0, <2>1, <2>2, <2>4 DEF TurnStep
  <2> QED
    BY <1>1, <2>3, <2>4 DEF TurnLoads
<1>2. CASE TurnStores(h)
  <2>1. currentPage' = hand[h].page
    BY <1>2 DEF TurnStores
  <2>2. CASE hand[h].at = "put back" /\ To(h, "clamp", 0)
    <3>1. HandlerMoves(h, "clamp", 0)
      BY <1>0, <2>1, <2>2
    <3> QED
      BY <1>0, <3>1 DEF TurnStep
  <2>3. CASE hand[h].at = "put on" /\ To(h, "render", 0)
    <3>1. HandlerMoves(h, "render", 0)
      BY <1>0, <2>1, <2>3
    <3> QED
      BY <1>0, <3>1 DEF TurnStep
  <2>4. CASE hand[h].at = "put back"
    BY <1>2, <2>2, <2>4 DEF TurnStores
  <2>5. CASE hand[h].at = "put on"
    BY <1>2, <2>3, <2>5 DEF TurnStores
  <2> QED
    BY <1>2, <2>4, <2>5 DEF TurnStores
<1>3. CASE TurnClamps(h)
  <2>1. /\ hand[h].at = "clamp" /\ To(h, "render", 0)
        /\ currentPage' = IF currentPage < 0 THEN 0 ELSE currentPage
    BY <1>3 DEF TurnClamps
  <2>2. HandlerMoves(h, "render", 0)
    BY <1>0, <2>1
  <2> QED
    BY <1>0, <2>2 DEF TurnStep
<1>4. CASE Renders(h)
  <2>1. hand[h].at = "render" /\ currentPage' = currentPage
    BY <1>4 DEF Renders
  <2>2. PICK p \in {currentPage, Failed} :
          To(h, "show", p) /\ (viewing /\ InScore => p = currentPage)
    BY <1>4 DEF Renders, InScore
  <2>3. HandlerMoves(h, "show", p)
    BY <1>0, <2>1, <2>2
  <2> QED
    BY <1>0, <2>3 DEF TurnStep
<1>5. CASE Shows(h)
  <2>1. /\ hand[h].at = "show" /\ To(h, "idle", 0) /\ currentPage' = currentPage
        /\ onScreen' = hand[h].page
    BY <1>5 DEF Shows
  <2>2. HandlerMoves(h, "idle", 0)
    BY <1>0, <2>1
  <2> QED
    BY <1>0, <2>2 DEF TurnStep
<1> QED
  BY <1>1, <1>2, <1>3, <1>4, <1>5 DEF HandlerActs

\* A handler that works alone takes the page from rest to rest.
LEMMA MidwayStep ==
  ASSUME TurnTypes, UNCHANGED <<spread, viewing>>, viewing,
         NEW h \in Hand, Midway(h), NEW step \in TurnStep, NEW p \in Int, HandlerMoves(h, step, p)
  PROVE  IF Busy(h)' THEN Midway(h)' ELSE AtRest'
<1>1. hand'[h].at = step /\ hand'[h].page = p
  BY ToStep DEF HandlerMoves
<1>2. currentPage \in Int /\ spread \in 1..2 /\ Pages \in Nat \ {0}
  BY PagesAssumption DEF TurnTypes, MaxSpread
<1>3. CASE step = "put back"
  <2>1. p < Pages
    <3>1. hand[h].at = "back" /\ p = currentPage - spread
      BY <1>3 DEF HandlerMoves
    <3>2. InScore
      BY <3>1 DEF Midway, AtRest
    <3> QED
      BY <1>2, <3>1, <3>2 DEF InScore
  <2> QED
    BY <1>1, <1>3, <2>1 DEF Midway, Busy
<1>4. CASE step = "put on"
  <2>1. p \in 0..(Pages - 1)
    <3>1. hand[h].at = "on" /\ p = currentPage + spread
      BY <1>4 DEF HandlerMoves
    <3>2. InScore /\ currentPage + spread < Pages
      BY <3>1 DEF Midway, AtRest
    <3> QED
      BY <1>2, <3>1, <3>2 DEF InScore
  <2> QED
    BY <1>1, <1>4, <2>1 DEF Midway, Busy
<1>5. CASE step = "clamp"
  <2>1. currentPage' < Pages
    BY <1>2, <1>5 DEF HandlerMoves, Midway
  <2> QED
    BY <1>1, <1>5, <2>1 DEF Midway, Busy
<1>6. CASE step = "render"
  <2>1. \/ hand[h].at = "put on" /\ currentPage' = hand[h].page
        \/ hand[h].at = "clamp" /\ currentPage' = IF currentPage < 0 THEN 0 ELSE currentPage
    BY <1>6 DEF HandlerMoves
  <2>2. InScore'
    <3>1. CASE hand[h].at = "put on"
      BY <2>1, <3>1 DEF Midway, InScore
    <3>2. CASE hand[h].at = "clamp"
      <4>1. currentPage < Pages /\ currentPage' = IF currentPage < 0 THEN 0 ELSE currentPage
        BY <2>1, <3>2 DEF Midway
      <4> QED
        BY <1>2, <4>1 DEF InScore
    <3> QED
      BY <2>1, <3>1, <3>2
  <2> QED
    BY <1>1, <1>6, <2>2 DEF Midway, Busy
<1>7. CASE step = "show"
  <2>1. InScore' /\ p = currentPage'
    BY <1>7 DEF HandlerMoves, Midway, InScore
  <2> QED
    BY <1>1, <1>7, <2>1 DEF Midway, Busy
<1>8. CASE step = "idle"
  <2>1. AtRest'
    BY <1>8 DEF HandlerMoves, Midway, InScore, AtRest
  <2> QED
    BY <1>1, <1>8, <2>1 DEF Busy
<1> QED
  BY <1>3, <1>4, <1>5, <1>6, <1>7, <1>8 DEF HandlerMoves

\* So a step of a handler keeps the invariant, alone or not.
LEMMA HandlerStep ==
  ASSUME TurnIInv, NEW h \in Hand, HandlerActs(h)
  PROVE  TurnIInv'
<1>1. TurnTypes /\ TurnFlags
  BY DEF TurnIInv
<1>2. PICK step \in TurnStep, p \in Int : HandlerMoves(h, step, p)
  BY <1>1, StepForms
<1>3. /\ Busy(h) /\ UNCHANGED <<spread, viewing, gaze>>
      /\ overlap' = (overlap \/ \A g \in Hand : Busy(g))
  BY HandlerFrame DEF Overlaps
<1>4. /\ \A g \in Hand \ {h} : hand'[g] = hand[g]
      /\ TurnTypes'
  BY <1>1, <1>2, <1>3, ToStep DEF HandlerMoves, TurnTypes
<1>5. TurnFlags'
  BY <1>1, <1>3 DEF TurnFlags
<1>6. Alone(h)' = Alone(h) /\ \A g \in Hand \ {h} : Busy(g)' = Busy(g)
  BY <1>4 DEF Alone, Busy
<1>7. ASSUME viewing, ~overlap'
      PROVE  Alone(h) /\ (IF Busy(h)' THEN Midway(h)' ELSE AtRest')
  <2>1. Alone(h)
    <3>1. ~\A g \in Hand : Busy(g)
      BY <1>3, <1>7
    <3> QED
      BY <1>3, <3>1 DEF Alone, Hand
  <2>2. Midway(h)
    BY <1>3, <1>7, <2>1 DEF TurnIInv
  <2> QED
    BY <1>1, <1>2, <1>3, <1>7, <2>1, <2>2, MidwayStep DEF Hand
<1>8. gaze' # "turns" => ~Busy("gaze")'
  BY <1>3, <1>6 DEF TurnIInv, Hand
<1>9. ASSUME viewing', ~overlap' PROVE \A g \in Hand : Busy(g)' /\ Alone(g)' => Midway(g)'
  <2>1. \A g \in Hand \ {h} : Busy(g)' => FALSE
    BY <1>3, <1>6, <1>7, <1>9 DEF Alone
  <2> QED
    BY <1>3, <1>7, <1>9, <2>1
<1>10. PageAtRest'
  BY <1>3, <1>7 DEF PageAtRest, AtRest, InScore
<1> QED
  BY <1>4, <1>5, <1>8, <1>9, <1>10 DEF TurnIInv

\* A handler begins, at the button or by gaze.
LEMMA HandlerBegins ==
  ASSUME TurnIInv, NEW h \in Hand, ~Busy(h), PrevTapped(h) \/ NextTapped(h), UNCHANGED pageVars,
         UNCHANGED viewing, gaze' # "turns" => gaze # "turns" /\ h # "gaze"
  PROVE  TurnIInv'
<1>1. PICK step \in TurnStep :
        /\ To(h, step, 0)
        /\ step \in {"idle", "back", "on"}
        /\ step = "on" => currentPage + spread < Pages
  <2>1. CASE PrevTapped(h)
    BY <2>1 DEF PrevTapped, TurnStep
  <2>2. CASE NextTapped(h)
    BY <2>2 DEF NextTapped, TurnStep
  <2> QED
    BY <2>1, <2>2
<1>2. /\ hand'[h].at = step
      /\ \A g \in Hand \ {h} : hand'[g] = hand[g]
      /\ TurnTypes'
  BY <1>1, ToStep DEF TurnIInv, TurnTypes, pageVars
<1>3. UNCHANGED <<currentPage, spread, onScreen, overlap, viewing>> /\ TurnFlags'
  BY DEF TurnIInv, TurnFlags, pageVars
<1>4. ASSUME viewing, ~overlap, NEW g \in Hand, Busy(g)', Alone(g)' PROVE Midway(g)'
  <2>1. CASE g = h
    <3>1. AtRest
      BY <1>2, <1>4, <2>1 DEF TurnIInv, PageAtRest, AtRest, InScore, Alone, Busy
    <3> QED
      BY <1>1, <1>2, <1>3, <2>1, <3>1 DEF Midway, AtRest, InScore
  <2>2. CASE g # h
    <3>1. Busy(g) /\ Alone(g)
      BY <1>2, <1>4, <2>2 DEF Busy, Alone
    <3>2. Midway(g)
      BY <1>4, <3>1 DEF TurnIInv
    <3> QED
      BY <1>2, <1>3, <2>2, <3>2 DEF Midway, AtRest, InScore
  <2> QED
    BY <2>1, <2>2
<1>5. PageAtRest'
  BY <1>2, <1>3 DEF TurnIInv, PageAtRest, Busy
<1>6. gaze' # "turns" => ~Busy("gaze")'
  BY <1>2 DEF TurnIInv, Busy, Hand
<1> QED
  BY <1>2, <1>3, <1>4, <1>5, <1>6 DEF TurnIInv

\* It is inductive.
THEOREM TurnInvariance == TurnSpec => []TurnIInv
<1>1. TurnInit => TurnIInv
  <2> SUFFICES ASSUME TurnInit PROVE TurnIInv
    OBVIOUS
  <2>1. currentPage = 0 /\ onScreen = 0 /\ spread = 1 /\ hand = [h \in Hand |-> Idle]
    BY DEF TurnInit
  <2>2. \A h \in Hand : ~Busy(h)
    BY <2>1 DEF Busy, Idle
  <2>3. 0 \in 0..(Pages - 1) /\ "gaze" \in Hand
    BY PagesAssumption DEF Hand
  <2>5. TurnTypes
    <3>1. Idle \in [at : TurnStep, page : Int]
      BY DEF Idle, TurnStep
    <3> QED
      BY <2>1, <3>1 DEF TurnTypes, MaxSpread
  <2>4. TurnFlags
    BY DEF TurnInit, TurnFlags
  <2> QED
    BY <2>1, <2>2, <2>3, <2>4, <2>5 DEF TurnIInv, PageAtRest
<1>2. TurnIInv /\ [TurnNext]_turnVars => TurnIInv'
  <2> SUFFICES ASSUME TurnIInv, [TurnNext]_turnVars PROVE TurnIInv'
    OBVIOUS
  <2>0. {"tap", "gaze"} = Hand
    BY DEF Hand
  <2>1. ASSUME NEW n \in 1..MaxSpread, Resize(n) PROVE TurnIInv'
    <3>1. To("tap", "render", 0) /\ currentPage' = currentPage /\ spread' = n
      BY <2>1 DEF Resize
    <3>2. viewing /\ viewing' /\ overlap' = (overlap \/ Busy("gaze")) /\ ~Busy("tap")
          /\ gaze' = gaze
      BY <2>1 DEF Resize, AtViewer, gazeVars
    <3>3. /\ hand'["tap"].at = "render" /\ hand'["gaze"] = hand["gaze"]
          /\ TurnTypes'
      <4>1. "render" \in TurnStep /\ 0 \in Int /\ TurnTypes
        BY DEF TurnStep, TurnIInv
      <4> QED
        BY <3>1, <4>1, <2>0, ToStep DEF TurnTypes
    <3>4. ~overlap' => InScore'
      BY <3>1, <3>2, <2>0 DEF TurnIInv, PageAtRest, InScore
    <3>5. Busy("gaze")' = Busy("gaze") /\ Busy("tap")'
      BY <3>3 DEF Busy
    <3>6. ASSUME ~overlap' PROVE \A h \in Hand : Busy(h)' /\ Alone(h)' => Midway(h)'
      <4>1. Midway("tap")'
        BY <3>3, <3>4, <3>6 DEF Midway
      <4> QED
        BY <2>0, <3>2, <3>5, <3>6, <4>1
    <3>7. PageAtRest'
      BY <3>5, <2>0 DEF PageAtRest
    <3>8. TurnFlags'
      BY <3>2 DEF TurnFlags, TurnIInv
    <3> QED
      BY <3>2, <3>3, <3>5, <3>6, <3>7, <3>8 DEF TurnIInv
  <2>2. ASSUME UNCHANGED <<pageVars, hand>>, viewing' \in {viewing, FALSE},
               gaze' = gaze \/ ~Busy("gaze")
        PROVE  TurnIInv'
    <3>1. /\ TurnTypes' /\ TurnFlags'
          /\ \A h \in Hand : Busy(h)' = Busy(h) /\ Alone(h)' = Alone(h)
      BY <2>2 DEF TurnIInv, pageVars, TurnTypes, TurnFlags, Busy, Alone
    <3>2. \A h \in Hand : Midway(h) => Midway(h)'
      BY <2>2 DEF Midway, AtRest, InScore, pageVars
    <3>3. viewing' => viewing
      BY <2>2 DEF TurnIInv, TurnFlags
    <3> QED
      BY <2>0, <2>2, <3>1, <3>2, <3>3 DEF TurnIInv, PageAtRest, pageVars
  <2>3. CASE Tap
    BY <2>0, <2>3, HandlerBegins DEF Tap, AtViewer, gazeVars
  <2>4. ASSUME NEW t \in {"", "PREV", "NEXT"}, GazePoint(t) PROVE TurnIInv'
    <3>1. gaze = "listens" /\ ~Busy("gaze") /\ UNCHANGED <<pageVars, viewing>>
      BY <2>4 DEF GazePoint, TurnIInv
    <3>2. CASE UNCHANGED hand
      BY <2>2, <3>1, <3>2
    <3>3. CASE gaze' = "turns" /\ (PrevTapped("gaze") \/ NextTapped("gaze"))
      BY <2>0, <3>1, <3>3, HandlerBegins
    <3> QED
      BY <2>4, <3>2, <3>3 DEF GazePoint
  <2>5. CASE Exit \/ GazeSleeps \/ GazeWakes \/ GazeStops
    BY <2>2, <2>5 DEF Exit, GazeSleeps, GazeWakes, GazeStops, gazeVars, TurnIInv
  <2>6. CASE UNCHANGED turnVars \/ \E on \in BOOLEAN : SetEnabled(on)
    BY <2>2, <2>6 DEF turnVars, SetEnabled, gazeVars
  <2> QED
    BY <2>1, <2>3, <2>4, <2>5, <2>6, HandlerStep DEF TurnNext, HandlerActs
<1> QED
  BY <1>1, <1>2, PTL DEF TurnSpec

\* As long as turns do not overlap, a page at rest is a page of the score and
\* the one shown, for a score of any length (prevBtn, nextBtn).
THEOREM PageRests == TurnSpec => []PageAtRest
BY TurnInvariance, PTL DEF TurnIInv

-----------------------------------------------------------------------------
(* The metronome *)

\* The types, by kinds.
MetronomeFlags ==
  /\ stand \in {"off", "concert", "practice", "crashed"} /\ sound \in {"none", "own", "leader"}
  /\ device \in BOOLEAN /\ beating \in BOOLEAN /\ isAccent \in BOOLEAN /\ leads \in BOOLEAN
MetronomeNumbers ==
  /\ beatsPerMeasure \in 1..MaxMeasure
  /\ elapsed \in 0..MaxElapsed /\ nextBeat \in 0..(MaxElapsed + 1)
MetronomeSets ==
  /\ metroDialog \subseteq MetroDialog /\ Cardinality(metroDialog) <= 1
  /\ beatFlights \subseteq Flight /\ Cardinality(beatFlights) <= MaxFlying
  /\ IsFiniteSet(beatFlights)

\* A metronome without a device never plays.
MetronomeIInv ==
  /\ MetronomeFlags /\ MetronomeNumbers /\ MetronomeSets
  /\ OneTapStops

\* The measure a metronome starts with.
LEMMA FourBeatsAreBeats == FourBeats \in 1..MaxMeasure
BY MetronomeAssumption DEF FourBeats

\* There is one dialog at most, ...
LEMMA OneIsFew == ASSUME NEW d PROVE Cardinality({d}) <= 1
BY FS_Singleton

\* ... or none, and no goroutine in flight.
LEMMA NoneIsFew == Cardinality({}) = 0 /\ IsFiniteSet({})
BY FS_EmptySet

\* A goroutine joins the others as long as there is room.
LEMMA FlightJoins ==
  ASSUME MetronomeSets, NEW f,
         Cardinality(beatFlights) < MaxFlying
  PROVE  /\ IsFiniteSet(beatFlights \cup {f})
         /\ Cardinality(beatFlights \cup {f}) <= MaxFlying
<1>1. Cardinality(beatFlights) \in Nat
  BY FS_CardinalityType DEF MetronomeSets
<1>2. /\ IsFiniteSet(beatFlights \cup {f})
      /\ \/ Cardinality(beatFlights \cup {f}) = Cardinality(beatFlights)
         \/ Cardinality(beatFlights \cup {f}) = Cardinality(beatFlights) + 1
  BY FS_AddElement DEF MetronomeSets
<1> QED
  BY <1>1, <1>2, MetronomeAssumption

\* One that goes on, or ends, makes no more of them.
LEMMA FlightMoves ==
  ASSUME MetronomeSets, NEW f \in beatFlights, NEW g
  PROVE  /\ IsFiniteSet(beatFlights \ {f})
         /\ Cardinality(beatFlights \ {f}) <= MaxFlying
         /\ IsFiniteSet((beatFlights \ {f}) \cup {g})
         /\ Cardinality((beatFlights \ {f}) \cup {g}) <= MaxFlying
<1>1. /\ IsFiniteSet(beatFlights \ {f})
      /\ Cardinality(beatFlights \ {f}) = Cardinality(beatFlights) - 1
      /\ Cardinality(beatFlights) \in Nat
  BY FS_RemoveElement, FS_CardinalityType DEF MetronomeSets
<1>2. /\ IsFiniteSet((beatFlights \ {f}) \cup {g})
      /\ \/ Cardinality((beatFlights \ {f}) \cup {g}) = Cardinality(beatFlights \ {f})
         \/ Cardinality((beatFlights \ {f}) \cup {g}) = Cardinality(beatFlights \ {f}) + 1
  BY <1>1, FS_AddElement
<1> QED
  BY <1>1, <1>2, MetronomeAssumption DEF MetronomeSets

\* It is inductive.
THEOREM MetronomeInvariance == MetronomeSpec => []MetronomeIInv
<1>1. MetronomeInit => MetronomeIInv
  <2> SUFFICES ASSUME MetronomeInit PROVE MetronomeIInv
    OBVIOUS
  <2>1. MetronomeFlags
    BY DEF MetronomeInit, MetronomeFlags
  <2>2. MetronomeNumbers
    BY MetronomeAssumption, FourBeatsAreBeats DEF MetronomeInit, MetronomeNumbers
  <2>3. MetronomeSets
    BY MetronomeAssumption, NoneIsFew DEF MetronomeInit, MetronomeSets
  <2> QED
    BY <2>1, <2>2, <2>3 DEF MetronomeInit, MetronomeIInv, OneTapStops
<1>2. MetronomeIInv /\ [MetronomeNext]_metronomeVars => MetronomeIInv'
  <2> SUFFICES ASSUME MetronomeIInv, [MetronomeNext]_metronomeVars PROVE MetronomeIInv'
    OBVIOUS
  <2> USE MetronomeAssumption DEF MetronomeIInv
  <2>1. CASE OpenStand
    <3>1. MetronomeFlags'
      BY <2>1 DEF OpenStand, Fresh, Silent, MetronomeFlags
    <3>2. MetronomeNumbers'
      BY <2>1, FourBeatsAreBeats DEF OpenStand, Fresh, Silent, MetronomeNumbers
    <3>3. MetronomeSets'
      BY <2>1 DEF OpenStand, Fresh, Silent, MetronomeSets
    <3>4. OneTapStops'
      BY <2>1 DEF OpenStand, Fresh, Silent, OneTapStops, MetronomeSets, MetroDialog,
         MetronomeFlags
    <3> QED
      BY <3>1, <3>2, <3>3, <3>4
  <2>2. CASE ExitStand
    <3>1. MetronomeFlags'
      BY <2>2 DEF ExitStand, Fresh, Silent, MetronomeFlags
    <3>2. MetronomeNumbers'
      BY <2>2, FourBeatsAreBeats DEF ExitStand, Fresh, Silent, MetronomeNumbers
    <3>3. MetronomeSets'
      BY <2>2, NoneIsFew DEF ExitStand, Fresh, Silent, MetronomeSets
    <3>4. OneTapStops'
      BY <2>2 DEF ExitStand, Fresh, Silent, OneTapStops, MetronomeSets, MetroDialog,
         MetronomeFlags
    <3> QED
      BY <3>1, <3>2, <3>3, <3>4
  <2>3. CASE BeatPasses
    <3>1. MetronomeFlags'
      BY <2>3 DEF BeatPasses, MetronomeFlags
    <3>2. MetronomeNumbers'
      BY <2>3 DEF BeatPasses, MetronomeNumbers
    <3>3. MetronomeSets'
      BY <2>3 DEF BeatPasses, MetronomeSets
    <3>4. OneTapStops'
      BY <2>3 DEF BeatPasses, OneTapStops, MetronomeSets, MetroDialog, MetronomeFlags
    <3> QED
      BY <3>1, <3>2, <3>3, <3>4
  <2>4. CASE SendBeat
    <3> DEFINE accent == beatsPerMeasure > 1 /\ elapsed % beatsPerMeasure = 0
               flight == [of |-> "own", accent |-> accent, at |-> "new"]
    <3>1. accent \in BOOLEAN
      OBVIOUS
    <3> HIDE DEF accent
    <3>2. flight \in Flight
      BY <3>1 DEF Flight
    <3> HIDE DEF flight
    <3>3. /\ beatFlights' = beatFlights \cup {flight}
          /\ isAccent' = accent /\ sound' = "own" /\ beating /\ nextBeat' = elapsed + 1
          /\ Cardinality(beatFlights) < MaxFlying
          /\ UNCHANGED <<stand, device, beating, beatsPerMeasure, elapsed, metroDialog, leads>>
      BY <2>4 DEF SendBeat, flight, accent
    <3>4. MetronomeFlags'
      BY <3>1, <3>3 DEF MetronomeFlags
    <3>5. MetronomeNumbers'
      BY <3>3 DEF MetronomeNumbers
    <3>6. MetronomeSets'
      BY <3>2, <3>3, FlightJoins DEF MetronomeSets
    <3>7. OneTapStops'
      BY <3>3 DEF OneTapStops
    <3> QED
      BY <3>4, <3>5, <3>6, <3>7
  <2>5. CASE SoundEnds
    <3>1. MetronomeFlags'
      BY <2>5 DEF SoundEnds, MetronomeFlags
    <3>2. MetronomeNumbers'
      BY <2>5 DEF SoundEnds, MetronomeNumbers
    <3>3. MetronomeSets'
      BY <2>5 DEF SoundEnds, MetronomeSets
    <3>4. OneTapStops'
      BY <2>5 DEF SoundEnds, OneTapStops, MetronomeSets, MetroDialog, MetronomeFlags
    <3> QED
      BY <3>1, <3>2, <3>3, <3>4
  <2>6. CASE OpenMetronome
    <3>1. MetronomeFlags'
      BY <2>6 DEF OpenMetronome, audioVars, MetronomeFlags
    <3>2. MetronomeNumbers'
      BY <2>6 DEF OpenMetronome, audioVars, MetronomeNumbers
    <3>3. MetronomeSets'
      <4> DEFINE shown == [playing |-> beating, beats |-> beatsPerMeasure]
      <4>1. shown \in MetroDialog
        BY DEF MetroDialog, MetronomeFlags, MetronomeNumbers
      <4> HIDE DEF shown
      <4>2. metroDialog' = {shown} /\ beatFlights' = beatFlights
        BY <2>6 DEF OpenMetronome, shown
      <4> QED
        BY <4>1, <4>2, OneIsFew DEF MetronomeSets
    <3>4. OneTapStops'
      BY <2>6 DEF OpenMetronome, audioVars, MetroDialog, OneTapStops, MetronomeSets,
         MetronomeFlags
    <3> QED
      BY <3>1, <3>2, <3>3, <3>4
  <2>7. CASE ToggleMetronome
    <3>1. MetronomeFlags'
      BY <2>7 DEF ToggleMetronome, MetronomeFlags
    <3>2. MetronomeNumbers'
      BY <2>7 DEF ToggleMetronome, MetronomeNumbers
    <3>3. MetronomeSets'
      BY <2>7, OneIsFew DEF ToggleMetronome, MetroDialog, MetronomeSets
    <3>4. OneTapStops'
      BY <2>7 DEF ToggleMetronome, MetroDialog, OneTapStops, MetronomeSets, MetronomeFlags
    <3> QED
      BY <3>1, <3>2, <3>3, <3>4
  <2>8. CASE MeasureTapped
    <3>1. PICK d \in metroDialog :
            LET beats == (d.beats % MaxMeasure) + 1 IN
            /\ metroDialog' = {[d EXCEPT !.beats = beats]}
            /\ beatsPerMeasure' = IF device THEN beats ELSE beatsPerMeasure
            /\ UNCHANGED <<stand, device, beating, elapsed, nextBeat, sound, isAccent,
                           leads, beatFlights>>
      BY <2>8 DEF MeasureTapped
    <3>2. d \in MetroDialog /\ (d.beats % MaxMeasure) + 1 \in 1..MaxMeasure
      BY DEF MetronomeSets, MetroDialog
    <3>3. MetronomeFlags'
      BY <3>1 DEF MetronomeFlags
    <3>4. MetronomeNumbers'
      BY <3>1, <3>2 DEF MetronomeNumbers
    <3>5. MetronomeSets'
      BY <3>1, <3>2, OneIsFew DEF MetronomeSets, MetroDialog
    <3>6. OneTapStops'
      BY <3>1, <3>2 DEF OneTapStops, MetroDialog
    <3> QED
      BY <3>3, <3>4, <3>5, <3>6
  <2>9. CASE TempoChanges
    <3>1. MetronomeFlags'
      BY <2>9 DEF TempoChanges, MetronomeFlags
    <3>2. MetronomeNumbers'
      BY <2>9 DEF TempoChanges, MetronomeNumbers
    <3>3. MetronomeSets'
      BY <2>9 DEF TempoChanges, MetronomeSets
    <3>4. OneTapStops'
      BY <2>9 DEF TempoChanges, OneTapStops, MetronomeSets, MetroDialog, MetronomeFlags
    <3> QED
      BY <3>1, <3>2, <3>3, <3>4
  <2>10. CASE CloseMetronome
    <3>1. MetronomeFlags'
      BY <2>10 DEF CloseMetronome, audioVars, MetronomeFlags
    <3>2. MetronomeNumbers'
      BY <2>10 DEF CloseMetronome, audioVars, MetronomeNumbers
    <3>3. MetronomeSets'
      BY <2>10, NoneIsFew DEF CloseMetronome, audioVars, MetronomeSets
    <3>4. OneTapStops'
      BY <2>10 DEF CloseMetronome, audioVars, OneTapStops, MetronomeSets, MetroDialog,
         MetronomeFlags
    <3> QED
      BY <3>1, <3>2, <3>3, <3>4
  <2>11. CASE LoadSong
    <3>1. MetronomeFlags'
      BY <2>11 DEF LoadSong, Silent, MetronomeFlags
    <3>2. MetronomeNumbers'
      BY <2>11 DEF LoadSong, Silent, MetronomeNumbers
    <3>3. MetronomeSets'
      BY <2>11 DEF LoadSong, Silent, MetronomeSets
    <3>4. OneTapStops'
      BY <2>11 DEF LoadSong, Silent, OneTapStops, MetronomeSets, MetroDialog, MetronomeFlags
    <3> QED
      BY <3>1, <3>2, <3>3, <3>4
  <2>12. CASE LeadChanges
    <3>1. MetronomeFlags'
      BY <2>12 DEF LeadChanges, audioVars, MetronomeFlags
    <3>2. MetronomeNumbers'
      BY <2>12 DEF LeadChanges, audioVars, MetronomeNumbers
    <3>3. MetronomeSets'
      BY <2>12 DEF LeadChanges, audioVars, MetronomeSets
    <3>4. OneTapStops'
      BY <2>12 DEF LeadChanges, audioVars, OneTapStops, MetronomeSets, MetroDialog, MetronomeFlags
    <3> QED
      BY <3>1, <3>2, <3>3, <3>4
  <2>13. ASSUME NEW accent \in BOOLEAN, TickArrives(accent) PROVE MetronomeIInv'
    <3>1. MetronomeFlags'
      BY <2>13 DEF TickArrives, audioVars, MetronomeFlags
    <3>2. MetronomeNumbers'
      BY <2>13 DEF TickArrives, audioVars, MetronomeNumbers
    <3>3. MetronomeSets'
      <4> DEFINE tick == [of |-> "leader", accent |-> accent, at |-> "new"]
      <4>1. tick \in Flight
        BY DEF Flight
      <4> HIDE DEF tick
      <4>2. /\ beatFlights' = beatFlights \cup {tick} /\ Cardinality(beatFlights) < MaxFlying
            /\ metroDialog' = metroDialog
        BY <2>13 DEF TickArrives, tick
      <4> QED
        BY <4>1, <4>2, FlightJoins DEF MetronomeSets
    <3>4. OneTapStops'
      BY <2>13 DEF TickArrives, audioVars, Flight, OneTapStops, MetronomeSets, MetroDialog,
         MetronomeFlags
    <3> QED
      BY <3>1, <3>2, <3>3, <3>4
  <2>14. ASSUME NEW f \in beatFlights, CallsNil(f) PROVE MetronomeIInv'
    <3>1. MetronomeFlags'
      BY <2>14 DEF CallsNil, Fresh, Silent, MetronomeFlags
    <3>2. MetronomeNumbers'
      BY <2>14, FourBeatsAreBeats DEF CallsNil, Fresh, Silent, MetronomeNumbers
    <3>3. MetronomeSets'
      BY <2>14, NoneIsFew DEF CallsNil, Fresh, Silent, MetronomeSets
    <3>4. OneTapStops'
      BY <2>14 DEF CallsNil, Fresh, Silent, OneTapStops, MetronomeSets, MetroDialog,
         MetronomeFlags
    <3> QED
      BY <3>1, <3>2, <3>3, <3>4
  <2>15. ASSUME NEW f \in beatFlights, PlayTick(f) PROVE MetronomeIInv'
    <3>1. MetronomeFlags'
      BY <2>15 DEF PlayTick, MetronomeFlags, MetronomeSets, Flight
    <3>2. MetronomeNumbers'
      BY <2>15 DEF PlayTick, MetronomeNumbers
    <3>3. MetronomeSets'
      BY <2>15, FlightMoves DEF PlayTick, Flight, MetronomeSets
    <3>4. OneTapStops'
      BY <2>15 DEF PlayTick, Flight, OneTapStops, MetronomeSets, MetroDialog, MetronomeFlags
    <3> QED
      BY <3>1, <3>2, <3>3, <3>4
  <2>16. CASE UNCHANGED metronomeVars
    <3>1. MetronomeFlags'
      BY <2>16 DEF metronomeVars, audioVars, MetronomeFlags
    <3>2. MetronomeNumbers'
      BY <2>16 DEF metronomeVars, audioVars, MetronomeNumbers
    <3>3. MetronomeSets'
      BY <2>16 DEF metronomeVars, audioVars, MetronomeSets
    <3>4. OneTapStops'
      BY <2>16 DEF metronomeVars, audioVars, OneTapStops, MetronomeSets, MetroDialog,
         MetronomeFlags
    <3> QED
      BY <3>1, <3>2, <3>3, <3>4
  <2>17. ASSUME NEW f \in beatFlights, NEW at \in {"checked", "called", "quiet"},
                \/ beatFlights' = beatFlights \ {f}
                \/ Moves(f, at),
                UNCHANGED <<stand, audioVars, metroDialog, leads>>
         PROVE  MetronomeIInv'
    <3>1. f \in Flight /\ [f EXCEPT !.at = at] \in Flight
      BY DEF Flight, MetronomeSets
    <3>2. MetronomeFlags'
      BY <2>17 DEF audioVars, MetronomeFlags
    <3>3. MetronomeNumbers'
      BY <2>17 DEF audioVars, MetronomeNumbers
    <3>4. MetronomeSets'
      BY <2>17, <3>1, FlightMoves DEF Moves, MetronomeSets
    <3>5. OneTapStops'
      BY <2>17 DEF OneTapStops, audioVars
    <3> QED
      BY <3>2, <3>3, <3>4, <3>5
  <2> HIDE DEF MetronomeIInv
  <2>18. ASSUME NEW f \in beatFlights,
                ChecksCallback(f) \/ CallsCallback(f) \/ BeatDone(f) \/ ChecksPlaying(f)
         PROVE  MetronomeIInv'
    BY <2>17, <2>18 DEF ChecksCallback, CallsCallback, BeatDone, ChecksPlaying
  <2> QED
    BY <2>1, <2>2, <2>3, <2>4, <2>5, <2>6, <2>7, <2>8, <2>9, <2>10, <2>11, <2>12, <2>13,
       <2>14, <2>15, <2>16, <2>18 DEF MetronomeNext
<1> QED
  BY <1>1, <1>2, PTL DEF MetronomeSpec

\* Every variable of the metronome keeps its type.
THEOREM MetronomeTypeCorrect == MetronomeSpec => []MetronomeTypeOK
<1>1. MetronomeIInv => MetronomeTypeOK
  BY DEF MetronomeIInv, MetronomeFlags, MetronomeNumbers, MetronomeSets, MetronomeTypeOK
<1> QED
  BY <1>1, MetronomeInvariance, PTL

\* One tap stops a metronome that plays, whatever dialogs and goroutines are
\* around, and once stopped it is silent (audio/metronome.go).
THEOREM TapStops == MetronomeSpec => []OneTapStops
<1>1. MetronomeIInv => OneTapStops
  BY DEF MetronomeIInv
<1> QED
  BY <1>1, MetronomeInvariance, PTL

-----------------------------------------------------------------------------
(* The registry of profiles *)

\* The PIN of a profile: none, or one.
OnePin == {{}} \cup {{p} : p \in AnyPin}

\* A save holds what the file will then be told to hold; it never drops a
\* profile, and while it is under way nobody can read the file.
SaveIsFull ==
  \/ saving = {}
  \/ \E w \in [by : {"start", "create", "update"}, profiles : Seq(OnePin), saved : Seq(OnePin)] :
       /\ saving = {w} /\ registryFile = "broken"
       /\ w.profiles = w.saved /\ Len(w.saved) >= Len(saved)

\* Every tile and the profile in use are profiles that were created.
RegistryIInv ==
  /\ saved \in Seq(OnePin) /\ tiles \in Seq(OnePin)
  /\ registryFile \in {"missing", "broken", "good"}
  /\ registryFile = "missing" => saved = <<>>
  /\ SaveIsFull
  /\ Len(tiles) <= Len(saved)
  /\ user \in 0..Len(saved)
  /\ Readable => profiles = saved

\* Adding a profile and changing its PIN.
LEMMA ProfileSequences ==
  ASSUME NEW S, NEW s \in Seq(S), NEW x \in S
  PROVE  /\ Len(s) \in Nat /\ DOMAIN s = 1..Len(s)
         /\ Append(s, x) \in Seq(S) /\ Len(Append(s, x)) = Len(s) + 1
         /\ \A i \in 1..Len(s) :
              [s EXCEPT ![i] = x] \in Seq(S) /\ Len([s EXCEPT ![i] = x]) = Len(s)
OBVIOUS

\* The registry at first.
LEMMA NoProfiles == <<>> \in Seq(OnePin) /\ Len(<<>>) = 0
OBVIOUS

\* Any action that begins a save with the profiles it read, changed or extended.
LEMMA SaveBegins ==
  ASSUME RegistryIInv, NEW by \in {"start", "create", "update"}, NEW ps \in Seq(OnePin),
         Len(ps) >= Len(saved), Saves(by, ps, ps), UNCHANGED <<tiles, user>>
  PROVE  RegistryIInv'
<1> DEFINE w == [by |-> by, profiles |-> ps, saved |-> ps]
<1>1. /\ w \in [by : {"start", "create", "update"}, profiles : Seq(OnePin), saved : Seq(OnePin)]
      /\ w.profiles = w.saved /\ w.saved = ps
  OBVIOUS
<1>2. saving' = {w} /\ registryFile' = "broken" /\ saved' = saved
  BY DEF Saves
<1> HIDE DEF w
<1>3. SaveIsFull'
  BY <1>1, <1>2 DEF SaveIsFull
<1> QED
  BY <1>2, <1>3 DEF RegistryIInv, Readable

\* What the window shows, from the registry.
LEMMA ShowsWhatIsSaved ==
  ASSUME RegistryIInv, NEW ps, NEW readable \in BOOLEAN, ShowProfiles(ps, readable),
         readable => ps = saved
  PROVE  tiles' \in Seq(OnePin) /\ Len(tiles') <= Len(saved) /\ user' \in 0..Len(saved)
BY ProfileSequences DEF RegistryIInv, ShowProfiles

\* It is inductive.
THEOREM RegistryInvariance == RegistrySpec => []RegistryIInv
<1>1. RegistryInit => RegistryIInv
  BY NoProfiles DEF RegistryInit, RegistryIInv, SaveIsFull, Readable
<1>2. RegistryIInv /\ [RegistryNext]_registryVars => RegistryIInv'
  <2> SUFFICES ASSUME RegistryIInv, [RegistryNext]_registryVars PROVE RegistryIInv'
    OBVIOUS
  <2>0. /\ Len(saved) \in Nat /\ DOMAIN tiles = 1..Len(tiles) /\ DOMAIN saved = 1..Len(saved)
        /\ Len(tiles) \in Nat
    BY DEF RegistryIInv
  <2>1. ASSUME UNCHANGED fileVars, tiles' \in Seq(OnePin), Len(tiles') <= Len(saved),
               user' \in 0..Len(saved)
        PROVE  RegistryIInv'
    BY <2>1 DEF RegistryIInv, SaveIsFull, fileVars, Readable
  <2>2. CASE StartApp
    <3>1. CASE registryFile = "missing"
      <4>1. saved = <<>> /\ Saves("start", saved, saved) /\ UNCHANGED <<tiles, user>>
        BY <2>2, <3>1 DEF StartApp, RegistryIInv
      <4> QED
        BY <4>1, <2>0, SaveBegins DEF RegistryIInv
    <3>2. CASE registryFile # "missing"
      <4>1. ShowProfiles(profiles, Readable) /\ UNCHANGED fileVars
        BY <2>2, <3>2 DEF StartApp
      <4> QED
        BY <4>1, <2>1, ShowsWhatIsSaved DEF Readable, RegistryIInv
    <3> QED
      BY <3>1, <3>2
  <2>3. CASE SaveEnds
    <3>1. PICK w \in saving : /\ Written(w) /\ saving' = {}
                              /\ \/ UNCHANGED <<tiles, user>>
                                 \/ ShowProfiles(w.profiles, TRUE)
      BY <2>3 DEF SaveEnds
    <3>2. /\ w.saved \in Seq(OnePin) /\ w.profiles = w.saved /\ Len(w.saved) >= Len(saved)
      BY <3>1 DEF RegistryIInv, SaveIsFull
    <3>3. /\ tiles' \in Seq(OnePin) /\ Len(tiles') <= Len(w.saved)
          /\ user' \in 0..Len(w.saved)
      BY <2>0, <3>1, <3>2 DEF RegistryIInv, ShowProfiles
    <3> QED
      BY <3>1, <3>2, <3>3 DEF RegistryIInv, SaveIsFull, Written, Readable
  <2>4. CASE SaveFails
    BY <2>4 DEF SaveFails, uiVars, RegistryIInv, SaveIsFull, Readable
  <2>5. CASE Ends
    <3>1. saving' = {} /\ user' = 0 /\ tiles' = tiles
      BY <2>5 DEF Ends
    <3>2. CASE UNCHANGED <<registryFile, profiles, saved>>
      BY <2>0, <3>1, <3>2 DEF RegistryIInv, SaveIsFull, Readable
    <3>3. ASSUME NEW w \in saving, Written(w) PROVE RegistryIInv'
      <4>1. /\ w.saved \in Seq(OnePin) /\ w.profiles = w.saved /\ Len(w.saved) >= Len(saved)
        BY DEF RegistryIInv, SaveIsFull
      <4> QED
        BY <2>0, <3>1, <3>3, <4>1 DEF RegistryIInv, SaveIsFull, Written, Readable
    <3> QED
      BY <2>5, <3>2, <3>3 DEF Ends
  <2>6. ASSUME NEW pin \in OnePin, CreateProfile(pin) PROVE RegistryIInv'
    <3>1. profiles = saved /\ Saves("create", Append(profiles, pin), Append(saved, pin))
          /\ UNCHANGED <<tiles, user>>
      BY <2>6 DEF CreateProfile, RegistryIInv, uiVars
    <3>2. Append(saved, pin) \in Seq(OnePin) /\ Len(Append(saved, pin)) >= Len(saved)
      BY <2>0, ProfileSequences DEF RegistryIInv
    <3> QED
      BY <3>1, <3>2, SaveBegins
  <2>7. ASSUME NEW pin \in OnePin, UpdatePin(pin) PROVE RegistryIInv'
    <3>1. profiles = saved /\ user \in 1..Len(saved)
          /\ Saves("update", [saved EXCEPT ![user] = pin], [saved EXCEPT ![user] = pin])
          /\ UNCHANGED <<tiles, user>>
      BY <2>0, <2>7 DEF UpdatePin, RegistryIInv, uiVars
    <3>2. /\ [saved EXCEPT ![user] = pin] \in Seq(OnePin)
          /\ Len([saved EXCEPT ![user] = pin]) >= Len(saved)
      BY <2>0, <3>1, ProfileSequences DEF RegistryIInv
    <3> QED
      BY <3>1, <3>2, SaveBegins
  <2>8. ASSUME NEW p \in DOMAIN tiles, SelectProfile(p) PROVE RegistryIInv'
    BY <2>0, <2>1, <2>8 DEF SelectProfile, EnterSession, RegistryIInv
  <2>9. CASE EnterPin
    BY <2>1, <2>9 DEF EnterPin, EnterSession, RegistryIInv
  <2>10. CASE LeaveKeypad \/ BackToSelector
    <3>1. ShowProfiles(profiles, Readable) /\ UNCHANGED fileVars
      BY <2>10 DEF LeaveKeypad, BackToSelector
    <3> QED
      BY <3>1, <2>1, ShowsWhatIsSaved DEF Readable, RegistryIInv
  <2>11. CASE \/ \E v \in {"dashboard", "other"} : ShowView(v)
              \/ LockScreen \/ Unlock \/ OnlineChanges \/ DashboardRefreshes
              \/ UNCHANGED registryVars
    <3>1. UNCHANGED fileVars /\ UNCHANGED <<tiles, user>>
      BY <2>11 DEF ShowView, LockScreen, Unlock, OnlineChanges, DashboardRefreshes, registryVars,
         uiVars
    <3> QED
      BY <2>1, <3>1 DEF RegistryIInv
  <2> QED
    BY <2>2, <2>3, <2>4, <2>5, <2>6, <2>7, <2>8, <2>9, <2>10, <2>11 DEF RegistryNext, OnePin
<1> QED
  BY <1>1, <1>2, PTL DEF RegistrySpec

\* A registry that can be read holds every profile ever created, with its last
\* PIN, after any number of crashes and failed saves (saveProfiles).
THEOREM NoProfileIsLost == RegistrySpec => []ProfilesAreKept
<1>1. RegistryIInv => ProfilesAreKept
  BY DEF RegistryIInv, ProfilesAreKept
<1> QED
  BY <1>1, RegistryInvariance, PTL

-----------------------------------------------------------------------------
(* The mixer *)

\* What is written to a console is a level of one of its faders; every fader of
\* the personal mix is on the screen.
MixerIInv ==
  /\ console \in [Address -> [Fader -> Level]]
  /\ ip \in Address
  /\ bus \in Bus
  /\ DOMAIN slider = Strip

\* An order, if it arrives, sets one fader of the console connected last.
LEMMA SendStep ==
  ASSUME MixerIInv, NEW f \in Fader, NEW level \in Level, Send(f, level)
  PROVE  /\ console' \in [Address -> [Fader -> Level]]
         /\ console' # console =>
              /\ connected
              /\ console'[ip][f] = level
              /\ \A a \in Address, g \in Fader :
                   console'[a][g] # console[a][g] => a = ip /\ g = f
<1>1. CASE UNCHANGED console
  BY <1>1 DEF MixerIInv
<1>2. CASE connected /\ console' = [console EXCEPT ![ip][f] = level]
  BY <1>2 DEF MixerIInv
<1> QED
  BY <1>1, <1>2 DEF Send

\* The master fader, and those of a bus, which are others.
LEMMA Faders ==
  /\ Main \in Fader
  /\ \A b \in Bus, s \in Strip :
       <<b, s>> \in Fader /\ <<b, s>>[1] = b /\ <<b, s>>[2] = s /\ <<b, s>> # Main
<1>1. \A b \in Bus : b # 0
  BY MixerAssumption DEF Bus
<1> QED
  BY <1>1 DEF Fader, Main

\* The steps that send nothing.
MixerRests ==
  /\ UNCHANGED console
  /\ ip' \in Address /\ bus' \in Bus /\ DOMAIN slider' = Strip

\* The steps other than those of a hand on a fader.
LEMMA AppSteps ==
  ASSUME MixerIInv, [MixerNext]_mixerVars
  PROVE  \/ MixerRests
         \/ \E level \in Level : MoveMain(level) \/ \E s \in Strip : MoveFader(s, level)
         \/ \E a \in Address, f \in Fader, level \in Level : EngineerMoves(a, f, level)
<1> USE DEF MixerIInv, MixerRests, pluginVars, panelVars
<1>1. ASSUME NEW a \in Address, LaunchConnects(a) \/ ApplyConnects(a) PROVE MixerRests
  BY <1>1 DEF LaunchConnects, ApplyConnects, ConnectBegins
<1>2. CASE LaunchSession \/ LaunchHears \/ LaunchSets
  BY <1>2 DEF LaunchSession, LaunchHears, LaunchSets, ConnectSucceeds, ConnectFails
<1>3. CASE ApplyHears \/ ApplyNone
  BY <1>3 DEF ApplyHears, ApplyNone, ConnectSucceeds, ConnectFails
<1>4. CASE OpenQuick \/ CloseQuick \/ OpenPanel \/ ClosePanel
  BY <1>4 DEF OpenQuick, CloseQuick, OpenPanel, ClosePanel
<1>5. ASSUME NEW b \in Bus, SelectBus(b) PROVE MixerRests
  BY <1>5 DEF SelectBus
<1>6. CASE ReadFader
  BY <1>6 DEF ReadFader
<1>7. CASE UNCHANGED mixerVars
  BY <1>7 DEF mixerVars
<1> QED
  BY <1>1, <1>2, <1>3, <1>4, <1>5, <1>6, <1>7 DEF MixerNext

\* What a hand may change.
HandMoves ==
  /\ mover' = "user" /\ UiFree /\ connected
  /\ \A a \in Address, f \in Fader : console'[a][f] # console[a][f] =>
       /\ a = ip
       /\ IF f = Main THEN quick = "mixer" /\ console'[a][f] = master'
          ELSE panel /\ f[1] = bus /\ console'[a][f] = slider'[f[2]]

\* The master fader of the quick settings moves the main fader, and no other.
LEMMA MainStep ==
  ASSUME MixerIInv, NEW level \in Level, MoveMain(level)
  PROVE  MixerIInv' /\ (console' # console => HandMoves)
<1>1. /\ UiFree /\ quick = "mixer" /\ mover' = "user" /\ master' = level
      /\ Send(Main, level)
      /\ UNCHANGED <<ip, bus, slider>>
  BY DEF MoveMain, Send, pluginVars
<1>2. /\ console' \in [Address -> [Fader -> Level]]
      /\ console' # console =>
           /\ connected /\ console'[ip][Main] = level
           /\ \A a \in Address, g \in Fader :
                console'[a][g] # console[a][g] => a = ip /\ g = Main
  BY <1>1, Faders, SendStep
<1>3. MixerIInv'
  BY <1>1, <1>2 DEF MixerIInv
<1> QED
  BY <1>1, <1>2, <1>3 DEF HandMoves

\* A fader of the personal mix moves that fader of the bus that is selected.
LEMMA PanelStep ==
  ASSUME MixerIInv, NEW level \in Level, NEW s \in Strip, MoveFader(s, level)
  PROVE  MixerIInv' /\ (console' # console => HandMoves)
<1>1. /\ UiFree /\ panel /\ mover' = "user"
      /\ slider' = [slider EXCEPT ![s] = level]
      /\ Send(<<bus, s>>, level)
      /\ UNCHANGED <<ip, bus>>
  BY DEF MoveFader, pluginVars
<1>2. /\ <<bus, s>> \in Fader /\ <<bus, s>>[1] = bus /\ <<bus, s>>[2] = s
      /\ <<bus, s>> # Main
  BY Faders DEF MixerIInv
<1>3. /\ console' \in [Address -> [Fader -> Level]]
      /\ console' # console =>
           /\ connected /\ console'[ip][<<bus, s>>] = level
           /\ \A a \in Address, g \in Fader :
                console'[a][g] # console[a][g] => a = ip /\ g = <<bus, s>>
  BY <1>1, <1>2, SendStep
<1>4. slider'[s] = level /\ DOMAIN slider' = Strip
  BY <1>1 DEF MixerIInv
<1>5. MixerIInv'
  BY <1>1, <1>3, <1>4 DEF MixerIInv
<1> QED
  BY <1>1, <1>2, <1>3, <1>4, <1>5 DEF HandMoves

\* It is inductive, and a fader that moves was moved by a hand.
LEMMA MixerStep ==
  MixerIInv /\ [MixerNext]_mixerVars =>
    MixerIInv' /\ (console' # console => mover' = "engineer" \/ HandMoves)
<1> SUFFICES ASSUME MixerIInv, [MixerNext]_mixerVars
             PROVE  MixerIInv' /\ (console' # console => mover' = "engineer" \/ HandMoves)
  OBVIOUS
<1>1. CASE MixerRests
  BY <1>1 DEF MixerRests, MixerIInv
<1>2. CASE \E a \in Address, f \in Fader, level \in Level : EngineerMoves(a, f, level)
  BY <1>2 DEF EngineerMoves, MixerIInv, pluginVars, panelVars
<1> QED
  BY <1>1, <1>2, MainStep, PanelStep, AppSteps

\* The app moves a fader only under the user's hand and to where the hand put it,
\* for any number of consoles, buses, faders and levels.
THEOREM HandsMoveFaders == MixerSpec => OnlyHandsMoveFaders
<1>1. MixerInit => MixerIInv
  BY MixerAssumption DEF MixerInit, MixerIInv, Level, Bus
<1> QED
  BY <1>1, MixerStep, PTL DEF MixerSpec, OnlyHandsMoveFaders, HandMoves

=============================================================================
