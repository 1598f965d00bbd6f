---------------------------- MODULE EyeTracking ----------------------------
(***************************************************************************)
(* The process that watches the eyes and who starts and stops it           *)
(* (eyetrack/tracker.go): the goroutine with a ticker of every score       *)
(* viewer (ui/gaze_overlay.go) and the calibration, which opens from the   *)
(* quick settings also over a viewer (ui/eyetrack_calib.go).  The tracker  *)
(* is one for the app; its methods hold a lock.  What the gaze points do   *)
(* to a viewer is in PageTurns.                                            *)
(***************************************************************************)
EXTENDS Naturals

CONSTANTS
  MaxProcesses,    \* bound: processes started
  MaxViewers,      \* bound: viewers opened
  MaxCalibrations  \* bound: calibrations opened

ASSUME EyeAssumption ==
  {MaxProcesses, MaxViewers, MaxCalibrations} \subseteq Nat \ {0}

VARIABLES
  eyesOn,    \* the preference eyetrack_enabled
  process,   \* each process: "none", "runs" or "dead"
  outputReader, \* the goroutine that reads its output is there
  cmd,       \* t.cmd, the last process; 0: none was started
  isRunning, \* the tracker's flag
  late,      \* history: a reader has cleared the flag of a later process
  viewers,   \* each viewer: "none", "open", "closed", or "left" by a change of profile
  watcher,   \* its ticker goroutine: "none", "waits", "starts", "stops" or "done"
  calib,     \* the screen of each calibration
  listener,  \* the goroutine that takes its points: "none", "on" or "done"
  starter    \* the goroutine of Start Calibration: "none", "starts" or "shows"

trackerVars == <<process, outputReader, cmd, isRunning, late>>
calibVars == <<calib, listener, starter>>
eyeVars == <<eyesOn, trackerVars, viewers, watcher, calibVars>>

-----------------------------------------------------------------------------

Process == 1..MaxProcesses
ViewerId == 1..MaxViewers
Calibration == 1..MaxCalibrations

EyeTypeOK ==
  /\ eyesOn \in BOOLEAN
  /\ process \in [Process -> {"none", "runs", "dead"}]
  /\ outputReader \in [Process -> BOOLEAN]
  /\ cmd \in 0..MaxProcesses
  /\ isRunning \in BOOLEAN /\ late \in BOOLEAN
  /\ viewers \in [ViewerId -> {"none", "open", "closed", "left"}]
  /\ watcher \in [ViewerId -> {"none", "waits", "starts", "stops", "done"}]
  /\ calib \in [Calibration ->
       {"none", "scanning", "camera", "progress", "left dot", "right dot", "closed"}]
  /\ listener \in [Calibration -> {"none", "on", "done"}]
  /\ starter \in [Calibration -> {"none", "starts", "shows"}]

EyeInit ==
  /\ eyesOn \in BOOLEAN
  /\ process = [p \in Process |-> "none"]
  /\ outputReader = [p \in Process |-> FALSE]
  /\ cmd = 0 /\ isRunning = FALSE /\ late = FALSE
  /\ viewers = [v \in ViewerId |-> "none"]
  /\ watcher = [v \in ViewerId |-> "none"]
  /\ calib = [c \in Calibration |-> "none"]
  /\ listener = [c \in Calibration |-> "none"]
  /\ starter = [c \in Calibration |-> "none"]

-----------------------------------------------------------------------------
(* The tracker *)

Unused(of) == CHOOSE i \in DOMAIN of : of[i] = "none"
SomeUnused(of) == \E i \in DOMAIN of : of[i] = "none"

\* Start, successful: a running tracker stays as it is, whoever started it.
Start ==
  IF isRunning
  THEN UNCHANGED trackerVars
  ELSE /\ SomeUnused(process)
       /\ process' = [process EXCEPT ![Unused(process)] = "runs"]
       /\ outputReader' = [outputReader EXCEPT ![Unused(process)] = TRUE]
       /\ cmd' = Unused(process)
       /\ isRunning' = TRUE
       /\ UNCHANGED late

\* Start, without Python, its packages or the script, or with a process that
\* does not start, which becomes t.cmd all the same.
StartFails ==
  /\ ~isRunning
  /\ cmd' \in {cmd, 0}
  /\ UNCHANGED <<process, outputReader, isRunning, late>>

\* Stop kills the last process started.
Stop ==
  /\ process' = [p \in Process |-> IF p = cmd THEN "dead" ELSE process[p]]
  /\ isRunning' = FALSE
  /\ UNCHANGED <<outputReader, cmd, late>>

ProcessDies(p) ==
  /\ process[p] = "runs"
  /\ process' = [process EXCEPT ![p] = "dead"]
  /\ UNCHANGED <<eyesOn, outputReader, cmd, isRunning, late, viewers, watcher, calibVars>>

\* The reader of a process at the end of its output clears the flag, by now
\* perhaps the flag of another process.
OutputEnds(p) ==
  /\ outputReader[p] /\ process[p] = "dead"
  /\ outputReader' = [outputReader EXCEPT ![p] = FALSE]
  /\ isRunning' = FALSE
  /\ late' = (late \/ (isRunning /\ cmd # p))
  /\ UNCHANGED <<eyesOn, process, cmd, viewers, watcher, calibVars>>

-----------------------------------------------------------------------------
(* A score viewers *)

\* The content of the window is the app's, not a calibration's.
AtApp == \A c \in Calibration : calib[c] \in {"none", "closed"}

\* BuildPracticeMode and BuildConcertMode show a viewer with an overlay.
OpenViewer ==
  /\ AtApp /\ \A v \in ViewerId : viewers[v] # "open"
  /\ SomeUnused(viewers)
  /\ viewers' = [viewers EXCEPT ![Unused(viewers)] = "open"]
  /\ watcher' = [watcher EXCEPT ![Unused(viewers)] = "waits"]
  /\ UNCHANGED <<eyesOn, trackerVars, calibVars>>

\* A tick reads the preference ...
WatcherTicks(v) ==
  /\ watcher[v] = "waits"
  /\ watcher' = [watcher EXCEPT ![v] = IF eyesOn THEN "starts" ELSE "stops"]
  /\ UNCHANGED <<eyesOn, trackerVars, viewers, calibVars>>

\* ... and then waits for the tracker's lock.
WatcherStarts(v) ==
  /\ watcher[v] = "starts"
  /\ Start \/ StartFails
  /\ watcher' = [watcher EXCEPT ![v] = "waits"]
  /\ UNCHANGED <<eyesOn, viewers, calibVars>>

WatcherStops(v) ==
  /\ watcher[v] = "stops"
  /\ Stop
  /\ watcher' = [watcher EXCEPT ![v] = "waits"]
  /\ UNCHANGED <<eyesOn, viewers, calibVars>>

\* Mutant: the goroutine returns and leaves the tracker on.
WatcherJustEnds(v) ==
  /\ watcher[v] = "waits" /\ viewers[v] = "closed"
  /\ watcher' = [watcher EXCEPT ![v] = "done"]
  /\ UNCHANGED <<eyesOn, trackerVars, viewers, calibVars>>

\* It sees stopChan, whoever uses the tracker by then.
WatcherEnds(v) ==
  /\ watcher[v] = "waits" /\ viewers[v] = "closed"
  /\ Stop
  /\ watcher' = [watcher EXCEPT ![v] = "done"]
  /\ UNCHANGED <<eyesOn, viewers, calibVars>>

CloseViewer(v) ==
  /\ AtApp /\ viewers[v] = "open"
  /\ viewers' = [viewers EXCEPT ![v] = "closed"]
  /\ UNCHANGED <<eyesOn, trackerVars, watcher, calibVars>>

\* A change of profile replaces the window's content and closes nothing.
LeaveViewer(v) ==
  /\ AtApp /\ viewers[v] = "open"
  /\ viewers' = [viewers EXCEPT ![v] = "left"]
  /\ UNCHANGED <<eyesOn, trackerVars, watcher, calibVars>>

-----------------------------------------------------------------------------
(* The quick settings, and the calibration they open *)

SetEyesOn(on) ==
  /\ AtApp
  /\ eyesOn' = on
  /\ UNCHANGED <<trackerVars, viewers, watcher, calibVars>>

OpenCalibration ==
  /\ AtApp /\ SomeUnused(calib)
  /\ calib' = [calib EXCEPT ![Unused(calib)] = "scanning"]
  /\ listener' = [listener EXCEPT ![Unused(calib)] = "on"]
  /\ UNCHANGED <<eyesOn, trackerVars, viewers, watcher, starter>>

CamerasFound(c) ==
  /\ calib[c] = "scanning"
  /\ calib' = [calib EXCEPT ![c] = "camera"]
  /\ UNCHANGED <<eyesOn, trackerVars, viewers, watcher, listener, starter>>

\* The progress dialog keeps the user away until the tracker has started.
StartCalibration(c) ==
  /\ calib[c] = "camera" /\ starter[c] = "none"
  /\ calib' = [calib EXCEPT ![c] = "progress"]
  /\ starter' = [starter EXCEPT ![c] = "starts"]
  /\ UNCHANGED <<eyesOn, trackerVars, viewers, watcher, listener>>

StarterStarts(c) ==
  /\ starter[c] = "starts"
  /\ calib' = [calib EXCEPT ![c] = "camera"]
  /\ \/ Start /\ starter' = [starter EXCEPT ![c] = "shows"]
     \/ StartFails /\ starter' = [starter EXCEPT ![c] = "none"]
  /\ UNCHANGED <<eyesOn, viewers, watcher, listener>>

\* The next screen replaces whatever the window shows: the user may have
\* cancelled after the dialog went.
StarterShows(c) ==
  /\ starter[c] = "shows"
  /\ starter' = [starter EXCEPT ![c] = "none"]
  /\ calib' = [calib EXCEPT ![c] = "left dot"]
  /\ UNCHANGED <<eyesOn, trackerVars, viewers, watcher, listener>>

NextDot(c) ==
  /\ calib[c] = "left dot"
  /\ calib' = [calib EXCEPT ![c] = "right dot"]
  /\ UNCHANGED <<eyesOn, trackerVars, viewers, watcher, listener, starter>>

\* cleanup: Finish at the last screen, Cancel at each.
CloseCalibration(c) ==
  /\ calib[c] \in {"scanning", "camera", "left dot", "right dot"}
  /\ calib' = [calib EXCEPT ![c] = "closed"]
  /\ Stop
  /\ UNCHANGED <<eyesOn, viewers, watcher, listener, starter>>

\* The listener sees stopChan at some later time, and stops once more.
ListenerEnds(c) ==
  /\ listener[c] = "on" /\ calib[c] = "closed"
  /\ Stop
  /\ listener' = [listener EXCEPT ![c] = "done"]
  /\ UNCHANGED <<eyesOn, viewers, watcher, calib, starter>>

-----------------------------------------------------------------------------

EyeNext ==
  \/ \E p \in Process : ProcessDies(p) \/ OutputEnds(p)
  \/ OpenViewer \/ OpenCalibration
  \/ \E v \in ViewerId : \/ WatcherTicks(v) \/ WatcherStarts(v) \/ WatcherStops(v)
                         \/ WatcherEnds(v) \/ CloseViewer(v) \/ LeaveViewer(v)
  \/ \E on \in BOOLEAN : SetEyesOn(on)
  \/ \E c \in Calibration : \/ CamerasFound(c) \/ StartCalibration(c)
                            \/ StarterStarts(c) \/ StarterShows(c) \/ NextDot(c)
                            \/ CloseCalibration(c) \/ ListenerEnds(c)

EyeSpec == EyeInit /\ [][EyeNext]_eyeVars

-----------------------------------------------------------------------------
(* Properties *)

\* Nobody uses the tracker any more.
NobodyWatches ==
  /\ \A v \in ViewerId : watcher[v] \in {"none", "done"}
  /\ \A c \in Calibration : calib[c] \in {"none", "closed"} /\ listener[c] # "on"
                            /\ starter[c] = "none"

\* When every viewer and calibration is closed and its goroutines are done, the
\* last process started no longer runs, in whatever order they started and
\* stopped it; and unless a reader ended late no other process runs either, at
\* any time (Tracker.Start, Tracker.Stop).
TrackerStops ==
  /\ NobodyWatches /\ cmd # 0 => process[cmd] # "runs"
  /\ ~late => \A p \in Process : process[p] = "runs" => p = cmd
=============================================================================
