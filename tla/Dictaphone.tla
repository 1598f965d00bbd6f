----------------------------- MODULE Dictaphone -----------------------------
(***************************************************************************)
(* Recording and playing back (audio/recorder.go), the dictaphone dialog   *)
(* (ui/dictaphone.go) and the table of recordings (localdb/recordings.go). *)
(* The handlers of the dialog run one at a time on the UI goroutine; the   *)
(* audio callbacks and the goroutine that follows the playback run beside  *)
(* them, and the handler of Play takes and leaves the recorder's lock      *)
(* several times.                                                          *)
(***************************************************************************)
EXTENDS Integers

CONSTANTS
  Song,        \* the scores that may be on the screen
  MaxSeconds,  \* bound: the clock
  MaxTakes,    \* bound: recordings that get a row
  MaxLength    \* bound: samples of a recording

ASSUME DictaphoneAssumption ==
  /\ Song # {}
  /\ MaxSeconds \in Nat \ {0} /\ MaxTakes \in Nat \ {0} /\ MaxLength \in Nat \ {0}

VARIABLES
  second,     \* the clock; a recording is named for the second it begins in
  file,       \* the length of the file of each name; NoFile
  row,        \* the rows of the table
  rows,       \* rows inserted so far
  \* the recorder
  recording,  \* isRecording
  recordPath, \* recordingPath; 0 at first
  isPlaying,    \* isPlaying
  paused,     \* isPaused
  offset,     \* playbackOffset, in samples
  length,     \* the length of playbackData
  output,     \* playDevice: "nil", "ready" or "runs"
  \* the dialog
  song,       \* the score on the screen
  open,       \* the dialog is shown
  ours,       \* currentRecordPath; 0: empty
  playStep,   \* how far the handler of Play is
  playFile,   \* what it plays
  follow,     \* what goroutines of startPlayerUIUpdater have yet to act on
  ticking     \* updateTicker runs

recorderVars == <<recording, recordPath, isPlaying, paused, offset, length, output>>
dialogVars == <<song, open, ours, playStep, playFile, follow, ticking>>
dictaVars == <<second, file, row, rows, recorderVars, dialogVars>>

-----------------------------------------------------------------------------

NoFile == -1
Path == 1..MaxSeconds
Recording == [id : 1..MaxTakes, song : Song, path : Path]

DictaTypeOK ==
  /\ second \in Path
  /\ file \in [Path -> NoFile..MaxLength]
  /\ row \in SUBSET Recording
  /\ rows \in 0..MaxTakes
  /\ recording \in BOOLEAN /\ isPlaying \in BOOLEAN /\ paused \in BOOLEAN
  /\ recordPath \in 0..MaxSeconds
  /\ offset \in -1..MaxLength /\ length \in 0..MaxLength
  /\ output \in {"nil", "ready", "runs"}
  /\ song \in Song
  /\ open \in BOOLEAN
  /\ ours \in 0..MaxSeconds
  /\ playStep \in {"no", "load", "device", "start"}
  /\ playFile \in 0..MaxSeconds
  /\ follow \in SUBSET {"ended", "stopped"}
  /\ ticking \in BOOLEAN

DictaInit ==
  /\ second = 1
  /\ file = [p \in Path |-> NoFile]
  /\ row = {} /\ rows = 0
  /\ recording = FALSE /\ recordPath = 0
  /\ isPlaying = FALSE /\ paused = FALSE /\ offset = 0 /\ length = 0
  /\ output = "nil"
  /\ song \in Song
  /\ open = FALSE /\ ours = 0
  /\ playStep = "no" /\ playFile = 0
  /\ follow = {} /\ ticking = FALSE

\* The UI goroutine is free, and the dialog is shown.
AtDialog == open /\ playStep = "no"

\* The part of StopPlayback under the lock; the device it takes out is stopped
\* after it.
StopPlayback ==
  IF isPlaying
  THEN isPlaying' = FALSE /\ paused' = FALSE /\ output' = "nil"
  ELSE UNCHANGED <<isPlaying, paused, output>>

\* PlayRecording takes the lock up to five times, the others once or twice.
KeepsPlayback == UNCHANGED <<isPlaying, paused, offset, length, output>>

-----------------------------------------------------------------------------
(* Recording *)

\* The button Start Recording: ends a playback, and creates the file, which may
\* fail.
ToggleOn ==
  /\ AtDialog /\ ~recording
  /\ StopPlayback
  /\ \/ /\ file' = [file EXCEPT ![second] = 0]
        /\ recording' = TRUE /\ recordPath' = second
        /\ ours' = second
     \/ UNCHANGED <<file, recording, recordPath, ours>>
  /\ UNCHANGED <<second, row, rows, offset, length, song, open, playStep, playFile>>
  /\ UNCHANGED <<follow, ticking>>

\* The button Stop Recording: closes the file, and stores it under the score
\* that is on the screen now (AddRecording).
ToggleOff ==
  /\ AtDialog /\ recording
  /\ recording' = FALSE
  /\ IF ours # 0
     THEN /\ rows < MaxTakes
          /\ rows' = rows + 1
          /\ row' = row \cup {[id |-> rows + 1, song |-> song, path |-> ours]}
     ELSE UNCHANGED <<row, rows>>
  /\ ours' = 0
  /\ KeepsPlayback
  /\ UNCHANGED <<second, file, recordPath, song, open, playStep, playFile, follow, ticking>>

\* onRecvFrames; a file that was removed meanwhile takes no space.
Capture ==
  /\ recording /\ file[recordPath] \in 0..(MaxLength - 1)
  /\ file' = [file EXCEPT ![recordPath] = @ + 1]
  /\ UNCHANGED <<second, row, rows, recorderVars, dialogVars>>

ClockTicks ==
  /\ second < MaxSeconds
  /\ second' = second + 1
  /\ UNCHANGED <<file, row, rows, recorderVars, dialogVars>>

-----------------------------------------------------------------------------
(* Playing *)

\* PlayRecording, up to the end of StopPlayback.
PlayBegins(r) ==
  /\ AtDialog /\ r.song = song
  /\ ~recording
  /\ StopPlayback
  /\ playStep' = "load" /\ playFile' = r.path
  /\ UNCHANGED <<second, file, row, rows, recording, recordPath, offset, length>>
  /\ UNCHANGED <<song, open, ours, follow, ticking>>

\* It reads the file, which may be gone.
PlayLoads ==
  /\ playStep = "load"
  /\ IF file[playFile] = NoFile
     THEN playStep' = "no" /\ KeepsPlayback
     ELSE /\ length' = file[playFile] /\ offset' = 0
          /\ isPlaying' = TRUE /\ paused' = FALSE
          /\ playStep' = "device"
          /\ UNCHANGED output
  /\ UNCHANGED <<second, file, row, rows, recording, recordPath>>
  /\ UNCHANGED <<song, open, ours, playFile, follow, ticking>>

\* A device is made, or not.
PlayDevice ==
  /\ playStep = "device"
  /\ \/ output' = "ready" /\ playStep' = "start" /\ UNCHANGED isPlaying
     \/ isPlaying' = FALSE /\ playStep' = "no" /\ UNCHANGED output
  /\ UNCHANGED <<second, file, row, rows, recording, recordPath, paused, offset, length>>
  /\ UNCHANGED <<song, open, ours, playFile, follow, ticking>>

\* It starts the device it finds in playDevice, and the dialog a goroutine that
\* follows; without a device the app ends with a nil pointer, and when the
\* start fails the playback is on, and silent.
PlayStarts ==
  /\ playStep = "start" /\ output # "nil"
  /\ playStep' = "no"
  /\ \/ output' = "runs" /\ ticking' = TRUE
     \/ UNCHANGED <<output, ticking>>
  /\ UNCHANGED <<second, file, row, rows, recording, recordPath, isPlaying, paused, offset>>
  /\ UNCHANGED <<length, song, open, ours, playFile, follow>>

\* onSendFrames, from the offset on.
Sound ==
  /\ output = "runs" /\ isPlaying /\ ~paused
  /\ offset \in 0..(length - 1)
  /\ offset' = offset + 1
  /\ UNCHANGED <<second, file, row, rows, recording, recordPath, isPlaying, paused, length>>
  /\ UNCHANGED <<output, dialogVars>>

TogglePause ==
  /\ AtDialog /\ isPlaying
  /\ paused' = ~paused
  /\ UNCHANGED <<second, file, row, rows, recording, recordPath, isPlaying, offset, length>>
  /\ UNCHANGED <<output, dialogVars>>

\* SeekRelative, SeekAbsolute: at most to the last sample, which an empty
\* recording does not have.
Seek(to) ==
  /\ AtDialog /\ isPlaying
  /\ offset' = IF to >= length THEN length - 1 ELSE to
  /\ UNCHANGED <<second, file, row, rows, recording, recordPath, isPlaying, paused, length>>
  /\ UNCHANGED <<output, dialogVars>>

StopButton ==
  /\ AtDialog
  /\ StopPlayback
  /\ ticking' = FALSE
  /\ UNCHANGED <<second, file, row, rows, recording, recordPath, offset, length>>
  /\ UNCHANGED <<song, open, ours, playStep, playFile, follow>>

\* The goroutine that follows looks at the playback at every tick ...
Follow ==
  /\ ticking
  /\ \/ isPlaying /\ length > 0 /\ offset >= length /\ follow' = follow \cup {"ended"}
     \/ ~isPlaying /\ follow' = follow \cup {"stopped"}
  /\ follow' # follow
  /\ UNCHANGED <<second, file, row, rows, recorderVars>>
  /\ UNCHANGED <<song, open, ours, playStep, playFile, ticking>>

\* ... and acts on what it saw, on whatever plays and ticks by then.
FollowEnds ==
  /\ "ended" \in follow
  /\ StopPlayback
  /\ follow' = (follow \ {"ended"}) \cup {"stopped"}
  /\ UNCHANGED <<second, file, row, rows, recording, recordPath, offset, length>>
  /\ UNCHANGED <<song, open, ours, playStep, playFile, ticking>>

FollowStops ==
  /\ "stopped" \in follow
  /\ follow' = follow \ {"stopped"}
  /\ ticking' = FALSE
  /\ UNCHANGED <<second, file, row, rows, recorderVars>>
  /\ UNCHANGED <<song, open, ours, playStep, playFile>>

-----------------------------------------------------------------------------
(* The dialog and what surrounds it *)

\* Mutant: a recording under way is not asked for.
OpenDictaphoneAnew ==
  /\ ~open
  /\ open' = TRUE
  /\ ours' = 0
  /\ ticking' = isPlaying
  /\ UNCHANGED <<second, file, row, rows, recorderVars, song, playStep, playFile, follow>>

\* A recording or a playback may be under way.
OpenDictaphone ==
  /\ ~open
  /\ open' = TRUE
  /\ ours' = IF recording THEN recordPath ELSE 0
  /\ ticking' = isPlaying
  /\ UNCHANGED <<second, file, row, rows, recorderVars, song, playStep, playFile, follow>>

CloseDictaphone ==
  /\ AtDialog
  /\ open' = FALSE
  /\ ticking' = FALSE
  /\ UNCHANGED <<second, file, row, rows, recorderVars, song, ours, playStep, playFile, follow>>

\* The file goes first, whether it is playing or not.
DeleteRecording(r) ==
  /\ AtDialog /\ r.song = song
  /\ file' = [file EXCEPT ![r.path] = NoFile]
  /\ row' = row \ {r}
  /\ UNCHANGED <<second, rows, recorderVars, dialogVars>>

\* The next item of a concert.
ChangeSong(s) ==
  /\ ~open
  /\ song' = s
  /\ UNCHANGED <<second, file, row, rows, recorderVars, open, ours, playStep, playFile>>
  /\ UNCHANGED <<follow, ticking>>

\* Exit closes the recorder and makes no row of a recording under way; so does
\* the end of the app, at any moment.
Leave ==
  /\ recording' = FALSE /\ recordPath' = 0
  /\ isPlaying' = FALSE /\ paused' = FALSE /\ offset' = 0 /\ length' = 0
  /\ output' = "nil"
  /\ open' = FALSE /\ ours' = 0
  /\ playStep' = "no" /\ playFile' = 0
  /\ follow' = {} /\ ticking' = FALSE
  /\ UNCHANGED <<second, file, row, rows, song>>

\* onSendFrames slices an empty recording from before its first sample, where a
\* seek has put the offset, and the app ends.
SoundPanics ==
  /\ output = "runs" /\ isPlaying /\ ~paused
  /\ offset < 0
  /\ Leave

-----------------------------------------------------------------------------

DictaNext ==
  \/ ToggleOn \/ ToggleOff \/ Capture \/ ClockTicks
  \/ \E r \in row : PlayBegins(r) \/ DeleteRecording(r)
  \/ PlayLoads \/ PlayDevice \/ PlayStarts \/ Sound \/ SoundPanics
  \/ TogglePause \/ StopButton
  \/ \E to \in 0..MaxLength : Seek(to)
  \/ Follow \/ FollowEnds \/ FollowStops
  \/ OpenDictaphone \/ CloseDictaphone \/ Leave
  \/ \E s \in Song : ChangeSong(s)

DictaSpec == DictaInit /\ [][DictaNext]_dictaVars

-----------------------------------------------------------------------------
(* Properties *)

\* The recorder never records while it plays (StartRecording does not ask).
RecordsOrPlays == ~(recording /\ isPlaying)

\* The dialog that is open knows the recording under way, also when another one
\* began it: the take will get its row (currentRecordPath).
TakeIsKnown == open /\ recording => ours = recordPath

\* The next frame to play is in the data, whichever way the user and the
\* callback have moved it, unless the data is empty (SeekRelative): then it may
\* not be, and the app ends (SoundPanics).
PlaysInside == isPlaying /\ length > 0 => offset \in 0..length

\* The three together.
DictaphoneIsSound == RecordsOrPlays /\ TakeIsKnown /\ PlaysInside
=============================================================================
