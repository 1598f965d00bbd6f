------------------------------ MODULE MCStand ------------------------------
(***************************************************************************)
(* The parts of a stand that work beside the concert mode and the passes,  *)
(* checked in one run.  They share no state, and every property speaks of  *)
(* one part, so it is enough to let one part move while the others rest    *)
(* where they start: a behaviour of all of them, seen through the          *)
(* variables of one, is a behaviour of that one.                           *)
(***************************************************************************)
EXTENDS Pilot, Upload, Dictaphone, EyeTracking, PageTurns, Mixer, Registry,
        Inbox, ConcertSetup, Metronome

VARIABLE part  \* the part that moves

Initials ==
  /\ PilotInit /\ UploadInit /\ DictaInit /\ EyeInit /\ TurnInit
  /\ MixerInit /\ RegistryInit /\ InboxInit /\ SetupInit /\ MetronomeInit

StandInit ==
  /\ part \in {"pilot", "upload", "dictaphone", "eyes", "pages", "mixer", "registry",
               "inbox", "setup", "metronome"}
  /\ Initials
  \* A part that rests does so in one of its initial states.
  /\ part # "eyes" => ~eyesOn
  /\ part # "pages" => ~enabled
  /\ part # "dictaphone" => song = CHOOSE s \in Song : TRUE
  /\ part # "mixer" => ip = CHOOSE a \in Address : TRUE

StandNext ==
  /\ UNCHANGED part
  /\ IF part = "pilot" THEN PilotNext ELSE UNCHANGED pilotVars
  /\ IF part = "upload" THEN UploadNext ELSE UNCHANGED uploadVars
  /\ IF part = "dictaphone" THEN DictaNext ELSE UNCHANGED dictaVars
  /\ IF part = "eyes" THEN EyeNext ELSE UNCHANGED eyeVars
  /\ IF part = "pages" THEN TurnNext ELSE UNCHANGED turnVars
  /\ IF part = "mixer" THEN MixerNext ELSE UNCHANGED mixerVars
  /\ IF part = "registry" THEN RegistryNext ELSE UNCHANGED registryVars
  /\ IF part = "inbox" THEN InboxNext ELSE UNCHANGED inboxVars
  /\ IF part = "setup" THEN SetupNext ELSE UNCHANGED setupVars
  /\ IF part = "metronome" THEN MetronomeNext ELSE UNCHANGED metronomeVars

StandSpec ==
  StandInit /\ [][StandNext]_<<part, pilotVars, uploadVars, dictaVars, eyeVars, turnVars,
                   mixerVars, registryVars, inboxVars, setupVars, metronomeVars>>
=============================================================================
