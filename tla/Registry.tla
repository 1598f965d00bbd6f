------------------------------ MODULE Registry ------------------------------
(***************************************************************************)
(* The profiles of a stand (profiles/manager.go): the registry file, the   *)
(* profile selector and its keypad (ui/profile_selector.go), the PIN in    *)
(* the settings (ui/settings.go), and the lock screen (ui/lockscreen.go,   *)
(* main.go).  A save writes the whole file in place, and the app may end   *)
(* at any moment.  A profile has the number of its creation; nothing calls *)
(* DeleteProfile.                                                          *)
(***************************************************************************)
EXTENDS Naturals, Sequences

CONSTANTS
  ShortPin,    \* PINs of at most 8 digits
  LongPin,     \* longer ones
  WordPin,     \* ones with other characters, which both entries accept
  MaxProfiles  \* bound: profiles created

ASSUME RegistryAssumption == MaxProfiles \in Nat \ {0}

VARIABLES
  registryFile,  \* "missing", "broken" or "good"
  profiles,      \* the PIN of every profile in a good file: {} or one
  saved,         \* history: the profiles created and their PINs, by what the
                 \* user asked for and the file took
  saving,        \* what WriteFile is about to write, if it is at work
  display,       \* what the window shows
  tiles,         \* what the selector has read
  user,          \* the profile of the keypad or of the session; 0: none
  currentView,   \* of the session: "dashboard", "other" or "lockscreen"
  refreshes      \* the background goroutine has seen the dashboard, and will
                 \* show it anew (setServerOnline)

fileVars == <<registryFile, profiles, saved, saving>>
uiVars == <<display, tiles, user, currentView, refreshes>>
registryVars == <<fileVars, uiVars>>

-----------------------------------------------------------------------------

AnyPin == ShortPin \cup LongPin \cup WordPin
Profiles == UNION {[1..n -> {{}} \cup {{p} : p \in AnyPin}] : n \in 0..MaxProfiles}
Save == [by : {"start", "create", "update"}, profiles : Profiles, saved : Profiles]

RegistryTypeOK ==
  /\ registryFile \in {"missing", "broken", "good"}
  /\ profiles \in Profiles /\ saved \in Profiles /\ tiles \in Profiles
  /\ saving = {} \/ \E w \in Save : saving = {w}
  /\ display \in {"off", "selector", "error", "keypad", "session", "lock"}
  /\ user \in 0..MaxProfiles
  /\ currentView \in {"dashboard", "other", "lockscreen"}
  /\ refreshes \in BOOLEAN

RegistryInit ==
  /\ registryFile = "missing" /\ profiles = <<>> /\ saved = <<>> /\ saving = {}
  /\ display = "off" /\ tiles = <<>> /\ user = 0
  /\ currentView = "dashboard" /\ refreshes = FALSE

\* The UI goroutine is not in a save.
Responds(d) == display = d /\ saving = {}

-----------------------------------------------------------------------------
(* The registry *)

Readable == registryFile = "good"

\* saveProfiles: WriteFile truncates the file first.
Saves(by, ps, asked) ==
  /\ saving' = {[by |-> by, profiles |-> ps, saved |-> asked]}
  /\ registryFile' = "broken"
  /\ UNCHANGED <<profiles, saved>>

\* showProfiles: an unreadable registry leaves the window as it is, under an
\* error.
ShowProfiles(ps, readable) ==
  /\ display' = IF readable THEN "selector" ELSE IF display = "off" THEN "error" ELSE display
  /\ tiles' = IF readable THEN ps ELSE tiles
  /\ user' = IF readable THEN 0 ELSE user

\* NewManager, which makes the file when there is none.
StartApp ==
  /\ Responds("off")
  /\ IF registryFile = "missing"
     THEN Saves("start", <<>>, saved) /\ UNCHANGED <<display, tiles, user>>
     ELSE ShowProfiles(profiles, Readable) /\ UNCHANGED fileVars
  /\ UNCHANGED <<currentView, refreshes>>

Written(w) == registryFile' = "good" /\ profiles' = w.profiles /\ saved' = w.saved

\* The file is written, and whoever saved goes on.
SaveEnds ==
  /\ \E w \in saving :
       /\ Written(w)
       /\ IF w.by = "update" THEN UNCHANGED <<display, tiles, user>>
          ELSE ShowProfiles(w.profiles, TRUE)
  /\ saving' = {}
  /\ UNCHANGED <<currentView, refreshes>>

\* WriteFile fails half way: the file stays as far as it got.  At the start the
\* app ends, later the user sees the error.
SaveFails ==
  /\ saving # {}
  /\ saving' = {}
  /\ UNCHANGED <<registryFile, profiles, saved, uiVars>>

\* The app, or the stand, ends; a save under way may just have come to its end.
Ends ==
  /\ display # "off" \/ saving # {}
  /\ UNCHANGED <<registryFile, profiles, saved>> \/ \E w \in saving : Written(w)
  /\ saving' = {}
  /\ display' = "off" /\ user' = 0
  /\ currentView' = "dashboard" /\ refreshes' = FALSE
  /\ UNCHANGED tiles

-----------------------------------------------------------------------------
(* The selector *)

\* Mutant: an unreadable registry counts as an empty one.
CreateProfileAnyway(pin) ==
  /\ Responds("selector")
  /\ Len(profiles) < MaxProfiles
  /\ Saves("create", Append(IF Readable THEN profiles ELSE <<>>, pin), Append(saved, pin))
  /\ UNCHANGED uiVars

\* CreateProfile reads the file again; the folders it makes need not concern us.
CreateProfile(pin) ==
  /\ Responds("selector") /\ Readable
  /\ Len(profiles) < MaxProfiles
  /\ Saves("create", Append(profiles, pin), Append(saved, pin))
  /\ UNCHANGED uiVars

\* onProfileSelected
EnterSession(p) ==
  /\ display' = "session" /\ user' = p
  /\ currentView' = "dashboard" /\ refreshes' = FALSE
  /\ UNCHANGED <<fileVars, tiles>>

\* A tile knows whether the profile had a PIN when the selector was shown.
SelectProfile(p) ==
  /\ Responds("selector")
  /\ IF tiles[p] = {} THEN EnterSession(p)
     ELSE /\ display' = "keypad" /\ user' = p
          /\ UNCHANGED <<fileVars, tiles, currentView, refreshes>>

\* The PIN a keypad may produce.
VerifyPin(p, typed) ==
  Readable /\ p \in DOMAIN profiles /\ (profiles[p] = {} \/ typed \in profiles[p])

\* A wrong PIN is erased, and the keypad stays.
EnterPin ==
  /\ Responds("keypad")
  /\ \E typed \in ShortPin \cup LongPin : VerifyPin(user, typed)
  /\ EnterSession(user)

LeaveKeypad ==
  /\ Responds("keypad")
  /\ ShowProfiles(profiles, Readable)
  /\ UNCHANGED <<fileVars, currentView, refreshes>>

-----------------------------------------------------------------------------
(* A session *)

\* The dashboard, and every other screen.
ShowView(v) ==
  /\ Responds("session")
  /\ v \in {"dashboard", "other"} /\ v # currentView
  /\ currentView' = v
  /\ UNCHANGED <<fileVars, display, tiles, user, refreshes>>

\* UpdatePin, from the settings.
UpdatePin(pin) ==
  /\ Responds("session") /\ currentView = "other"
  /\ Readable /\ user \in DOMAIN profiles
  /\ Saves("update", [profiles EXCEPT ![user] = pin], [saved EXCEPT ![user] = pin])
  /\ UNCHANGED uiVars

\* The quick settings are there on every screen but the lock screen.
BackToSelector ==
  /\ Responds("session")
  /\ ShowProfiles(profiles, Readable)
  /\ refreshes' = FALSE
  /\ UNCHANGED <<fileVars, currentView>>

\* showLockScreen changes the current view first, and stays on the screen when
\* it reads no PIN.
LockScreen ==
  /\ Responds("session")
  /\ currentView' = "lockscreen"
  /\ display' = IF Readable /\ user \in DOMAIN profiles /\ profiles[user] # {}
                THEN "lock" ELSE "session"
  /\ UNCHANGED <<fileVars, tiles, user, refreshes>>

\* The view before comes back, and currentView keeps its value.
Unlock ==
  /\ Responds("lock")
  /\ \E typed \in ShortPin : VerifyPin(user, typed)
  /\ display' = "session"
  /\ UNCHANGED <<fileVars, tiles, user, currentView, refreshes>>

\* setServerOnline, when the answer of the server has changed ...
OnlineChanges ==
  /\ display \in {"session", "lock"} /\ currentView = "dashboard"
  /\ refreshes' = TRUE
  /\ UNCHANGED <<fileVars, display, tiles, user, currentView>>

\* ... and what it does next, whatever the user has done meanwhile.
DashboardRefreshes ==
  /\ display \in {"session", "lock"} /\ refreshes
  /\ display' = "session" /\ currentView' = "dashboard"
  /\ refreshes' = FALSE
  /\ UNCHANGED <<fileVars, tiles, user>>

-----------------------------------------------------------------------------

RegistryNext ==
  \/ StartApp \/ SaveEnds \/ SaveFails \/ Ends
  \/ \E pin \in {{}} \cup {{p} : p \in AnyPin} : CreateProfile(pin) \/ UpdatePin(pin)
  \/ \E p \in DOMAIN tiles : SelectProfile(p)
  \/ EnterPin \/ LeaveKeypad
  \/ \E v \in {"dashboard", "other"} : ShowView(v)
  \/ BackToSelector \/ LockScreen \/ Unlock
  \/ OnlineChanges \/ DashboardRefreshes

RegistrySpec == RegistryInit /\ [][RegistryNext]_registryVars

-----------------------------------------------------------------------------
(* Properties *)

\* Whenever the registry can be read it holds every profile ever created, with
\* the PIN saved last: a save that broke off, by a crash or a full disk, is
\* never the start of a new and shorter registry, after any number of restarts;
\* and whoever waits at the keypad or in a session is one of them (GetProfiles,
\* saveProfiles).
ProfilesAreKept ==
  /\ Readable => profiles = saved
  /\ user # 0 => user \in DOMAIN saved
=============================================================================
