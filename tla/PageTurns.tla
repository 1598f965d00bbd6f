----------------------------- MODULE PageTurns -----------------------------
(***************************************************************************)
(* The viewer of practice mode (ui/practice.go, showScore) and the overlay *)
(* that turns its pages by gaze (ui/gaze_overlay.go).  Taps and resizes    *)
(* run on the UI goroutine; the goroutine of the overlay calls the same    *)
(* handlers.  They share currentPage without a lock, so a turn is taken    *)
(* apart into its loads and stores.  A page of the score renders always.   *)
(***************************************************************************)
EXTENDS Integers

CONSTANTS
  Pages,    \* totalPages
  MaxDrift  \* bound: how far racing turns take the page out of the score

ASSUME PagesAssumption == Pages \in Nat \ {0} /\ MaxDrift \in Nat \ 0..1

VARIABLES
  currentPage,
  spread,    \* currentPagesToShow
  onScreen,  \* what the container shows: the first page, or Failed
  hand,      \* how far the handler of a tap, and of a gaze, is
  overlap,   \* history: one handler has begun or gone on within the other
  enabled,   \* the preference eyetrack_enabled
  gaze,      \* the overlay's goroutine: "listens", "turns", "sleeps" or "gone"
  target,    \* its currentTarget
  viewing    \* the viewer is open

pageVars == <<currentPage, spread, onScreen, overlap>>
gazeVars == <<gaze, target>>
turnVars == <<pageVars, hand, enabled, gazeVars, viewing>>

-----------------------------------------------------------------------------

Failed == Pages + 99  \* "Error rendering page"
Hand == {"tap", "gaze"}
Idle == [at |-> "idle", page |-> 0]
MaxSpread == 2
OnTheWay == (-MaxDrift)..(Pages + MaxDrift)

TurnTypeOK ==
  /\ currentPage \in OnTheWay
  /\ spread \in 1..MaxSpread
  /\ onScreen \in 0..(Pages - 1) \cup {Failed}
  /\ hand \in [Hand -> [at : {"idle", "back", "on", "put back", "put on", "clamp",
                              "render", "show"},
                        page : OnTheWay \cup {Failed}]]
  /\ overlap \in BOOLEAN
  /\ enabled \in BOOLEAN
  /\ gaze \in {"listens", "turns", "sleeps", "gone"}
  /\ target \in {"", "PREV", "NEXT"}
  /\ viewing \in BOOLEAN

TurnInit ==
  /\ currentPage = 0 /\ spread = 1 /\ onScreen = 0
  /\ hand = [h \in Hand |-> Idle]
  /\ overlap = FALSE
  /\ enabled \in BOOLEAN
  /\ gaze = "listens" /\ target = ""
  /\ viewing = TRUE

-----------------------------------------------------------------------------
(* The handlers of PREV and NEXT, in steps *)

Busy(h) == hand[h].at # "idle"
To(h, step, p) == hand' = [hand EXCEPT ![h] = [at |-> step, page |-> p]]
Overlaps == overlap' = (overlap \/ \A h \in Hand : Busy(h))

\* The check on entry: nothing happens at the first page ...
PrevTapped(h) == To(h, IF currentPage > 0 THEN "back" ELSE "idle", 0)

\* ... and none at the last.
NextTapped(h) == To(h, IF currentPage + spread < Pages THEN "on" ELSE "idle", 0)

\* currentPage -= and += currentPagesToShow: a load ...
TurnLoads(h) ==
  /\ \/ hand[h].at = "back" /\ To(h, "put back", currentPage - spread)
     \/ hand[h].at = "on" /\ To(h, "put on", currentPage + spread)
  /\ hand'[h].page \in OnTheWay
  /\ Overlaps
  /\ UNCHANGED <<currentPage, spread, onScreen, enabled, gazeVars, viewing>>

\* ... and a store.
TurnStores(h) ==
  /\ hand[h].at \in {"put back", "put on"}
  /\ currentPage' = hand[h].page
  /\ To(h, IF hand[h].at = "put back" THEN "clamp" ELSE "render", 0)
  /\ Overlaps
  /\ UNCHANGED <<spread, onScreen, enabled, gazeVars, viewing>>

\* Mutant: the first page is not the limit.
TurnClampsNot(h) ==
  /\ hand[h].at = "clamp"
  /\ currentPage' = currentPage
  /\ To(h, "render", 0)
  /\ Overlaps
  /\ UNCHANGED <<spread, onScreen, enabled, gazeVars, viewing>>

TurnClamps(h) ==
  /\ hand[h].at = "clamp"
  /\ currentPage' = IF currentPage < 0 THEN 0 ELSE currentPage
  /\ To(h, "render", 0)
  /\ Overlaps
  /\ UNCHANGED <<spread, onScreen, enabled, gazeVars, viewing>>

\* renderPages takes the images of the page it finds (GetPageImage), and then
\* shows them; from a closed document it may get anything.
Renders(h) ==
  /\ hand[h].at = "render"
  /\ \/ To(h, "show", IF currentPage \in 0..(Pages - 1) THEN currentPage ELSE Failed)
     \/ ~viewing /\ To(h, "show", Failed)
  /\ Overlaps
  /\ UNCHANGED <<currentPage, spread, onScreen, enabled, gazeVars, viewing>>

Shows(h) ==
  /\ hand[h].at = "show"
  /\ onScreen' = hand[h].page
  /\ To(h, "idle", 0)
  /\ Overlaps
  /\ UNCHANGED <<currentPage, spread, enabled, gazeVars, viewing>>

-----------------------------------------------------------------------------
(* The UI goroutine *)

AtViewer == viewing /\ ~Busy("tap")

Tap ==
  /\ AtViewer
  /\ PrevTapped("tap") \/ NextTapped("tap")
  /\ UNCHANGED <<pageVars, enabled, gazeVars, viewing>>

\* The viewer gets another shape, and shows one page or two (getPagesToShow).
Resize(n) ==
  /\ AtViewer
  /\ n # spread /\ n <= Pages
  /\ spread' = n
  /\ To("tap", "render", 0)
  /\ overlap' = (overlap \/ Busy("gaze"))
  /\ UNCHANGED <<currentPage, onScreen, enabled, gazeVars, viewing>>

SetEnabled(on) ==
  /\ AtViewer
  /\ enabled' = on
  /\ UNCHANGED <<pageVars, hand, gazeVars, viewing>>

\* Exit closes stopChan and the document; a turn by gaze may be under way, and
\* goes on.
Exit ==
  /\ AtViewer
  /\ viewing' = FALSE
  /\ UNCHANGED <<pageVars, hand, enabled, gazeVars>>

-----------------------------------------------------------------------------
(* The goroutine of the overlay *)

\* A point of the channel, sent now or left from an earlier viewer; after Exit
\* the select may still prefer it.  The time a target counts from is that of
\* its first point: how many points came meanwhile does not matter.
GazePoint(t) ==
  /\ gaze = "listens"
  /\ \/ ~enabled /\ target' = "" /\ UNCHANGED <<gaze, hand>>
     \/ enabled /\ target # t /\ target' = t /\ UNCHANGED <<gaze, hand>>
     \/ /\ enabled /\ target = t /\ t # ""
        /\ gaze' = "turns"
        /\ IF t = "PREV" THEN PrevTapped("gaze") ELSE NextTapped("gaze")
        /\ UNCHANGED target
  /\ UNCHANGED <<pageVars, enabled, viewing>>

GazeSleeps ==
  /\ gaze = "turns" /\ ~Busy("gaze")
  /\ gaze' = "sleeps"
  /\ UNCHANGED <<pageVars, hand, enabled, target, viewing>>

GazeWakes ==
  /\ gaze = "sleeps"
  /\ gaze' = "listens" /\ target' = ""
  /\ UNCHANGED <<pageVars, hand, enabled, viewing>>

GazeStops ==
  /\ gaze = "listens" /\ ~viewing
  /\ gaze' = "gone"
  /\ UNCHANGED <<pageVars, hand, enabled, target, viewing>>

-----------------------------------------------------------------------------

TurnNext ==
  \/ \E h \in Hand : \/ TurnLoads(h) \/ TurnStores(h) \/ TurnClamps(h)
                     \/ Renders(h) \/ Shows(h)
  \/ Tap \/ Exit
  \/ \E n \in 1..MaxSpread : Resize(n)
  \/ \E on \in BOOLEAN : SetEnabled(on)
  \/ \E t \in {"", "PREV", "NEXT"} : GazePoint(t)
  \/ GazeSleeps \/ GazeWakes \/ GazeStops

TurnSpec == TurnInit /\ [][TurnNext]_turnVars

-----------------------------------------------------------------------------
(* Properties *)

\* As long as a tap and a gaze have never turned at the same time, the current
\* page is a page of the score whenever no handler is at work, and the one that
\* is shown, however resizes change the width of a turn in between (prevBtn,
\* nextBtn).  Once they have, the page may lie outside the score.
PageAtRest ==
  viewing /\ ~overlap /\ (\A h \in Hand : ~Busy(h)) =>
    currentPage \in 0..(Pages - 1) /\ onScreen = currentPage
=============================================================================
