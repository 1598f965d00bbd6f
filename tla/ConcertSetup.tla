---------------------------- MODULE ConcertSetup ----------------------------
(***************************************************************************)
(* The set list editor (ui/concert_setup.go) on one concert, with the grid *)
(* of concerts it is opened from (ui/concert.go) and the rows of           *)
(* localdb/manager.go, while passes change those rows behind it.  What a   *)
(* pass does to them is in ConcertSync step by step; here it may do any of *)
(* it at any time.  The name, place and time of the concert are one with   *)
(* its row.  Foreign keys are off: the items of a removed row stay.        *)
(***************************************************************************)
EXTENDS Naturals, Sequences, FiniteSets

CONSTANTS
  Piece,    \* ids of scores
  Title,    \* what a user calls a break
  Break,    \* a break, of any length
  NoTitle,  \* the empty title
  MaxItems  \* bound: items of a set list, and sort orders

ASSUME ConcertSetupAssumption ==
  /\ Break \notin Piece /\ NoTitle \notin Title /\ MaxItems \in Nat \ {0}

VARIABLES
  library,     \* the scores on this stand
  concertRow,  \* the row in concerts: "none", "live" or "tomb"
  itemRows,    \* its rows in concert_items, as ORDER BY sort_order reads them
  card,        \* the copy of the concert in the grid: {} or one set list
  editor,      \* {}: closed; or what the editor holds
  born,        \* history: the concert has been made
  written,     \* history: the set list last written to a row that was there
  titled       \* history: <<n, t>>: a user called an item t that got order n

setupVars == <<library, concertRow, itemRows, card, editor, born, written, titled>>

Listed == [is : Piece \cup {Break}, title : Title \cup {NoTitle}]
Setlists == UNION {[1..n -> Listed] : n \in 0..MaxItems}

\* The rows of a table and the items of a response carry their sort orders, which
\* repeat: every push of an edited concert adds its items to those of the server
\* once more.
Order == 1..MaxItems
InOrder(s) == \A m, n \in DOMAIN s : m < n => s[m].order <= s[n].order
Row == [is : Piece \cup {Break}, title : Title \cup {NoTitle}, order : Order]
Item == [is : Piece \cup {Break}, order : Order]

\* "wanted" is history: how often the user has put each piece on the list.
Editor == [new : BOOLEAN, scores : SUBSET Piece, setlist : Setlists,
           wanted : [Piece \cup {Break} -> 0..MaxItems]]

SetupTypeOK ==
  /\ library \in SUBSET Piece
  /\ concertRow \in {"none", "live", "tomb"}
  /\ itemRows \in UNION {[1..n -> Row] : n \in 0..MaxItems} /\ InOrder(itemRows)
  /\ written \in Seq(Piece \cup {Break})
  /\ card \subseteq Setlists
  /\ editor \subseteq Editor
  /\ born \in BOOLEAN
  /\ titled \in SUBSET (Order \X Title)

SetupInit ==
  /\ library = {} /\ concertRow = "none" /\ itemRows = <<>>
  /\ card = {} /\ editor = {}
  /\ born = FALSE /\ written = <<>> /\ titled = {}

What(s) == [n \in DOMAIN s |-> s[n].is]

\* The rows of p in the list s.
RowsOf(s, p) == {n \in DOMAIN s : s[n].is = p}
Count(s, p) == Cardinality(RowsOf(s, p))

-----------------------------------------------------------------------------
(* Passes *)

\* Scores arrive and go.
LibraryChanges ==
  /\ library' \in SUBSET Piece \ {library}
  /\ UNCHANGED <<concertRow, itemRows, card, editor, born, written, titled>>

\* What the map from sort orders to titles may hold for the order o: the title of
\* the last row that was read.
Kept(o) ==
  LET titles == {itemRows[n].title : n \in {m \in DOMAIN itemRows :
                   itemRows[m].order = o /\ itemRows[m].title # NoTitle}}
  IN IF titles = {} THEN {NoTitle} ELSE titles

\* Mutant: the titles are kept by position.
SyncFromServerByPlace(s) ==
  /\ itemRows' = [n \in DOMAIN s |->
       [is |-> s[n].is, order |-> s[n].order,
        title |-> IF n \in DOMAIN itemRows THEN itemRows[n].title ELSE NoTitle]]
  /\ concertRow' = "live" /\ born' = TRUE /\ written' = What(s)
  /\ UNCHANGED <<library, card, editor, titled>>

\* SyncConcertFromServer, with the items the server sent by their sort orders: an
\* item takes the title that was kept for its order, be it one of several.
SyncFromServer(s) ==
  /\ \E kept \in [Order -> Title \cup {NoTitle}] :
       /\ \A o \in Order : kept[o] \in Kept(o)
       /\ itemRows' = [n \in DOMAIN s |->
            [is |-> s[n].is, order |-> s[n].order, title |-> kept[s[n].order]]]
  /\ concertRow' = "live" /\ born' = TRUE /\ written' = What(s)
  /\ UNCHANGED <<library, card, editor, titled>>

\* HardDeleteConcert.
Removed ==
  /\ concertRow # "none"
  /\ concertRow' = "none"
  /\ UNCHANGED <<library, itemRows, card, editor, born, written, titled>>

-----------------------------------------------------------------------------
(* The grid *)

Contents(rows) == [n \in DOMAIN rows |-> [is |-> rows[n].is, title |-> rows[n].title]]

Shown == IF concertRow = "live" THEN {Contents(itemRows)} ELSE {}

\* showConcertList and the search: updateGrid.
UpdateGrid ==
  /\ editor = {}
  /\ card' = Shown
  /\ UNCHANGED <<library, concertRow, itemRows, editor, born, written, titled>>

\* Delete on the card, confirmed.
MarkDeleted ==
  /\ editor = {} /\ card # {}
  /\ concertRow' = IF concertRow = "live" THEN "tomb" ELSE concertRow
  /\ card' = {}
  /\ UNCHANGED <<library, itemRows, editor, born, written, titled>>

-----------------------------------------------------------------------------
(* The editor *)

Opens(new, s) ==
  /\ editor' = {[new |-> new, scores |-> library, setlist |-> s,
                 wanted |-> [p \in Piece \cup {Break} |-> Count(s, p)]]}
  /\ UNCHANGED <<library, concertRow, itemRows, card, born, written, titled>>

OpenNew == editor = {} /\ ~born /\ Opens(TRUE, <<>>)

\* On the copy in the grid.  Items whose score is not on this stand are left
\* out, and with them what a save deletes from the row; only breaks keep a title.
OpenEdit ==
  /\ editor = {}
  /\ \E s \in card :
       LET known == {n \in DOMAIN s : s[n].is \in library \cup {Break}}
           Nth(m) == CHOOSE n \in known : Cardinality({k \in known : k <= n}) = m
       IN Opens(FALSE, [m \in 1..Cardinality(known) |->
            LET item == s[Nth(m)]
            IN IF item.is = Break THEN item ELSE [item EXCEPT !.title = NoTitle]])

Edits(e, s, wanted) ==
  /\ editor' = {[e EXCEPT !.setlist = s, !.wanted = wanted]}
  /\ UNCHANGED <<library, concertRow, itemRows, card, born, written, titled>>

Wants(e, p) == [e.wanted EXCEPT ![p] = @ + 1]

\* "Add" next to a score, among those that were there on opening, and the
\* dialog for a break.
AddItem(p, t) ==
  \E e \in editor :
    /\ p = Break \/ (p \in e.scores /\ t = NoTitle)
    /\ Len(e.setlist) < MaxItems
    /\ Edits(e, Append(e.setlist, [is |-> p, title |-> t]), Wants(e, p))

\* Mutant: one half of the swap.
MoveDownOver(n) ==
  \E e \in editor :
    /\ n < Len(e.setlist)
    /\ Edits(e, [e.setlist EXCEPT ![n + 1] = e.setlist[n]], e.wanted)

\* Down on row n; up on row n + 1 is the same.
MoveDown(n) ==
  \E e \in editor :
    /\ n < Len(e.setlist)
    /\ Edits(e, [e.setlist EXCEPT ![n] = e.setlist[n + 1], ![n + 1] = e.setlist[n]],
             e.wanted)

DeleteItem(n) ==
  \E e \in editor :
    /\ n <= Len(e.setlist)
    /\ Edits(e, SubSeq(e.setlist, 1, n - 1) \o SubSeq(e.setlist, n + 1, Len(e.setlist)),
             [e.wanted EXCEPT ![e.setlist[n].is] = @ - 1])

\* onSave: AddConcert, or UpdateConcert, which replaces the items, in order,
\* whether there is a row or not; then the grid, which is drawn anew.  A save that fails
\* leaves everything as it is.
SaveConcert ==
  \E e \in editor :
    /\ e.setlist # <<>>
    /\ e.new => ~born
    /\ itemRows' = [n \in DOMAIN e.setlist |->
         [is |-> e.setlist[n].is, title |-> e.setlist[n].title, order |-> n]]
    /\ concertRow' = IF e.new THEN "live" ELSE concertRow
    /\ born' = TRUE
    /\ written' = IF e.new \/ concertRow # "none" THEN What(e.setlist) ELSE written
    /\ titled' = titled \cup {<<n, e.setlist[n].title>> : n \in
                   {m \in DOMAIN e.setlist : e.setlist[m].title # NoTitle}}
    /\ editor' = {}
    /\ card' = IF e.new \/ concertRow = "live" THEN {e.setlist} ELSE {}
    /\ UNCHANGED library

\* The way back without saving.
GoBack ==
  /\ editor # {}
  /\ editor' = {} /\ card' = Shown
  /\ UNCHANGED <<library, concertRow, itemRows, born, written, titled>>

SetupNext ==
  \/ LibraryChanges \/ Removed
  \/ UpdateGrid \/ MarkDeleted
  \/ OpenNew \/ OpenEdit \/ SaveConcert \/ GoBack
  \/ \E m \in 0..MaxItems : \E s \in [1..m -> Item] : InOrder(s) /\ SyncFromServer(s)
  \/ \E p \in Piece \cup {Break}, t \in Title \cup {NoTitle} : AddItem(p, t)
  \/ \E n \in 1..MaxItems : MoveDown(n) \/ DeleteItem(n)

SetupSpec == SetupInit /\ [][SetupNext]_setupVars

-----------------------------------------------------------------------------
(* Properties *)

\* A concert has the pieces that were last written to it, and an item a title only
\* under a sort order that a user gave this title to.  (Orders repeat, so the title
\* may show on several items, also on a piece: the code keeps no other key.)  In
\* particular the items and titles that a save stores for a concert a pass has
\* removed meanwhile, under "Concert saved successfully" (localdb/manager.go:280),
\* do not show as its pieces when the concert comes back.
SetlistIsGenuine ==
  /\ concertRow # "none" => What(itemRows) = written
  /\ \A n \in DOMAIN itemRows : itemRows[n].title # NoTitle =>
       <<itemRows[n].order, itemRows[n].title>> \in titled

\* The indices the buttons keep (concert_setup.go:157) fit the list they are
\* drawn for: whatever is moved, added and deleted, every piece is on the list as
\* often as the editor found it and the user put it there.
EditorKeepsItems ==
  \A e \in editor : \A p \in Piece \cup {Break} : Count(e.setlist, p) = e.wanted[p]
=============================================================================
