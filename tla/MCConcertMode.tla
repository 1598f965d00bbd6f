--------------------------- MODULE MCConcertMode ---------------------------
(* Small instances of ConcertMode. *)
EXTENDS ConcertMode, TLC

CONSTANTS a, b

\* A song of a page, and a break.
SongAndBreak == <<1, 0>>
\* A song of two pages, which a wide stand shows at once, and a break.
SpreadAndBreak == <<2, 0>>

OneNear == {<<b, a>>}

Streams == Permutations(Stream)
=============================================================================
