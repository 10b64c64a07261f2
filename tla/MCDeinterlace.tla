--------------------------- MODULE MCDeinterlace ---------------------------
(* Deinterlace on small pictures: every width up to 8 and 16, every height *)
(* up to 6, odd ones included.                                             *)
EXTENDS Deinterlace

SmallWidths == 1 .. 8 \cup {16}

SmallHeights == 1 .. 6
=============================================================================
