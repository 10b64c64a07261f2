----------------------------- MODULE MCPostProc -----------------------------
(* PostProc on pictures of 8 by 2 and 8 by 3 pixels, with the depths and a *)
(* method of each kind that the camera configurations use.  frame_height   *)
(* is not given, or is one of the two heights whatever the height is set   *)
(* to; the second field starts where the half of a picture of 8 by 2 bytes *)
(* is.                                                                     *)
EXTENDS PostProc

OneWidth == {8}

SmallHeights == {2, 3}

SomeFrameHeights == {0, 2, 3}

SomeFields == {8}

(* depth and extdepth: bytes, words cut to bytes, Bayer, packed.           *)
SomeDepths == {<<8, 8>>, <<24, 8>>, <<12, 24>>, <<10, 8>>}

SomeInterlaces == {"FIELD_INTLC", "BYTE_TOPBOTTOM", "BGGR", "INV_RT_24_12", "10BIT_8TAP_PACKED"}
=============================================================================
