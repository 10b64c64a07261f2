------------------------------ MODULE PostProc ------------------------------
(***************************************************************************)
(* The buffers of deinterlacing in libpdv: a picture is read into a buffer *)
(* of the ring (or, by pdv_read, into tmpbuf) and put in order into an     *)
(* output buffer by the function pInterleaver names.  The function is      *)
(* looked up when the interlace method is set, the buffers are allocated   *)
(* by pdv_multibuf, and the size and the depth of the picture may change   *)
(* at any time: what was chosen and allocated then is used with what is    *)
(* set now.  What the functions do with the pixels is in Deinterlace; here *)
(* are the bytes they read and write.                                      *)
(*                                                                         *)
(* Built without USE_MMX, as makefile.def has it, and without modules that *)
(* are loaded at run time.  Frames have no header, fields no offset, the   *)
(* Bayer filters are taken to read and write a picture.  The framesync     *)
(* mode that makes a timeout of an image out of step (off unless a         *)
(* configuration turns it on) is left out of the wait and the read.        *)
(***************************************************************************)
EXTENDS Integers, FiniteSets

CONSTANTS
  Widths,     (* pixels per row, each a multiple of 8                       *)
  Heights,    (* rows                                                       *)
  FrameHeights, (* the frame_height of configurations, 0 for none           *)
  Fields,     (* their interlace: the byte where the second field starts    *)
  Depths,     (* depth and extdepth, as in configurations                   *)
  Interlaces, (* methods that are set                                       *)
  MaxBufs,    (* bound: buffers of the ring                                 *)
  MaxDone     (* bound: pictures between two allocations                    *)

ASSUME PostProcAssumption ==
  /\ \A w \in Widths : w \in Nat /\ w > 0 /\ w % 8 = 0
  /\ Heights \subseteq Nat \ {0} /\ FrameHeights \subseteq Nat /\ Fields \subseteq Nat
  /\ Depths \subseteq (1 .. 32) \X (1 .. 80)
  /\ MaxBufs \in Nat \ {0} /\ MaxDone \in Nat

VARIABLES
  width, height, depth, extdepth, swinterlace,   (* of the Dependent        *)
  frame_height, interlace,    (* of the Dependent too: nothing sets them    *)
                              (* after the configuration was read           *)
  processor,  (* pInterleaver                                               *)
  tmpbufsize,
  ring,       (* ring_buffer_numbufs and the size of each buffer            *)
  output,     (* output_buffers: how many, and the size of each             *)
  donecount,
  result,     (* what a wait or a read just did                             *)
  allocatedFor, (* history: the method when the ring was last allocated     *)
  agreed      (* history: the function and the buffers were chosen with     *)
              (* what is set now                                            *)

given == <<frame_height, interlace>>
ddVars == <<width, height, depth, extdepth, swinterlace, given>>
bufVars == <<ring, output, donecount, allocatedFor>>
vars == <<ddVars, processor, tmpbufsize, bufVars, result, agreed>>

NoInterlace == "none"
NoProc      == [func |-> NoInterlace, src |-> "NULL", dest |-> "NULL"]
NoBuffers   == [count |-> 0, size |-> 0]
NoResult    == [via |-> "none", by |-> NoInterlace, found |-> TRUE, fits |-> TRUE,
                known |-> TRUE]

-----------------------------------------------------------------------------

Proc(f, s, d) == [func |-> f, src |-> s, dest |-> d]

(* pdv_interlace.c's table.  EDT_TYPE_SHORT is none of the types a depth   *)
(* has, so that its entry is never found.                                  *)
built_in_postproc ==
  {Proc(f, "BYTE", "BYTE") : f \in
     {"BYTE_INTLV", "FIELD_INTLC", "DALSA_4CH", "DALSA_LS_4CH", "INVERT_RIGHT", "EVEN_RIGHT",
      "PIRANHA_4CH", "QUADRANT", "QUADRANT2", "QUADRANT3", "ILLUNIS", "1_8_MSB7", "1_8_MSB0",
      "LINE", "LINE_P3_8X4", "BYTE_MIDTOP_LINE", "BYTE_TOPBOTTOM", "BYTE_INOUT",
      "10BIT_8TAP_TO_8BIT"}}
  \cup
  {Proc(f, "USHORT", "USHORT") : f \in
     {"WORD_INTLV", "WORD_INTLV_ODD", "WORD_HILO", "FIELD_INTLC", "INVERT_RIGHT", "EVEN_RIGHT",
      "SPECINST_4PORT", "QUADRANT", "QUADRANT3", "HILO_LINE", "TOPMID_LINE", "WORD_MIDTOP_LINE",
      "WORD_TOPBOTTOM", "WORD_INOUT", "20BAND", "21BAND"}}
  \cup
  {Proc("PIRANHA_4CH", "USHORT", "BYTE"), Proc("ILLUNIS", "SHORT", "USHORT"),
   Proc("10BIT_8TAP_PACKED", "BYTE", "USHORT"),
   Proc("INV_RT_24_12", "BGR", "USHORT"), Proc("24_12", "BGR", "USHORT"),
   Proc("FIELD_INTLC", "BGR", "BGR"), Proc("BGR_2_RGB", "BGR", "BGR"),
   Proc("ES10_BGGR", "BYTE", "BGR"), Proc("BGGR", "BYTE", "BGR"),
   Proc("BGGR_WORD", "USHORT", "BGR"),
   Proc("INVERT_RIGHT_BGGR", "BYTE", "BGR"), Proc("INVERT_RIGHT_BGGR", "USHORT", "BGR")}

pixel_type_from_depth(d) ==
  CASE d <= 8 -> "BYTE" [] d \in 9 .. 16 -> "USHORT" [] d \in 17 .. 24 -> "BGR" [] d > 24 -> "BGRA"

(* The function for a method and the depths, or NoProc.                    *)
lookup_postproc(f, e, d) ==
  LET p == Proc(f, pixel_type_from_depth(e), pixel_type_from_depth(d))
  IN  IF p \in built_in_postproc THEN p ELSE NoProc

BytesOf(type) == CASE type = "BYTE" -> 1 [] type = "USHORT" -> 2 [] type = "BGR" -> 3

(* The rows pdv_deinterlace hands to the function: frame_height, if there  *)
(* is one, whatever height the picture has.                                *)
Rows == IF frame_height # 0 THEN frame_height ELSE height

(* Methods that take two rows at a time without asking whether there is a  *)
(* second one, and those of them that write it.                            *)
TwoRows ==
  {"WORD_INTLV", "WORD_INTLV_ODD", "WORD_HILO", "BYTE_TOPBOTTOM", "WORD_TOPBOTTOM",
   "BYTE_MIDTOP_LINE", "WORD_MIDTOP_LINE", "QUADRANT"}

TwoRowsOut == {"WORD_INTLV", "WORD_INTLV_ODD", "BYTE_MIDTOP_LINE", "WORD_MIDTOP_LINE"}

(* Methods that go on for a whole row where half a row is left.            *)
InOut == {"BYTE_INOUT", "WORD_INOUT"}

RowsRead(p)    == IF p.func \in TwoRows THEN Rows + (Rows % 2) ELSE Rows
RowsWritten(p) == IF p.func \in TwoRowsOut THEN Rows + (Rows % 2) ELSE Rows

(* The bytes of n pixels that a function reads and writes.                 *)
ReadsOf(p, n) ==
  CASE p.func \in {"INV_RT_24_12", "24_12"} -> (3 * n) \div 2
    [] p.func \in {"10BIT_8TAP_PACKED", "10BIT_8TAP_TO_8BIT"} -> n + n \div 4
    [] p.func \in {"1_8_MSB7", "1_8_MSB0"} -> n \div 8
    [] p.func = "PIRANHA_4CH" -> n
    [] OTHER -> BytesOf(p.src) * n

WritesOf(p, n) == IF p.func = "PIRANHA_4CH" THEN n ELSE BytesOf(p.dest) * n

(* Up to which byte a function reads and writes.  Fields: the second one   *)
(* starts where the configuration says, and an odd row is left out.        *)
Reads(p) ==
  IF p.func = "FIELD_INTLC" THEN interlace + BytesOf(p.src) * (width * (Rows \div 2))
  ELSE ReadsOf(p, width * RowsRead(p) * (IF p.func \in InOut THEN 2 ELSE 1))

Writes(p) ==
  CASE p.func = "FIELD_INTLC" -> BytesOf(p.dest) * (width * (2 * (Rows \div 2)))
    [] p.func \in InOut -> BytesOf(p.dest) * (width * Rows + width \div 2)
    [] OTHER -> WritesOf(p, width * RowsWritten(p))

(* pdv_bytes_per_line, of as many pixels as there are: a picture is its    *)
(* rows times a line, and lines are eights of pixels.                      *)
bytes_per_line(n, d) ==
  CASE d = 1 -> n \div 8 [] d = 2 -> n \div 4 [] d = 4 -> n \div 2
    [] d = 80 -> n + n \div 4 [] OTHER -> n * ((d + 7) \div 8)

(* Mutant: packed pixels are counted as their upper bits.                  *)
dmasizeUnpacked(n, d, e, i) ==
  IF i = "INV_RT_24_12" THEN (n * 3) \div 2 ELSE bytes_per_line(n, IF d > e THEN e ELSE d)

(* pdv_get_dmasize, of a picture of n pixels.                              *)
dmasize(n, d, e, i) ==
  CASE i = "INV_RT_24_12" -> (n * 3) \div 2
    [] i \in {"10BIT_8TAP_PACKED", "10BIT_8TAP_TO_8BIT"} -> bytes_per_line(n, 80)
    [] OTHER -> bytes_per_line(n, IF d > e THEN e ELSE d)

imagesize(n, d) == bytes_per_line(n, d)

Pixels == width * height

(* pdv_alloc_tmpbuf.                                                       *)
TmpSize(n, d, e, i) ==
  IF i = NoInterlace THEN tmpbufsize
  ELSE IF imagesize(n, d) > dmasize(n, d, e, i) THEN imagesize(n, d) ELSE dmasize(n, d, e, i)

-----------------------------------------------------------------------------

(* pdv_multibuf: the ring and, for a method, the output buffers.           *)
Allocate(num, n, d, e, i) ==
  /\ ring' = [count |-> num, size |-> dmasize(n, d, e, i)]
  /\ output' = IF i = NoInterlace THEN NoBuffers ELSE [count |-> num, size |-> imagesize(n, d)]
  /\ donecount' = 0 /\ allocatedFor' = i

(* Mutant: the buffers are allocated by the next pdv_multibuf only.        *)
UpdateSizeLater(n, d, e, i) ==
  /\ UNCHANGED bufVars
  /\ tmpbufsize' = TmpSize(n, d, e, i)

(* pdv_update_size, after the size or the depth of the picture changed.    *)
UpdateSize(n, d, e, i) ==
  /\ IF ring.count > 0 THEN Allocate(ring.count, n, d, e, i)
     ELSE UNCHANGED bufVars
  /\ tmpbufsize' = TmpSize(n, d, e, i)

(* pdv_setup_postproc: a method that is not found leaves the function.     *)
Setup(d, e, i) ==
  LET p == lookup_postproc(i, e, d)
  IN  IF i = NoInterlace \/ p = NoProc THEN processor ELSE p

(* A function and buffers that were chosen with the present method and     *)
(* depths.  Cameras that send single bits need a method for them.          *)
Agree(i, e, d) ==
  /\ lookup_postproc(i, e, d) = processor
  /\ e = 1 => i \in {"1_8_MSB7", "1_8_MSB0", NoInterlace}

(* The program has not ended at a NULL pointer.                            *)
Running == result.found

(* pdv_setsize, pdv_set_width, pdv_set_height.                             *)
SetSize ==
  /\ Running
  /\ \E w \in Widths, h \in Heights :
       width' = w /\ height' = h /\ UpdateSize(w * h, depth, extdepth, swinterlace)
  /\ result' = NoResult
  /\ UNCHANGED <<depth, extdepth, swinterlace, given, processor, agreed>>

(* pdv_set_depth_extdepth_dpath.                                           *)
SetDepth ==
  /\ Running
  /\ \E de \in Depths :
       /\ depth' = de[1] /\ extdepth' = de[2]
       /\ UpdateSize(Pixels, de[1], de[2], swinterlace)
       /\ agreed' = (agreed /\ Agree(swinterlace, de[2], de[1]))
  /\ result' = NoResult
  /\ UNCHANGED <<width, height, swinterlace, given, processor>>

(* pdv_set_extdepth allocates nothing.                                     *)
SetExtdepth ==
  /\ Running
  /\ \E de \in Depths : extdepth' = de[2]
  /\ agreed' = FALSE /\ result' = NoResult
  /\ UNCHANGED <<width, height, depth, swinterlace, given, processor, tmpbufsize, bufVars>>

(* pdv_set_interlace allocates nothing either.                             *)
SetInterlace ==
  /\ Running
  /\ \E i \in Interlaces \cup {NoInterlace} :
       swinterlace' = i /\ processor' = Setup(depth, extdepth, i)
  /\ agreed' = FALSE /\ result' = NoResult
  /\ UNCHANGED <<width, height, depth, extdepth, given, tmpbufsize, bufVars>>

Multibuf ==
  /\ Running
  /\ \E num \in 1 .. MaxBufs : Allocate(num, Pixels, depth, extdepth, swinterlace)
  /\ agreed' = Agree(swinterlace, extdepth, depth)
  /\ result' = NoResult
  /\ UNCHANGED <<ddVars, processor, tmpbufsize>>

(* What the configuration has to see to, and nothing in libpdv does: that  *)
(* the rows the function takes are rows of the picture, that the second    *)
(* field starts in its first half, and that the method is not one of two   *)
(* that leave any picture.                                                 *)
Suits(p) ==
  /\ RowsRead(p) <= height /\ p.func \notin InOut
  /\ p.func = "FIELD_INTLC" => 2 * interlace <= dmasize(Pixels, depth, extdepth, swinterlace)

(* pdv_deinterlace from a buffer of one size into a buffer of another: by  *)
(* the function that is set up, or the one it sets up now; the picture     *)
(* stays out of order when there is none.                                  *)
Deinterlace(via, from, to) ==
  LET p == IF processor = NoProc THEN Setup(depth, extdepth, swinterlace) ELSE processor
  IN  /\ processor' = p
      /\ result' = [via |-> via, by |-> p.func, found |-> TRUE,
                    known |-> agreed /\ Suits(p),
                    fits |-> p = NoProc \/ (Reads(p) <= from /\ Writes(p) <= to)]

(* pdv_wait_images returns an output buffer, by the count of the pictures. *)
(* It takes it from the array of output buffers without asking whether     *)
(* there is one: a method that was set after the ring was allocated has    *)
(* none, and the program ends at the NULL pointer.                         *)
WaitImages ==
  /\ Running
  /\ ring.count > 0 /\ donecount < MaxDone
  /\ donecount' = donecount + 1
  /\ \/ /\ swinterlace = NoInterlace
        /\ result' = [NoResult EXCEPT !.via = "wait", !.known = agreed]
        /\ UNCHANGED <<processor, tmpbufsize>>
     \/ /\ swinterlace # NoInterlace
        /\ tmpbufsize' = TmpSize(Pixels, depth, extdepth, swinterlace)
        /\ IF output = NoBuffers
           THEN /\ result' = [NoResult EXCEPT !.via = "wait", !.found = FALSE, !.known = agreed]
                /\ UNCHANGED processor
           ELSE Deinterlace("wait", ring.size,
                  IF donecount' % ring.count < output.count THEN output.size ELSE 0)
  /\ UNCHANGED <<ddVars, ring, output, allocatedFor, agreed>>

(* pdv_read into a buffer the size of the image; it calls pdv_deinterlace  *)
(* when no method is set, too.                                             *)
Read ==
  /\ Running
  /\ tmpbufsize' = TmpSize(Pixels, depth, extdepth, swinterlace)
  /\ Deinterlace("read",
       IF swinterlace = NoInterlace THEN imagesize(Pixels, depth) ELSE tmpbufsize',
       imagesize(Pixels, depth))
  /\ UNCHANGED <<ddVars, bufVars, agreed>>

(* pdv_open_channel, on a board that initcam has configured.               *)
Init ==
  /\ width \in Widths /\ height \in Heights
  /\ frame_height \in FrameHeights /\ interlace \in Fields
  /\ \E de \in Depths : depth = de[1] /\ extdepth = de[2]
  /\ swinterlace \in Interlaces \cup {NoInterlace}
  /\ processor = lookup_postproc(swinterlace, extdepth, depth)
  /\ tmpbufsize = 0 /\ ring = NoBuffers /\ output = NoBuffers /\ donecount = 0
  /\ allocatedFor = NoInterlace
  /\ result = NoResult
  /\ agreed = Agree(swinterlace, extdepth, depth)

Next == SetSize \/ SetDepth \/ SetExtdepth \/ SetInterlace \/ Multibuf \/ WaitImages \/ Read

Spec == Init /\ [][Next]_vars

(***************************************************************************)
(* Properties.                                                             *)
(***************************************************************************)

Sizes == [count : 0 .. MaxBufs, size : Nat]

Results == [via : {"none", "wait", "read"}, by : Interlaces \cup {NoInterlace},
            found : BOOLEAN, fits : BOOLEAN, known : BOOLEAN]

TypeOK ==
  /\ width \in Widths /\ height \in Heights /\ depth \in 1 .. 32 /\ extdepth \in 1 .. 80
  /\ frame_height \in FrameHeights /\ interlace \in Fields
  /\ swinterlace \in Interlaces \cup {NoInterlace}
  /\ allocatedFor \in Interlaces \cup {NoInterlace}
  /\ processor \in built_in_postproc \cup {NoProc}
  /\ tmpbufsize \in Nat /\ ring \in Sizes /\ output \in Sizes
  /\ donecount \in 0 .. MaxDone
  /\ result \in Results
  /\ agreed \in BOOLEAN

(* Whatever order the sizes, the depths, the method and the ring are set   *)
(* in: there are output buffers exactly when the ring was last allocated,  *)
(* by pdv_multibuf or by a change of size or depth, with a method set;     *)
(* they are as many as the ring has and of the size of the picture as it   *)
(* is now.  So pdv_wait_images finds none only for a method that was set   *)
(* after the allocation.                                                   *)
OutputFollowsPicture ==
  /\ output = IF ring.count = 0 \/ allocatedFor = NoInterlace THEN NoBuffers
              ELSE [count |-> ring.count, size |-> imagesize(Pixels, depth)]
  /\ ~result.found => allocatedFor = NoInterlace

(* A picture that is put in order by the function looked up for the depths *)
(* and the method that are set, after pdv_multibuf allocated for them,     *)
(* finds its output buffer and is read and written within its buffers, for *)
(* every entry of the table, provided the configured frame_height and      *)
(* interlace suit the height it has then (Suits).                          *)
FitsWhenAgreed == result.known => result.found /\ result.fits

(***************************************************************************)
(* The inductive invariant behind these.                                   *)
(***************************************************************************)

(* The depths are those of configurations and the function is one that was *)
(* looked up for a method.                                                 *)
Chosen ==
  /\ \E de \in Depths : depth = de[1]
  /\ \E de \in Depths : extdepth = de[2]
  /\ processor.func \in Interlaces \cup {NoInterlace}

(* As long as the function and the buffers agree with what is set, they    *)
(* are what a look at the table and an allocation would give now.          *)
AgreedIsNow ==
  agreed =>
    /\ Agree(swinterlace, extdepth, depth)
    /\ ring.count > 0 => /\ ring.size = dmasize(Pixels, depth, extdepth, swinterlace)
                         /\ allocatedFor = swinterlace

IndInv == TypeOK /\ Chosen /\ AgreedIsNow /\ OutputFollowsPicture

=============================================================================
