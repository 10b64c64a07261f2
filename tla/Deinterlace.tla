---------------------------- MODULE Deinterlace ----------------------------
(***************************************************************************)
(* pdv_interlace.c: cameras with several taps send the pixels of a picture *)
(* in the order in which the taps read them; the deIntlv functions put     *)
(* each pixel where it belongs.                                            *)
(*                                                                         *)
(* Every one of them walks a few pointers over the picture: each starts    *)
(* somewhere, goes a step after each pixel and to its next line after each *)
(* line.  A method is that walk, and one step of the system is one round   *)
(* of the method's outer loop.  Positions are counted from the beginning   *)
(* of the buffer, row after row; a pixel is the number under which it came *)
(* from the camera.  The 8 and 16 bit variants of a method are one here    *)
(* where they differ only in the type of the pixel.                        *)
(***************************************************************************)
EXTENDS Integers, Sequences, FiniteSets, FiniteSetsExt

CONSTANTS
  Methods,    (* the methods that are looked at                             *)
  Widths,     (* pixels per row                                             *)
  Heights,    (* rows                                                       *)
  Bands       (* bands of XXband_16: 20 or 21 in the code                   *)

AllMethods ==
  {"ES10_8", "ES10_16", "ES10_16_odd", "ES10_16_hilo", "TopBottom", "InOut",
   "piranha_8", "dalsa_4ch_8", "dalsa_ls_4ch_8", "specinst_4ch_16", "8tap",
   "quad", "quad2", "quad3", "4ch_ill_16", "4ch_ill_8", "line_taps_8x4_inv_rt",
   "2ch_inv_rt_24_12", "2ch_24_12", "1_8_msb", "inv_rt", "2ch_even_rt",
   "MidTop_Line", "TopMid_Line", "HiLo_Line", "XXband_16", "merge_fields"}

(* The methods that do what they are for; README.md names what is wrong    *)
(* with the four others.                                                   *)
MethodsInOrder == AllMethods \ {"InOut", "dalsa_4ch_8", "quad2", "HiLo_Line"}

(* The methods whose loops go on in twos whether or not the rows, or half  *)
(* rows, come in twos: for these the walks below are those of the code for *)
(* pictures of every size.                                                 *)
AnyRows ==
  {"ES10_8", "ES10_16", "ES10_16_odd", "ES10_16_hilo", "TopBottom", "MidTop_Line", "InOut"}

ASSUME DeinterlaceAssumption ==
  /\ Methods \subseteq AllMethods
  /\ Widths \subseteq Nat \ {0} /\ Heights \subseteq Nat \ {0}
  /\ Bands \in Nat \ {0}

VARIABLES
  method, width,
  rows,       (* what pdv_deinterlace passes: frame_height of the           *)
              (* configuration if there is one, the height if there is none *)
  inPlace,    (* source and destination are one buffer                      *)
  dest,       (* the pixel at each position; Empty where none was put       *)
  line,       (* rounds of the outer loop that are over                     *)
  strayed     (* something was written beside the picture                   *)

vars == <<method, width, rows, inPlace, dest, line, strayed>>

Empty == -1

-----------------------------------------------------------------------------
(* A walk: the pointers, each with its start, its step from pixel to pixel *)
(* and its way from line to line, for so many lines of so many pixels; and *)
(* the order in which the pixels of the pointers lie in the source: one    *)
(* pixel of each, one line of each, or one whole field of each.            *)

Walk(lines, cols, start, step, next) ==
  [lines |-> lines, cols |-> cols, start |-> start, step |-> step, next |-> next,
   order |-> "pixel"]

ByLine(w) == [w EXCEPT !.order = "line"]

ByField(w) == [w EXCEPT !.order = "field"]

Half(n) == n \div 2

HalfUp(n) == (n + 1) \div 2

(* Mutant: a last odd row is taken for two.                                *)
ES10_8RoundsUp(w, h) ==
  Walk(HalfUp(h), w, <<0, w>>, <<1, 1>>, <<2 * w, 2 * w>>)

(* Two rows at a time.  The byte variant stops before a last odd row.      *)
ES10_8(w, h) ==
  Walk(Half(h), w, <<0, w>>, <<1, 1>>, <<2 * w, 2 * w>>)

ES10_16(w, h) ==
  Walk(HalfUp(h), w, <<0, w>>, <<1, 1>>, <<2 * w, 2 * w>>)

ES10_16_odd(w, h) ==
  Walk(HalfUp(h), w, <<w, 0>>, <<1, 1>>, <<2 * w, 2 * w>>)

(* Two images one above the other.                                         *)
ES10_16_hilo(w, h) ==
  Walk(HalfUp(h), w, <<0, w * Half(h)>>, <<1, 1>>, <<w, w>>)

(* Top down and bottom up.                                                 *)
TopBottom(w, h) ==
  Walk(HalfUp(h), w, <<0, w * (h - 1)>>, <<1, 1>>, <<w, -w>>)

(* From the center out; the loop goes on for a whole row.                  *)
InOut(w, h) ==
  Walk(h, w, <<Half(w) - 1, Half(w)>>, <<-1, 1>>, <<w, w>>)

(* Left side normal, right side inwards and swapped.                       *)
piranha_8(w, h) ==
  Walk(h, (w + 3) \div 4, <<0, 1, w - 2, w - 1>>, <<2, 2, -2, -2>>, <<w, w, w, w>>)

dalsa_4ch_8(w, h) ==
  LET swidth == w \div 4 - 1
  IN  Walk(h, w \div 4, <<0, swidth, 2 * swidth, 3 * swidth>>, <<1, 1, 1, 1>>, <<w, w, w, w>>)

dalsa_ls_4ch_8(w, h) ==
  Walk(h, (w + 3) \div 4, <<0, 1, w - 2, w - 1>>, <<2, 2, -2, -2>>, <<w, w, w, w>>)

(* From the corners to the center: lower left, lower right, upper left,    *)
(* upper right.                                                            *)
specinst_4ch_16(w, h) ==
  Walk(Half(h), Half(w), <<w * (h - 1), w * (h - 1) + w - 1, 0, w - 1>>,
       <<1, -1, 1, -1>>, <<-w, -w, w, w>>)

(* Eight bytes with the upper bits, two with the lower ones.               *)
Packed8Tap(w, h) ==
  LET groups == (w + 7) \div 8
  IN  Walk(h, groups, <<0, 1, 2, 3, 4, 5, 6, 7>>, [c \in 1 .. 8 |-> 8],
           [c \in 1 .. 8 |-> 8 * groups])

(* One quadrant after the other in the code.                               *)
quad(w, h) ==
  Walk(Half(h), Half(w), <<0, w - 1, w * (h - 1), w * (h - 1) + w - 1>>,
       <<1, -1, 1, -1>>, <<w, w, -w, -w>>)

(* The middle pointers start width * y / 2 below the upper ones.           *)
quad2(w, h) ==
  Walk(Half(h), Half(w), <<0, Half(w), 0, Half(w)>>, <<1, 1, 1, 1>>,
       <<w, w, w + Half(w), w + Half(w)>>)

(* From the center to the corners.                                         *)
quad3(w, h) ==
  LET top == (Half(h) - 1) * w + Half(w)
      low == Half(h) * w + Half(w)
  IN  Walk(Half(h), Half(w), <<top - 1, top, low - 1, low>>, <<-1, 1, -1, 1>>,
           <<-w, -w, w, w>>)

ill_16(w, h) ==
  Walk(Half(h), Half(w), <<w * (h - 1) + w - 1, w - 1, w * (h - 1), 0>>,
       <<-1, -1, 1, 1>>, <<-w, w, -w, w>>)

ill_8(w, h) ==
  Walk(Half(h), Half(w), <<0, w * (h - 1), w - 1, w * (h - 1) + w - 1>>,
       <<1, 1, -1, -1>>, <<w, -w, w, -w>>)

line_taps_8x4_inv_rt(w, h) ==
  Walk(h, (w + 3) \div 4, <<0, w \div 4, 3 * (w \div 4) - 1, w - 1>>,
       <<1, 1, -1, -1>>, <<w, w, w, w>>)

(* The first half of a line, and the second half reversed.                 *)
inv_rt_24_12(w, h) ==
  Walk(h, Half(w), <<w - 1, 0>>, <<-1, 1>>, <<w, w>>)

intlv_24_12(w, h) ==
  Walk(h, Half(w), <<0, 1>>, <<2, 2>>, <<w, w>>)

(* Eight pixels of one bit each.                                           *)
one_bit(w, h) ==
  Walk(h, w \div 8, <<0, 1, 2, 3, 4, 5, 6, 7>>, [c \in 1 .. 8 |-> 8], [c \in 1 .. 8 |-> w])

inv_rt(w, h) ==
  Walk(h, Half(w), <<0, w - 1>>, <<1, -1>>, <<w, w>>)

even_rt(w, h) ==
  Walk(h, w - Half(w), <<0, Half(w)>>, <<1, 1>>, <<w, w>>)

(* Mutant: the lower half starts in the middle of a row.                   *)
MidTop_LineOff(w, h) ==
  ByLine(Walk(HalfUp(h), w, <<w * Half(h) - w, w * Half(h) - Half(w)>>, <<1, 1>>, <<-w, w>>))

(* Whole lines: from the middle to the top and to the bottom; from the top *)
(* and from the middle; from the top and from the bottom.                  *)
MidTop_Line(w, h) ==
  ByLine(Walk(HalfUp(h), w, <<w * Half(h) - w, w * Half(h)>>, <<1, 1>>, <<-w, w>>))

TopMid_Line(w, h) ==
  ByLine(Walk(HalfUp(h), w, <<0, w * Half(h)>>, <<1, 1>>, <<w, w>>))

HiLo_Line(w, h) ==
  ByLine(Walk(HalfUp(h), w, <<0, w * (h - 1) - 1>>, <<1, 1>>, <<w, -w>>))

XXband_16(w, h) ==
  LET lpb == h \div Bands
  IN  Walk(lpb, w, [b \in 1 .. Bands |-> (b - 1) * w * lpb], [b \in 1 .. Bands |-> 1],
           [b \in 1 .. Bands |-> w])

(* Without an offset: with one, the last line repeats pixels of the even   *)
(* field.                                                                  *)
merge_fields(w, h) ==
  ByField(Walk(Half(h), w, <<0, w>>, <<1, 1>>, <<2 * w, 2 * w>>))

(* The function the table and its wrapper lead to.                         *)
process(m, w, h) ==
  CASE m = "ES10_8" -> ES10_8(w, h)
    [] m = "ES10_16" -> ES10_16(w, h)
    [] m = "ES10_16_odd" -> ES10_16_odd(w, h)
    [] m = "ES10_16_hilo" -> ES10_16_hilo(w, h)
    [] m = "TopBottom" -> TopBottom(w, h)
    [] m = "InOut" -> InOut(w, h)
    [] m = "piranha_8" -> piranha_8(w, h)
    [] m = "dalsa_4ch_8" -> dalsa_4ch_8(w, h)
    [] m = "dalsa_ls_4ch_8" -> dalsa_ls_4ch_8(w, h)
    [] m = "specinst_4ch_16" -> specinst_4ch_16(w, h)
    [] m = "8tap" -> Packed8Tap(w, h)
    [] m = "quad" -> quad(w, h)
    [] m = "quad2" -> quad2(w, h)
    [] m = "quad3" -> quad3(w, h)
    [] m = "4ch_ill_16" -> ill_16(w, h)
    [] m = "4ch_ill_8" -> ill_8(w, h)
    [] m = "line_taps_8x4_inv_rt" -> line_taps_8x4_inv_rt(w, h)
    [] m = "2ch_inv_rt_24_12" -> inv_rt_24_12(w, h)
    [] m = "2ch_24_12" -> intlv_24_12(w, h)
    [] m = "1_8_msb" -> one_bit(w, h)
    [] m = "inv_rt" -> inv_rt(w, h)
    [] m = "2ch_even_rt" -> even_rt(w, h)
    [] m = "MidTop_Line" -> MidTop_Line(w, h)
    [] m = "TopMid_Line" -> TopMid_Line(w, h)
    [] m = "HiLo_Line" -> HiLo_Line(w, h)
    [] m = "XXband_16" -> XXband_16(w, h)
    [] m = "merge_fields" -> merge_fields(w, h)

-----------------------------------------------------------------------------

Lay == process(method, width, rows)

Pointers(lay) == 1 .. Len(lay.start)

(* Where pointer c is at pixel x of line y, and which pixel it puts there. *)
To(lay, y, x, c) == lay.start[c] + y * lay.next[c] + x * lay.step[c]

From(lay, y, x, c) ==
  LET n == Len(lay.start)
  IN  CASE lay.order = "pixel" -> (y * lay.cols + x) * n + c - 1
        [] lay.order = "line"  -> (y * n + c - 1) * lay.cols + x
        [] lay.order = "field" -> (c - 1) * lay.lines * lay.cols + y * lay.cols + x

Picture == 0 .. width * rows - 1

(* The moves of one line, and the last of them to a position.              *)
Moves(lay, y) ==
  {<<To(lay, y, x, c), From(lay, y, x, c)>> : x \in 0 .. lay.cols - 1, c \in Pointers(lay)}

LastTo(moves, p) == Max({v[2] : v \in {u \in moves : u[1] = p}})

(* Mutant: without the buffer, the right half is written over before it is *)
(* read.                                                                   *)
PixelUnbuffered(n) ==
  LET x == n % width
  IN  IF ~inPlace THEN n
      ELSE IF x < width - x \div 2 THEN dest[n]
      ELSE dest[n - x + 2 * (width - 1 - x) + 1]

(* In place the pixel is taken from where it still lies: the function      *)
(* reads a whole line into a buffer of its own and copies it back.         *)
Pixel(n) == IF inPlace THEN dest[n] ELSE n

(* The sizes a camera with such taps sends: the walk takes the whole       *)
(* picture.  No size is one InOut is right for.                            *)
Fits(lay) == Len(lay.start) * lay.lines * lay.cols = width * rows

Init ==
  /\ method \in Methods /\ width \in Widths /\ rows \in Heights
  /\ Fits(Lay) \/ method \in AnyRows
  /\ inPlace \in IF method = "inv_rt" THEN BOOLEAN ELSE {FALSE}
  /\ dest = [p \in Picture |-> IF inPlace THEN p ELSE Empty]
  /\ line = 0 /\ strayed = FALSE

(* One round of the outer loop.                                            *)
Line ==
  /\ line < Lay.lines
  /\ LET moves == Moves(Lay, line)
         goals == {v[1] : v \in moves}
     IN  /\ dest' = [p \in Picture |->
                       IF p \in goals THEN Pixel(LastTo(moves, p)) ELSE dest[p]]
         /\ strayed' = (strayed \/ ~ goals \subseteq Picture)
  /\ line' = line + 1
  /\ UNCHANGED <<method, width, rows, inPlace>>

Next == Line

Spec == Init /\ [][Next]_vars

(***************************************************************************)
(* Properties.                                                             *)
(***************************************************************************)

TypeOK ==
  /\ method \in Methods /\ width \in Widths /\ rows \in Heights
  /\ inPlace \in BOOLEAN /\ strayed \in BOOLEAN
  /\ dest \in [Picture -> Nat \cup {Empty}]
  /\ line \in 0 .. Lay.lines

(* Methods that put two rows and do not ask whether there is a second one: *)
(* with an odd number of rows ES10_16 and ES10_16_odd write a row behind   *)
(* the picture, MidTop_Line one before it.                                 *)
PutTwoRows == {"ES10_16", "ES10_16_odd", "MidTop_Line"}

(* No pointer leaves the picture, on its way through it or at its ends,    *)
(* but for those three with an odd number of rows.  ES10_8 stops before    *)
(* the odd row; ES10_16_hilo and TopBottom read a row that is not there    *)
(* and put it on one of the picture's.                                     *)
StaysInPicture == strayed => method \in PutTwoRows /\ rows % 2 = 1

(* When a picture is done each of its pixels is at one place, and none is  *)
(* missing or there twice; in place too.                                   *)
EveryPixelPlaced ==
  Fits(Lay) /\ line = Lay.lines => {dest[p] : p \in Picture} = Picture

(* The line and the pointer a pixel came by.                               *)
Origin(lay, n) ==
  LET k == Len(lay.start)
  IN  CASE lay.order = "pixel" -> <<n \div (lay.cols * k), n % k>>
        [] lay.order = "line"  -> <<n \div (lay.cols * k), (n \div lay.cols) % k>>
        [] lay.order = "field" -> <<(n % (lay.lines * lay.cols)) \div lay.cols,
                                    n \div (lay.lines * lay.cols)>>

(* The pixels one tap sends of one line come to lie in one row: no method  *)
(* wraps a line around the edge of the picture.                            *)
LinesStayLines ==
  \A p, q \in {r \in Picture : dest[r] # Empty} :
    ~inPlace /\ Origin(Lay, dest[p]) = Origin(Lay, dest[q]) => p \div width = q \div width

(***************************************************************************)
(* The inductive invariant behind these, for the methods in order and      *)
(* pictures of a size they are for.                                        *)
(***************************************************************************)

(* The picture is of a size the method is for, and only inv_rt is asked to *)
(* work in place.                                                          *)
Suited ==
  /\ Fits(Lay) \/ method \in {"ES10_8", "InOut"}
  /\ inPlace => method = "inv_rt"

(* The pixels of the lines that are over are where the walk puts them, and *)
(* no later line has written over them.                                    *)
Placed ==
  \A y \in 0 .. line - 1, x \in 0 .. Lay.cols - 1, c \in Pointers(Lay) :
    dest[To(Lay, y, x, c)] = From(Lay, y, x, c)

(* What is placed are pixels of the picture.                               *)
OfPicture == \A p \in Picture : dest[p] \in Picture \cup {Empty}

(* Everything else is as it was.                                           *)
OnlyPlaced ==
  \A p \in Picture :
    \/ dest[p] = IF inPlace THEN p ELSE Empty
    \/ \E y \in 0 .. line - 1, x \in 0 .. Lay.cols - 1, c \in Pointers(Lay) :
         p = To(Lay, y, x, c) /\ dest[p] = From(Lay, y, x, c)

IndInv == TypeOK /\ OfPicture /\ Suited /\ Placed /\ OnlyPlaced

=============================================================================
