------------------------- MODULE Deinterlace_proofs -------------------------
(***************************************************************************)
(* Proofs about Deinterlace, for pictures of any size: of the methods that *)
(* are in order none leaves the picture, every pixel comes to lie at one   *)
(* place, and no line is wrapped around.                                   *)
(*                                                                         *)
(* A method is laid out well when its pointers never meet and each stays   *)
(* in one row for the length of a line.  This is shown of every method on  *)
(* its own, by the rows and columns its pointers go through; the rest does *)
(* not depend on the method.                                               *)
(***************************************************************************)
EXTENDS Deinterlace, FiniteSetTheorems, TLAPS

(***************************************************************************)
(* Rows and columns.                                                       *)
(***************************************************************************)

(* A position has one row and one column.                                  *)
LEMMA Unique ==
  ASSUME NEW w \in Nat \ {0}, NEW r \in Int, NEW s \in Int,
         NEW k \in 0 .. w - 1, NEW l \in 0 .. w - 1,
         r * w + k = s * w + l
  PROVE  r = s /\ k = l
<1>1. (r - s) * w = l - k
  OBVIOUS
<1>2. r - s < 1
  <2>1. CASE r - s >= 1
    <3>1. (r - s) * w >= w
      BY <2>1
    <3> QED BY <3>1, <1>1
  <2> QED BY <2>1
<1>3. s - r < 1
  <2>1. CASE s - r >= 1
    <3>1. (s - r) * w >= w
      BY <2>1
    <3> QED BY <3>1, <1>1
  <2> QED BY <2>1
<1> QED BY <1>1, <1>2, <1>3

(* What is multiplied by the same number is the same.                      *)
LEMMA Cancel ==
  ASSUME NEW w \in Nat \ {0}, NEW r \in Int, NEW s \in Int, r * w = s * w
  PROVE  r = s
<1>1. r * w + 0 = s * w + 0 /\ 0 \in 0 .. w - 1
  OBVIOUS
<1> QED BY <1>1, Unique

(* Where a pixel lies in the source: after the lines before its own, and   *)
(* after what is before it of its own line.                                *)
LEMMA Regroup ==
  ASSUME NEW a \in Int, NEW b \in Int, NEW c \in Int, NEW d \in Int, NEW e \in Int
  PROVE  (a * b + c) * d + e = a * (d * b) + (c * d + e)
  OBVIOUS

(* The same when the source is field after field.                          *)
LEMMA Reassociate ==
  ASSUME NEW a \in Int, NEW b \in Int, NEW c \in Int, NEW d \in Int, NEW e \in Int
  PROVE  a * b * c + d * c + e = a * (b * c) + (d * c + e)
  OBVIOUS

(* Division with remainder.                                                *)
LEMMA DivMod ==
  ASSUME NEW a \in Nat, NEW b \in Nat \ {0}
  PROVE  /\ a \div b \in Nat /\ a % b \in 0 .. b - 1
         /\ a = (a \div b) * b + (a % b)
  OBVIOUS

(* The row and the column of a position.                                   *)
LEMMA Grid ==
  ASSUME NEW w \in Nat \ {0}, NEW r \in Nat, NEW k \in 0 .. w - 1
  PROVE  (r * w + k) \div w = r /\ (r * w + k) % w = k
<1>1. r * w + k \in Nat
  <2>1. r * w \in Nat
    OBVIOUS
  <2> QED BY <2>1
<1>2. /\ (r * w + k) \div w \in Nat /\ (r * w + k) % w \in 0 .. w - 1
      /\ r * w + k = ((r * w + k) \div w) * w + ((r * w + k) % w)
  BY <1>1, DivMod
<1> QED BY <1>2, Unique

(* A row and a column within the bounds are a position within the bounds.  *)
LEMMA InGrid ==
  ASSUME NEW w \in Nat \ {0}, NEW h \in Nat, NEW r \in 0 .. h - 1, NEW k \in 0 .. w - 1
  PROVE  r * w + k \in 0 .. w * h - 1
<1>1. r * w \in Nat /\ (r + 1) * w = r * w + w
  OBVIOUS
<1>2. (r + 1) * w <= h * w
  OBVIOUS
<1> QED BY <1>1, <1>2

(* A position within the bounds has a row and a column within them.        *)
LEMMA OutOfGrid ==
  ASSUME NEW w \in Nat \ {0}, NEW h \in Nat, NEW p \in 0 .. w * h - 1
  PROVE  /\ p \div w \in 0 .. h - 1 /\ p % w \in 0 .. w - 1
         /\ p = (p \div w) * w + (p % w)
<1>0. w * h \in Nat /\ p \in Nat
  OBVIOUS
<1>1. /\ p \div w \in Nat /\ p % w \in 0 .. w - 1
      /\ p = (p \div w) * w + (p % w)
  BY <1>0, DivMod
<1>2. p \div w < h
  <2> DEFINE q == p \div w
  <2>1. q \in Nat /\ q * w <= p
    BY <1>1
  <2> HIDE DEF q
  <2>2. CASE q >= h
    <3>1. q * w >= h * w
      BY <2>1, <2>2
    <3> QED BY <2>1, <3>1
  <2>3. q < h
    BY <2>1, <2>2
  <2> QED BY <2>3 DEF q
<1> QED BY <1>1, <1>2

(***************************************************************************)
(* Walks that are laid out well.                                           *)
(***************************************************************************)

Rounds(lay) == 0 .. lay.lines - 1

Pixels(lay) == 0 .. lay.cols - 1

(* The walk takes the whole of a picture of this size.                     *)
Takes(lay, w, h) == Len(lay.start) * lay.lines * lay.cols = w * h

(* The pointers stay within the picture, each in one row for the length of *)
(* a line, and no two pixels are put at one place.                         *)
Laid(lay, w, h) ==
  /\ lay.lines \in Nat /\ lay.cols \in Nat /\ Len(lay.start) \in Nat \ {0}
  /\ lay.order \in {"pixel", "line", "field"}
  /\ \A y \in Rounds(lay), x \in Pixels(lay), c \in Pointers(lay) :
       To(lay, y, x, c) \in 0 .. w * h - 1
  /\ \A y \in Rounds(lay), x, u \in Pixels(lay), c \in Pointers(lay) :
       To(lay, y, x, c) \div w = To(lay, y, u, c) \div w
  /\ \A y, z \in Rounds(lay), x, u \in Pixels(lay), c, d \in Pointers(lay) :
       To(lay, y, x, c) = To(lay, z, u, d) => y = z /\ x = u /\ c = d

(* So many pointers, lines and pixels, where pointer c goes through the    *)
(* rows row[c], row[c] + down[c], ... and in each through the columns      *)
(* col[c], col[c] + along[c], ..., and no two meet.                        *)
OnGrid(lay, pointers, lines, cols, w, h, row, down, col, along) ==
  /\ lay.lines = lines /\ lay.cols = cols /\ Len(lay.start) = pointers
  /\ lay.order \in {"pixel", "line", "field"}
  /\ \A c \in 1 .. pointers :
       /\ row[c] \in Int /\ down[c] \in Int /\ col[c] \in Int /\ along[c] \in Int
       /\ lay.start[c] = row[c] * w + col[c]
       /\ lay.next[c] = down[c] * w /\ lay.step[c] = along[c]
  /\ \A c \in 1 .. pointers :
       /\ \A y \in 0 .. lines - 1 : row[c] + y * down[c] \in 0 .. h - 1
       /\ \A x \in 0 .. cols - 1 : col[c] + x * along[c] \in 0 .. w - 1
  /\ \A c, d \in 1 .. pointers, y, z \in 0 .. lines - 1, x, u \in 0 .. cols - 1 :
       /\ row[c] + y * down[c] = row[d] + z * down[d]
       /\ col[c] + x * along[c] = col[d] + u * along[d]
       => c = d /\ y = z /\ x = u

(* Rows and columns that never meet are a walk laid out well.              *)
LEMMA GridLaid ==
  ASSUME NEW w \in Nat \ {0}, NEW h \in Nat \ {0}, NEW lay,
         NEW pointers \in Nat \ {0}, NEW lines \in Nat, NEW cols \in Nat,
         NEW row, NEW down, NEW col, NEW along,
         OnGrid(lay, pointers, lines, cols, w, h, row, down, col, along)
  PROVE  Laid(lay, w, h)
<1>0. /\ Pointers(lay) = 1 .. pointers /\ Rounds(lay) = 0 .. lines - 1
      /\ Pixels(lay) = 0 .. cols - 1
      /\ lay.lines \in Nat /\ lay.cols \in Nat /\ Len(lay.start) \in Nat \ {0}
      /\ lay.order \in {"pixel", "line", "field"}
  BY DEF OnGrid, Pointers, Rounds, Pixels
<1> DEFINE R(y, c) == row[c] + y * down[c]
           K(x, c) == col[c] + x * along[c]
<1>1. ASSUME NEW y \in 0 .. lines - 1, NEW x \in 0 .. cols - 1, NEW c \in 1 .. pointers
      PROVE  /\ R(y, c) \in 0 .. h - 1 /\ K(x, c) \in 0 .. w - 1
             /\ To(lay, y, x, c) = R(y, c) * w + K(x, c)
             /\ To(lay, y, x, c) \in 0 .. w * h - 1
             /\ To(lay, y, x, c) \div w = R(y, c)
  <2>1. /\ row[c] \in Int /\ down[c] \in Int /\ col[c] \in Int /\ along[c] \in Int
        /\ y \in Int /\ x \in Int
        /\ lay.start[c] = row[c] * w + col[c]
        /\ lay.next[c] = down[c] * w /\ lay.step[c] = along[c]
    BY DEF OnGrid
  <2>2. \A a, b, k, l, j, i \in Int :
          (a * w + k) + j * (b * w) + i * l = (a + j * b) * w + (k + i * l)
    OBVIOUS
  <2>3. To(lay, y, x, c) = R(y, c) * w + K(x, c)
    BY <2>1, <2>2 DEF To
  <2>4. R(y, c) \in 0 .. h - 1 /\ K(x, c) \in 0 .. w - 1
    BY DEF OnGrid
  <2>5. ASSUME NEW r \in 0 .. h - 1, NEW k \in 0 .. w - 1
        PROVE  r * w + k \in 0 .. w * h - 1 /\ (r * w + k) \div w = r
    <3>1. r \in Nat
      OBVIOUS
    <3> QED BY <3>1, Grid, InGrid
  <2> HIDE DEF R, K
  <2> QED BY <2>3, <2>4, <2>5
<1>2. ASSUME NEW y \in 0 .. lines - 1, NEW x \in 0 .. cols - 1, NEW c \in 1 .. pointers,
             NEW z \in 0 .. lines - 1, NEW u \in 0 .. cols - 1, NEW d \in 1 .. pointers,
             To(lay, y, x, c) = To(lay, z, u, d)
      PROVE  y = z /\ x = u /\ c = d
  <2>1. /\ R(y, c) * w + K(x, c) = R(z, d) * w + K(u, d)
        /\ R(y, c) \in Int /\ R(z, d) \in Int /\ K(x, c) \in 0 .. w - 1 /\ K(u, d) \in 0 .. w - 1
    <3> HIDE DEF R, K
    <3> QED BY <1>1, <1>2
  <2>2. R(y, c) = R(z, d) /\ K(x, c) = K(u, d)
    <3> DEFINE P(r, k) == r * w + k
    <3>1. \A r, s \in Int : \A k, l \in 0 .. w - 1 : P(r, k) = P(s, l) => r = s /\ k = l
      BY Unique
    <3>2. P(R(y, c), K(x, c)) = P(R(z, d), K(u, d))
      BY <2>1
    <3> HIDE DEF R, K, P
    <3> QED BY <2>1, <3>1, <3>2
  <2>3. \A a, b \in 1 .. pointers, i, j \in 0 .. lines - 1, p, q \in 0 .. cols - 1 :
          R(i, a) = R(j, b) /\ K(p, a) = K(q, b) => a = b /\ i = j /\ p = q
    BY DEF OnGrid
  <2> HIDE DEF R, K
  <2> QED BY <2>2, <2>3
<1> HIDE DEF R, K
<1>3. \A y \in Rounds(lay), x, u \in Pixels(lay), c \in Pointers(lay) :
        To(lay, y, x, c) \div w = To(lay, y, u, c) \div w
  BY <1>0, <1>1
<1>4. \A y, z \in Rounds(lay), x, u \in Pixels(lay), c, d \in Pointers(lay) :
        To(lay, y, x, c) = To(lay, z, u, d) => y = z /\ x = u /\ c = d
  BY <1>0, <1>2
<1>5. \A y \in Rounds(lay), x \in Pixels(lay), c \in Pointers(lay) :
        To(lay, y, x, c) \in 0 .. w * h - 1
  BY <1>0, <1>1
<1> QED BY <1>0, <1>3, <1>4, <1>5 DEF Laid

(* Two rows at a time, whole rows.                                         *)
LEMMA ES10_8Laid ==
  ASSUME NEW w \in Nat \ {0}, NEW h \in Nat \ {0}
  PROVE  Laid(ES10_8(w, h), w, h)
<1> DEFINE lay == ES10_8(w, h)
           row == <<0, 1>>
           down == <<2, 2>>
           col == <<0, 0>>
           along == <<1, 1>>
<1>1. /\ lay.lines = h \div 2 /\ lay.cols = w
      /\ Len(lay.start) = 2 /\ lay.order = "pixel"
      /\ lay.start = <<0, w>>
      /\ lay.step = <<1, 1>> /\ lay.next = <<2 * w, 2 * w>>
  BY DEF ES10_8, Walk, Half, HalfUp
<1> HIDE DEF lay
<1>3. ASSUME NEW c \in 1 .. 2
      PROVE  /\ row[c] \in Int /\ down[c] \in Int /\ col[c] \in Int /\ along[c] \in Int
             /\ lay.start[c] = row[c] * w + col[c]
             /\ lay.next[c] = down[c] * w /\ lay.step[c] = along[c]
  BY <1>1
<1>4. ASSUME NEW c \in 1 .. 2
      PROVE  /\ \A y \in 0 .. (h \div 2) - 1 : row[c] + y * down[c] \in 0 .. h - 1
             /\ \A x \in 0 .. w - 1 : col[c] + x * along[c] \in 0 .. w - 1
  OBVIOUS
<1>5. \A c, d \in 1 .. 2, y, z \in 0 .. (h \div 2) - 1, x, u \in 0 .. w - 1 :
        /\ row[c] + y * down[c] = row[d] + z * down[d]
        /\ col[c] + x * along[c] = col[d] + u * along[d]
        => c = d /\ y = z /\ x = u
  OBVIOUS
<1>6. (h \div 2) \in Nat /\ w \in Nat
  OBVIOUS
<1> HIDE DEF row, down, col, along
<1>7. OnGrid(lay, 2, h \div 2, w, w, h, row, down, col, along)
  BY <1>1, <1>3, <1>4, <1>5, <1>6 DEF OnGrid
<1> QED BY <1>7, <1>6, GridLaid DEF lay

(* The same for words.                                                     *)
LEMMA ES10_16Laid ==
  ASSUME NEW w \in Nat \ {0}, NEW h \in Nat \ {0},
         Takes(ES10_16(w, h), w, h)
  PROVE  Laid(ES10_16(w, h), w, h)
<1> DEFINE lay == ES10_16(w, h)
           row == <<0, 1>>
           down == <<2, 2>>
           col == <<0, 0>>
           along == <<1, 1>>
<1>1. /\ lay.lines = (h + 1) \div 2 /\ lay.cols = w
      /\ Len(lay.start) = 2 /\ lay.order = "pixel"
      /\ lay.start = <<0, w>>
      /\ lay.step = <<1, 1>> /\ lay.next = <<2 * w, 2 * w>>
  BY DEF ES10_16, Walk, Half, HalfUp
<1>2. 2 * ((h + 1) \div 2) = h
  <2>1. (2 * ((h + 1) \div 2)) * w = h * w
    BY <1>1 DEF Takes
  <2>2. 2 * ((h + 1) \div 2) \in Int
    OBVIOUS
  <2> QED BY <2>1, <2>2, Cancel
<1> HIDE DEF lay
<1>3. ASSUME NEW c \in 1 .. 2
      PROVE  /\ row[c] \in Int /\ down[c] \in Int /\ col[c] \in Int /\ along[c] \in Int
             /\ lay.start[c] = row[c] * w + col[c]
             /\ lay.next[c] = down[c] * w /\ lay.step[c] = along[c]
  BY <1>1, <1>2
<1>4. ASSUME NEW c \in 1 .. 2
      PROVE  /\ \A y \in 0 .. ((h + 1) \div 2) - 1 : row[c] + y * down[c] \in 0 .. h - 1
             /\ \A x \in 0 .. w - 1 : col[c] + x * along[c] \in 0 .. w - 1
  BY <1>2
<1>5. \A c, d \in 1 .. 2, y, z \in 0 .. ((h + 1) \div 2) - 1, x, u \in 0 .. w - 1 :
        /\ row[c] + y * down[c] = row[d] + z * down[d]
        /\ col[c] + x * along[c] = col[d] + u * along[d]
        => c = d /\ y = z /\ x = u
  BY <1>2
<1>6. ((h + 1) \div 2) \in Nat /\ w \in Nat
  OBVIOUS
<1> HIDE DEF row, down, col, along
<1>7. OnGrid(lay, 2, (h + 1) \div 2, w, w, h, row, down, col, along)
  BY <1>1, <1>3, <1>4, <1>5, <1>6 DEF OnGrid
<1> QED BY <1>7, <1>6, GridLaid DEF lay

(* The same with the rows swapped.                                         *)
LEMMA ES10_16_oddLaid ==
  ASSUME NEW w \in Nat \ {0}, NEW h \in Nat \ {0},
         Takes(ES10_16_odd(w, h), w, h)
  PROVE  Laid(ES10_16_odd(w, h), w, h)
<1> DEFINE lay == ES10_16_odd(w, h)
           row == <<1, 0>>
           down == <<2, 2>>
           col == <<0, 0>>
           along == <<1, 1>>
<1>1. /\ lay.lines = (h + 1) \div 2 /\ lay.cols = w
      /\ Len(lay.start) = 2 /\ lay.order = "pixel"
      /\ lay.start = <<w, 0>>
      /\ lay.step = <<1, 1>> /\ lay.next = <<2 * w, 2 * w>>
  BY DEF ES10_16_odd, Walk, Half, HalfUp
<1>2. 2 * ((h + 1) \div 2) = h
  <2>1. (2 * ((h + 1) \div 2)) * w = h * w
    BY <1>1 DEF Takes
  <2>2. 2 * ((h + 1) \div 2) \in Int
    OBVIOUS
  <2> QED BY <2>1, <2>2, Cancel
<1> HIDE DEF lay
<1>3. ASSUME NEW c \in 1 .. 2
      PROVE  /\ row[c] \in Int /\ down[c] \in Int /\ col[c] \in Int /\ along[c] \in Int
             /\ lay.start[c] = row[c] * w + col[c]
             /\ lay.next[c] = down[c] * w /\ lay.step[c] = along[c]
  BY <1>1, <1>2
<1>4. ASSUME NEW c \in 1 .. 2
      PROVE  /\ \A y \in 0 .. ((h + 1) \div 2) - 1 : row[c] + y * down[c] \in 0 .. h - 1
             /\ \A x \in 0 .. w - 1 : col[c] + x * along[c] \in 0 .. w - 1
  BY <1>2
<1>5. \A c, d \in 1 .. 2, y, z \in 0 .. ((h + 1) \div 2) - 1, x, u \in 0 .. w - 1 :
        /\ row[c] + y * down[c] = row[d] + z * down[d]
        /\ col[c] + x * along[c] = col[d] + u * along[d]
        => c = d /\ y = z /\ x = u
  BY <1>2
<1>6. ((h + 1) \div 2) \in Nat /\ w \in Nat
  OBVIOUS
<1> HIDE DEF row, down, col, along
<1>7. OnGrid(lay, 2, (h + 1) \div 2, w, w, h, row, down, col, along)
  BY <1>1, <1>3, <1>4, <1>5, <1>6 DEF OnGrid
<1> QED BY <1>7, <1>6, GridLaid DEF lay

(* The upper and the lower half.                                           *)
LEMMA ES10_16_hiloLaid ==
  ASSUME NEW w \in Nat \ {0}, NEW h \in Nat \ {0},
         Takes(ES10_16_hilo(w, h), w, h)
  PROVE  Laid(ES10_16_hilo(w, h), w, h)
<1> DEFINE lay == ES10_16_hilo(w, h)
           row == <<0, h \div 2>>
           down == <<1, 1>>
           col == <<0, 0>>
           along == <<1, 1>>
<1>1. /\ lay.lines = (h + 1) \div 2 /\ lay.cols = w
      /\ Len(lay.start) = 2 /\ lay.order = "pixel"
      /\ lay.start = <<0, w * (h \div 2)>>
      /\ lay.step = <<1, 1>> /\ lay.next = <<w, w>>
  BY DEF ES10_16_hilo, Walk, Half, HalfUp
<1>2. 2 * ((h + 1) \div 2) = h
  <2>1. (2 * ((h + 1) \div 2)) * w = h * w
    BY <1>1 DEF Takes
  <2>2. 2 * ((h + 1) \div 2) \in Int
    OBVIOUS
  <2> QED BY <2>1, <2>2, Cancel
<1> HIDE DEF lay
<1>3. ASSUME NEW c \in 1 .. 2
      PROVE  /\ row[c] \in Int /\ down[c] \in Int /\ col[c] \in Int /\ along[c] \in Int
             /\ lay.start[c] = row[c] * w + col[c]
             /\ lay.next[c] = down[c] * w /\ lay.step[c] = along[c]
  BY <1>1, <1>2
<1>4. ASSUME NEW c \in 1 .. 2
      PROVE  /\ \A y \in 0 .. ((h + 1) \div 2) - 1 : row[c] + y * down[c] \in 0 .. h - 1
             /\ \A x \in 0 .. w - 1 : col[c] + x * along[c] \in 0 .. w - 1
  BY <1>2
<1>5. \A c, d \in 1 .. 2, y, z \in 0 .. ((h + 1) \div 2) - 1, x, u \in 0 .. w - 1 :
        /\ row[c] + y * down[c] = row[d] + z * down[d]
        /\ col[c] + x * along[c] = col[d] + u * along[d]
        => c = d /\ y = z /\ x = u
  BY <1>2
<1>6. ((h + 1) \div 2) \in Nat /\ w \in Nat
  OBVIOUS
<1> HIDE DEF row, down, col, along
<1>7. OnGrid(lay, 2, (h + 1) \div 2, w, w, h, row, down, col, along)
  BY <1>1, <1>3, <1>4, <1>5, <1>6 DEF OnGrid
<1> QED BY <1>7, <1>6, GridLaid DEF lay

(* Top down and bottom up.                                                 *)
LEMMA TopBottomLaid ==
  ASSUME NEW w \in Nat \ {0}, NEW h \in Nat \ {0},
         Takes(TopBottom(w, h), w, h)
  PROVE  Laid(TopBottom(w, h), w, h)
<1> DEFINE lay == TopBottom(w, h)
           row == <<0, h - 1>>
           down == <<1, -1>>
           col == <<0, 0>>
           along == <<1, 1>>
<1>1. /\ lay.lines = (h + 1) \div 2 /\ lay.cols = w
      /\ Len(lay.start) = 2 /\ lay.order = "pixel"
      /\ lay.start = <<0, w * (h - 1)>>
      /\ lay.step = <<1, 1>> /\ lay.next = <<w, -w>>
  BY DEF TopBottom, Walk, Half, HalfUp
<1>2. 2 * ((h + 1) \div 2) = h
  <2>1. (2 * ((h + 1) \div 2)) * w = h * w
    BY <1>1 DEF Takes
  <2>2. 2 * ((h + 1) \div 2) \in Int
    OBVIOUS
  <2> QED BY <2>1, <2>2, Cancel
<1> HIDE DEF lay
<1>3. ASSUME NEW c \in 1 .. 2
      PROVE  /\ row[c] \in Int /\ down[c] \in Int /\ col[c] \in Int /\ along[c] \in Int
             /\ lay.start[c] = row[c] * w + col[c]
             /\ lay.next[c] = down[c] * w /\ lay.step[c] = along[c]
  BY <1>1, <1>2
<1>4. ASSUME NEW c \in 1 .. 2
      PROVE  /\ \A y \in 0 .. ((h + 1) \div 2) - 1 : row[c] + y * down[c] \in 0 .. h - 1
             /\ \A x \in 0 .. w - 1 : col[c] + x * along[c] \in 0 .. w - 1
  BY <1>2
<1>5. \A c, d \in 1 .. 2, y, z \in 0 .. ((h + 1) \div 2) - 1, x, u \in 0 .. w - 1 :
        /\ row[c] + y * down[c] = row[d] + z * down[d]
        /\ col[c] + x * along[c] = col[d] + u * along[d]
        => c = d /\ y = z /\ x = u
  BY <1>2
<1>6. ((h + 1) \div 2) \in Nat /\ w \in Nat
  OBVIOUS
<1> HIDE DEF row, down, col, along
<1>7. OnGrid(lay, 2, (h + 1) \div 2, w, w, h, row, down, col, along)
  BY <1>1, <1>3, <1>4, <1>5, <1>6 DEF OnGrid
<1> QED BY <1>7, <1>6, GridLaid DEF lay

(* From both ends inwards, two pixels each.                                *)
LEMMA piranha_8Laid ==
  ASSUME NEW w \in Nat \ {0}, NEW h \in Nat \ {0},
         Takes(piranha_8(w, h), w, h)
  PROVE  Laid(piranha_8(w, h), w, h)
<1> DEFINE lay == piranha_8(w, h)
           row == <<0, 0, 0, 0>>
           down == <<1, 1, 1, 1>>
           col == <<0, 1, w - 2, w - 1>>
           along == <<2, 2, -2, -2>>
<1>1. /\ lay.lines = h /\ lay.cols = (w + 3) \div 4
      /\ Len(lay.start) = 4 /\ lay.order = "pixel"
      /\ lay.start = <<0, 1, w - 2, w - 1>>
      /\ lay.step = <<2, 2, -2, -2>> /\ lay.next = <<w, w, w, w>>
  BY DEF piranha_8, Walk, Half, HalfUp
<1>2. 4 * ((w + 3) \div 4) = w
  <2>1. (4 * ((w + 3) \div 4)) * h = w * h
    BY <1>1 DEF Takes
  <2>2. 4 * ((w + 3) \div 4) \in Int
    OBVIOUS
  <2> QED BY <2>1, <2>2, Cancel
<1> HIDE DEF lay
<1>3. ASSUME NEW c \in 1 .. 4
      PROVE  /\ row[c] \in Int /\ down[c] \in Int /\ col[c] \in Int /\ along[c] \in Int
             /\ lay.start[c] = row[c] * w + col[c]
             /\ lay.next[c] = down[c] * w /\ lay.step[c] = along[c]
  <2>1. CASE c = 1
    BY <1>1, <2>1, <1>2
  <2>2. CASE c = 2
    BY <1>1, <2>2, <1>2
  <2>3. CASE c = 3
    BY <1>1, <2>3, <1>2
  <2>4. CASE c = 4
    BY <1>1, <2>4, <1>2
  <2> QED BY <2>1, <2>2, <2>3, <2>4
<1>4. ASSUME NEW c \in 1 .. 4
      PROVE  /\ \A y \in 0 .. h - 1 : row[c] + y * down[c] \in 0 .. h - 1
             /\ \A x \in 0 .. ((w + 3) \div 4) - 1 : col[c] + x * along[c] \in 0 .. w - 1
  BY <1>2
<1>5. \A c, d \in 1 .. 4, y, z \in 0 .. h - 1, x, u \in 0 .. ((w + 3) \div 4) - 1 :
        /\ row[c] + y * down[c] = row[d] + z * down[d]
        /\ col[c] + x * along[c] = col[d] + u * along[d]
        => c = d /\ y = z /\ x = u
  BY <1>2
<1>6. h \in Nat /\ ((w + 3) \div 4) \in Nat
  OBVIOUS
<1> HIDE DEF row, down, col, along
<1>7. OnGrid(lay, 4, h, (w + 3) \div 4, w, h, row, down, col, along)
  BY <1>1, <1>3, <1>4, <1>5, <1>6 DEF OnGrid
<1> QED BY <1>7, <1>6, GridLaid DEF lay

(* The same for the Dalsa line scan cameras.                               *)
LEMMA dalsa_ls_4ch_8Laid ==
  ASSUME NEW w \in Nat \ {0}, NEW h \in Nat \ {0},
         Takes(dalsa_ls_4ch_8(w, h), w, h)
  PROVE  Laid(dalsa_ls_4ch_8(w, h), w, h)
<1> DEFINE lay == dalsa_ls_4ch_8(w, h)
           row == <<0, 0, 0, 0>>
           down == <<1, 1, 1, 1>>
           col == <<0, 1, w - 2, w - 1>>
           along == <<2, 2, -2, -2>>
<1>1. /\ lay.lines = h /\ lay.cols = (w + 3) \div 4
      /\ Len(lay.start) = 4 /\ lay.order = "pixel"
      /\ lay.start = <<0, 1, w - 2, w - 1>>
      /\ lay.step = <<2, 2, -2, -2>> /\ lay.next = <<w, w, w, w>>
  BY DEF dalsa_ls_4ch_8, Walk, Half, HalfUp
<1>2. 4 * ((w + 3) \div 4) = w
  <2>1. (4 * ((w + 3) \div 4)) * h = w * h
    BY <1>1 DEF Takes
  <2>2. 4 * ((w + 3) \div 4) \in Int
    OBVIOUS
  <2> QED BY <2>1, <2>2, Cancel
<1> HIDE DEF lay
<1>3. ASSUME NEW c \in 1 .. 4
      PROVE  /\ row[c] \in Int /\ down[c] \in Int /\ col[c] \in Int /\ along[c] \in Int
             /\ lay.start[c] = row[c] * w + col[c]
             /\ lay.next[c] = down[c] * w /\ lay.step[c] = along[c]
  <2>1. CASE c = 1
    BY <1>1, <2>1, <1>2
  <2>2. CASE c = 2
    BY <1>1, <2>2, <1>2
  <2>3. CASE c = 3
    BY <1>1, <2>3, <1>2
  <2>4. CASE c = 4
    BY <1>1, <2>4, <1>2
  <2> QED BY <2>1, <2>2, <2>3, <2>4
<1>4. ASSUME NEW c \in 1 .. 4
      PROVE  /\ \A y \in 0 .. h - 1 : row[c] + y * down[c] \in 0 .. h - 1
             /\ \A x \in 0 .. ((w + 3) \div 4) - 1 : col[c] + x * along[c] \in 0 .. w - 1
  BY <1>2
<1>5. \A c, d \in 1 .. 4, y, z \in 0 .. h - 1, x, u \in 0 .. ((w + 3) \div 4) - 1 :
        /\ row[c] + y * down[c] = row[d] + z * down[d]
        /\ col[c] + x * along[c] = col[d] + u * along[d]
        => c = d /\ y = z /\ x = u
  BY <1>2
<1>6. h \in Nat /\ ((w + 3) \div 4) \in Nat
  OBVIOUS
<1> HIDE DEF row, down, col, along
<1>7. OnGrid(lay, 4, h, (w + 3) \div 4, w, h, row, down, col, along)
  BY <1>1, <1>3, <1>4, <1>5, <1>6 DEF OnGrid
<1> QED BY <1>7, <1>6, GridLaid DEF lay

(* The four corners, inwards.                                              *)
LEMMA specinst_4ch_16Laid ==
  ASSUME NEW w \in Nat \ {0}, NEW h \in Nat \ {0}
  PROVE  Laid(specinst_4ch_16(w, h), w, h)
<1> DEFINE lay == specinst_4ch_16(w, h)
           row == <<h - 1, h - 1, 0, 0>>
           down == <<-1, -1, 1, 1>>
           col == <<0, w - 1, 0, w - 1>>
           along == <<1, -1, 1, -1>>
<1>1. /\ lay.lines = h \div 2 /\ lay.cols = w \div 2
      /\ Len(lay.start) = 4 /\ lay.order = "pixel"
      /\ lay.start = <<w * (h - 1), w * (h - 1) + w - 1, 0, w - 1>>
      /\ lay.step = <<1, -1, 1, -1>> /\ lay.next = <<-w, -w, w, w>>
  BY DEF specinst_4ch_16, Walk, Half, HalfUp
<1> HIDE DEF lay
<1>3. ASSUME NEW c \in 1 .. 4
      PROVE  /\ row[c] \in Int /\ down[c] \in Int /\ col[c] \in Int /\ along[c] \in Int
             /\ lay.start[c] = row[c] * w + col[c]
             /\ lay.next[c] = down[c] * w /\ lay.step[c] = along[c]
  <2>1. CASE c = 1
    BY <1>1, <2>1
  <2>2. CASE c = 2
    BY <1>1, <2>2
  <2>3. CASE c = 3
    BY <1>1, <2>3
  <2>4. CASE c = 4
    BY <1>1, <2>4
  <2> QED BY <2>1, <2>2, <2>3, <2>4
<1>4. ASSUME NEW c \in 1 .. 4
      PROVE  /\ \A y \in 0 .. (h \div 2) - 1 : row[c] + y * down[c] \in 0 .. h - 1
             /\ \A x \in 0 .. (w \div 2) - 1 : col[c] + x * along[c] \in 0 .. w - 1
  OBVIOUS
<1>5. \A c, d \in 1 .. 4, y, z \in 0 .. (h \div 2) - 1, x, u \in 0 .. (w \div 2) - 1 :
        /\ row[c] + y * down[c] = row[d] + z * down[d]
        /\ col[c] + x * along[c] = col[d] + u * along[d]
        => c = d /\ y = z /\ x = u
  OBVIOUS
<1>6. (h \div 2) \in Nat /\ (w \div 2) \in Nat
  OBVIOUS
<1> HIDE DEF row, down, col, along
<1>7. OnGrid(lay, 4, h \div 2, w \div 2, w, h, row, down, col, along)
  BY <1>1, <1>3, <1>4, <1>5, <1>6 DEF OnGrid
<1> QED BY <1>7, <1>6, GridLaid DEF lay

(* Groups of eight pixels.                                                 *)
LEMMA Packed8TapLaid ==
  ASSUME NEW w \in Nat \ {0}, NEW h \in Nat \ {0},
         Takes(Packed8Tap(w, h), w, h)
  PROVE  Laid(Packed8Tap(w, h), w, h)
<1> DEFINE lay == Packed8Tap(w, h)
           row == [c \in 1 .. 8 |-> 0]
           down == [c \in 1 .. 8 |-> 1]
           col == [c \in 1 .. 8 |-> c - 1]
           along == [c \in 1 .. 8 |-> 8]
<1>1. /\ lay.lines = h /\ lay.cols = (w + 7) \div 8
      /\ Len(lay.start) = 8 /\ lay.order = "pixel"
      /\ lay.start = <<0, 1, 2, 3, 4, 5, 6, 7>>
      /\ lay.step = [c \in 1 .. 8 |-> 8] /\ lay.next = [c \in 1 .. 8 |-> 8 * ((w + 7) \div 8)]
  BY DEF Packed8Tap, Walk, Half, HalfUp
<1>2. 8 * ((w + 7) \div 8) = w
  <2>1. (8 * ((w + 7) \div 8)) * h = w * h
    BY <1>1 DEF Takes
  <2>2. 8 * ((w + 7) \div 8) \in Int
    OBVIOUS
  <2> QED BY <2>1, <2>2, Cancel
<1> HIDE DEF lay
<1>3. ASSUME NEW c \in 1 .. 8
      PROVE  /\ row[c] \in Int /\ down[c] \in Int /\ col[c] \in Int /\ along[c] \in Int
             /\ lay.start[c] = row[c] * w + col[c]
             /\ lay.next[c] = down[c] * w /\ lay.step[c] = along[c]
  <2>1. <<0, 1, 2, 3, 4, 5, 6, 7>>[c] = c - 1
    OBVIOUS
  <2>2. 0 * w + (c - 1) = c - 1 /\ 1 * w = w /\ c - 1 \in Int
    OBVIOUS
  <2>3. row[c] = 0 /\ down[c] = 1 /\ col[c] = c - 1 /\ along[c] = 8
    OBVIOUS
  <2> HIDE DEF row, down, col, along
  <2> QED BY <1>1, <2>1, <2>2, <2>3, <1>2
<1>4. ASSUME NEW c \in 1 .. 8
      PROVE  /\ \A y \in 0 .. h - 1 : row[c] + y * down[c] \in 0 .. h - 1
             /\ \A x \in 0 .. ((w + 7) \div 8) - 1 : col[c] + x * along[c] \in 0 .. w - 1
  BY <1>2
<1>5. \A c, d \in 1 .. 8, y, z \in 0 .. h - 1, x, u \in 0 .. ((w + 7) \div 8) - 1 :
        /\ row[c] + y * down[c] = row[d] + z * down[d]
        /\ col[c] + x * along[c] = col[d] + u * along[d]
        => c = d /\ y = z /\ x = u
  BY <1>2
<1>6. h \in Nat /\ ((w + 7) \div 8) \in Nat
  OBVIOUS
<1> HIDE DEF row, down, col, along
<1>7. OnGrid(lay, 8, h, (w + 7) \div 8, w, h, row, down, col, along)
  BY <1>1, <1>3, <1>4, <1>5, <1>6 DEF OnGrid
<1> QED BY <1>7, <1>6, GridLaid DEF lay

(* The four corners, inwards, one after the other.                         *)
LEMMA quadLaid ==
  ASSUME NEW w \in Nat \ {0}, NEW h \in Nat \ {0}
  PROVE  Laid(quad(w, h), w, h)
<1> DEFINE lay == quad(w, h)
           row == <<0, 0, h - 1, h - 1>>
           down == <<1, 1, -1, -1>>
           col == <<0, w - 1, 0, w - 1>>
           along == <<1, -1, 1, -1>>
<1>1. /\ lay.lines = h \div 2 /\ lay.cols = w \div 2
      /\ Len(lay.start) = 4 /\ lay.order = "pixel"
      /\ lay.start = <<0, w - 1, w * (h - 1), w * (h - 1) + w - 1>>
      /\ lay.step = <<1, -1, 1, -1>> /\ lay.next = <<w, w, -w, -w>>
  BY DEF quad, Walk, Half, HalfUp
<1> HIDE DEF lay
<1>3. ASSUME NEW c \in 1 .. 4
      PROVE  /\ row[c] \in Int /\ down[c] \in Int /\ col[c] \in Int /\ along[c] \in Int
             /\ lay.start[c] = row[c] * w + col[c]
             /\ lay.next[c] = down[c] * w /\ lay.step[c] = along[c]
  <2>1. CASE c = 1
    BY <1>1, <2>1
  <2>2. CASE c = 2
    BY <1>1, <2>2
  <2>3. CASE c = 3
    BY <1>1, <2>3
  <2>4. CASE c = 4
    BY <1>1, <2>4
  <2> QED BY <2>1, <2>2, <2>3, <2>4
<1>4. ASSUME NEW c \in 1 .. 4
      PROVE  /\ \A y \in 0 .. (h \div 2) - 1 : row[c] + y * down[c] \in 0 .. h - 1
             /\ \A x \in 0 .. (w \div 2) - 1 : col[c] + x * along[c] \in 0 .. w - 1
  OBVIOUS
<1>5. \A c, d \in 1 .. 4, y, z \in 0 .. (h \div 2) - 1, x, u \in 0 .. (w \div 2) - 1 :
        /\ row[c] + y * down[c] = row[d] + z * down[d]
        /\ col[c] + x * along[c] = col[d] + u * along[d]
        => c = d /\ y = z /\ x = u
  OBVIOUS
<1>6. (h \div 2) \in Nat /\ (w \div 2) \in Nat
  OBVIOUS
<1> HIDE DEF row, down, col, along
<1>7. OnGrid(lay, 4, h \div 2, w \div 2, w, h, row, down, col, along)
  BY <1>1, <1>3, <1>4, <1>5, <1>6 DEF OnGrid
<1> QED BY <1>7, <1>6, GridLaid DEF lay

(* From the center to the four corners.                                    *)
LEMMA quad3Laid ==
  ASSUME NEW w \in Nat \ {0}, NEW h \in Nat \ {0}
  PROVE  Laid(quad3(w, h), w, h)
<1> DEFINE lay == quad3(w, h)
           row == <<h \div 2 - 1, h \div 2 - 1, h \div 2, h \div 2>>
           down == <<-1, -1, 1, 1>>
           col == <<w \div 2 - 1, w \div 2, w \div 2 - 1, w \div 2>>
           along == <<-1, 1, -1, 1>>
<1>1. /\ lay.lines = h \div 2 /\ lay.cols = w \div 2
      /\ Len(lay.start) = 4 /\ lay.order = "pixel"
      /\ lay.start = <<(h \div 2 - 1) * w + w \div 2 - 1, (h \div 2 - 1) * w + w \div 2,
                       (h \div 2) * w + w \div 2 - 1, (h \div 2) * w + w \div 2>>
      /\ lay.step = <<-1, 1, -1, 1>> /\ lay.next = <<-w, -w, w, w>>
  BY DEF quad3, Walk, Half, HalfUp
<1> HIDE DEF lay
<1>3. ASSUME NEW c \in 1 .. 4
      PROVE  /\ row[c] \in Int /\ down[c] \in Int /\ col[c] \in Int /\ along[c] \in Int
             /\ lay.start[c] = row[c] * w + col[c]
             /\ lay.next[c] = down[c] * w /\ lay.step[c] = along[c]
  BY <1>1
<1>4. ASSUME NEW c \in 1 .. 4
      PROVE  /\ \A y \in 0 .. (h \div 2) - 1 : row[c] + y * down[c] \in 0 .. h - 1
             /\ \A x \in 0 .. (w \div 2) - 1 : col[c] + x * along[c] \in 0 .. w - 1
  OBVIOUS
<1>5. \A c, d \in 1 .. 4, y, z \in 0 .. (h \div 2) - 1, x, u \in 0 .. (w \div 2) - 1 :
        /\ row[c] + y * down[c] = row[d] + z * down[d]
        /\ col[c] + x * along[c] = col[d] + u * along[d]
        => c = d /\ y = z /\ x = u
  OBVIOUS
<1>6. (h \div 2) \in Nat /\ (w \div 2) \in Nat
  OBVIOUS
<1> HIDE DEF row, down, col, along
<1>7. OnGrid(lay, 4, h \div 2, w \div 2, w, h, row, down, col, along)
  BY <1>1, <1>3, <1>4, <1>5, <1>6 DEF OnGrid
<1> QED BY <1>7, <1>6, GridLaid DEF lay

(* The four corners, inwards, in the order of the Illunis cameras.         *)
LEMMA ill_16Laid ==
  ASSUME NEW w \in Nat \ {0}, NEW h \in Nat \ {0}
  PROVE  Laid(ill_16(w, h), w, h)
<1> DEFINE lay == ill_16(w, h)
           row == <<h - 1, 0, h - 1, 0>>
           down == <<-1, 1, -1, 1>>
           col == <<w - 1, w - 1, 0, 0>>
           along == <<-1, -1, 1, 1>>
<1>1. /\ lay.lines = h \div 2 /\ lay.cols = w \div 2
      /\ Len(lay.start) = 4 /\ lay.order = "pixel"
      /\ lay.start = <<w * (h - 1) + w - 1, w - 1, w * (h - 1), 0>>
      /\ lay.step = <<-1, -1, 1, 1>> /\ lay.next = <<-w, w, -w, w>>
  BY DEF ill_16, Walk, Half, HalfUp
<1> HIDE DEF lay
<1>3. ASSUME NEW c \in 1 .. 4
      PROVE  /\ row[c] \in Int /\ down[c] \in Int /\ col[c] \in Int /\ along[c] \in Int
             /\ lay.start[c] = row[c] * w + col[c]
             /\ lay.next[c] = down[c] * w /\ lay.step[c] = along[c]
  <2>1. CASE c = 1
    BY <1>1, <2>1
  <2>2. CASE c = 2
    BY <1>1, <2>2
  <2>3. CASE c = 3
    BY <1>1, <2>3
  <2>4. CASE c = 4
    BY <1>1, <2>4
  <2> QED BY <2>1, <2>2, <2>3, <2>4
<1>4. ASSUME NEW c \in 1 .. 4
      PROVE  /\ \A y \in 0 .. (h \div 2) - 1 : row[c] + y * down[c] \in 0 .. h - 1
             /\ \A x \in 0 .. (w \div 2) - 1 : col[c] + x * along[c] \in 0 .. w - 1
  OBVIOUS
<1>5. \A c, d \in 1 .. 4, y, z \in 0 .. (h \div 2) - 1, x, u \in 0 .. (w \div 2) - 1 :
        /\ row[c] + y * down[c] = row[d] + z * down[d]
        /\ col[c] + x * along[c] = col[d] + u * along[d]
        => c = d /\ y = z /\ x = u
  OBVIOUS
<1>6. (h \div 2) \in Nat /\ (w \div 2) \in Nat
  OBVIOUS
<1> HIDE DEF row, down, col, along
<1>7. OnGrid(lay, 4, h \div 2, w \div 2, w, h, row, down, col, along)
  BY <1>1, <1>3, <1>4, <1>5, <1>6 DEF OnGrid
<1> QED BY <1>7, <1>6, GridLaid DEF lay

(* The same for bytes.                                                     *)
LEMMA ill_8Laid ==
  ASSUME NEW w \in Nat \ {0}, NEW h \in Nat \ {0}
  PROVE  Laid(ill_8(w, h), w, h)
<1> DEFINE lay == ill_8(w, h)
           row == <<0, h - 1, 0, h - 1>>
           down == <<1, -1, 1, -1>>
           col == <<0, 0, w - 1, w - 1>>
           along == <<1, 1, -1, -1>>
<1>1. /\ lay.lines = h \div 2 /\ lay.cols = w \div 2
      /\ Len(lay.start) = 4 /\ lay.order = "pixel"
      /\ lay.start = <<0, w * (h - 1), w - 1, w * (h - 1) + w - 1>>
      /\ lay.step = <<1, 1, -1, -1>> /\ lay.next = <<w, -w, w, -w>>
  BY DEF ill_8, Walk, Half, HalfUp
<1> HIDE DEF lay
<1>3. ASSUME NEW c \in 1 .. 4
      PROVE  /\ row[c] \in Int /\ down[c] \in Int /\ col[c] \in Int /\ along[c] \in Int
             /\ lay.start[c] = row[c] * w + col[c]
             /\ lay.next[c] = down[c] * w /\ lay.step[c] = along[c]
  <2>1. CASE c = 1
    BY <1>1, <2>1
  <2>2. CASE c = 2
    BY <1>1, <2>2
  <2>3. CASE c = 3
    BY <1>1, <2>3
  <2>4. CASE c = 4
    BY <1>1, <2>4
  <2> QED BY <2>1, <2>2, <2>3, <2>4
<1>4. ASSUME NEW c \in 1 .. 4
      PROVE  /\ \A y \in 0 .. (h \div 2) - 1 : row[c] + y * down[c] \in 0 .. h - 1
             /\ \A x \in 0 .. (w \div 2) - 1 : col[c] + x * along[c] \in 0 .. w - 1
  OBVIOUS
<1>5. \A c, d \in 1 .. 4, y, z \in 0 .. (h \div 2) - 1, x, u \in 0 .. (w \div 2) - 1 :
        /\ row[c] + y * down[c] = row[d] + z * down[d]
        /\ col[c] + x * along[c] = col[d] + u * along[d]
        => c = d /\ y = z /\ x = u
  OBVIOUS
<1>6. (h \div 2) \in Nat /\ (w \div 2) \in Nat
  OBVIOUS
<1> HIDE DEF row, down, col, along
<1>7. OnGrid(lay, 4, h \div 2, w \div 2, w, h, row, down, col, along)
  BY <1>1, <1>3, <1>4, <1>5, <1>6 DEF OnGrid
<1> QED BY <1>7, <1>6, GridLaid DEF lay

(* Two quarters onwards and two backwards.                                 *)
LEMMA line_taps_8x4_inv_rtLaid ==
  ASSUME NEW w \in Nat \ {0}, NEW h \in Nat \ {0},
         Takes(line_taps_8x4_inv_rt(w, h), w, h)
  PROVE  Laid(line_taps_8x4_inv_rt(w, h), w, h)
<1> DEFINE lay == line_taps_8x4_inv_rt(w, h)
           row == <<0, 0, 0, 0>>
           down == <<1, 1, 1, 1>>
           col == <<0, w \div 4, 3 * (w \div 4) - 1, w - 1>>
           along == <<1, 1, -1, -1>>
<1>1. /\ lay.lines = h /\ lay.cols = (w + 3) \div 4
      /\ Len(lay.start) = 4 /\ lay.order = "pixel"
      /\ lay.start = <<0, w \div 4, 3 * (w \div 4) - 1, w - 1>>
      /\ lay.step = <<1, 1, -1, -1>> /\ lay.next = <<w, w, w, w>>
  BY DEF line_taps_8x4_inv_rt, Walk, Half, HalfUp
<1>2. 4 * ((w + 3) \div 4) = w
  <2>1. (4 * ((w + 3) \div 4)) * h = w * h
    BY <1>1 DEF Takes
  <2>2. 4 * ((w + 3) \div 4) \in Int
    OBVIOUS
  <2> QED BY <2>1, <2>2, Cancel
<1> HIDE DEF lay
<1>3. ASSUME NEW c \in 1 .. 4
      PROVE  /\ row[c] \in Int /\ down[c] \in Int /\ col[c] \in Int /\ along[c] \in Int
             /\ lay.start[c] = row[c] * w + col[c]
             /\ lay.next[c] = down[c] * w /\ lay.step[c] = along[c]
  <2>1. CASE c = 1
    BY <1>1, <2>1, <1>2
  <2>2. CASE c = 2
    BY <1>1, <2>2, <1>2
  <2>3. CASE c = 3
    BY <1>1, <2>3, <1>2
  <2>4. CASE c = 4
    BY <1>1, <2>4, <1>2
  <2> QED BY <2>1, <2>2, <2>3, <2>4
<1>4. ASSUME NEW c \in 1 .. 4
      PROVE  /\ \A y \in 0 .. h - 1 : row[c] + y * down[c] \in 0 .. h - 1
             /\ \A x \in 0 .. ((w + 3) \div 4) - 1 : col[c] + x * along[c] \in 0 .. w - 1
  BY <1>2
<1>5. \A c, d \in 1 .. 4, y, z \in 0 .. h - 1, x, u \in 0 .. ((w + 3) \div 4) - 1 :
        /\ row[c] + y * down[c] = row[d] + z * down[d]
        /\ col[c] + x * along[c] = col[d] + u * along[d]
        => c = d /\ y = z /\ x = u
  BY <1>2
<1>6. h \in Nat /\ ((w + 3) \div 4) \in Nat
  OBVIOUS
<1> HIDE DEF row, down, col, along
<1>7. OnGrid(lay, 4, h, (w + 3) \div 4, w, h, row, down, col, along)
  BY <1>1, <1>3, <1>4, <1>5, <1>6 DEF OnGrid
<1> QED BY <1>7, <1>6, GridLaid DEF lay

(* From the right end and from the left.                                   *)
LEMMA inv_rt_24_12Laid ==
  ASSUME NEW w \in Nat \ {0}, NEW h \in Nat \ {0}
  PROVE  Laid(inv_rt_24_12(w, h), w, h)
<1> DEFINE lay == inv_rt_24_12(w, h)
           row == <<0, 0>>
           down == <<1, 1>>
           col == <<w - 1, 0>>
           along == <<-1, 1>>
<1>1. /\ lay.lines = h /\ lay.cols = w \div 2
      /\ Len(lay.start) = 2 /\ lay.order = "pixel"
      /\ lay.start = <<w - 1, 0>>
      /\ lay.step = <<-1, 1>> /\ lay.next = <<w, w>>
  BY DEF inv_rt_24_12, Walk, Half, HalfUp
<1> HIDE DEF lay
<1>3. ASSUME NEW c \in 1 .. 2
      PROVE  /\ row[c] \in Int /\ down[c] \in Int /\ col[c] \in Int /\ along[c] \in Int
             /\ lay.start[c] = row[c] * w + col[c]
             /\ lay.next[c] = down[c] * w /\ lay.step[c] = along[c]
  BY <1>1
<1>4. ASSUME NEW c \in 1 .. 2
      PROVE  /\ \A y \in 0 .. h - 1 : row[c] + y * down[c] \in 0 .. h - 1
             /\ \A x \in 0 .. (w \div 2) - 1 : col[c] + x * along[c] \in 0 .. w - 1
  OBVIOUS
<1>5. \A c, d \in 1 .. 2, y, z \in 0 .. h - 1, x, u \in 0 .. (w \div 2) - 1 :
        /\ row[c] + y * down[c] = row[d] + z * down[d]
        /\ col[c] + x * along[c] = col[d] + u * along[d]
        => c = d /\ y = z /\ x = u
  OBVIOUS
<1>6. h \in Nat /\ (w \div 2) \in Nat
  OBVIOUS
<1> HIDE DEF row, down, col, along
<1>7. OnGrid(lay, 2, h, w \div 2, w, h, row, down, col, along)
  BY <1>1, <1>3, <1>4, <1>5, <1>6 DEF OnGrid
<1> QED BY <1>7, <1>6, GridLaid DEF lay

(* Pixels side by side.                                                    *)
LEMMA intlv_24_12Laid ==
  ASSUME NEW w \in Nat \ {0}, NEW h \in Nat \ {0}
  PROVE  Laid(intlv_24_12(w, h), w, h)
<1> DEFINE lay == intlv_24_12(w, h)
           row == <<0, 0>>
           down == <<1, 1>>
           col == <<0, 1>>
           along == <<2, 2>>
<1>1. /\ lay.lines = h /\ lay.cols = w \div 2
      /\ Len(lay.start) = 2 /\ lay.order = "pixel"
      /\ lay.start = <<0, 1>>
      /\ lay.step = <<2, 2>> /\ lay.next = <<w, w>>
  BY DEF intlv_24_12, Walk, Half, HalfUp
<1> HIDE DEF lay
<1>3. ASSUME NEW c \in 1 .. 2
      PROVE  /\ row[c] \in Int /\ down[c] \in Int /\ col[c] \in Int /\ along[c] \in Int
             /\ lay.start[c] = row[c] * w + col[c]
             /\ lay.next[c] = down[c] * w /\ lay.step[c] = along[c]
  BY <1>1
<1>4. ASSUME NEW c \in 1 .. 2
      PROVE  /\ \A y \in 0 .. h - 1 : row[c] + y * down[c] \in 0 .. h - 1
             /\ \A x \in 0 .. (w \div 2) - 1 : col[c] + x * along[c] \in 0 .. w - 1
  OBVIOUS
<1>5. \A c, d \in 1 .. 2, y, z \in 0 .. h - 1, x, u \in 0 .. (w \div 2) - 1 :
        /\ row[c] + y * down[c] = row[d] + z * down[d]
        /\ col[c] + x * along[c] = col[d] + u * along[d]
        => c = d /\ y = z /\ x = u
  OBVIOUS
<1>6. h \in Nat /\ (w \div 2) \in Nat
  OBVIOUS
<1> HIDE DEF row, down, col, along
<1>7. OnGrid(lay, 2, h, w \div 2, w, h, row, down, col, along)
  BY <1>1, <1>3, <1>4, <1>5, <1>6 DEF OnGrid
<1> QED BY <1>7, <1>6, GridLaid DEF lay

(* Eight pixels from each byte.                                            *)
LEMMA one_bitLaid ==
  ASSUME NEW w \in Nat \ {0}, NEW h \in Nat \ {0}
  PROVE  Laid(one_bit(w, h), w, h)
<1> DEFINE lay == one_bit(w, h)
           row == [c \in 1 .. 8 |-> 0]
           down == [c \in 1 .. 8 |-> 1]
           col == [c \in 1 .. 8 |-> c - 1]
           along == [c \in 1 .. 8 |-> 8]
<1>1. /\ lay.lines = h /\ lay.cols = w \div 8
      /\ Len(lay.start) = 8 /\ lay.order = "pixel"
      /\ lay.start = <<0, 1, 2, 3, 4, 5, 6, 7>>
      /\ lay.step = [c \in 1 .. 8 |-> 8] /\ lay.next = [c \in 1 .. 8 |-> w]
  BY DEF one_bit, Walk, Half, HalfUp
<1> HIDE DEF lay
<1>3. ASSUME NEW c \in 1 .. 8
      PROVE  /\ row[c] \in Int /\ down[c] \in Int /\ col[c] \in Int /\ along[c] \in Int
             /\ lay.start[c] = row[c] * w + col[c]
             /\ lay.next[c] = down[c] * w /\ lay.step[c] = along[c]
  <2>1. <<0, 1, 2, 3, 4, 5, 6, 7>>[c] = c - 1
    OBVIOUS
  <2>2. 0 * w + (c - 1) = c - 1 /\ 1 * w = w /\ c - 1 \in Int
    OBVIOUS
  <2>3. row[c] = 0 /\ down[c] = 1 /\ col[c] = c - 1 /\ along[c] = 8
    OBVIOUS
  <2> HIDE DEF row, down, col, along
  <2> QED BY <1>1, <2>1, <2>2, <2>3
<1>4. ASSUME NEW c \in 1 .. 8
      PROVE  /\ \A y \in 0 .. h - 1 : row[c] + y * down[c] \in 0 .. h - 1
             /\ \A x \in 0 .. (w \div 8) - 1 : col[c] + x * along[c] \in 0 .. w - 1
  OBVIOUS
<1>5. \A c, d \in 1 .. 8, y, z \in 0 .. h - 1, x, u \in 0 .. (w \div 8) - 1 :
        /\ row[c] + y * down[c] = row[d] + z * down[d]
        /\ col[c] + x * along[c] = col[d] + u * along[d]
        => c = d /\ y = z /\ x = u
  OBVIOUS
<1>6. h \in Nat /\ (w \div 8) \in Nat
  OBVIOUS
<1> HIDE DEF row, down, col, along
<1>7. OnGrid(lay, 8, h, w \div 8, w, h, row, down, col, along)
  BY <1>1, <1>3, <1>4, <1>5, <1>6 DEF OnGrid
<1> QED BY <1>7, <1>6, GridLaid DEF lay

(* From the left end and from the right.                                   *)
LEMMA inv_rtLaid ==
  ASSUME NEW w \in Nat \ {0}, NEW h \in Nat \ {0}
  PROVE  Laid(inv_rt(w, h), w, h)
<1> DEFINE lay == inv_rt(w, h)
           row == <<0, 0>>
           down == <<1, 1>>
           col == <<0, w - 1>>
           along == <<1, -1>>
<1>1. /\ lay.lines = h /\ lay.cols = w \div 2
      /\ Len(lay.start) = 2 /\ lay.order = "pixel"
      /\ lay.start = <<0, w - 1>>
      /\ lay.step = <<1, -1>> /\ lay.next = <<w, w>>
  BY DEF inv_rt, Walk, Half, HalfUp
<1> HIDE DEF lay
<1>3. ASSUME NEW c \in 1 .. 2
      PROVE  /\ row[c] \in Int /\ down[c] \in Int /\ col[c] \in Int /\ along[c] \in Int
             /\ lay.start[c] = row[c] * w + col[c]
             /\ lay.next[c] = down[c] * w /\ lay.step[c] = along[c]
  BY <1>1
<1>4. ASSUME NEW c \in 1 .. 2
      PROVE  /\ \A y \in 0 .. h - 1 : row[c] + y * down[c] \in 0 .. h - 1
             /\ \A x \in 0 .. (w \div 2) - 1 : col[c] + x * along[c] \in 0 .. w - 1
  OBVIOUS
<1>5. \A c, d \in 1 .. 2, y, z \in 0 .. h - 1, x, u \in 0 .. (w \div 2) - 1 :
        /\ row[c] + y * down[c] = row[d] + z * down[d]
        /\ col[c] + x * along[c] = col[d] + u * along[d]
        => c = d /\ y = z /\ x = u
  OBVIOUS
<1>6. h \in Nat /\ (w \div 2) \in Nat
  OBVIOUS
<1> HIDE DEF row, down, col, along
<1>7. OnGrid(lay, 2, h, w \div 2, w, h, row, down, col, along)
  BY <1>1, <1>3, <1>4, <1>5, <1>6 DEF OnGrid
<1> QED BY <1>7, <1>6, GridLaid DEF lay

(* The two halves of a row.                                                *)
LEMMA even_rtLaid ==
  ASSUME NEW w \in Nat \ {0}, NEW h \in Nat \ {0},
         Takes(even_rt(w, h), w, h)
  PROVE  Laid(even_rt(w, h), w, h)
<1> DEFINE lay == even_rt(w, h)
           row == <<0, 0>>
           down == <<1, 1>>
           col == <<0, w \div 2>>
           along == <<1, 1>>
<1>1. /\ lay.lines = h /\ lay.cols = w - (w \div 2)
      /\ Len(lay.start) = 2 /\ lay.order = "pixel"
      /\ lay.start = <<0, w \div 2>>
      /\ lay.step = <<1, 1>> /\ lay.next = <<w, w>>
  BY DEF even_rt, Walk, Half, HalfUp
<1>2. 2 * (w - (w \div 2)) = w
  <2>1. (2 * (w - (w \div 2))) * h = w * h
    BY <1>1 DEF Takes
  <2>2. 2 * (w - (w \div 2)) \in Int
    OBVIOUS
  <2> QED BY <2>1, <2>2, Cancel
<1> HIDE DEF lay
<1>3. ASSUME NEW c \in 1 .. 2
      PROVE  /\ row[c] \in Int /\ down[c] \in Int /\ col[c] \in Int /\ along[c] \in Int
             /\ lay.start[c] = row[c] * w + col[c]
             /\ lay.next[c] = down[c] * w /\ lay.step[c] = along[c]
  BY <1>1, <1>2
<1>4. ASSUME NEW c \in 1 .. 2
      PROVE  /\ \A y \in 0 .. h - 1 : row[c] + y * down[c] \in 0 .. h - 1
             /\ \A x \in 0 .. (w - (w \div 2)) - 1 : col[c] + x * along[c] \in 0 .. w - 1
  BY <1>2
<1>5. \A c, d \in 1 .. 2, y, z \in 0 .. h - 1, x, u \in 0 .. (w - (w \div 2)) - 1 :
        /\ row[c] + y * down[c] = row[d] + z * down[d]
        /\ col[c] + x * along[c] = col[d] + u * along[d]
        => c = d /\ y = z /\ x = u
  BY <1>2
<1>6. h \in Nat /\ (w - (w \div 2)) \in Nat
  OBVIOUS
<1> HIDE DEF row, down, col, along
<1>7. OnGrid(lay, 2, h, w - (w \div 2), w, h, row, down, col, along)
  BY <1>1, <1>3, <1>4, <1>5, <1>6 DEF OnGrid
<1> QED BY <1>7, <1>6, GridLaid DEF lay

(* From the middle up and down.                                            *)
LEMMA MidTop_LineLaid ==
  ASSUME NEW w \in Nat \ {0}, NEW h \in Nat \ {0},
         Takes(MidTop_Line(w, h), w, h)
  PROVE  Laid(MidTop_Line(w, h), w, h)
<1> DEFINE lay == MidTop_Line(w, h)
           row == <<h \div 2 - 1, h \div 2>>
           down == <<-1, 1>>
           col == <<0, 0>>
           along == <<1, 1>>
<1>1. /\ lay.lines = (h + 1) \div 2 /\ lay.cols = w
      /\ Len(lay.start) = 2 /\ lay.order = "line"
      /\ lay.start = <<w * (h \div 2) - w, w * (h \div 2)>>
      /\ lay.step = <<1, 1>> /\ lay.next = <<-w, w>>
  BY DEF MidTop_Line, Walk, Half, HalfUp, ByLine
<1>2. 2 * ((h + 1) \div 2) = h
  <2>1. (2 * ((h + 1) \div 2)) * w = h * w
    BY <1>1 DEF Takes
  <2>2. 2 * ((h + 1) \div 2) \in Int
    OBVIOUS
  <2> QED BY <2>1, <2>2, Cancel
<1> HIDE DEF lay
<1>3. ASSUME NEW c \in 1 .. 2
      PROVE  /\ row[c] \in Int /\ down[c] \in Int /\ col[c] \in Int /\ along[c] \in Int
             /\ lay.start[c] = row[c] * w + col[c]
             /\ lay.next[c] = down[c] * w /\ lay.step[c] = along[c]
  BY <1>1, <1>2
<1>4. ASSUME NEW c \in 1 .. 2
      PROVE  /\ \A y \in 0 .. ((h + 1) \div 2) - 1 : row[c] + y * down[c] \in 0 .. h - 1
             /\ \A x \in 0 .. w - 1 : col[c] + x * along[c] \in 0 .. w - 1
  BY <1>2
<1>5. \A c, d \in 1 .. 2, y, z \in 0 .. ((h + 1) \div 2) - 1, x, u \in 0 .. w - 1 :
        /\ row[c] + y * down[c] = row[d] + z * down[d]
        /\ col[c] + x * along[c] = col[d] + u * along[d]
        => c = d /\ y = z /\ x = u
  BY <1>2
<1>6. ((h + 1) \div 2) \in Nat /\ w \in Nat
  OBVIOUS
<1> HIDE DEF row, down, col, along
<1>7. OnGrid(lay, 2, (h + 1) \div 2, w, w, h, row, down, col, along)
  BY <1>1, <1>3, <1>4, <1>5, <1>6 DEF OnGrid
<1> QED BY <1>7, <1>6, GridLaid DEF lay

(* From the top and from the middle.                                       *)
LEMMA TopMid_LineLaid ==
  ASSUME NEW w \in Nat \ {0}, NEW h \in Nat \ {0},
         Takes(TopMid_Line(w, h), w, h)
  PROVE  Laid(TopMid_Line(w, h), w, h)
<1> DEFINE lay == TopMid_Line(w, h)
           row == <<0, h \div 2>>
           down == <<1, 1>>
           col == <<0, 0>>
           along == <<1, 1>>
<1>1. /\ lay.lines = (h + 1) \div 2 /\ lay.cols = w
      /\ Len(lay.start) = 2 /\ lay.order = "line"
      /\ lay.start = <<0, w * (h \div 2)>>
      /\ lay.step = <<1, 1>> /\ lay.next = <<w, w>>
  BY DEF TopMid_Line, Walk, Half, HalfUp, ByLine
<1>2. 2 * ((h + 1) \div 2) = h
  <2>1. (2 * ((h + 1) \div 2)) * w = h * w
    BY <1>1 DEF Takes
  <2>2. 2 * ((h + 1) \div 2) \in Int
    OBVIOUS
  <2> QED BY <2>1, <2>2, Cancel
<1> HIDE DEF lay
<1>3. ASSUME NEW c \in 1 .. 2
      PROVE  /\ row[c] \in Int /\ down[c] \in Int /\ col[c] \in Int /\ along[c] \in Int
             /\ lay.start[c] = row[c] * w + col[c]
             /\ lay.next[c] = down[c] * w /\ lay.step[c] = along[c]
  BY <1>1, <1>2
<1>4. ASSUME NEW c \in 1 .. 2
      PROVE  /\ \A y \in 0 .. ((h + 1) \div 2) - 1 : row[c] + y * down[c] \in 0 .. h - 1
             /\ \A x \in 0 .. w - 1 : col[c] + x * along[c] \in 0 .. w - 1
  BY <1>2
<1>5. \A c, d \in 1 .. 2, y, z \in 0 .. ((h + 1) \div 2) - 1, x, u \in 0 .. w - 1 :
        /\ row[c] + y * down[c] = row[d] + z * down[d]
        /\ col[c] + x * along[c] = col[d] + u * along[d]
        => c = d /\ y = z /\ x = u
  BY <1>2
<1>6. ((h + 1) \div 2) \in Nat /\ w \in Nat
  OBVIOUS
<1> HIDE DEF row, down, col, along
<1>7. OnGrid(lay, 2, (h + 1) \div 2, w, w, h, row, down, col, along)
  BY <1>1, <1>3, <1>4, <1>5, <1>6 DEF OnGrid
<1> QED BY <1>7, <1>6, GridLaid DEF lay

(* One field after the other.                                              *)
LEMMA merge_fieldsLaid ==
  ASSUME NEW w \in Nat \ {0}, NEW h \in Nat \ {0}
  PROVE  Laid(merge_fields(w, h), w, h)
<1> DEFINE lay == merge_fields(w, h)
           row == <<0, 1>>
           down == <<2, 2>>
           col == <<0, 0>>
           along == <<1, 1>>
<1>1. /\ lay.lines = h \div 2 /\ lay.cols = w
      /\ Len(lay.start) = 2 /\ lay.order = "field"
      /\ lay.start = <<0, w>>
      /\ lay.step = <<1, 1>> /\ lay.next = <<2 * w, 2 * w>>
  BY DEF merge_fields, Walk, Half, HalfUp, ByField
<1> HIDE DEF lay
<1>3. ASSUME NEW c \in 1 .. 2
      PROVE  /\ row[c] \in Int /\ down[c] \in Int /\ col[c] \in Int /\ along[c] \in Int
             /\ lay.start[c] = row[c] * w + col[c]
             /\ lay.next[c] = down[c] * w /\ lay.step[c] = along[c]
  BY <1>1
<1>4. ASSUME NEW c \in 1 .. 2
      PROVE  /\ \A y \in 0 .. (h \div 2) - 1 : row[c] + y * down[c] \in 0 .. h - 1
             /\ \A x \in 0 .. w - 1 : col[c] + x * along[c] \in 0 .. w - 1
  OBVIOUS
<1>5. \A c, d \in 1 .. 2, y, z \in 0 .. (h \div 2) - 1, x, u \in 0 .. w - 1 :
        /\ row[c] + y * down[c] = row[d] + z * down[d]
        /\ col[c] + x * along[c] = col[d] + u * along[d]
        => c = d /\ y = z /\ x = u
  OBVIOUS
<1>6. (h \div 2) \in Nat /\ w \in Nat
  OBVIOUS
<1> HIDE DEF row, down, col, along
<1>7. OnGrid(lay, 2, h \div 2, w, w, h, row, down, col, along)
  BY <1>1, <1>3, <1>4, <1>5, <1>6 DEF OnGrid
<1> QED BY <1>7, <1>6, GridLaid DEF lay

(* Bands of whole rows.                                                    *)
LEMMA XXband_16Laid ==
  ASSUME NEW w \in Nat \ {0}, NEW h \in Nat \ {0}
  PROVE  Laid(XXband_16(w, h), w, h)
<1> DEFINE lay == XXband_16(w, h)
           lpb == h \div Bands
           row == [b \in 1 .. Bands |-> (b - 1) * lpb]
           one == [b \in 1 .. Bands |-> 1]
           zero == [b \in 1 .. Bands |-> 0]
<1>1. Bands \in Nat \ {0}
  BY DeinterlaceAssumption
<1>2. lpb \in Nat /\ lpb * Bands <= h
  BY <1>1, DivMod
<1>3. /\ lay.lines = lpb /\ lay.cols = w /\ lay.order = "pixel"
      /\ lay.start = [b \in 1 .. Bands |-> (b - 1) * w * lpb]
      /\ lay.step = one /\ lay.next = [b \in 1 .. Bands |-> w]
  BY DEF XXband_16, Walk, ByLine
<1>4. Len(lay.start) = Bands
  BY <1>1, <1>3
<1> HIDE DEF lay, lpb
<1>5. ASSUME NEW c \in 1 .. Bands
      PROVE  /\ row[c] \in Int /\ one[c] \in Int /\ zero[c] \in Int
             /\ lay.start[c] = row[c] * w + zero[c]
             /\ lay.next[c] = one[c] * w /\ lay.step[c] = one[c]
  <2>1. row[c] = (c - 1) * lpb /\ one[c] = 1 /\ zero[c] = 0 /\ (c - 1) * lpb \in Int
    BY <1>1, <1>2
  <2>2. (c - 1) * w * lpb = (c - 1) * lpb * w + 0 /\ w = 1 * w
    BY <1>1, <1>2
  <2>3. lay.start[c] = (c - 1) * w * lpb /\ lay.next[c] = w /\ lay.step[c] = one[c]
    BY <1>3
  <2> HIDE DEF row, one, zero
  <2> QED BY <2>1, <2>2, <2>3
<1>6. ASSUME NEW c \in 1 .. Bands
      PROVE  /\ \A y \in 0 .. lpb - 1 : row[c] + y * one[c] \in 0 .. h - 1
             /\ \A x \in 0 .. w - 1 : zero[c] + x * one[c] \in 0 .. w - 1
  <2>1. ASSUME NEW y \in 0 .. lpb - 1 PROVE (c - 1) * lpb + y \in 0 .. h - 1
    <3>1. lpb \in Nat \ {0} /\ c - 1 \in 0 .. Bands - 1
      BY <1>1, <1>2
    <3>2. (c - 1) * lpb + y \in 0 .. lpb * Bands - 1
      BY <1>1, <3>1, InGrid
    <3>3. lpb * Bands \in Nat /\ lpb * Bands <= h
      BY <1>1, <1>2
    <3> QED BY <3>2, <3>3
  <2>2. ASSUME NEW y \in 0 .. lpb - 1 PROVE row[c] + y * one[c] = (c - 1) * lpb + y
    BY <1>2
  <2> QED BY <2>1, <2>2
<1>7. ASSUME NEW c \in 1 .. Bands, NEW d \in 1 .. Bands, NEW y \in 0 .. lpb - 1,
             NEW z \in 0 .. lpb - 1, NEW x \in 0 .. w - 1, NEW u \in 0 .. w - 1,
             row[c] + y * one[c] = row[d] + z * one[d],
             zero[c] + x * one[c] = zero[d] + u * one[d]
      PROVE  c = d /\ y = z /\ x = u
  <2>1. x = u /\ (c - 1) * lpb + y = (d - 1) * lpb + z
    BY <1>2, <1>7
  <2>2. lpb \in Nat \ {0} /\ c - 1 \in Int /\ d - 1 \in Int
    BY <1>1, <1>2
  <2>3. c - 1 = d - 1 /\ y = z
    BY <2>1, <2>2, Unique
  <2> QED BY <2>1, <2>3
<1> HIDE DEF row, one, zero
<1>8. OnGrid(lay, Bands, lpb, w, w, h, row, one, zero, one)
  <2>1. \A c, d \in 1 .. Bands, y, z \in 0 .. lpb - 1, x, u \in 0 .. w - 1 :
          /\ row[c] + y * one[c] = row[d] + z * one[d]
          /\ zero[c] + x * one[c] = zero[d] + u * one[d]
          => c = d /\ y = z /\ x = u
    BY <1>7
  <2> QED BY <1>3, <1>4, <1>5, <1>6, <2>1 DEF OnGrid
<1> QED BY <1>1, <1>2, <1>8, GridLaid DEF lay

(* Every method in order is laid out well on pictures it takes, and ES10   *)
(* for bytes on any.                                                       *)
LEMMA MethodLaid ==
  ASSUME NEW w \in Nat \ {0}, NEW h \in Nat \ {0}, NEW m \in MethodsInOrder,
         Takes(process(m, w, h), w, h) \/ m = "ES10_8"
  PROVE  Laid(process(m, w, h), w, h)
<1>1. CASE m = "ES10_8"
  <2>1. process(m, w, h) = ES10_8(w, h)
    BY <1>1 DEF process
  <2> QED BY <2>1, ES10_8Laid
<1>2. CASE m = "ES10_16"
  <2>1. process(m, w, h) = ES10_16(w, h)
    BY <1>2 DEF process
  <2>2. Takes(ES10_16(w, h), w, h)
    BY <1>2, <2>1
  <2> QED BY <2>1, <2>2, ES10_16Laid
<1>3. CASE m = "ES10_16_odd"
  <2>1. process(m, w, h) = ES10_16_odd(w, h)
    BY <1>3 DEF process
  <2>2. Takes(ES10_16_odd(w, h), w, h)
    BY <1>3, <2>1
  <2> QED BY <2>1, <2>2, ES10_16_oddLaid
<1>4. CASE m = "ES10_16_hilo"
  <2>1. process(m, w, h) = ES10_16_hilo(w, h)
    BY <1>4 DEF process
  <2>2. Takes(ES10_16_hilo(w, h), w, h)
    BY <1>4, <2>1
  <2> QED BY <2>1, <2>2, ES10_16_hiloLaid
<1>5. CASE m = "TopBottom"
  <2>1. process(m, w, h) = TopBottom(w, h)
    BY <1>5 DEF process
  <2>2. Takes(TopBottom(w, h), w, h)
    BY <1>5, <2>1
  <2> QED BY <2>1, <2>2, TopBottomLaid
<1>6. CASE m = "piranha_8"
  <2>1. process(m, w, h) = piranha_8(w, h)
    BY <1>6 DEF process
  <2>2. Takes(piranha_8(w, h), w, h)
    BY <1>6, <2>1
  <2> QED BY <2>1, <2>2, piranha_8Laid
<1>7. CASE m = "dalsa_ls_4ch_8"
  <2>1. process(m, w, h) = dalsa_ls_4ch_8(w, h)
    BY <1>7 DEF process
  <2>2. Takes(dalsa_ls_4ch_8(w, h), w, h)
    BY <1>7, <2>1
  <2> QED BY <2>1, <2>2, dalsa_ls_4ch_8Laid
<1>8. CASE m = "specinst_4ch_16"
  <2>1. process(m, w, h) = specinst_4ch_16(w, h)
    BY <1>8 DEF process
  <2> QED BY <2>1, specinst_4ch_16Laid
<1>9. CASE m = "8tap"
  <2>1. process(m, w, h) = Packed8Tap(w, h)
    BY <1>9 DEF process
  <2>2. Takes(Packed8Tap(w, h), w, h)
    BY <1>9, <2>1
  <2> QED BY <2>1, <2>2, Packed8TapLaid
<1>10. CASE m = "quad"
  <2>1. process(m, w, h) = quad(w, h)
    BY <1>10 DEF process
  <2> QED BY <2>1, quadLaid
<1>11. CASE m = "quad3"
  <2>1. process(m, w, h) = quad3(w, h)
    BY <1>11 DEF process
  <2> QED BY <2>1, quad3Laid
<1>12. CASE m = "4ch_ill_16"
  <2>1. process(m, w, h) = ill_16(w, h)
    BY <1>12 DEF process
  <2> QED BY <2>1, ill_16Laid
<1>13. CASE m = "4ch_ill_8"
  <2>1. process(m, w, h) = ill_8(w, h)
    BY <1>13 DEF process
  <2> QED BY <2>1, ill_8Laid
<1>14. CASE m = "line_taps_8x4_inv_rt"
  <2>1. process(m, w, h) = line_taps_8x4_inv_rt(w, h)
    BY <1>14 DEF process
  <2>2. Takes(line_taps_8x4_inv_rt(w, h), w, h)
    BY <1>14, <2>1
  <2> QED BY <2>1, <2>2, line_taps_8x4_inv_rtLaid
<1>15. CASE m = "2ch_inv_rt_24_12"
  <2>1. process(m, w, h) = inv_rt_24_12(w, h)
    BY <1>15 DEF process
  <2> QED BY <2>1, inv_rt_24_12Laid
<1>16. CASE m = "2ch_24_12"
  <2>1. process(m, w, h) = intlv_24_12(w, h)
    BY <1>16 DEF process
  <2> QED BY <2>1, intlv_24_12Laid
<1>17. CASE m = "1_8_msb"
  <2>1. process(m, w, h) = one_bit(w, h)
    BY <1>17 DEF process
  <2> QED BY <2>1, one_bitLaid
<1>18. CASE m = "inv_rt"
  <2>1. process(m, w, h) = inv_rt(w, h)
    BY <1>18 DEF process
  <2> QED BY <2>1, inv_rtLaid
<1>19. CASE m = "2ch_even_rt"
  <2>1. process(m, w, h) = even_rt(w, h)
    BY <1>19 DEF process
  <2>2. Takes(even_rt(w, h), w, h)
    BY <1>19, <2>1
  <2> QED BY <2>1, <2>2, even_rtLaid
<1>20. CASE m = "MidTop_Line"
  <2>1. process(m, w, h) = MidTop_Line(w, h)
    BY <1>20 DEF process
  <2>2. Takes(MidTop_Line(w, h), w, h)
    BY <1>20, <2>1
  <2> QED BY <2>1, <2>2, MidTop_LineLaid
<1>21. CASE m = "TopMid_Line"
  <2>1. process(m, w, h) = TopMid_Line(w, h)
    BY <1>21 DEF process
  <2>2. Takes(TopMid_Line(w, h), w, h)
    BY <1>21, <2>1
  <2> QED BY <2>1, <2>2, TopMid_LineLaid
<1>22. CASE m = "XXband_16"
  <2>1. process(m, w, h) = XXband_16(w, h)
    BY <1>22 DEF process
  <2> QED BY <2>1, XXband_16Laid
<1>23. CASE m = "merge_fields"
  <2>1. process(m, w, h) = merge_fields(w, h)
    BY <1>23 DEF process
  <2> QED BY <2>1, merge_fieldsLaid
<1> QED BY <1>1, <1>2, <1>3, <1>4, <1>5, <1>6, <1>7, <1>8, <1>9, <1>10, <1>11, <1>12,
           <1>13, <1>14, <1>15, <1>16, <1>17, <1>18, <1>19, <1>20, <1>21, <1>22, <1>23
        DEF MethodsInOrder, AllMethods

(* A walk has no more pixels than the picture.                             *)
LEMMA NoMorePixels ==
  ASSUME NEW w \in Nat \ {0}, NEW h \in Nat \ {0}, NEW m \in MethodsInOrder,
         Takes(process(m, w, h), w, h) \/ m = "ES10_8"
  PROVE  LET lay == process(m, w, h)
         IN  Len(lay.start) * lay.lines * lay.cols <= w * h
<1>1. CASE Takes(process(m, w, h), w, h)
  BY <1>1 DEF Takes
<1>2. CASE m = "ES10_8"
  <2>1. process(m, w, h) = ES10_8(w, h)
    BY <1>2 DEF process
  <2>2. /\ Len(ES10_8(w, h).start) = 2 /\ ES10_8(w, h).lines = h \div 2
        /\ ES10_8(w, h).cols = w
    BY DEF ES10_8, Walk, Half
  <2>3. \A k \in Int : k <= h => k * w <= w * h
    <3>1. ASSUME NEW k \in Int, k <= h PROVE k * w <= w * h
      <4>1. (h - k) * w >= 0 /\ (h - k) * w = h * w - k * w
        BY <3>1
      <4> QED BY <4>1
    <3> QED BY <3>1
  <2>4. 2 * (h \div 2) \in Int /\ 2 * (h \div 2) <= h
    OBVIOUS
  <2> QED BY <2>1, <2>2, <2>3, <2>4
<1> QED BY <1>1, <1>2

(***************************************************************************)
(* The order in the source.                                                *)
(***************************************************************************)

(* A pixel of the walk is one that the camera sends, and its line and      *)
(* pointer can be told from its number.                                    *)
LEMMA FromOrigin ==
  ASSUME NEW lay, NEW w, NEW h, Laid(lay, w, h),
         NEW y \in Rounds(lay), NEW x \in Pixels(lay), NEW c \in Pointers(lay)
  PROVE  /\ From(lay, y, x, c) \in 0 .. Len(lay.start) * lay.lines * lay.cols - 1
         /\ Origin(lay, From(lay, y, x, c)) = <<y, c - 1>>
<1> DEFINE n == Len(lay.start)
           L == lay.lines
           K == lay.cols
<1>1. /\ n \in Nat \ {0} /\ L \in Nat \ {0} /\ K \in Nat \ {0}
      /\ y \in 0 .. L - 1 /\ x \in 0 .. K - 1 /\ c - 1 \in 0 .. n - 1 /\ c \in Nat
      /\ lay.order \in {"pixel", "line", "field"}
  BY DEF Laid, Rounds, Pixels, Pointers
<1> DEFINE i == c - 1
<1> HIDE DEF n, L, K, i
<1>2. CASE lay.order = "pixel"
  <2> DEFINE q == y * K + x
             s == x * n + i
  <2>1. q \in 0 .. K * L - 1 /\ s \in 0 .. n * K - 1
    BY <1>1, InGrid DEF i
  <2>2. K * L \in Nat /\ n * K \in Nat \ {0} /\ n * (K * L) = n * L * K /\ n * K = K * n
    BY <1>1
  <2>3. q * n + i = y * (n * K) + s
    BY <1>1, Regroup DEF i
  <2>4. From(lay, y, x, c) = q * n + i
    BY <1>1, <1>2 DEF From, n, K, i
  <2>5. Origin(lay, From(lay, y, x, c))
          = <<From(lay, y, x, c) \div (K * n), From(lay, y, x, c) % n>>
    BY <1>2 DEF Origin, n, K
  <2> HIDE DEF q, s
  <2>6. q \in Nat /\ i \in 0 .. n - 1 /\ y \in Nat
    BY <1>1, <2>1, <2>2 DEF i
  <2>7. q * n + i \in 0 .. n * (K * L) - 1
    BY <1>1, <2>1, <2>2, <2>6, InGrid
  <2>8. (q * n + i) % n = i
    BY <1>1, <2>6, Grid
  <2>9. (y * (n * K) + s) \div (n * K) = y
    BY <2>1, <2>2, <2>6, Grid
  <2> QED BY <2>2, <2>3, <2>4, <2>5, <2>7, <2>8, <2>9 DEF n, L, K, i
<1>3. CASE lay.order = "line"
  <2> DEFINE q == y * n + i
             s == i * K + x
  <2>1. q \in 0 .. n * L - 1 /\ s \in 0 .. K * n - 1
    BY <1>1, InGrid DEF i
  <2>2. n * L \in Nat /\ K * n \in Nat \ {0} /\ K * (n * L) = n * L * K
    BY <1>1
  <2>3. q * K + x = y * (K * n) + s
    BY <1>1, Regroup DEF i
  <2>4. From(lay, y, x, c) = q * K + x
    BY <1>1, <1>3 DEF From, n, K, i
  <2>5. Origin(lay, From(lay, y, x, c))
          = <<From(lay, y, x, c) \div (K * n), (From(lay, y, x, c) \div K) % n>>
    BY <1>3 DEF Origin, n, K
  <2>6. q \in Nat /\ i \in 0 .. n - 1 /\ y \in Nat
    BY <1>1, <2>1, <2>2 DEF i
  <2>7. q % n = i
    BY <1>1, <2>6, Grid
  <2> HIDE DEF q, s
  <2>8. q * K + x \in 0 .. K * (n * L) - 1
    BY <1>1, <2>1, <2>2, <2>6, InGrid
  <2>9. (q * K + x) \div K = q
    BY <1>1, <2>6, Grid
  <2>10. (y * (K * n) + s) \div (K * n) = y
    BY <2>1, <2>2, <2>6, Grid
  <2> QED BY <2>2, <2>3, <2>4, <2>5, <2>7, <2>8, <2>9, <2>10 DEF n, L, K, i
<1>4. CASE lay.order = "field"
  <2> DEFINE q == y * K + x
             f == L * K
  <2>1. q \in 0 .. K * L - 1
    BY <1>1, InGrid
  <2>2. f \in Nat \ {0} /\ f = K * L /\ f * n = n * L * K
    BY <1>1
  <2>3. From(lay, y, x, c) = i * f + q
    <3>1. From(lay, y, x, c) = i * L * K + y * K + x
      BY <1>1, <1>4 DEF From, L, K, i
    <3>2. i * L * K + y * K + x = i * (L * K) + (y * K + x)
      BY <1>1, Reassociate DEF i
    <3> QED BY <3>1, <3>2
  <2>4. Origin(lay, From(lay, y, x, c))
          = <<(From(lay, y, x, c) % f) \div K, From(lay, y, x, c) \div f>>
    BY <1>4 DEF Origin, L, K
  <2>5. q \div K = y
    <3>1. y \in Nat
      BY <1>1
    <3> QED BY <1>1, <3>1, Grid
  <2> HIDE DEF q, f
  <2>6. q \in 0 .. f - 1 /\ i \in 0 .. n - 1 /\ i \in Nat
    BY <1>1, <2>1, <2>2 DEF i
  <2>7. i * f + q \in 0 .. f * n - 1
    BY <1>1, <2>2, <2>6, InGrid
  <2>8. (i * f + q) \div f = i /\ (i * f + q) % f = q
    BY <2>2, <2>6, Grid
  <2> QED BY <2>2, <2>3, <2>4, <2>5, <2>7, <2>8 DEF n, L, K, i
<1> QED BY <1>1, <1>2, <1>3, <1>4

(* Every pixel the camera sends is one of the walk.                        *)
LEMMA FromOnto ==
  ASSUME NEW lay, NEW w, NEW h, Laid(lay, w, h),
         NEW p \in 0 .. Len(lay.start) * lay.lines * lay.cols - 1
  PROVE  \E y \in Rounds(lay), x \in Pixels(lay), c \in Pointers(lay) : From(lay, y, x, c) = p
<1> DEFINE n == Len(lay.start)
           L == lay.lines
           K == lay.cols
<1>1. /\ n \in Nat \ {0} /\ L \in Nat /\ K \in Nat
      /\ n * L * K \in Nat /\ p \in Nat /\ p < n * L * K
      /\ lay.order \in {"pixel", "line", "field"}
  BY DEF Laid
<1>2. K \in Nat \ {0} /\ L \in Nat \ {0}
  BY <1>1
<1> SUFFICES \E y \in 0 .. L - 1, x \in 0 .. K - 1, c \in 1 .. n : From(lay, y, x, c) = p
  BY DEF Rounds, Pixels, Pointers
<1>3. CASE lay.order = "pixel"
  <2> DEFINE q == p \div n
             i == p % n
             y == q \div K
             x == q % K
  <2>1. /\ q \in 0 .. K * L - 1 /\ i \in 0 .. n - 1 /\ p = q * n + i
    <3>1. K * L \in Nat /\ n * (K * L) = n * L * K
      BY <1>1
    <3> QED BY <1>1, <3>1, OutOfGrid
  <2>2. y \in 0 .. L - 1 /\ x \in 0 .. K - 1 /\ q = y * K + x
    <3> HIDE DEF q
    <3> QED BY <1>1, <1>2, <2>1, OutOfGrid
  <2> HIDE DEF q, i, x, y
  <2>3. i + 1 \in 1 .. n /\ (i + 1) - 1 = i
    BY <1>1, <2>1
  <2>4. From(lay, y, x, i + 1) = (y * K + x) * n + ((i + 1) - 1)
    <3>1. (y * K + x) * n + (i + 1) - 1 = (y * K + x) * n + ((i + 1) - 1)
      BY <1>1, <2>1, <2>2
    <3> QED BY <1>3, <3>1 DEF From
  <2> QED BY <2>1, <2>2, <2>3, <2>4
<1>4. CASE lay.order = "line"
  <2> DEFINE q == p \div K
             x == p % K
             y == q \div n
             i == q % n
  <2>1. /\ q \in 0 .. n * L - 1 /\ x \in 0 .. K - 1 /\ p = q * K + x
    <3>1. n * L \in Nat /\ K * (n * L) = n * L * K
      BY <1>1
    <3> QED BY <1>1, <1>2, <3>1, OutOfGrid
  <2>2. y \in 0 .. L - 1 /\ i \in 0 .. n - 1 /\ q = y * n + i
    <3> HIDE DEF q
    <3> QED BY <1>1, <1>2, <2>1, OutOfGrid
  <2> HIDE DEF q, i, x, y
  <2>3. i + 1 \in 1 .. n /\ (i + 1) - 1 = i
    BY <1>1, <2>2
  <2>4. From(lay, y, x, i + 1) = (y * n + ((i + 1) - 1)) * K + x
    <3>1. y * n + (i + 1) - 1 = y * n + ((i + 1) - 1)
      BY <1>1, <2>2
    <3> QED BY <1>4, <3>1 DEF From
  <2> QED BY <2>1, <2>2, <2>3, <2>4
<1>5. CASE lay.order = "field"
  <2> DEFINE i == p \div (L * K)
             q == p % (L * K)
             y == q \div K
             x == q % K
  <2>1. /\ i \in 0 .. n - 1 /\ q \in 0 .. L * K - 1 /\ p = i * (L * K) + q
    <3>1. L * K \in Nat \ {0} /\ (L * K) * n = n * L * K
      BY <1>1, <1>2
    <3> QED BY <1>1, <3>1, OutOfGrid
  <2>2. y \in 0 .. L - 1 /\ x \in 0 .. K - 1 /\ q = y * K + x
    <3> HIDE DEF q
    <3>1. L * K = K * L
      BY <1>1
    <3> QED BY <1>1, <1>2, <2>1, <3>1, OutOfGrid
  <2> HIDE DEF q, i, x, y
  <2>3. i + 1 \in 1 .. n /\ (i + 1) - 1 = i
    BY <1>1, <2>1
  <2>4. From(lay, y, x, i + 1) = i * L * K + y * K + x
    BY <1>5, <2>3 DEF From
  <2>5. i * L * K + y * K + x = i * (L * K) + (y * K + x)
    <3>1. i \in Int /\ y \in Int /\ x \in Int /\ L \in Int /\ K \in Int
      BY <1>1, <2>1, <2>2
    <3> HIDE DEF L, K
    <3> QED BY <3>1, Reassociate
  <2> QED BY <2>1, <2>2, <2>3, <2>4, <2>5
<1> QED BY <1>1, <1>3, <1>4, <1>5

(* In place a line is taken from the row it goes to, which no earlier line *)
(* has gone to.                                                            *)
LEMMA OwnRow ==
  ASSUME width \in Nat \ {0}, rows \in Nat \ {0}, Suited, inPlace,
         Laid(Lay, width, rows),
         NEW y \in Rounds(Lay), NEW z \in Rounds(Lay), y # z,
         NEW x \in Pixels(Lay), NEW u \in Pixels(Lay),
         NEW c \in Pointers(Lay), NEW d \in Pointers(Lay)
  PROVE  From(Lay, y, x, c) # To(Lay, z, u, d)
<1>1. /\ Lay = inv_rt(width, rows) /\ Fits(Lay)
  BY DEF Suited, Lay, process
<1>2. /\ Lay.lines = rows /\ Lay.cols = width \div 2 /\ Lay.start = <<0, width - 1>>
      /\ Lay.step = <<1, -1>> /\ Lay.next = <<width, width>> /\ Lay.order = "pixel"
      /\ Len(Lay.start) = 2
  BY <1>1 DEF inv_rt, Walk, Half
<1>3. 2 * (width \div 2) = width
  <2>1. (2 * (width \div 2)) * rows = width * rows
    BY <1>1, <1>2 DEF Fits
  <2> QED BY <2>1, Cancel
<1>4. /\ y \in Nat /\ z \in Nat /\ c \in 1 .. 2 /\ d \in 1 .. 2
      /\ x \in 0 .. (width \div 2) - 1 /\ u \in 0 .. (width \div 2) - 1
  BY <1>2 DEF Rounds, Pixels, Pointers
<1> HIDE DEF Lay
<1>5. PICK k \in 0 .. width - 1 : From(Lay, y, x, c) = y * width + k
  <2>1. From(Lay, y, x, c) = (y * (width \div 2) + x) * 2 + c - 1
    BY <1>2 DEF From
  <2>2. (y * (width \div 2) + x) * 2 + c - 1 = y * (2 * (width \div 2)) + (2 * x + c - 1)
    BY <1>4
  <2>3. 2 * x + c - 1 \in 0 .. width - 1
    BY <1>3, <1>4
  <2> QED BY <1>3, <2>1, <2>2, <2>3
<1>6. PICK l \in 0 .. width - 1 : To(Lay, z, u, d) = z * width + l
  <2>1. CASE d = 1
    <3>1. To(Lay, z, u, d) = z * width + u
      BY <1>2, <1>4, <2>1 DEF To
    <3> QED BY <1>3, <1>4, <3>1
  <2>2. CASE d = 2
    <3>1. To(Lay, z, u, d) = z * width + (width - 1 - u)
      BY <1>2, <1>4, <2>2 DEF To
    <3> QED BY <1>3, <1>4, <3>1
  <2> QED BY <1>4, <2>1, <2>2
<1> QED BY <1>4, <1>5, <1>6, Unique

(***************************************************************************)
(* The invariant.                                                          *)
(***************************************************************************)

(* What the invariant says of the walk.                                    *)
LEMMA LayLaid ==
  ASSUME Methods \subseteq MethodsInOrder,
         method \in Methods, width \in Widths, rows \in Heights, Suited
  PROVE  /\ Laid(Lay, width, rows)
         /\ Len(Lay.start) * Lay.lines * Lay.cols <= width * rows
         /\ width \in Nat \ {0} /\ rows \in Nat \ {0} /\ width * rows \in Nat
         /\ Takes(Lay, width, rows) <=> Fits(Lay)
<1>1. width \in Nat \ {0} /\ rows \in Nat \ {0} /\ method \in MethodsInOrder
  BY DeinterlaceAssumption
<1>2. Takes(process(method, width, rows), width, rows) \/ method = "ES10_8"
  BY <1>1 DEF Suited, Fits, Takes, Lay, MethodsInOrder
<1>3. width * rows \in Nat
  BY <1>1
<1> QED BY <1>1, <1>2, <1>3, MethodLaid, NoMorePixels DEF Takes, Fits, Lay

(* The pixels of the walk are pixels of the picture.                       *)
LEMMA FromInPicture ==
  ASSUME Laid(Lay, width, rows), width * rows \in Nat,
         Len(Lay.start) * Lay.lines * Lay.cols <= width * rows,
         NEW y \in Rounds(Lay), NEW x \in Pixels(Lay), NEW c \in Pointers(Lay)
  PROVE  From(Lay, y, x, c) \in Picture
<1> DEFINE total == Len(Lay.start) * Lay.lines * Lay.cols
<1>1. total \in Nat /\ total <= width * rows
  BY DEF Laid
<1>2. From(Lay, y, x, c) \in 0 .. total - 1
  BY FromOrigin
<1> HIDE DEF total
<1> QED BY <1>1, <1>2 DEF Picture

(* At first nothing is placed.                                             *)
LEMMA InitHolds ==
  ASSUME Methods \subseteq MethodsInOrder, Init, Suited
  PROVE  IndInv
<1>1. /\ method \in Methods /\ width \in Widths /\ rows \in Heights /\ Suited
      /\ inPlace \in BOOLEAN /\ line = 0 /\ strayed = FALSE
      /\ dest = [p \in Picture |-> IF inPlace THEN p ELSE Empty]
  BY DEF Init
<1>2. Laid(Lay, width, rows)
  BY <1>1, LayLaid
<1>3. line \in 0 .. Lay.lines
  BY <1>1, <1>2 DEF Laid
<1>4. dest \in [Picture -> Nat \cup {Empty}] /\ OfPicture
  <2>1. Picture \subseteq Nat
    BY DEF Picture
  <2> QED BY <1>1, <2>1 DEF OfPicture
<1>5. TypeOK
  BY <1>1, <1>3, <1>4 DEF TypeOK
<1>6. 0 .. line - 1 = {}
  BY <1>1
<1>7. Placed
  BY <1>6 DEF Placed
<1>8. OnlyPlaced
  BY <1>1 DEF OnlyPlaced
<1> QED BY <1>1, <1>4, <1>5, <1>7, <1>8 DEF IndInv

(* The places one line's pixels are put are apart, so that each has one    *)
(* pixel put on it.                                                        *)
LEMMA LastIsOnly ==
  ASSUME NEW lay, NEW w, NEW h, Laid(lay, w, h),
         NEW y \in Rounds(lay), NEW x \in Pixels(lay), NEW c \in Pointers(lay)
  PROVE  LastTo(Moves(lay, y), To(lay, y, x, c)) = From(lay, y, x, c)
<1> DEFINE goal == To(lay, y, x, c)
           moves == Moves(lay, y)
           pixels == {v[2] : v \in {u \in moves : u[1] = goal}}
<1>1. ASSUME NEW v \in moves, v[1] = goal PROVE v[2] = From(lay, y, x, c)
  <2>1. PICK z \in Pixels(lay), d \in Pointers(lay) : v = <<To(lay, y, z, d), From(lay, y, z, d)>>
    BY DEF Moves, Pixels
  <2>2. z = x /\ d = c
    BY <1>1, <2>1 DEF Laid
  <2> QED BY <2>1, <2>2
<1>2. <<goal, From(lay, y, x, c)>> \in moves
  BY DEF Moves, Pixels
<1>3. pixels = {From(lay, y, x, c)}
  <2>1. From(lay, y, x, c) \in pixels
    BY <1>2
  <2>2. \A q \in pixels : q = From(lay, y, x, c)
    BY <1>1
  <2> QED BY <2>1, <2>2
<1>4. From(lay, y, x, c) \in Int
  BY FromOrigin
<1>5. Max({From(lay, y, x, c)}) = From(lay, y, x, c)
  BY <1>4 DEF Max
<1> QED BY <1>3, <1>5 DEF LastTo

(* One round puts its pixels where the walk wants them, and leaves the     *)
(* rest.                                                                   *)
LEMMA LineWrites ==
  ASSUME Methods \subseteq MethodsInOrder, IndInv, Line
  PROVE  /\ UNCHANGED <<method, width, rows, inPlace>> /\ line' = line + 1
         /\ line \in Rounds(Lay) /\ Laid(Lay, width, rows)
         /\ Lay' = Lay /\ Picture' = Picture
         /\ DOMAIN dest' = Picture
         /\ \A x \in Pixels(Lay), c \in Pointers(Lay) :
              dest'[To(Lay, line, x, c)] = From(Lay, line, x, c)
         /\ \A p \in Picture :
              \/ dest'[p] = dest[p]
              \/ \E x \in Pixels(Lay), c \in Pointers(Lay) : p = To(Lay, line, x, c)
<1> DEFINE moves == Moves(Lay, line)
           goals == {v[1] : v \in moves}
<1>1. /\ Laid(Lay, width, rows)
      /\ Len(Lay.start) * Lay.lines * Lay.cols <= width * rows
      /\ width \in Nat \ {0} /\ rows \in Nat \ {0} /\ width * rows \in Nat
  BY LayLaid DEF IndInv, TypeOK
<1>2. /\ line < Lay.lines /\ line' = line + 1 /\ UNCHANGED <<method, width, rows, inPlace>>
      /\ dest' = [p \in Picture |-> IF p \in goals THEN Pixel(LastTo(moves, p)) ELSE dest[p]]
  BY DEF Line
<1>3. line \in Rounds(Lay)
  BY <1>1, <1>2 DEF IndInv, TypeOK, Rounds, Laid
<1>4. Lay' = Lay /\ Picture' = Picture
  BY <1>2 DEF Lay, Picture
<1>5. \A p : p \in goals <=> \E x \in Pixels(Lay), c \in Pointers(Lay) : p = To(Lay, line, x, c)
  <2>1. ASSUME NEW x \in Pixels(Lay), NEW c \in Pointers(Lay)
        PROVE  To(Lay, line, x, c) \in goals
    <3>1. <<To(Lay, line, x, c), From(Lay, line, x, c)>> \in moves
      BY DEF Moves, Pixels
    <3> QED BY <3>1
  <2>2. ASSUME NEW p \in goals
        PROVE  \E x \in Pixels(Lay), c \in Pointers(Lay) : p = To(Lay, line, x, c)
    <3>1. PICK v \in moves : p = v[1]
      OBVIOUS
    <3>2. PICK x \in Pixels(Lay), c \in Pointers(Lay) :
            v = <<To(Lay, line, x, c), From(Lay, line, x, c)>>
      BY DEF Moves, Pixels
    <3> QED BY <3>1, <3>2
  <2> HIDE DEF goals
  <2> QED BY <2>1, <2>2
<1>6. goals \subseteq Picture
  <2>1. \A x \in Pixels(Lay), c \in Pointers(Lay) : To(Lay, line, x, c) \in Picture
    BY <1>1, <1>3 DEF Laid, Picture
  <2> HIDE DEF goals
  <2> QED BY <1>5, <2>1
<1>7. ASSUME NEW x \in Pixels(Lay), NEW c \in Pointers(Lay)
      PROVE  dest'[To(Lay, line, x, c)] = From(Lay, line, x, c)
  <2> DEFINE goal == To(Lay, line, x, c)
             pixel == From(Lay, line, x, c)
  <2>1. goal \in goals /\ goal \in Picture
    BY <1>5, <1>6
  <2>2. LastTo(moves, goal) = pixel
    BY <1>1, <1>3, LastIsOnly
  <2>3. dest'[goal] = Pixel(pixel)
    <3> HIDE DEF goal, pixel, goals, moves
    <3> QED BY <1>2, <2>1, <2>2
  <2>4. pixel \in Picture
    BY <1>1, <1>3, FromInPicture
  <2>5. inPlace => dest[pixel] = pixel
    <3>1. CASE dest[pixel] = IF inPlace THEN pixel ELSE Empty
      BY <3>1
    <3>2. ASSUME inPlace,
                 NEW y \in 0 .. line - 1, NEW z \in 0 .. Lay.cols - 1, NEW d \in Pointers(Lay),
                 pixel = To(Lay, y, z, d)
          PROVE  FALSE
      <4>1. y \in Rounds(Lay) /\ z \in Pixels(Lay) /\ y # line
        <5>1. Lay.lines \in Nat /\ line \in 0 .. Lay.lines - 1
          BY <1>1, <1>3 DEF Laid, Rounds
        <5>2. y \in 0 .. Lay.lines - 1 /\ y # line
          <6> HIDE DEF goal, pixel, goals, moves, Lay
          <6> QED BY <5>1
        <5> QED BY <5>2 DEF Rounds, Pixels
      <4>2. Suited
        BY DEF IndInv
      <4> QED BY <1>1, <1>3, <3>2, <4>1, <4>2, OwnRow
    <3> QED BY <2>4, <3>1, <3>2 DEF IndInv, OnlyPlaced
  <2> QED BY <2>3, <2>5 DEF Pixel
<1> HIDE DEF goals, moves
<1>8. \A p \in Picture :
        \/ dest'[p] = dest[p]
        \/ \E x \in Pixels(Lay), c \in Pointers(Lay) : p = To(Lay, line, x, c)
  BY <1>2, <1>5
<1> QED BY <1>1, <1>2, <1>3, <1>4, <1>7, <1>8

(* One round keeps the invariant.                                          *)
LEMMA LineStep ==
  ASSUME Methods \subseteq MethodsInOrder, IndInv, Line
  PROVE  IndInv'
<1>1. /\ UNCHANGED <<method, width, rows, inPlace>> /\ line' = line + 1
      /\ line \in Rounds(Lay) /\ Laid(Lay, width, rows)
      /\ Lay' = Lay /\ Picture' = Picture
      /\ DOMAIN dest' = Picture
  BY LineWrites
<1>2. \A x \in Pixels(Lay), c \in Pointers(Lay) :
        dest'[To(Lay, line, x, c)] = From(Lay, line, x, c)
  BY LineWrites
<1>3. \A p \in Picture :
        \/ dest'[p] = dest[p]
        \/ \E x \in Pixels(Lay), c \in Pointers(Lay) : p = To(Lay, line, x, c)
  BY LineWrites
<1>4. /\ line \in Nat /\ Lay.lines \in Nat /\ line < Lay.lines
      /\ 0 .. line - 1 \subseteq Rounds(Lay)
      /\ \A y \in 0 .. line : y = line \/ y \in 0 .. line - 1
      /\ (line + 1) - 1 = line
  BY <1>1 DEF Rounds, Laid
<1>5. /\ Len(Lay.start) * Lay.lines * Lay.cols <= width * rows /\ width * rows \in Nat
  BY LayLaid DEF IndInv, TypeOK
<1>6. Placed'
  <2>1. ASSUME NEW y \in 0 .. line, NEW x \in Pixels(Lay), NEW c \in Pointers(Lay)
        PROVE  dest'[To(Lay, y, x, c)] = From(Lay, y, x, c)
    <3>1. CASE y = line
      BY <1>2, <3>1
    <3>2. CASE y \in 0 .. line - 1
      <4>1. dest[To(Lay, y, x, c)] = From(Lay, y, x, c)
        BY <3>2 DEF IndInv, Placed, Pixels
      <4>2. To(Lay, y, x, c) \in Picture /\ y \in Rounds(Lay) /\ y # line
        BY <1>1, <1>4, <3>2 DEF Laid, Picture
      <4>3. \A u \in Pixels(Lay), d \in Pointers(Lay) : To(Lay, y, x, c) # To(Lay, line, u, d)
        BY <1>1, <4>2 DEF Laid
      <4> QED BY <1>3, <4>1, <4>2, <4>3
    <3> QED BY <1>4, <3>1, <3>2
  <2> QED BY <1>1, <1>4, <2>1 DEF Placed, Pixels
<1>7. OnlyPlaced'
  <2>1. ASSUME NEW p \in Picture
        PROVE  \/ dest'[p] = IF inPlace THEN p ELSE Empty
               \/ \E y \in 0 .. line, x \in 0 .. Lay.cols - 1, c \in Pointers(Lay) :
                    p = To(Lay, y, x, c) /\ dest'[p] = From(Lay, y, x, c)
    <3>1. CASE dest'[p] = dest[p]
      <4>1. \/ dest[p] = IF inPlace THEN p ELSE Empty
            \/ \E y \in 0 .. line - 1, x \in 0 .. Lay.cols - 1, c \in Pointers(Lay) :
                 p = To(Lay, y, x, c) /\ dest[p] = From(Lay, y, x, c)
        BY DEF IndInv, OnlyPlaced
      <4>2. 0 .. line - 1 \subseteq 0 .. line
        BY <1>4
      <4> QED BY <3>1, <4>1, <4>2
    <3>2. ASSUME NEW x \in Pixels(Lay), NEW c \in Pointers(Lay), p = To(Lay, line, x, c)
          PROVE  \E y \in 0 .. line, u \in 0 .. Lay.cols - 1, d \in Pointers(Lay) :
                   p = To(Lay, y, u, d) /\ dest'[p] = From(Lay, y, u, d)
      <4>1. line \in 0 .. line /\ x \in 0 .. Lay.cols - 1
        BY <1>4 DEF Pixels
      <4> QED BY <1>2, <3>2, <4>1
    <3> QED BY <1>3, <3>1, <3>2
  <2> QED BY <1>1, <1>4, <2>1 DEF OnlyPlaced
<1>8. TypeOK' /\ OfPicture'
  <2>1. line' \in 0 .. Lay.lines
    BY <1>1, <1>4
  <2>2. ASSUME NEW p \in Picture PROVE dest'[p] \in Picture \cup {Empty}
    <3>1. CASE dest'[p] = dest[p]
      BY <3>1 DEF IndInv, OfPicture
    <3>2. ASSUME NEW x \in Pixels(Lay), NEW c \in Pointers(Lay), p = To(Lay, line, x, c)
          PROVE  dest'[p] \in Picture
      BY <1>1, <1>2, <1>5, <3>2, FromInPicture
    <3> QED BY <1>3, <3>1, <3>2
  <2>3. dest' = [p \in Picture |-> dest'[p]]
    BY DEF Line
  <2>4. dest' \in [Picture -> Nat \cup {Empty}]
    <3>1. Picture \cup {Empty} \subseteq Nat \cup {Empty}
      BY DEF Picture
    <3> QED BY <2>2, <2>3, <3>1
  <2>5. strayed' \in BOOLEAN
    BY DEF IndInv, TypeOK, Line
  <2>6. OfPicture'
    BY <1>1, <2>2 DEF OfPicture
  <2> QED BY <1>1, <2>1, <2>4, <2>5, <2>6 DEF IndInv, TypeOK
<1>9. Suited'
  BY <1>1 DEF IndInv, Suited, Fits
<1> QED BY <1>6, <1>7, <1>8, <1>9 DEF IndInv

(* A round changes neither what is asked for nor the size.                 *)
LEMMA SameTask ==
  ASSUME [Next]_vars
  PROVE  UNCHANGED <<method, width, rows, inPlace>> /\ Lay' = Lay /\ Picture' = Picture
<1>1. UNCHANGED <<method, width, rows, inPlace>>
  BY DEF Next, Line, vars
<1> QED BY <1>1 DEF Lay, Picture

(* The invariant holds of the methods in order, on pictures of any size    *)
(* they are for.                                                           *)
THEOREM Invariance ==
  ASSUME Methods \subseteq MethodsInOrder
  PROVE  Spec => [](Suited => IndInv)
<1>1. Init => (Suited => IndInv)
  BY InitHolds
<1>2. (Suited => IndInv) /\ [Next]_vars => (Suited => IndInv)'
  <2> SUFFICES ASSUME Suited => IndInv, [Next]_vars, Suited' PROVE IndInv'
    OBVIOUS
  <2>1. IndInv
    BY SameTask DEF Suited, Fits
  <2>2. CASE Line
    BY <2>1, <2>2, LineStep
  <2>3. CASE UNCHANGED vars
    BY <2>1, <2>3 DEF vars, IndInv, TypeOK, OfPicture, Suited, Placed, OnlyPlaced,
                      Lay, Picture, Fits
  <2> QED BY <2>2, <2>3 DEF Next
<1> QED BY <1>1, <1>2, PTL DEF Spec

(* Only inv_rt is asked to work in place.                                  *)
Placing == inPlace => method = "inv_rt"

LEMMA NotAtOnce == Spec => []Placing
<1>1. Init => Placing
  BY DEF Init, Placing
<1>2. Placing /\ [Next]_vars => Placing'
  BY SameTask DEF Placing
<1> QED BY <1>1, <1>2, PTL DEF Spec

(* With an odd number of rows, too, two images one above the other and a   *)
(* picture read from both ends stay within the picture: the last round of  *)
(* both pointers is in the middle row, or in the last rows of the halves.  *)
LEMMA OddRowsStay ==
  ASSUME NEW w \in Nat \ {0}, NEW h \in Nat \ {0}, NEW lay,
         lay = ES10_16_hilo(w, h) \/ lay = TopBottom(w, h),
         NEW y \in 0 .. lay.lines - 1, NEW x \in 0 .. lay.cols - 1, NEW c \in Pointers(lay)
  PROVE  To(lay, y, x, c) \in 0 .. w * h - 1
<1>1. /\ lay.lines = (h + 1) \div 2 /\ lay.cols = w /\ lay.step = <<1, 1>>
      /\ Len(lay.start) = 2
      /\ \/ lay.start = <<0, w * (h \div 2)>> /\ lay.next = <<w, w>>
         \/ lay.start = <<0, w * (h - 1)>> /\ lay.next = <<w, -w>>
  BY DEF ES10_16_hilo, TopBottom, Walk, Half, HalfUp
<1>2. /\ y \in 0 .. ((h + 1) \div 2) - 1 /\ x \in 0 .. w - 1 /\ c \in 1 .. 2
      /\ y \in Nat /\ x \in Nat
  BY <1>1 DEF Pointers
<1> HIDE DEF Pointers
<1>3. PICK r \in 0 .. h - 1 : To(lay, y, x, c) = r * w + x
  <2>1. CASE c = 1
    <3>1. To(lay, y, x, c) = y * w + x
      BY <1>1, <1>2, <2>1 DEF To
    <3>2. y \in 0 .. h - 1
      BY <1>2
    <3> QED BY <3>1, <3>2
  <2>2. CASE c = 2 /\ lay.start = <<0, w * (h \div 2)>> /\ lay.next = <<w, w>>
    <3>1. To(lay, y, x, c) = w * (h \div 2) + y * w + x
      BY <1>1, <1>2, <2>2 DEF To
    <3>2. w * (h \div 2) + y * w + x = (h \div 2 + y) * w + x
      BY <1>2
    <3>3. h \div 2 + y \in 0 .. h - 1
      BY <1>2
    <3> QED BY <3>1, <3>2, <3>3
  <2>3. CASE c = 2 /\ lay.start = <<0, w * (h - 1)>> /\ lay.next = <<w, -w>>
    <3>1. To(lay, y, x, c) = w * (h - 1) + y * (-w) + x
      BY <1>1, <1>2, <2>3 DEF To
    <3>2. w * (h - 1) + y * (-w) + x = (h - 1 - y) * w + x
      BY <1>2
    <3>3. h - 1 - y \in 0 .. h - 1
      BY <1>2
    <3> QED BY <3>1, <3>2, <3>3
  <2> QED BY <1>1, <1>2, <2>1, <2>2, <2>3
<1> QED BY <1>2, <1>3, InGrid

(* With an even number of rows the methods that put two take the picture.  *)
LEMMA EvenRowsFit ==
  ASSUME width \in Nat \ {0}, rows \in Nat \ {0}, method \in PutTwoRows, rows % 2 = 0
  PROVE  Fits(Lay)
<1>1. Len(Lay.start) = 2 /\ Lay.lines = (rows + 1) \div 2 /\ Lay.cols = width
  BY DEF Lay, process, PutTwoRows, ES10_16, ES10_16_odd, MidTop_Line, ByLine, Walk, HalfUp
<1>2. 2 * ((rows + 1) \div 2) = rows
  OBVIOUS
<1> QED BY <1>1, <1>2 DEF Fits

(* What is asked for and how far it is, and no pointer has left.           *)
InStep ==
  /\ method \in Methods /\ width \in Widths /\ rows \in Heights
  /\ Fits(Lay) \/ method \in AnyRows
  /\ Placing
  /\ line \in Nat
  /\ StaysInPicture

(* Where a round puts its pixels.                                          *)
LEMMA RoundStays ==
  ASSUME Methods \subseteq MethodsInOrder, InStep, line < Lay.lines,
         ~ (method \in PutTwoRows /\ rows % 2 = 1)
  PROVE  {v[1] : v \in Moves(Lay, line)} \subseteq Picture
<1>1. width \in Nat \ {0} /\ rows \in Nat \ {0} /\ method \in MethodsInOrder
  BY DeinterlaceAssumption DEF InStep
<1>2. ASSUME NEW x \in 0 .. Lay.cols - 1, NEW c \in Pointers(Lay)
      PROVE  To(Lay, line, x, c) \in Picture
  <2>1. CASE Suited
    <3>1. Laid(Lay, width, rows)
      BY <2>1, LayLaid DEF InStep
    <3>2. line \in Rounds(Lay) /\ x \in Pixels(Lay)
      BY <3>1 DEF Rounds, Pixels, Laid, InStep
    <3> QED BY <3>1, <3>2 DEF Laid, Picture
  <2>2. CASE ~Suited
    <3>1. ~Fits(Lay) /\ method \in AnyRows \ {"ES10_8", "InOut"}
      BY <2>2 DEF Suited, InStep, Placing
    <3>2. method \notin PutTwoRows
      <4>1. rows % 2 = 0 \/ rows % 2 = 1
        BY <1>1
      <4> QED BY <1>1, <3>1, <4>1, EvenRowsFit
    <3>3. method \in {"ES10_16_hilo", "TopBottom"}
      BY <3>1, <3>2 DEF AnyRows, PutTwoRows
    <3>4. Lay = ES10_16_hilo(width, rows) \/ Lay = TopBottom(width, rows)
      BY <3>3 DEF Lay, process
    <3>5. Lay.lines \in Nat
      BY <1>1, <3>4 DEF ES10_16_hilo, TopBottom, Walk, HalfUp
    <3>6. line \in 0 .. Lay.lines - 1
      BY <3>5 DEF InStep
    <3> QED BY <1>1, <3>4, <3>6, OddRowsStay DEF Picture
  <2> QED BY <2>1, <2>2
<1>3. ASSUME NEW v \in Moves(Lay, line) PROVE v[1] \in Picture
  <2>1. PICK x \in 0 .. Lay.cols - 1, c \in Pointers(Lay) :
          v = <<To(Lay, line, x, c), From(Lay, line, x, c)>>
    BY DEF Moves
  <2> QED BY <1>2, <2>1
<1> QED BY <1>3

(* No method in order writes beside a picture, but for the three that put  *)
(* two rows, and these only with an odd number of rows.                    *)
THEOREM NothingBeside ==
  ASSUME Methods \subseteq MethodsInOrder
  PROVE  Spec => []StaysInPicture
<1>1. Init => InStep
  <2> SUFFICES ASSUME Init PROVE InStep
    OBVIOUS
  <2>1. /\ method \in Methods /\ width \in Widths /\ rows \in Heights /\ line \in Nat
        /\ Fits(Lay) \/ method \in AnyRows
    BY DEF Init
  <2>2. Placing
    BY DEF Init, Placing
  <2>3. StaysInPicture
    BY DEF Init, StaysInPicture
  <2> QED BY <2>1, <2>2, <2>3 DEF InStep
<1>2. InStep /\ [Next]_vars => InStep'
  <2> SUFFICES ASSUME InStep, [Next]_vars PROVE InStep'
    OBVIOUS
  <2>1. UNCHANGED <<method, width, rows, inPlace>> /\ Lay' = Lay /\ Picture' = Picture
    BY SameTask
  <2>2. line' \in Nat
    BY DEF Next, Line, vars, InStep
  <2>3. StaysInPicture'
    <3>1. CASE method \in PutTwoRows /\ rows % 2 = 1
      BY <2>1, <3>1 DEF StaysInPicture
    <3>2. CASE ~ (method \in PutTwoRows /\ rows % 2 = 1)
      <4>1. ~strayed
        BY <3>2 DEF InStep, StaysInPicture
      <4>2. CASE Line
        <5>1. {v[1] : v \in Moves(Lay, line)} \subseteq Picture
          BY <3>2, <4>2, RoundStays DEF Line
        <5>2. strayed' = (strayed \/ ~ {v[1] : v \in Moves(Lay, line)} \subseteq Picture)
          BY <4>2 DEF Line
        <5> QED BY <4>1, <5>1, <5>2 DEF StaysInPicture
      <4>3. CASE UNCHANGED vars
        BY <4>1, <4>3 DEF vars, StaysInPicture
      <4> QED BY <4>2, <4>3 DEF Next
    <3> QED BY <3>1, <3>2
  <2> QED BY <2>1, <2>2, <2>3 DEF InStep, Placing, Fits
<1>3. InStep => StaysInPicture
  BY DEF InStep
<1> QED BY <1>1, <1>2, <1>3, PTL DEF Spec

(* The pixels of the picture are as many as its places, so that no place   *)
(* is left without one.                                                    *)
LEMMA DoneIsOrdered ==
  ASSUME Methods \subseteq MethodsInOrder, IndInv, Fits(Lay), line = Lay.lines
  PROVE  {dest[p] : p \in Picture} = Picture
<1>1. /\ Laid(Lay, width, rows) /\ width * rows \in Nat
      /\ Len(Lay.start) * Lay.lines * Lay.cols = width * rows
  BY LayLaid DEF IndInv, TypeOK, Takes
<1>2. 0 .. line - 1 = Rounds(Lay)
  BY DEF Rounds
<1>3. ASSUME NEW m \in Picture
      PROVE  \E y \in Rounds(Lay), x \in Pixels(Lay), c \in Pointers(Lay) :
               /\ From(Lay, y, x, c) = m /\ To(Lay, y, x, c) \in Picture
               /\ dest[To(Lay, y, x, c)] = m
  <2>1. m \in 0 .. Len(Lay.start) * Lay.lines * Lay.cols - 1
    BY <1>1 DEF Picture
  <2>2. PICK y \in Rounds(Lay), x \in Pixels(Lay), c \in Pointers(Lay) : From(Lay, y, x, c) = m
    BY <1>1, <2>1, FromOnto
  <2>3. To(Lay, y, x, c) \in Picture
    BY <1>1 DEF Laid, Picture
  <2>4. dest[To(Lay, y, x, c)] = m
    BY <1>2, <2>2 DEF IndInv, Placed, Pixels
  <2> QED BY <2>2, <2>3, <2>4
<1>4. ASSUME NEW p \in Picture PROVE dest[p] \in Picture
  <2> DEFINE Goes(m, q) == \E y \in Rounds(Lay), x \in Pixels(Lay), c \in Pointers(Lay) :
                             /\ From(Lay, y, x, c) = m /\ To(Lay, y, x, c) = q
                             /\ dest[q] = m
             f == [m \in Picture |-> CHOOSE q \in Picture : Goes(m, q)]
  <2>1. ASSUME NEW m \in Picture PROVE f[m] \in Picture /\ Goes(m, f[m])
    <3>1. \E q \in Picture : Goes(m, q)
      BY <1>3
    <3> HIDE DEF Goes
    <3> QED BY <3>1
  <2>2. \A m, k \in Picture : f[m] = f[k] => m = k
    <3> HIDE DEF f
    <3> QED BY <2>1
  <2>3. f \in Injection(Picture, Picture)
    <3>1. f \in [Picture -> Picture]
      <4> HIDE DEF Goes
      <4>1. f = [m \in Picture |-> f[m]]
        OBVIOUS
      <4> HIDE DEF f
      <4> QED BY <2>1, <4>1
    <3> HIDE DEF f
    <3> QED BY <2>2, <3>1 DEF Injection, IsInjective
  <2>4. IsFiniteSet(Picture)
    BY <1>1, FS_Interval DEF Picture
  <2>5. f \in Surjection(Picture, Picture)
    <3> HIDE DEF f
    <3> QED BY <2>3, <2>4, FS_Injection
  <2>6. PICK m \in Picture : f[m] = p
    <3> HIDE DEF f
    <3> QED BY <2>5 DEF Surjection
  <2>7. Goes(m, p)
    <3> HIDE DEF f, Goes
    <3> QED BY <2>1, <2>6
  <2> QED BY <2>7
<1> QED BY <1>3, <1>4

(* When such a method is done every pixel of the picture lies at one       *)
(* place, and there is no place without one; in place too.                 *)
THEOREM AllPlaced ==
  ASSUME Methods \subseteq MethodsInOrder
  PROVE  Spec => []EveryPixelPlaced
<1>1. (Suited => IndInv) /\ Placing => EveryPixelPlaced
  BY DoneIsOrdered DEF EveryPixelPlaced, Suited, Placing
<1> QED BY <1>1, Invariance, NotAtOnce, PTL

(* The pixels that came by one pointer in one line were put by it into one *)
(* row.                                                                    *)
LEMMA OneRow ==
  ASSUME Methods \subseteq MethodsInOrder, IndInv, ~inPlace,
         NEW p \in Picture, NEW q \in Picture, dest[p] # Empty, dest[q] # Empty,
         Origin(Lay, dest[p]) = Origin(Lay, dest[q])
  PROVE  p \div width = q \div width
<1>1. Laid(Lay, width, rows) /\ line \in 0 .. Lay.lines
  BY LayLaid DEF IndInv, TypeOK
<1>2. 0 .. line - 1 \subseteq Rounds(Lay) /\ 0 .. Lay.cols - 1 = Pixels(Lay)
  BY <1>1 DEF Rounds, Pixels, Laid
<1>3. PICK y \in Rounds(Lay), x \in Pixels(Lay), c \in Pointers(Lay) :
        p = To(Lay, y, x, c) /\ dest[p] = From(Lay, y, x, c)
  BY <1>2 DEF IndInv, OnlyPlaced
<1>4. PICK z \in Rounds(Lay), u \in Pixels(Lay), d \in Pointers(Lay) :
        q = To(Lay, z, u, d) /\ dest[q] = From(Lay, z, u, d)
  BY <1>2 DEF IndInv, OnlyPlaced
<1>5. <<y, c - 1>> = <<z, d - 1>>
  BY <1>1, <1>3, <1>4, FromOrigin
<1>6. y = z /\ c = d
  BY <1>1, <1>5 DEF Pointers, Laid
<1> QED BY <1>1, <1>3, <1>4, <1>6 DEF Laid

(* A line that one tap sends comes to lie in one row of a picture of a     *)
(* size the method is for: none of these methods wraps a line around its   *)
(* edge.                                                                   *)
THEOREM NoLineWrapped ==
  ASSUME Methods \subseteq MethodsInOrder
  PROVE  Spec => [](Suited => LinesStayLines)
<1>1. IndInv => LinesStayLines
  BY OneRow DEF LinesStayLines
<1> QED BY <1>1, Invariance, PTL

=============================================================================
