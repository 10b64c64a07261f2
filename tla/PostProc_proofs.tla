--------------------------- MODULE PostProc_proofs ---------------------------
(***************************************************************************)
(* Proofs about PostProc, for every table entry, pictures of any size and  *)
(* every number of buffers: the output buffers follow the picture, and a   *)
(* function that was looked up for what is set stays within the buffers    *)
(* that were allocated for it.                                             *)
(***************************************************************************)
EXTENDS PostProc, TLAPS

(* No depth of two or four bits, nor pictures of single bits: the camera   *)
(* configurations have depths from 8 to 32.  Single bits may come from the *)
(* camera.                                                                 *)
WholeBytes ==
  \A de \in Depths : de[1] \notin {1, 2, 4} /\ de[2] \notin {2, 4}

(***************************************************************************)
(* The table.                                                              *)
(***************************************************************************)

(* What the functions do to the width of a pixel.                          *)
LEMMA Kinds ==
  ASSUME NEW p \in built_in_postproc
  PROVE  \/ p.func = "PIRANHA_4CH" /\ p.src \in {"BYTE", "USHORT"} /\ p.dest = "BYTE"
         \/ p.func \in {"INV_RT_24_12", "24_12"} /\ p.src = "BGR" /\ p.dest = "USHORT"
         \/ p.func = "10BIT_8TAP_PACKED" /\ p.src = "BYTE" /\ p.dest = "USHORT"
         \/ p.func = "10BIT_8TAP_TO_8BIT" /\ p.src = "BYTE" /\ p.dest = "BYTE"
         \/ p.func \in {"1_8_MSB7", "1_8_MSB0"} /\ p.src = "BYTE" /\ p.dest = "BYTE"
         \/ p.func = "ILLUNIS" /\ p.src = "SHORT" /\ p.dest = "USHORT"
         \/ /\ p.func \notin {"PIRANHA_4CH", "INV_RT_24_12", "24_12", "10BIT_8TAP_PACKED",
                              "10BIT_8TAP_TO_8BIT", "1_8_MSB7", "1_8_MSB0"}
            /\ p.dest = p.src \/ p.dest = "BGR"
            /\ p.src \in {"BYTE", "USHORT", "BGR"}
  BY DEF built_in_postproc, Proc

(* No entry is NoProc, and none is for no method.                          *)
LEMMA Named ==
  ASSUME NEW p \in built_in_postproc
  PROVE  p.func # NoInterlace /\ p # NoProc
  BY DEF built_in_postproc, Proc, NoInterlace, NoProc

(* What is found is for the method and for the types of the depths.        *)
LEMMA Found ==
  ASSUME NEW i, NEW e, NEW d, lookup_postproc(i, e, d) # NoProc
  PROVE  /\ lookup_postproc(i, e, d) \in built_in_postproc
         /\ lookup_postproc(i, e, d).func = i
         /\ lookup_postproc(i, e, d).src = pixel_type_from_depth(e)
         /\ lookup_postproc(i, e, d).dest = pixel_type_from_depth(d)
  BY DEF lookup_postproc, Proc

(* Nothing is found for no method.                                         *)
LEMMA NoneForNone ==
  ASSUME NEW e, NEW d
  PROVE  lookup_postproc(NoInterlace, e, d) = NoProc
  BY Found, Named

(* The types and what they take.                                           *)
LEMMA Types ==
  ASSUME NEW d \in 1 .. 80
  PROVE  /\ pixel_type_from_depth(d) = "BYTE" <=> d \in 1 .. 8
         /\ pixel_type_from_depth(d) = "USHORT" <=> d \in 9 .. 16
         /\ pixel_type_from_depth(d) = "BGR" <=> d \in 17 .. 24
         /\ pixel_type_from_depth(d) # "SHORT"
  BY DEF pixel_type_from_depth

(***************************************************************************)
(* The bytes.                                                              *)
(***************************************************************************)

(* The bytes of a line or a picture, whose pixels are eights.              *)
LEMMA Eights ==
  ASSUME NEW n \in Nat, n % 8 = 0
  PROVE  \E k \in Nat : /\ n = 8 * k /\ n \div 8 = k /\ n \div 4 = 2 * k /\ n \div 2 = 4 * k
                        /\ (3 * n) \div 2 = 12 * k /\ (n * 3) \div 2 = 12 * k
<1>1. n \div 8 \in Nat /\ n = 8 * (n \div 8)
  OBVIOUS
<1> DEFINE k == n \div 8
<1>2. k \in Nat /\ n = 8 * k
  BY <1>1
<1> HIDE DEF k
<1>3. /\ n \div 8 = k /\ n \div 4 = 2 * k /\ n \div 2 = 4 * k
      /\ (3 * n) \div 2 = 12 * k /\ (n * 3) \div 2 = 12 * k
  BY <1>2
<1> QED BY <1>2, <1>3

(* A depth takes one, two, three or four bytes, but for the depths of less *)
(* than one.                                                               *)
LEMMA LineBytes ==
  ASSUME NEW n \in Nat, n % 8 = 0, NEW d \in 1 .. 80
  PROVE  /\ bytes_per_line(n, d) \in Nat
         /\ d \in 3 .. 8 /\ d # 4 => bytes_per_line(n, d) = n
         /\ d \in 9 .. 16 => bytes_per_line(n, d) = 2 * n
         /\ d \in 17 .. 24 => bytes_per_line(n, d) = 3 * n
         /\ d = 1 => bytes_per_line(n, d) = n \div 8
         /\ d = 80 => bytes_per_line(n, d) = n + n \div 4
<1>1. PICK k \in Nat : n = 8 * k /\ n \div 8 = k /\ n \div 4 = 2 * k /\ n \div 2 = 4 * k
  BY Eights
<1>2. CASE d \in {1, 2, 4, 80}
  BY <1>1, <1>2 DEF bytes_per_line
<1>3. CASE d \notin {1, 2, 4, 80}
  <2>1. bytes_per_line(n, d) = n * ((d + 7) \div 8)
    BY <1>3 DEF bytes_per_line
  <2>2. /\ (d + 7) \div 8 \in Nat
        /\ d \in 3 .. 8 => (d + 7) \div 8 = 1
        /\ d \in 9 .. 16 => (d + 7) \div 8 = 2
        /\ d \in 17 .. 24 => (d + 7) \div 8 = 3
    OBVIOUS
  <2>3. n * ((d + 7) \div 8) \in Nat
    BY <2>2
  <2> QED BY <1>3, <2>1, <2>2, <2>3
<1> QED BY <1>2, <1>3

(* The sizes are numbers.                                                  *)
LEMMA SizesAreNumbers ==
  ASSUME NEW n \in Nat, n % 8 = 0, NEW d \in 1 .. 32, NEW e \in 1 .. 80, NEW i
  PROVE  /\ imagesize(n, d) \in Nat /\ dmasize(n, d, e, i) \in Nat
         /\ tmpbufsize \in Nat => TmpSize(n, d, e, i) \in Nat
         /\ i # NoInterlace => /\ TmpSize(n, d, e, i) >= imagesize(n, d)
                               /\ TmpSize(n, d, e, i) >= dmasize(n, d, e, i)
<1>0. \A b \in 1 .. 80 : bytes_per_line(n, b) \in Nat
  BY LineBytes
<1>1. imagesize(n, d) \in Nat
  BY <1>0 DEF imagesize
<1>2. dmasize(n, d, e, i) \in Nat
  <2>1. (n * 3) \div 2 \in Nat
    OBVIOUS
  <2>2. /\ bytes_per_line(n, IF d > e THEN e ELSE d) \in Nat
        /\ bytes_per_line(n, 80) \in Nat
    BY <1>0
  <2> QED BY <2>1, <2>2 DEF dmasize
<1> QED BY <1>1, <1>2 DEF TmpSize

(* Of the pixels of a whole picture a function that is found reads no more *)
(* than the picture takes from the camera, and writes no more than it      *)
(* takes in memory.                                                        *)
LEMMA TableFits ==
  ASSUME NEW n \in Nat, n % 8 = 0, NEW d \in 1 .. 32, NEW e \in 1 .. 80, NEW i,
         d \notin {1, 2, 4}, e \notin {2, 4}, Agree(i, e, d), processor # NoProc
  PROVE  /\ ReadsOf(processor, n) <= dmasize(n, d, e, i)
         /\ WritesOf(processor, n) <= imagesize(n, d)
         /\ ReadsOf(processor, n) \in Nat /\ WritesOf(processor, n) \in Nat
<1>1. /\ processor \in built_in_postproc /\ processor.func = i
      /\ processor.src = pixel_type_from_depth(e) /\ processor.dest = pixel_type_from_depth(d)
      /\ e = 1 => i \in {"1_8_MSB7", "1_8_MSB0", NoInterlace}
  BY Found DEF Agree
<1>2. i # NoInterlace
  BY <1>1, Named
<1>3. PICK k \in Nat : n = 8 * k /\ n \div 8 = k /\ n \div 4 = 2 * k
                       /\ (3 * n) \div 2 = 12 * k /\ (n * 3) \div 2 = 12 * k
  BY Eights
<1> DEFINE least == IF d > e THEN e ELSE d
<1>4. least \in 1 .. 80 /\ least <= e /\ least <= d /\ (least = d \/ least = e)
  OBVIOUS
<1>5. imagesize(n, d) = bytes_per_line(n, d)
  BY DEF imagesize
<1> HIDE DEF least
<1>6. /\ e \in 1 .. 8 <=> processor.src = "BYTE"
      /\ e \in 9 .. 16 <=> processor.src = "USHORT"
      /\ e \in 17 .. 24 <=> processor.src = "BGR"
      /\ processor.src # "SHORT"
      /\ d \in 1 .. 8 <=> processor.dest = "BYTE"
      /\ d \in 9 .. 16 <=> processor.dest = "USHORT"
      /\ d \in 17 .. 24 <=> processor.dest = "BGR"
  <2>1. d \in 1 .. 80
    OBVIOUS
  <2> QED BY <1>1, <2>1, Types
<1>7. \A b \in 1 .. 80 :
        /\ bytes_per_line(n, b) \in Nat
        /\ b \in 3 .. 8 /\ b # 4 => bytes_per_line(n, b) = n
        /\ b \in 9 .. 16 => bytes_per_line(n, b) = 2 * n
        /\ b \in 17 .. 24 => bytes_per_line(n, b) = 3 * n
        /\ b = 1 => bytes_per_line(n, b) = n \div 8
        /\ b = 80 => bytes_per_line(n, b) = n + n \div 4
  BY LineBytes
<1>8. dmasize(n, d, e, i) = CASE i = "INV_RT_24_12" -> (n * 3) \div 2
        [] i \in {"10BIT_8TAP_PACKED", "10BIT_8TAP_TO_8BIT"} -> bytes_per_line(n, 80)
        [] OTHER -> bytes_per_line(n, least)
  BY DEF dmasize, least
<1>9. CASE i = "PIRANHA_4CH"
  <2>1. ReadsOf(processor, n) = n /\ WritesOf(processor, n) = n
    BY <1>1, <1>9 DEF ReadsOf, WritesOf
  <2>2. dmasize(n, d, e, i) = bytes_per_line(n, least)
    BY <1>8, <1>9
  <2>3. processor.dest = "BYTE" /\ processor.src \in {"BYTE", "USHORT"}
    BY <1>1, <1>9, Kinds
  <2>4. d \in 3 .. 8 /\ d # 4 /\ e \in 3 .. 16 /\ e # 4
    BY <1>1, <1>6, <1>9, <2>3 DEF NoInterlace
  <2>5. least \in 3 .. 8 /\ least # 4
    BY <1>4, <2>4
  <2> QED BY <1>5, <1>7, <2>1, <2>2, <2>4, <2>5
<1>10. CASE i \in {"INV_RT_24_12", "24_12"}
  <2>1. ReadsOf(processor, n) = (3 * n) \div 2 /\ WritesOf(processor, n) = 2 * n
    <3>1. processor.dest = "USHORT"
      BY <1>1, <1>10, Kinds
    <3> QED BY <1>1, <1>10, <3>1 DEF ReadsOf, WritesOf, BytesOf
  <2>2. d \in 9 .. 16 /\ e \in 17 .. 24
    BY <1>1, <1>6, <1>10, Kinds
  <2>3. dmasize(n, d, e, i) = (n * 3) \div 2 \/ dmasize(n, d, e, i) = bytes_per_line(n, least)
    BY <1>8, <1>10
  <2>4. least = d
    BY <1>4, <2>2
  <2> QED BY <1>3, <1>5, <1>7, <2>1, <2>2, <2>3, <2>4
<1>11. CASE i \in {"10BIT_8TAP_PACKED", "10BIT_8TAP_TO_8BIT"}
  <2>1. ReadsOf(processor, n) = n + n \div 4
    BY <1>1, <1>11 DEF ReadsOf
  <2>2. dmasize(n, d, e, i) = bytes_per_line(n, 80)
    BY <1>8, <1>11
  <2>3. \/ processor.dest = "USHORT" /\ WritesOf(processor, n) = 2 * n
        \/ processor.dest = "BYTE" /\ WritesOf(processor, n) = n
    <3>1. processor.dest \in {"BYTE", "USHORT"}
      BY <1>1, <1>11, Kinds
    <3> QED BY <1>1, <1>11, <3>1 DEF WritesOf, BytesOf
  <2>4. imagesize(n, d) >= WritesOf(processor, n) /\ WritesOf(processor, n) \in Nat
    BY <1>5, <1>6, <1>7, <2>3
  <2> QED BY <1>3, <1>7, <2>1, <2>2, <2>4
<1>12. CASE i \in {"1_8_MSB7", "1_8_MSB0"}
  <2>1. ReadsOf(processor, n) = n \div 8 /\ WritesOf(processor, n) = n
    <3>1. processor.dest = "BYTE"
      BY <1>1, <1>12, Kinds
    <3> QED BY <1>1, <1>12, <3>1 DEF ReadsOf, WritesOf, BytesOf
  <2>2. d \in 3 .. 8 /\ d # 4 /\ e \in 1 .. 8
    BY <1>1, <1>6, <1>12, Kinds
  <2>3. dmasize(n, d, e, i) = bytes_per_line(n, least)
    BY <1>8, <1>12
  <2>4. least = 1 \/ (least \in 3 .. 8 /\ least # 4)
    BY <1>4, <2>2
  <2> QED BY <1>3, <1>5, <1>7, <2>1, <2>2, <2>3, <2>4
<1>13. CASE i \notin {"PIRANHA_4CH", "INV_RT_24_12", "24_12", "10BIT_8TAP_PACKED",
                      "10BIT_8TAP_TO_8BIT", "1_8_MSB7", "1_8_MSB0"}
  <2>1. /\ ReadsOf(processor, n) = BytesOf(processor.src) * n
        /\ WritesOf(processor, n) = BytesOf(processor.dest) * n
    BY <1>1, <1>13 DEF ReadsOf, WritesOf
  <2>2. /\ processor.dest = processor.src \/ processor.dest = "BGR"
        /\ processor.src \in {"BYTE", "USHORT", "BGR"}
    BY <1>1, <1>6, <1>13, Kinds
  <2>3. BytesOf("BYTE") = 1 /\ BytesOf("USHORT") = 2 /\ BytesOf("BGR") = 3
    BY DEF BytesOf
  <2>4. e # 1
    BY <1>1, <1>2, <1>13
  <2>5. dmasize(n, d, e, i) = bytes_per_line(n, least)
    BY <1>8, <1>13
  <2>6. PICK r \in {1, 2, 3}, s \in {1, 2, 3} :
          /\ ReadsOf(processor, n) = r * n /\ WritesOf(processor, n) = s * n /\ r <= s
          /\ bytes_per_line(n, d) = s * n /\ bytes_per_line(n, e) = r * n
    <3>1. d \in 1 .. 80
      OBVIOUS
    <3> QED BY <1>6, <1>7, <2>1, <2>2, <2>3, <2>4, <3>1
  <2>7. r * n <= s * n /\ r * n \in Nat /\ s * n \in Nat
    BY <2>6
  <2> QED BY <1>4, <1>5, <2>5, <2>6, <2>7
<1> QED BY <1>9, <1>10, <1>11, <1>12, <1>13

(* Fewer pixels are no more bytes.                                         *)
LEMMA Fewer ==
  ASSUME NEW p \in built_in_postproc, p.src # "SHORT",
         NEW m \in Nat, m % 8 = 0, NEW n \in Nat, n % 8 = 0, m <= n
  PROVE  /\ ReadsOf(p, m) \in Nat /\ ReadsOf(p, m) <= ReadsOf(p, n)
         /\ WritesOf(p, m) \in Nat /\ WritesOf(p, m) <= WritesOf(p, n)
<1>1. PICK k \in Nat : /\ m = 8 * k /\ m \div 8 = k /\ m \div 4 = 2 * k
                       /\ (3 * m) \div 2 = 12 * k
  BY Eights
<1>2. PICK l \in Nat : /\ n = 8 * l /\ n \div 8 = l /\ n \div 4 = 2 * l
                       /\ (3 * n) \div 2 = 12 * l
  BY Eights
<1>3. p.src \in {"BYTE", "USHORT", "BGR"} /\ p.dest \in {"BYTE", "USHORT", "BGR"}
  BY Kinds
<1>4. BytesOf(p.src) \in {1, 2, 3} /\ BytesOf(p.dest) \in {1, 2, 3}
  BY <1>3 DEF BytesOf
<1>5. /\ BytesOf(p.src) * m \in Nat /\ BytesOf(p.src) * m <= BytesOf(p.src) * n
      /\ BytesOf(p.dest) * m \in Nat /\ BytesOf(p.dest) * m <= BytesOf(p.dest) * n
  BY <1>4
<1>6. k <= l
  BY <1>1, <1>2
<1>7. ReadsOf(p, m) \in Nat /\ ReadsOf(p, m) <= ReadsOf(p, n)
  BY <1>1, <1>2, <1>5, <1>6 DEF ReadsOf
<1>8. WritesOf(p, m) \in Nat /\ WritesOf(p, m) <= WritesOf(p, n)
  BY <1>5 DEF WritesOf
<1> QED BY <1>7, <1>8

(* Rows of a width of eights, and fewer rows.                              *)
LEMMA RowsOf ==
  ASSUME NEW w \in Nat, w % 8 = 0, NEW r \in Nat, NEW h \in Nat, r <= h
  PROVE  /\ w * r \in Nat /\ (w * r) % 8 = 0 /\ w * r <= w * h
         /\ w * h \in Nat /\ (w * h) % 8 = 0
<1>1. PICK k \in Nat : w = 8 * k
  BY Eights
<1>2. ASSUME NEW x \in Nat PROVE w * x \in Nat /\ (w * x) % 8 = 0
  <2>1. k * x \in Nat
    OBVIOUS
  <2>2. w * x = 8 * (k * x)
    BY <1>1
  <2>3. \A y \in Nat : 8 * y \in Nat /\ (8 * y) % 8 = 0
    OBVIOUS
  <2> QED BY <2>1, <2>2, <2>3
<1>3. PICK y \in Nat : h = r + y
  <2>1. h - r \in Nat /\ h = r + (h - r)
    OBVIOUS
  <2> QED BY <2>1
<1>4. w * h = w * r + w * y
  BY <1>3
<1>5. w * r \in Nat /\ (w * r) % 8 = 0 /\ w * y \in Nat /\ w * h \in Nat /\ (w * h) % 8 = 0
  BY <1>2
<1>6. w * r <= w * h
  BY <1>4, <1>5
<1> QED BY <1>5, <1>6

(***************************************************************************)
(* The rows that are handed over.                                          *)
(***************************************************************************)

(* The rows pdv_deinterlace hands over are numbers, and no more of them    *)
(* are written than read.                                                  *)
LEMMA RowsAreNumbers ==
  ASSUME NEW p, height \in Nat, frame_height \in Nat
  PROVE  /\ Rows \in Nat /\ RowsRead(p) \in Nat /\ RowsWritten(p) \in Nat
         /\ Rows <= RowsRead(p) /\ RowsWritten(p) <= RowsRead(p)
         /\ Rows \div 2 \in Nat /\ 2 * (Rows \div 2) <= Rows
<1>1. Rows \in Nat
  BY DEF Rows
<1>2. \A r \in Nat : /\ r % 2 \in Nat /\ r + (r % 2) \in Nat /\ r <= r + (r % 2)
                     /\ r \div 2 \in Nat /\ 2 * (r \div 2) <= r
  OBVIOUS
<1>3. p.func \in TwoRowsOut => p.func \in TwoRows
  BY DEF TwoRowsOut, TwoRows
<1>4. RowsRead(p) \in Nat /\ Rows <= RowsRead(p)
  BY <1>1, <1>2 DEF RowsRead
<1>5. RowsWritten(p) \in Nat /\ RowsWritten(p) <= RowsRead(p)
  BY <1>1, <1>2, <1>3 DEF RowsRead, RowsWritten
<1> QED BY <1>1, <1>2, <1>4, <1>5

(* A function that is found and that the configuration suits reads no more *)
(* than a picture takes from the camera and writes no more than a picture  *)
(* takes in memory, whatever rows it is handed.                            *)
LEMMA SuitedFits ==
  ASSUME width \in Nat, width % 8 = 0, height \in Nat, frame_height \in Nat, interlace \in Nat,
         depth \in 1 .. 32, extdepth \in 1 .. 80,
         depth \notin {1, 2, 4}, extdepth \notin {2, 4},
         Agree(swinterlace, extdepth, depth), processor # NoProc, Suits(processor)
  PROVE  /\ Reads(processor) <= dmasize(Pixels, depth, extdepth, swinterlace)
         /\ Writes(processor) <= imagesize(Pixels, depth)
         /\ Reads(processor) \in Nat /\ Writes(processor) \in Nat
<1>1. /\ processor \in built_in_postproc /\ processor.func = swinterlace
      /\ processor.src = pixel_type_from_depth(extdepth)
  BY Found DEF Agree
<1>2. processor.src # "SHORT"
  BY <1>1, Types
<1>3. /\ RowsRead(processor) <= height /\ processor.func \notin InOut
      /\ processor.func = "FIELD_INTLC" =>
           2 * interlace <= dmasize(Pixels, depth, extdepth, swinterlace)
  BY DEF Suits
<1>4. /\ Rows \in Nat /\ RowsRead(processor) \in Nat /\ RowsWritten(processor) \in Nat
      /\ Rows <= RowsRead(processor) /\ RowsWritten(processor) <= RowsRead(processor)
      /\ Rows \div 2 \in Nat /\ 2 * (Rows \div 2) <= Rows
  BY RowsAreNumbers
<1>5. \A r \in Nat : r <= height =>
        /\ width * r \in Nat /\ (width * r) % 8 = 0 /\ width * r <= Pixels
  BY RowsOf DEF Pixels
<1>6. Pixels \in Nat /\ Pixels % 8 = 0
  <2>1. height <= height
    OBVIOUS
  <2> QED BY <2>1, RowsOf DEF Pixels
<1>7. /\ ReadsOf(processor, Pixels) <= dmasize(Pixels, depth, extdepth, swinterlace)
      /\ WritesOf(processor, Pixels) <= imagesize(Pixels, depth)
      /\ ReadsOf(processor, Pixels) \in Nat /\ WritesOf(processor, Pixels) \in Nat
  BY <1>6, TableFits
<1>8. dmasize(Pixels, depth, extdepth, swinterlace) \in Nat /\ imagesize(Pixels, depth) \in Nat
  BY <1>6, SizesAreNumbers
<1>9. CASE processor.func = "FIELD_INTLC"
  <2> DEFINE m == width * (Rows \div 2)
             b == BytesOf(processor.src)
  <2>1. /\ processor.src \in {"BYTE", "USHORT", "BGR"} /\ processor.dest = processor.src
    BY <1>1, <1>9 DEF built_in_postproc, Proc
  <2>2. b \in {1, 2, 3} /\ BytesOf(processor.dest) = b
    BY <2>1 DEF BytesOf
  <2>3. ReadsOf(processor, Pixels) = b * Pixels /\ WritesOf(processor, Pixels) = b * Pixels
    BY <1>9, <2>2 DEF ReadsOf, WritesOf
  <2>4. m \in Nat /\ 2 * m <= Pixels /\ width * (2 * (Rows \div 2)) = 2 * m
    <3>1. Rows \div 2 <= height /\ 2 * (Rows \div 2) <= height /\ 2 * (Rows \div 2) \in Nat
      BY <1>3, <1>4
    <3>2. width * (2 * (Rows \div 2)) = 2 * m
      BY <1>4
    <3>3. m \in Nat
      BY <1>4, <1>5, <3>1
    <3>4. width * (2 * (Rows \div 2)) <= Pixels
      BY <1>5, <3>1
    <3> QED BY <3>2, <3>3, <3>4
  <2>5. Reads(processor) = interlace + b * m /\ Writes(processor) = b * (2 * m)
    <3>1. Reads(processor) = interlace + b * m
      BY <1>9 DEF Reads
    <3>2. Writes(processor) = BytesOf(processor.dest) * (width * (2 * (Rows \div 2)))
      BY <1>9 DEF Writes, InOut
    <3>3. BytesOf(processor.dest) * (width * (2 * (Rows \div 2))) = b * (2 * m)
      <4>1. width * (2 * (Rows \div 2)) = 2 * m /\ BytesOf(processor.dest) = b
        BY <2>2, <2>4
      <4> HIDE DEF m, b
      <4> QED BY <4>1
    <3> QED BY <3>1, <3>2, <3>3
  <2> HIDE DEF m, b
  <2>6. b * m \in Nat /\ b * (2 * m) \in Nat /\ 2 * (b * m) <= b * Pixels /\ b * (2 * m) <= b * Pixels
    BY <1>6, <2>2, <2>4
  <2>7. 2 * interlace <= dmasize(Pixels, depth, extdepth, swinterlace)
    BY <1>3, <1>9
  <2> QED BY <1>7, <1>8, <2>3, <2>5, <2>6, <2>7
<1>10. CASE processor.func # "FIELD_INTLC"
  <2> DEFINE r == width * RowsRead(processor)
             v == width * RowsWritten(processor)
  <2>1. r \in Nat /\ r % 8 = 0 /\ r <= Pixels
    BY <1>3, <1>4, <1>5
  <2>2. v \in Nat /\ v % 8 = 0 /\ v <= Pixels
    <3>1. RowsWritten(processor) <= height
      BY <1>3, <1>4
    <3> QED BY <1>4, <1>5, <3>1
  <2>3. Reads(processor) = ReadsOf(processor, r) /\ Writes(processor) = WritesOf(processor, v)
    <3>1. r * 1 = r
      BY <2>1
    <3> QED BY <1>3, <1>10, <3>1 DEF Reads, Writes
  <2> HIDE DEF r, v
  <2>4. ReadsOf(processor, r) \in Nat /\ ReadsOf(processor, r) <= ReadsOf(processor, Pixels)
    BY <1>1, <1>2, <1>6, <2>1, Fewer
  <2>5. WritesOf(processor, v) \in Nat /\ WritesOf(processor, v) <= WritesOf(processor, Pixels)
    BY <1>1, <1>2, <1>6, <2>2, Fewer
  <2> QED BY <1>7, <1>8, <2>3, <2>4, <2>5
<1> QED BY <1>9, <1>10

(***************************************************************************)
(* The steps.                                                              *)
(***************************************************************************)

(* What is set is what the lemmas about bytes are about.                   *)
LEMMA Typed ==
  ASSUME TypeOK
  PROVE  /\ \A w \in Widths, h \in Heights : w * h \in Nat /\ (w * h) % 8 = 0
         /\ width \in Nat /\ width % 8 = 0 /\ height \in Nat
         /\ frame_height \in Nat /\ interlace \in Nat
         /\ Pixels \in Nat /\ Pixels % 8 = 0
         /\ depth \in 1 .. 32 /\ extdepth \in 1 .. 80
         /\ tmpbufsize \in Nat
         /\ \A de \in Depths : de[1] \in 1 .. 32 /\ de[2] \in 1 .. 80
         /\ ring.count \in 0 .. MaxBufs /\ ring.size \in Nat
         /\ output.count \in 0 .. MaxBufs /\ output.size \in Nat
         /\ MaxBufs \in Nat \ {0} /\ MaxDone \in Nat
<1>1. ASSUME NEW w \in Widths, NEW h \in Heights
      PROVE  w \in Nat /\ w % 8 = 0 /\ h \in Nat /\ w * h \in Nat /\ (w * h) % 8 = 0
  <2>1. w \in Nat /\ w % 8 = 0 /\ h \in Nat /\ h <= h
    BY PostProcAssumption
  <2> QED BY <2>1, RowsOf
<1>2. /\ width \in Nat /\ width % 8 = 0 /\ height \in Nat
      /\ Pixels \in Nat /\ Pixels % 8 = 0
  BY <1>1 DEF TypeOK, Pixels
<1> QED BY <1>1, <1>2, PostProcAssumption DEF TypeOK, Sizes

(* What pdv_multibuf allocates.                                            *)
LEMMA Allocated ==
  ASSUME TypeOK, NEW num \in 1 .. MaxBufs, NEW n \in Nat, n % 8 = 0,
         NEW d \in 1 .. 32, NEW e \in 1 .. 80, NEW i \in Interlaces \cup {NoInterlace},
         Allocate(num, n, d, e, i)
  PROVE  /\ ring' \in Sizes /\ ring'.count = num /\ ring'.size = dmasize(n, d, e, i)
         /\ output' \in Sizes /\ allocatedFor' = i
         /\ output' = IF ring'.count = 0 \/ allocatedFor' = NoInterlace THEN NoBuffers
                      ELSE [count |-> ring'.count, size |-> imagesize(n, d)]
         /\ donecount' \in 0 .. MaxDone
<1>1. imagesize(n, d) \in Nat /\ dmasize(n, d, e, i) \in Nat
  BY SizesAreNumbers
<1>2. MaxBufs \in Nat /\ MaxDone \in Nat
  BY Typed
<1>3. /\ ring' \in Sizes /\ ring'.count = num /\ ring'.size = dmasize(n, d, e, i)
      /\ allocatedFor' = i /\ donecount' \in 0 .. MaxDone
  BY <1>1, <1>2 DEF Allocate, Sizes
<1>4. output' = IF i = NoInterlace THEN NoBuffers ELSE [count |-> num, size |-> imagesize(n, d)]
  BY DEF Allocate
<1>5. output' \in Sizes
  BY <1>1, <1>2, <1>4 DEF NoBuffers, Sizes
<1>6. num # 0
  OBVIOUS
<1> QED BY <1>3, <1>4, <1>5, <1>6

(* What a change of the picture's size or depth leaves: everything is      *)
(* allocated anew, or there is no ring and no output.                      *)
LEMMA SizeUpdated ==
  ASSUME IndInv, NEW n \in Nat, n % 8 = 0, NEW d \in 1 .. 32, NEW e \in 1 .. 80,
         UpdateSize(n, d, e, swinterlace)
  PROVE  /\ ring' \in Sizes /\ output' \in Sizes /\ donecount' \in 0 .. MaxDone
         /\ tmpbufsize' \in Nat /\ allocatedFor' \in Interlaces \cup {NoInterlace}
         /\ output' = IF ring'.count = 0 \/ allocatedFor' = NoInterlace THEN NoBuffers
                      ELSE [count |-> ring'.count, size |-> imagesize(n, d)]
         /\ ring'.count > 0 => /\ ring'.size = dmasize(n, d, e, swinterlace)
                               /\ allocatedFor' = swinterlace
<1>1. tmpbufsize' \in Nat
  BY SizesAreNumbers, Typed DEF UpdateSize, IndInv
<1>2. CASE ring.count > 0
  <2>1. Allocate(ring.count, n, d, e, swinterlace)
    BY <1>2 DEF UpdateSize
  <2>2. ring.count \in 1 .. MaxBufs
    BY <1>2, Typed DEF IndInv
  <2>3. TypeOK /\ swinterlace \in Interlaces \cup {NoInterlace}
    BY DEF IndInv, TypeOK
  <2> QED BY <1>1, <2>1, <2>2, <2>3, Allocated
<1>3. CASE ~ ring.count > 0
  <2>1. ring.count = 0 /\ UNCHANGED <<ring, output, donecount, allocatedFor>>
    BY <1>3, Typed DEF IndInv, UpdateSize, bufVars
  <2>2. output' = NoBuffers
    BY <2>1 DEF IndInv, OutputFollowsPicture
  <2> QED BY <1>1, <2>1, <2>2 DEF IndInv, TypeOK
<1> QED BY <1>2, <1>3

(* The function set up for a method is one that was looked up.             *)
LEMMA SetUp ==
  ASSUME TypeOK, Chosen, NEW d, NEW e, NEW i \in Interlaces \cup {NoInterlace}
  PROVE  /\ Setup(d, e, i) \in built_in_postproc \cup {NoProc}
         /\ Setup(d, e, i).func \in Interlaces \cup {NoInterlace}
<1>1. CASE i = NoInterlace \/ lookup_postproc(i, e, d) = NoProc
  BY <1>1 DEF Setup, TypeOK, Chosen
<1>2. CASE ~(i = NoInterlace \/ lookup_postproc(i, e, d) = NoProc)
  BY <1>2, Found DEF Setup
<1> QED BY <1>1, <1>2

(* A board that initcam has configured.                                    *)
LEMMA InitHolds ==
  ASSUME Init
  PROVE  IndInv
<1>1. PICK de \in Depths : depth = de[1] /\ extdepth = de[2]
  BY DEF Init
<1>2. /\ depth \in 1 .. 32 /\ extdepth \in 1 .. 80 /\ MaxDone \in Nat /\ MaxBufs \in Nat
  BY <1>1, PostProcAssumption
<1>3. /\ processor \in built_in_postproc \cup {NoProc}
      /\ processor.func \in Interlaces \cup {NoInterlace}
  <2>1. CASE processor = NoProc
    BY <2>1 DEF NoProc
  <2>2. CASE processor # NoProc
    BY <2>2, Found DEF Init
  <2> QED BY <2>1, <2>2
<1>4. TypeOK
  <2>1. ring \in Sizes /\ output \in Sizes
    BY <1>2 DEF Init, NoBuffers, Sizes
  <2>2. result \in Results
    BY DEF Init, NoResult, Results
  <2>3. agreed \in BOOLEAN
    BY DEF Init, Agree
  <2> QED BY <1>2, <1>3, <2>1, <2>2, <2>3 DEF Init, TypeOK
<1>5. Chosen
  BY <1>3 DEF Chosen, Init
<1>6. AgreedIsNow
  BY DEF AgreedIsNow, Init, NoBuffers
<1>7. OutputFollowsPicture
  BY DEF OutputFollowsPicture, Init, NoResult, NoBuffers
<1> QED BY <1>4, <1>5, <1>6, <1>7 DEF IndInv

(* The parts of the invariant that a change of the settings leaves true    *)
(* when nothing was put in order by it.                                    *)
LEMMA Settled ==
  ASSUME IndInv, ring' \in Sizes, output' \in Sizes, donecount' \in 0 .. MaxDone,
         tmpbufsize' \in Nat, result' = NoResult, agreed' \in BOOLEAN,
         allocatedFor' \in Interlaces \cup {NoInterlace},
         width' \in Widths, height' \in Heights, UNCHANGED given,
         \E de \in Depths : depth' = de[1], \E de \in Depths : extdepth' = de[2],
         swinterlace' \in Interlaces \cup {NoInterlace},
         processor' \in built_in_postproc \cup {NoProc},
         processor'.func \in Interlaces \cup {NoInterlace}
  PROVE  TypeOK' /\ Chosen'
<1>1. depth' \in 1 .. 32 /\ extdepth' \in 1 .. 80
  BY Typed DEF IndInv
<1>2. result' \in Results
  BY DEF NoResult, Results
<1>3. frame_height' \in FrameHeights /\ interlace' \in Fields
  BY DEF given, IndInv, TypeOK
<1>4. TypeOK'
  BY <1>1, <1>2, <1>3 DEF TypeOK, Sizes, Results
<1>5. Chosen'
  BY DEF Chosen
<1> QED BY <1>4, <1>5

(* pdv_setsize, pdv_set_width, pdv_set_height.                             *)
LEMMA SetSizeStep ==
  ASSUME IndInv, SetSize
  PROVE  IndInv'
<1>1. PICK w \in Widths, h \in Heights :
        width' = w /\ height' = h /\ UpdateSize(w * h, depth, extdepth, swinterlace)
  BY DEF SetSize
<1>2. /\ result' = NoResult
      /\ UNCHANGED <<depth, extdepth, swinterlace, given, processor, agreed>>
  BY DEF SetSize
<1>3. /\ w * h \in Nat /\ (w * h) % 8 = 0 /\ depth \in 1 .. 32 /\ extdepth \in 1 .. 80
  BY Typed DEF IndInv
<1>4. Pixels' = w * h
  BY <1>1 DEF Pixels
<1>5. /\ ring' \in Sizes /\ output' \in Sizes /\ donecount' \in 0 .. MaxDone
      /\ tmpbufsize' \in Nat /\ allocatedFor' \in Interlaces \cup {NoInterlace}
      /\ output' = IF ring'.count = 0 \/ allocatedFor' = NoInterlace THEN NoBuffers
                   ELSE [count |-> ring'.count, size |-> imagesize(w * h, depth)]
      /\ ring'.count > 0 => /\ ring'.size = dmasize(w * h, depth, extdepth, swinterlace)
                            /\ allocatedFor' = swinterlace
  BY <1>1, <1>3, SizeUpdated
<1>6. TypeOK' /\ Chosen'
  BY <1>1, <1>2, <1>5, Settled DEF IndInv, TypeOK, Chosen
<1>7. AgreedIsNow'
  BY <1>2, <1>4, <1>5 DEF IndInv, AgreedIsNow, Agree
<1>8. OutputFollowsPicture'
  BY <1>2, <1>4, <1>5 DEF OutputFollowsPicture, NoResult
<1> QED BY <1>6, <1>7, <1>8 DEF IndInv

(* pdv_set_depth_extdepth_dpath.                                           *)
LEMMA SetDepthStep ==
  ASSUME IndInv, SetDepth
  PROVE  IndInv'
<1>1. PICK de \in Depths :
        /\ depth' = de[1] /\ extdepth' = de[2]
        /\ UpdateSize(Pixels, de[1], de[2], swinterlace)
        /\ agreed' = (agreed /\ Agree(swinterlace, de[2], de[1]))
  BY DEF SetDepth
<1>2. result' = NoResult /\ UNCHANGED <<width, height, swinterlace, given, processor>>
  BY DEF SetDepth
<1>3. /\ Pixels \in Nat /\ Pixels % 8 = 0 /\ de[1] \in 1 .. 32 /\ de[2] \in 1 .. 80
  BY Typed DEF IndInv
<1>4. Pixels' = Pixels
  BY <1>2 DEF Pixels
<1>5. /\ ring' \in Sizes /\ output' \in Sizes /\ donecount' \in 0 .. MaxDone
      /\ tmpbufsize' \in Nat /\ allocatedFor' \in Interlaces \cup {NoInterlace}
      /\ output' = IF ring'.count = 0 \/ allocatedFor' = NoInterlace THEN NoBuffers
                   ELSE [count |-> ring'.count, size |-> imagesize(Pixels, de[1])]
      /\ ring'.count > 0 => /\ ring'.size = dmasize(Pixels, de[1], de[2], swinterlace)
                            /\ allocatedFor' = swinterlace
  BY <1>1, <1>3, SizeUpdated
<1>6. TypeOK' /\ Chosen'
  <2>1. agreed' \in BOOLEAN
    BY <1>1
  <2>2. /\ width' \in Widths /\ height' \in Heights /\ UNCHANGED given
        /\ swinterlace' \in Interlaces \cup {NoInterlace}
        /\ processor' \in built_in_postproc \cup {NoProc}
        /\ processor'.func \in Interlaces \cup {NoInterlace}
    BY <1>2 DEF IndInv, TypeOK, Chosen
  <2>3. (\E x \in Depths : depth' = x[1]) /\ (\E x \in Depths : extdepth' = x[2])
    BY <1>1
  <2> QED BY <1>2, <1>5, <2>1, <2>2, <2>3, Settled
<1>7. AgreedIsNow'
  BY <1>1, <1>2, <1>4, <1>5 DEF IndInv, AgreedIsNow, Agree
<1>8. OutputFollowsPicture'
  BY <1>1, <1>2, <1>4, <1>5 DEF OutputFollowsPicture, NoResult
<1> QED BY <1>6, <1>7, <1>8 DEF IndInv

(* pdv_set_extdepth, which allocates nothing.                              *)
LEMMA SetExtdepthStep ==
  ASSUME IndInv, SetExtdepth
  PROVE  IndInv'
<1>1. /\ \E de \in Depths : extdepth' = de[2]
      /\ agreed' = FALSE /\ result' = NoResult
      /\ UNCHANGED <<width, height, depth, swinterlace, given, processor, tmpbufsize, ring, output,
                     donecount, allocatedFor>>
  BY DEF SetExtdepth, bufVars
<1>2. Pixels' = Pixels
  BY <1>1 DEF Pixels
<1>3. TypeOK' /\ Chosen'
  BY <1>1, Settled DEF IndInv, TypeOK, Chosen
<1>4. AgreedIsNow' /\ OutputFollowsPicture'
  BY <1>1, <1>2 DEF IndInv, AgreedIsNow, OutputFollowsPicture, NoResult
<1> QED BY <1>3, <1>4 DEF IndInv

(* pdv_set_interlace, which allocates nothing either.                      *)
LEMMA SetInterlaceStep ==
  ASSUME IndInv, SetInterlace
  PROVE  IndInv'
<1>1. PICK i \in Interlaces \cup {NoInterlace} :
        swinterlace' = i /\ processor' = Setup(depth, extdepth, i)
  BY DEF SetInterlace
<1>2. /\ agreed' = FALSE /\ result' = NoResult
      /\ UNCHANGED <<width, height, depth, extdepth, given, tmpbufsize, ring, output, donecount,
                     allocatedFor>>
  BY DEF SetInterlace, bufVars
<1>3. /\ processor' \in built_in_postproc \cup {NoProc}
      /\ processor'.func \in Interlaces \cup {NoInterlace}
  BY <1>1, SetUp DEF IndInv
<1>4. TypeOK' /\ Chosen'
  BY <1>1, <1>2, <1>3, Settled DEF IndInv, TypeOK, Chosen
<1>5. Pixels' = Pixels
  BY <1>2 DEF Pixels
<1>6. AgreedIsNow' /\ OutputFollowsPicture'
  BY <1>2, <1>5 DEF IndInv, AgreedIsNow, OutputFollowsPicture, NoResult
<1> QED BY <1>4, <1>6 DEF IndInv

(* pdv_multibuf.                                                           *)
LEMMA MultibufStep ==
  ASSUME IndInv, Multibuf
  PROVE  IndInv'
<1>1. PICK num \in 1 .. MaxBufs : Allocate(num, Pixels, depth, extdepth, swinterlace)
  BY DEF Multibuf
<1>2. /\ agreed' = Agree(swinterlace, extdepth, depth) /\ result' = NoResult
      /\ UNCHANGED <<width, height, depth, extdepth, swinterlace, given, processor, tmpbufsize>>
  BY DEF Multibuf, ddVars
<1>3. Pixels' = Pixels
  BY <1>2 DEF Pixels
<1>4. /\ ring' \in Sizes /\ ring'.count = num
      /\ ring'.size = dmasize(Pixels, depth, extdepth, swinterlace)
      /\ output' \in Sizes /\ donecount' \in 0 .. MaxDone /\ allocatedFor' = swinterlace
      /\ output' = IF ring'.count = 0 \/ allocatedFor' = NoInterlace THEN NoBuffers
                   ELSE [count |-> ring'.count, size |-> imagesize(Pixels, depth)]
  <2>1. TypeOK /\ swinterlace \in Interlaces \cup {NoInterlace}
    BY DEF IndInv, TypeOK
  <2> QED BY <1>1, <2>1, Typed, Allocated
<1>5. TypeOK' /\ Chosen'
  <2>1. agreed' \in BOOLEAN
    BY <1>2 DEF Agree
  <2> QED BY <1>2, <1>4, <2>1, Settled DEF IndInv, TypeOK, Chosen
<1>6. AgreedIsNow'
  BY <1>2, <1>3, <1>4 DEF AgreedIsNow, Agree
<1>7. OutputFollowsPicture'
  BY <1>2, <1>3, <1>4 DEF OutputFollowsPicture, NoResult
<1> QED BY <1>5, <1>6, <1>7 DEF IndInv

(* As long as the function agrees with what is set it is not looked up     *)
(* anew.                                                                   *)
LEMMA NotAnew ==
  ASSUME IndInv, agreed, processor = NoProc
  PROVE  Setup(depth, extdepth, swinterlace) = NoProc
  BY DEF IndInv, AgreedIsNow, Agree, Setup

(* And it fits what is allocated for it, if the configuration suits it.    *)
LEMMA InAgreement ==
  ASSUME WholeBytes, IndInv, agreed, processor # NoProc, Suits(processor)
  PROVE  /\ swinterlace # NoInterlace
         /\ Reads(processor) <= dmasize(Pixels, depth, extdepth, swinterlace)
         /\ Writes(processor) <= imagesize(Pixels, depth)
         /\ Reads(processor) \in Nat /\ Writes(processor) \in Nat
<1>1. Agree(swinterlace, extdepth, depth)
  BY DEF IndInv, AgreedIsNow
<1>2. /\ width \in Nat /\ width % 8 = 0 /\ height \in Nat /\ frame_height \in Nat
      /\ interlace \in Nat /\ depth \in 1 .. 32 /\ extdepth \in 1 .. 80
  BY Typed DEF IndInv
<1>3. depth \notin {1, 2, 4} /\ extdepth \notin {2, 4}
  BY DEF IndInv, Chosen, WholeBytes
<1>4. swinterlace # NoInterlace
  BY <1>1, NoneForNone DEF Agree
<1> QED BY <1>1, <1>2, <1>3, <1>4, SuitedFits

(* pdv_deinterlace between buffers that are as large as the picture is.    *)
LEMMA DeinterlaceStep ==
  ASSUME IndInv, NEW via \in {"wait", "read"}, NEW from \in Nat, NEW to \in Nat,
         Deinterlace(via, from, to),
         agreed /\ swinterlace # NoInterlace =>
           /\ dmasize(Pixels, depth, extdepth, swinterlace) <= from
           /\ imagesize(Pixels, depth) <= to
  PROVE  /\ processor' \in built_in_postproc \cup {NoProc}
         /\ processor'.func \in Interlaces \cup {NoInterlace}
         /\ agreed => processor' = processor
         /\ result' \in Results /\ result'.found
         /\ WholeBytes => FitsWhenAgreed'
<1> DEFINE fits  == processor' = NoProc \/ (Reads(processor') <= from /\ Writes(processor') <= to)
           known == agreed /\ Suits(processor')
<1>1. /\ processor' = IF processor = NoProc THEN Setup(depth, extdepth, swinterlace) ELSE processor
      /\ result' = [via |-> via, by |-> processor'.func, found |-> TRUE, known |-> known,
                    fits |-> fits]
  BY DEF Deinterlace
<1>2. /\ processor' \in built_in_postproc \cup {NoProc}
      /\ processor'.func \in Interlaces \cup {NoInterlace}
  <2>1. swinterlace \in Interlaces \cup {NoInterlace} /\ TypeOK /\ Chosen
    BY DEF IndInv, TypeOK
  <2> QED BY <1>1, <2>1, SetUp DEF TypeOK, Chosen
<1>3. agreed => processor' = processor
  BY <1>1, NotAnew
<1>4. WholeBytes /\ known => fits
  <2> SUFFICES ASSUME WholeBytes, agreed, Suits(processor'), processor' # NoProc PROVE fits
    OBVIOUS
  <2>1. processor' = processor
    BY <1>3
  <2>2. processor # NoProc /\ Suits(processor)
    BY <2>1
  <2>3. /\ swinterlace # NoInterlace
        /\ Reads(processor) <= dmasize(Pixels, depth, extdepth, swinterlace)
        /\ Writes(processor) <= imagesize(Pixels, depth)
        /\ Reads(processor) \in Nat /\ Writes(processor) \in Nat
    BY <2>2, InAgreement
  <2>4. dmasize(Pixels, depth, extdepth, swinterlace) \in Nat /\ imagesize(Pixels, depth) \in Nat
    BY Typed, SizesAreNumbers DEF IndInv
  <2>5. Reads(processor) <= from /\ Writes(processor) <= to
    BY <2>3, <2>4
  <2> QED BY <2>1, <2>5
<1>5. fits \in BOOLEAN /\ known \in BOOLEAN
  <2>1. agreed \in BOOLEAN
    BY DEF IndInv, TypeOK
  <2>2. Suits(processor') \in BOOLEAN
    BY DEF Suits
  <2> QED BY <2>1, <2>2
<1> HIDE DEF fits, known
<1>6. result' \in Results /\ result'.found
  BY <1>1, <1>2, <1>5 DEF Results
<1>7. WholeBytes => FitsWhenAgreed'
  BY <1>1, <1>4 DEF FitsWhenAgreed
<1> QED BY <1>2, <1>3, <1>6, <1>7

(* pdv_wait_images.                                                        *)
LEMMA WaitImagesStep ==
  ASSUME IndInv, WaitImages
  PROVE  IndInv' /\ (WholeBytes => FitsWhenAgreed')
<1>1. /\ ring.count > 0 /\ donecount < MaxDone /\ donecount' = donecount + 1
      /\ UNCHANGED <<width, height, depth, extdepth, swinterlace, given, ring, output, allocatedFor,
                     agreed>>
  BY DEF WaitImages, ddVars
<1>2. /\ Pixels \in Nat /\ Pixels % 8 = 0 /\ depth \in 1 .. 32 /\ extdepth \in 1 .. 80
      /\ tmpbufsize \in Nat /\ ring.count \in Nat \ {0} /\ ring.size \in Nat /\ output.size \in Nat
      /\ donecount \in Nat /\ MaxDone \in Nat /\ donecount' \in 0 .. MaxDone
  <2>1. donecount \in 0 .. MaxDone
    BY DEF IndInv, TypeOK
  <2> QED BY <1>1, <2>1, Typed DEF IndInv
<1>3. /\ processor' \in built_in_postproc \cup {NoProc}
      /\ processor'.func \in Interlaces \cup {NoInterlace}
      /\ agreed => processor' = processor
      /\ result' \in Results
      /\ ~result'.found => allocatedFor = NoInterlace
      /\ WholeBytes => FitsWhenAgreed'
      /\ tmpbufsize' \in Nat
  <2>1. CASE swinterlace = NoInterlace
    <3>1. /\ result' = [NoResult EXCEPT !.via = "wait", !.known = agreed]
          /\ UNCHANGED <<processor, tmpbufsize>>
      BY <2>1 DEF WaitImages
    <3>2. result' \in Results /\ result'.found = TRUE /\ result'.fits = TRUE
      BY <3>1 DEF NoResult, Results, IndInv, TypeOK
    <3> QED BY <1>2, <3>1, <3>2 DEF IndInv, TypeOK, Chosen, FitsWhenAgreed
  <2>2. CASE swinterlace # NoInterlace /\ output = NoBuffers
    <3>1. /\ result' = [NoResult EXCEPT !.via = "wait", !.found = FALSE, !.known = agreed]
          /\ UNCHANGED processor /\ tmpbufsize' = TmpSize(Pixels, depth, extdepth, swinterlace)
      BY <2>2 DEF WaitImages
    <3>2. result' \in Results /\ result'.known = agreed
      BY <3>1 DEF NoResult, Results, IndInv, TypeOK
    <3>3. allocatedFor = NoInterlace
      <4>1. output = IF ring.count = 0 \/ allocatedFor = NoInterlace THEN NoBuffers
                     ELSE [count |-> ring.count, size |-> imagesize(Pixels, depth)]
        BY DEF IndInv, OutputFollowsPicture
      <4>2. NoBuffers.count = 0
        BY DEF NoBuffers
      <4>3. ring.count # 0
        BY <1>2
      <4>4. [count |-> ring.count, size |-> imagesize(Pixels, depth)].count = ring.count
        OBVIOUS
      <4> QED BY <2>2, <4>1, <4>2, <4>3, <4>4
    <3>4. ~agreed
      BY <1>1, <2>2, <3>3 DEF IndInv, AgreedIsNow
    <3>5. tmpbufsize' \in Nat
      BY <1>2, <3>1, SizesAreNumbers
    <3> QED BY <3>1, <3>2, <3>3, <3>4, <3>5 DEF IndInv, TypeOK, Chosen, FitsWhenAgreed
  <2>3. CASE swinterlace # NoInterlace /\ output # NoBuffers
    <3> DEFINE to == IF donecount' % ring.count < output.count THEN output.size ELSE 0
    <3>1. tmpbufsize' = TmpSize(Pixels, depth, extdepth, swinterlace)
          /\ Deinterlace("wait", ring.size, to)
      BY <2>3 DEF WaitImages
    <3>2. to \in Nat
      BY <1>2
    <3>3. ASSUME agreed
          PROVE  /\ dmasize(Pixels, depth, extdepth, swinterlace) <= ring.size
                 /\ imagesize(Pixels, depth) <= to
      <4>1. ring.size = dmasize(Pixels, depth, extdepth, swinterlace) /\ allocatedFor = swinterlace
        BY <1>1, <3>3 DEF IndInv, AgreedIsNow
      <4>2. output = [count |-> ring.count, size |-> imagesize(Pixels, depth)]
        BY <1>2, <2>3, <4>1 DEF IndInv, OutputFollowsPicture
      <4>3. donecount' % ring.count < ring.count
        BY <1>2
      <4>4. to = imagesize(Pixels, depth)
        BY <4>2, <4>3
      <4> QED BY <1>2, <3>2, <4>1, <4>4
    <3>4. tmpbufsize' \in Nat
      BY <1>2, <3>1, SizesAreNumbers
    <3> HIDE DEF to
    <3> QED BY <1>1, <1>2, <3>1, <3>2, <3>3, <3>4, DeinterlaceStep
  <2> QED BY <2>1, <2>2, <2>3
<1>4. Pixels' = Pixels
  BY <1>1 DEF Pixels
<1>5. TypeOK' /\ Chosen'
  BY <1>1, <1>2, <1>3 DEF IndInv, TypeOK, Chosen, given
<1>6. AgreedIsNow' /\ OutputFollowsPicture'
  BY <1>1, <1>3, <1>4 DEF IndInv, AgreedIsNow, Agree, OutputFollowsPicture
<1> QED BY <1>3, <1>5, <1>6 DEF IndInv

(* pdv_read.                                                               *)
LEMMA ReadStep ==
  ASSUME IndInv, Read
  PROVE  IndInv' /\ (WholeBytes => FitsWhenAgreed')
<1>1. /\ tmpbufsize' = TmpSize(Pixels, depth, extdepth, swinterlace)
      /\ UNCHANGED <<width, height, depth, extdepth, swinterlace, given, ring, output, donecount,
                     allocatedFor, agreed>>
  BY DEF Read, ddVars, bufVars
<1>2. /\ Pixels \in Nat /\ Pixels % 8 = 0 /\ depth \in 1 .. 32 /\ extdepth \in 1 .. 80
      /\ tmpbufsize \in Nat
  BY Typed DEF IndInv
<1>3. /\ imagesize(Pixels, depth) \in Nat /\ tmpbufsize' \in Nat
      /\ swinterlace # NoInterlace => tmpbufsize' >= dmasize(Pixels, depth, extdepth, swinterlace)
      /\ dmasize(Pixels, depth, extdepth, swinterlace) \in Nat
  BY <1>1, <1>2, SizesAreNumbers
<1> DEFINE from == IF swinterlace = NoInterlace THEN imagesize(Pixels, depth) ELSE tmpbufsize'
<1>4. from \in Nat
  BY <1>3
<1>5. Deinterlace("read", from, imagesize(Pixels, depth))
  BY DEF Read
<1>6. swinterlace # NoInterlace =>
        /\ dmasize(Pixels, depth, extdepth, swinterlace) <= from
        /\ imagesize(Pixels, depth) <= imagesize(Pixels, depth)
  BY <1>3
<1> HIDE DEF from
<1>7. /\ processor' \in built_in_postproc \cup {NoProc}
      /\ processor'.func \in Interlaces \cup {NoInterlace}
      /\ agreed => processor' = processor
      /\ result' \in Results /\ result'.found
      /\ WholeBytes => FitsWhenAgreed'
  BY <1>3, <1>4, <1>5, <1>6, DeinterlaceStep
<1>8. Pixels' = Pixels
  BY <1>1 DEF Pixels
<1>9. TypeOK' /\ Chosen'
  BY <1>1, <1>3, <1>7 DEF IndInv, TypeOK, Chosen, given
<1>10. AgreedIsNow' /\ OutputFollowsPicture'
  BY <1>1, <1>7, <1>8 DEF IndInv, AgreedIsNow, Agree, OutputFollowsPicture
<1> QED BY <1>7, <1>9, <1>10 DEF IndInv

(***************************************************************************)
(* The theorems.                                                           *)
(***************************************************************************)

(* The invariant holds whatever order the sizes, the depths, the method    *)
(* and the ring are set in, and pictures are waited for and read.          *)
THEOREM Invariance == Spec => []IndInv
<1>1. Init => IndInv
  BY InitHolds
<1>2. IndInv /\ [Next]_vars => IndInv'
  <2> SUFFICES ASSUME IndInv, [Next]_vars PROVE IndInv'
    OBVIOUS
  <2>1. CASE SetSize
    BY <2>1, SetSizeStep
  <2>2. CASE SetDepth
    BY <2>2, SetDepthStep
  <2>3. CASE SetExtdepth
    BY <2>3, SetExtdepthStep
  <2>4. CASE SetInterlace
    BY <2>4, SetInterlaceStep
  <2>5. CASE Multibuf
    BY <2>5, MultibufStep
  <2>6. CASE WaitImages
    BY <2>6, WaitImagesStep
  <2>7. CASE Read
    BY <2>7, ReadStep
  <2>8. CASE UNCHANGED vars
    <3>1. UNCHANGED <<width, height, depth, extdepth, swinterlace, frame_height, interlace,
                      processor, tmpbufsize, ring, output, donecount, allocatedFor, result, agreed>>
      BY <2>8 DEF vars, ddVars, given, bufVars
    <3>2. Pixels' = Pixels
      BY <3>1 DEF Pixels
    <3> QED BY <3>1, <3>2 DEF IndInv, TypeOK, Chosen, AgreedIsNow, Agree, OutputFollowsPicture
  <2> QED BY <2>1, <2>2, <2>3, <2>4, <2>5, <2>6, <2>7, <2>8 DEF Next
<1> QED BY <1>1, <1>2, PTL DEF Spec

(* In whatever order the settings are made: there are output buffers       *)
(* exactly when the ring was last allocated with a method set, as many as  *)
(* the ring's and of the size of the picture as it is now; a wait finds    *)
(* none only for a method set after that.                                  *)
THEOREM OutputFits == Spec => []OutputFollowsPicture
<1>1. IndInv => OutputFollowsPicture
  BY DEF IndInv
<1> QED BY <1>1, Invariance, PTL

(* A picture that is put in order by the function looked up for what is    *)
(* set, in buffers allocated for it, is read and written within them, by   *)
(* every entry of the table, for pictures of every size and every          *)
(* frame_height and start of the second field that suit the size.          *)
THEOREM WithinBuffers ==
  ASSUME WholeBytes
  PROVE  Spec => []FitsWhenAgreed
<1>1. Init => FitsWhenAgreed
  BY DEF Init, NoResult, FitsWhenAgreed
<1>2. IndInv /\ FitsWhenAgreed /\ [Next]_vars => FitsWhenAgreed'
  <2> SUFFICES ASSUME IndInv, FitsWhenAgreed, [Next]_vars PROVE FitsWhenAgreed'
    OBVIOUS
  <2>1. CASE SetSize \/ SetDepth \/ SetExtdepth \/ SetInterlace \/ Multibuf
    <3>1. result' = NoResult
      BY <2>1 DEF SetSize, SetDepth, SetExtdepth, SetInterlace, Multibuf
    <3> QED BY <3>1 DEF NoResult, FitsWhenAgreed
  <2>2. CASE WaitImages
    BY <2>2, WaitImagesStep
  <2>3. CASE Read
    BY <2>3, ReadStep
  <2>4. CASE UNCHANGED vars
    BY <2>4 DEF vars, FitsWhenAgreed
  <2> QED BY <2>1, <2>2, <2>3, <2>4 DEF Next
<1> QED BY <1>1, <1>2, Invariance, PTL DEF Spec

=============================================================================
