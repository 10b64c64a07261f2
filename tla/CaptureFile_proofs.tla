------------------------- MODULE CaptureFile_proofs -------------------------
(***************************************************************************)
(* Proofs about CaptureFile, for any number of scripts, images, folders    *)
(* and faults: a script that runs alone, and found no image left over,     *)
(* files only the image it took itself, under its own times, and it ends   *)
(* by an exception only when something failed.                             *)
(*                                                                         *)
(* An action of one script leaves the others alone; Kept says what is then *)
(* left to show of it.  One lemma per action follows.                      *)
(***************************************************************************)
EXTENDS CaptureFile, TLAPS

USE DEF cameraVars, fileVars, shareVars, countVars, startVars, At

(* What a step of p does to its script: the place and the variables after  *)
(* it.                                                                     *)
Became(p, place, times, buffer, frame, k, mine) ==
  /\ script' \in [Procs -> Script]
  /\ \A q \in Procs \ {p} : script'[q] = script[q]
  /\ script'[p].at = place /\ script'[p].tag = script[p].tag
  /\ script'[p].ask = script[p].ask
  /\ script'[p].left > 0
  /\ script'[p].times = times
  /\ script'[p].buffer = buffer /\ script'[p].frame = frame
  /\ script'[p].k = k /\ script'[p].mine = mine

Ended(p) ==
  /\ script' \in [Procs -> Script]
  /\ \A q \in Procs \ {p} : script'[q] = script[q]
  /\ script'[p].at = "idle"

(* An empty share holds an image record too.                               *)
LEMMA ImageType == NoImage \in Image
BY DEF NoImage, Image

(* An idle script is a script.                                             *)
LEMMA IdleType == Idle \in Script /\ Idle.at = "idle"
<1>1. 0 \in 0 .. MaxLoops /\ 0 \in Nat
  BY CaptureAssumption
<1> QED BY <1>1, ImageType DEF Idle, Script, Places

(* A script's variables are replaced.                                      *)
LEMMA Replaced ==
  ASSUME TypeOK, NEW p \in Procs, NEW r \in Script, script' = [script EXCEPT ![p] = r]
  PROVE  /\ script' \in [Procs -> Script] /\ script'[p] = r
         /\ \A q \in Procs \ {p} : script'[q] = script[q]
BY DEF TypeOK

(* What a script is after it goes to another place.                        *)
LEMMA GotoBecame ==
  ASSUME TypeOK, NEW p \in Procs, NEW place \in Places, ~At(p, "idle"), Goto(p, place)
  PROVE  Became(p, place, script[p].times, script[p].buffer, script[p].frame,
                script[p].k, script[p].mine)
<1> DEFINE s == script[p]
           r == [s EXCEPT !.at = place]
<1>1. s \in Script /\ s.left > 0
  BY DEF TypeOK
<1>2. /\ r \in Script /\ r.at = place /\ r.tag = s.tag /\ r.ask = s.ask /\ r.left = s.left
      /\ r.times = s.times /\ r.buffer = s.buffer /\ r.frame = s.frame /\ r.k = s.k
      /\ r.mine = s.mine
  BY <1>1 DEF Script
<1>3. script' = [script EXCEPT ![p] = r]
  BY DEF Goto
<1> HIDE DEF r
<1> QED BY <1>1, <1>2, <1>3, Replaced DEF Became

(* What it is after its loop or the script ends.                           *)
LEMMA ExitBecame ==
  ASSUME TypeOK, NEW p \in Procs, ~At(p, "idle"), Exit(p)
  PROVE  \E place \in {"load", "sort"} :
           Became(p, place, script[p].times, NoImage, script[p].frame, script[p].k, script[p].mine)
<1> DEFINE s     == script[p]
           place == IF s.kind = "expose" THEN "load" ELSE "sort"
           r     == [s EXCEPT !.at = place, !.buffer = NoImage]
<1>1. s \in Script /\ s.left > 0
  BY DEF TypeOK
<1>2. place \in {"load", "sort"} /\ place \in Places
  BY DEF Places
<1>3. script' = [script EXCEPT ![p] = r]
  BY DEF Exit
<1> HIDE DEF place
<1>4. /\ r \in Script /\ r.at = place /\ r.tag = s.tag /\ r.ask = s.ask /\ r.left = s.left
      /\ r.times = s.times /\ r.buffer = NoImage /\ r.frame = s.frame /\ r.k = s.k
      /\ r.mine = s.mine
  BY <1>1, <1>2, ImageType DEF Script
<1> HIDE DEF r
<1>5. Became(p, place, s.times, NoImage, s.frame, s.k, s.mine)
  BY <1>1, <1>3, <1>4, Replaced DEF Became
<1> QED BY <1>2, <1>5

(* What it is after an exception.                                          *)
LEMMA RaiseEnded ==
  ASSUME TypeOK, NEW p \in Procs, Raise(p)
  PROVE  Ended(p) /\ raised' \in [Procs -> BOOLEAN] /\ \A q \in Procs \ {p} : raised'[q] = raised[q]
<1>1. script' = [script EXCEPT ![p] = Idle]
  BY DEF Raise
<1>2. Ended(p)
  BY <1>1, IdleType, Replaced DEF Ended
<1>3. raised' = [raised EXCEPT ![p] = TRUE] /\ raised \in [Procs -> BOOLEAN]
  BY DEF Raise, TypeOK
<1> QED BY <1>2, <1>3

(* Something fails, or nothing does.                                       *)
LEMMA FaultType ==
  ASSUME TypeOK, NEW p \in Procs, NEW kind, Fault(kind, p)
  PROVE  /\ faults' \in Nat /\ hit' \in [Procs -> BOOLEAN] /\ hit'[p]
         /\ \A q \in Procs \ {p} : hit'[q] = hit[q]
<1>1. hit' = [hit EXCEPT ![p] = TRUE] /\ hit \in [Procs -> BOOLEAN]
  BY DEF Fault, TypeOK
<1>2. faults' = faults + 1 /\ faults \in Nat
  BY DEF Fault, TypeOK
<1> QED BY <1>1, <1>2

(* A step without a fault keeps the types.                                 *)
LEMMA NoFaultType ==
  ASSUME TypeOK, NoFault
  PROVE  faults' \in Nat /\ hit' = hit /\ hit' \in [Procs -> BOOLEAN]
BY DEF NoFault, TypeOK

(* Nothing but p's own script changes, and what it counts.                 *)
Apart(p) ==
  /\ ~At(p, "idle")
  /\ UNCHANGED <<runs, alone, fresh>>
  /\ faults' \in Nat /\ hit' \in [Procs -> BOOLEAN] /\ raised' \in [Procs -> BOOLEAN]
  /\ \A q \in Procs \ {p} : hit'[q] = hit[q] /\ raised'[q] = raised[q]
  /\ hit[p] => hit'[p]

(* What the files may have become.                                         *)
FilesTyped(p) ==
  /\ register' \in Times /\ shots' \in Nat /\ unsorted' \in Image
  /\ writer' \in Procs \cup {NoProc}
  /\ writer' = p <=> script'[p].at = "write"
  /\ \A q \in Procs \ {p} : writer' = q <=> writer = q
  /\ folders' \subseteq Tags \cup {NoTag}
  /\ DOMAIN filed' \subseteq folders' \X Times \X Nat
  /\ filed' = [n \in DOMAIN filed' |-> filed'[n]]
  /\ \A n \in DOMAIN filed' : filed'[n] \in Image

(* Types are kept by a step that changes one script and the share.         *)
LEMMA TypeKept ==
  ASSUME TypeOK, NEW p \in Procs, Apart(p), FilesTyped(p),
         script' \in [Procs -> Script], \A q \in Procs \ {p} : script'[q] = script[q],
         script'[p].at # "idle" => script'[p].left > 0 /\ script'[p].ask = script[p].ask,
         script'[p].at \notin {"idle", "set"} => script'[p].times \in Times
  PROVE  TypeOK'
<1>1. script' \in [Procs -> Script] /\ \A q \in Procs \ {p} : script'[q] = script[q]
  OBVIOUS
<1>2. script[p].ask \in Times
  BY DEF TypeOK, Apart
<1>3. \A q \in Procs : script'[q].at # "idle" => script'[q].left > 0 /\ script'[q].ask \in Times
  BY <1>2 DEF TypeOK
<1>4. \A q \in Procs : script'[q].at \notin {"idle", "set"} => script'[q].times \in Times
  BY DEF TypeOK
<1>5. \A q \in Procs : writer' = q <=> script'[q].at = "write"
  <2>1. ASSUME NEW q \in Procs \ {p} PROVE writer' = q <=> script'[q].at = "write"
    <3>1. writer = q <=> script[q].at = "write"
      BY DEF TypeOK
    <3>2. (writer' = q) <=> (writer = q)
      BY DEF FilesTyped
    <3> QED BY <1>1, <3>1, <3>2
  <2>2. writer' = p <=> script'[p].at = "write"
    BY DEF FilesTyped
  <2> QED BY <2>1, <2>2
<1> QED BY <1>1, <1>3, <1>4, <1>5 DEF TypeOK, FilesTyped, Apart

(* The others are not concerned: one that runs alone does not run beside   *)
(* p.                                                                      *)
LEMMA Kept ==
  ASSUME IndInv, NEW p \in Procs, Apart(p), TypeOK',
         \A q \in Procs \ {p} : script'[q] = script[q],
         alone[p] /\ Undisturbed(p) /\ script'[p].at # "idle" => Undisturbed(p)',
         alone[p] /\ Undisturbed(p) /\ raised'[p] => raised[p] \/ hit'[p]
  PROVE  IndInv'
<1>1. alone[p] => Undisturbed(p)
  BY DEF IndInv, Apart
<1>2. ASSUME NEW q \in Procs \ {p} PROVE ~alone[q] \/ script'[q].at = "idle"
  BY DEF IndInv, AloneSays, Apart
<1>3. AloneSays'
  <2> SUFFICES ASSUME NEW q \in Procs, alone[q], script'[q].at # "idle", NEW o \in Procs \ {q}
               PROVE  script'[o].at = "idle"
    BY DEF AloneSays, Apart
  <2>1. q = p
    BY <1>2
  <2> QED BY <2>1 DEF IndInv, AloneSays, Apart
<1>4. RaisesOnlyWhenHit'
  <2> SUFFICES ASSUME NEW q \in Procs, raised'[q], alone[q] PROVE hit'[q]
    BY DEF RaisesOnlyWhenHit, Apart
  <2>1. CASE q # p
    BY <2>1 DEF IndInv, RaisesOnlyWhenHit, Apart
  <2>2. CASE q = p
    BY <1>1, <2>2 DEF IndInv, RaisesOnlyWhenHit, Apart
  <2> QED BY <2>1, <2>2
<1>5. ASSUME NEW q \in Procs, alone[q], script'[q].at # "idle" PROVE Undisturbed(q)'
  <2>1. q = p
    BY <1>2, <1>5
  <2> QED BY <1>1, <1>5, <2>1
<1> QED BY <1>3, <1>4, <1>5 DEF IndInv, Apart

(* Alone, p is the only one that may have the file open.                   *)
LEMMA NobodyElseWrites ==
  ASSUME IndInv, NEW p \in Procs, alone[p], ~At(p, "idle"), ~At(p, "write")
  PROVE  writer = NoProc
<1>1. \A q \in Procs : ~At(q, "write")
  BY DEF IndInv, AloneSays
<1> QED BY <1>1 DEF IndInv, TypeOK

(* What an image, a script and the files are.                              *)
LEMMA Types ==
  ASSUME IndInv, NEW p \in Procs
  PROVE  /\ TypeOK /\ script[p] \in Script
         /\ script[p].buffer \in Image /\ script[p].frame \in Image
         /\ script[p].mine \in Nat /\ script[p].k \in Nat
         /\ unsorted \in Image /\ register \in Times /\ shots \in Nat
         /\ script[p].at \notin {"idle", "set"} => script[p].times \in Times
BY DEF IndInv, TypeOK, Script

(* An image that has become whole is an image, and not a missing one.      *)
LEMMA WholeType ==
  ASSUME NEW image \in Image
  PROVE  /\ [image EXCEPT !.whole = TRUE] \in Image /\ [image EXCEPT !.whole = TRUE].whole
         /\ [image EXCEPT !.whole = TRUE].shot = image.shot
         /\ [image EXCEPT !.whole = TRUE].time = image.time
         /\ [image EXCEPT !.whole = TRUE] # NoImage
BY DEF Image, NoImage

(* The same of the file.                                                   *)
LEMMA Whole ==
  ASSUME IndInv, unsorted' = [unsorted EXCEPT !.whole = TRUE]
  PROVE  /\ unsorted' \in Image /\ unsorted'.whole /\ unsorted'.shot = unsorted.shot
         /\ unsorted'.time = unsorted.time /\ unsorted' # NoImage
BY WholeType DEF IndInv, TypeOK

(* A file that is missing is not whole.                                    *)
LEMMA MissingIsNotWhole == Missing => ~unsorted.whole
BY DEF Missing, NoImage

(* A script's tag is one of the tags.                                      *)
LEMMA TagType ==
  ASSUME IndInv, NEW p \in Procs
  PROVE  script[p].tag \in Tags \cup {NoTag}
BY DEF IndInv, TypeOK, Script

(* What Grab leaves in the buffer is the next image.                       *)
LEMMA ShotType ==
  ASSUME IndInv, NEW full \in BOOLEAN,
         NEW image, image = [shot |-> shots + 1, time |-> register, full |-> full, whole |-> FALSE]
  PROVE  /\ image \in Image /\ shots + 1 \in Nat
         /\ image.shot = shots + 1 /\ image.time = register
BY DEF IndInv, TypeOK, Image

(* The board is opened, or is not.                                         *)
LEMMA OpenStep ==
  ASSUME IndInv, NEW p \in Procs, Open(p)
  PROVE  IndInv'
<1>1. CASE Goto(p, "grab") /\ NoFault
  <2>1. Became(p, "grab", script[p].times, script[p].buffer, script[p].frame,
        script[p].k, script[p].mine)
    BY <1>1, GotoBecame, Types DEF Open, Places
  <2>2. Apart(p)
    BY <1>1, <2>1, NoFaultType, Types DEF Open, Apart, TypeOK
  <2>3. FilesTyped(p)
    BY <1>1, <2>1, Types, ImageType DEF Open, FilesTyped, TypeOK, Became
  <2>4. TypeOK'
    BY <2>1, <2>2, <2>3, TypeKept, Types DEF Open, Became
  <2>5. ASSUME alone[p], Undisturbed(p) PROVE Undisturbed(p)'
    BY <1>1, <2>1, <2>2, <2>5, Types, NobodyElseWrites DEF Open, Undisturbed,
      KeepsOwn, FindsPlace, HasImage, Sorting, Own, Missing, Exists, NameOf, Became,
      Apart, TypeOK
  <2>6. raised' = raised
    BY <1>1 DEF Open
  <2> QED BY <2>1, <2>2, <2>4, <2>5, <2>6, Kept DEF Became
<1>2. CASE Exit(p) /\ Fault("open", p)
  <2>1. PICK place \in {"load", "sort"} :
          Became(p, place, script[p].times, NoImage, script[p].frame, script[p].k, script[p].mine)
    BY <1>2, ExitBecame, Types DEF Open
  <2>2. Apart(p)
    BY <1>2, <2>1, FaultType, Types DEF Open, Apart, TypeOK
  <2>3. FilesTyped(p)
    BY <1>2, <2>1, Types, ImageType DEF Open, FilesTyped, TypeOK, Became
  <2>4. TypeOK'
    BY <2>1, <2>2, <2>3, TypeKept, Types DEF Open, Became
  <2>5. ASSUME alone[p], Undisturbed(p) PROVE Undisturbed(p)'
    BY <1>2, <2>1, <2>2, <2>5, FaultType, Types, NobodyElseWrites DEF Open,
      Undisturbed, KeepsOwn, FindsPlace, HasImage, Sorting, Own, Missing, Exists,
      NameOf, Became, Apart, TypeOK
  <2>6. raised' = raised
    BY <1>2 DEF Open
  <2> QED BY <2>1, <2>2, <2>4, <2>5, <2>6, Kept DEF Became
<1> QED BY <1>1, <1>2 DEF Open

(* The file is written and capture.exe ends.                               *)
LEMMA WriteStep ==
  ASSUME IndInv, NEW p \in Procs, Write(p)
  PROVE  IndInv'
<1>1. CASE NoFault /\ unsorted' = [unsorted EXCEPT !.whole = TRUE]
  <2>1. PICK place \in {"load", "sort"} :
          Became(p, place, script[p].times, NoImage, script[p].frame, script[p].k, script[p].mine)
    BY <1>1, ExitBecame, Types DEF Write
  <2>2. Apart(p)
    BY <1>1, <2>1, NoFaultType, Types DEF Write, Apart, TypeOK
  <2>3. FilesTyped(p)
    BY <1>1, <2>1, Types, ImageType, Whole, CaptureAssumption DEF Write,
      FilesTyped, TypeOK, Became
  <2>4. TypeOK'
    BY <2>1, <2>2, <2>3, TypeKept, Types DEF Write, Became
  <2>5. ASSUME alone[p], Undisturbed(p) PROVE Undisturbed(p)'
    BY <1>1, <2>1, <2>2, <2>5, Types, NobodyElseWrites, Whole DEF Write,
      Undisturbed, KeepsOwn, FindsPlace, HasImage, Sorting, Own, Missing, Exists,
      NameOf, Became, Apart, TypeOK
  <2>6. raised' = raised
    BY <1>1 DEF Write
  <2> QED BY <2>1, <2>2, <2>4, <2>5, <2>6, Kept DEF Became
<1>2. CASE Fault("write", p) /\ UNCHANGED unsorted
  <2>1. PICK place \in {"load", "sort"} :
          Became(p, place, script[p].times, NoImage, script[p].frame, script[p].k, script[p].mine)
    BY <1>2, ExitBecame, Types DEF Write
  <2>2. Apart(p)
    BY <1>2, <2>1, FaultType, Types DEF Write, Apart, TypeOK
  <2>3. FilesTyped(p)
    BY <1>2, <2>1, Types, ImageType, CaptureAssumption DEF Write, FilesTyped,
      TypeOK, Became
  <2>4. TypeOK'
    BY <2>1, <2>2, <2>3, TypeKept, Types DEF Write, Became
  <2>5. ASSUME alone[p], Undisturbed(p) PROVE Undisturbed(p)'
    BY <1>2, <2>1, <2>2, <2>5, FaultType, Types, NobodyElseWrites DEF Write,
      Undisturbed, KeepsOwn, FindsPlace, HasImage, Sorting, Own, Missing, Exists,
      NameOf, Became, Apart, TypeOK
  <2>6. raised' = raised
    BY <1>2 DEF Write
  <2> QED BY <2>1, <2>2, <2>4, <2>5, <2>6, Kept DEF Became
<1> QED BY <1>1, <1>2 DEF Write

(* The file is made.                                                       *)
LEMMA CreateStep ==
  ASSUME IndInv, NEW p \in Procs, Create(p)
  PROVE  IndInv'
<1>1. CASE writer = NoProc /\ unsorted' = script[p].buffer /\ writer' = p /\ Goto(p, "write") /\ NoFault
  <2>1. Became(p, "write", script[p].times, script[p].buffer, script[p].frame,
        script[p].k, script[p].mine)
    BY <1>1, GotoBecame, Types DEF Create, Places
  <2>2. Apart(p)
    BY <1>1, <2>1, NoFaultType, Types DEF Create, Apart, TypeOK
  <2>3. FilesTyped(p)
    BY <1>1, <2>1, Types, ImageType, CaptureAssumption DEF Create, FilesTyped,
      TypeOK, Became
  <2>4. TypeOK'
    BY <2>1, <2>2, <2>3, TypeKept, Types DEF Create, Became
  <2>5. ASSUME alone[p], Undisturbed(p) PROVE Undisturbed(p)'
    BY <1>1, <2>1, <2>2, <2>5, Types, NobodyElseWrites DEF Create, Undisturbed,
      KeepsOwn, FindsPlace, HasImage, Sorting, Own, Missing, Exists, NameOf, Became,
      Apart, TypeOK
  <2>6. raised' = raised
    BY <1>1 DEF Create
  <2> QED BY <2>1, <2>2, <2>4, <2>5, <2>6, Kept DEF Became
<1>2. CASE writer = NoProc /\ unsorted' \in {unsorted, NoImage} /\ UNCHANGED writer /\ Exit(p) /\ Fault("create", p)
  <2>1. PICK place \in {"load", "sort"} :
          Became(p, place, script[p].times, NoImage, script[p].frame, script[p].k, script[p].mine)
    BY <1>2, ExitBecame, Types DEF Create
  <2>2. Apart(p)
    BY <1>2, <2>1, FaultType, Types DEF Create, Apart, TypeOK
  <2>3. FilesTyped(p)
    BY <1>2, <2>1, Types, ImageType DEF Create, FilesTyped, TypeOK, Became
  <2>4. TypeOK'
    BY <2>1, <2>2, <2>3, TypeKept, Types DEF Create, Became
  <2>5. ASSUME alone[p], Undisturbed(p) PROVE Undisturbed(p)'
    BY <1>2, <2>1, <2>2, <2>5, FaultType, Types, NobodyElseWrites DEF Create,
      Undisturbed, KeepsOwn, FindsPlace, HasImage, Sorting, Own, Missing, Exists,
      NameOf, Became, Apart, TypeOK
  <2>6. raised' = raised
    BY <1>2 DEF Create
  <2> QED BY <2>1, <2>2, <2>4, <2>5, <2>6, Kept DEF Became
<1>3. CASE writer # NoProc /\ Exit(p) /\ NoFault /\ UNCHANGED fileVars
  <2>1. PICK place \in {"load", "sort"} :
          Became(p, place, script[p].times, NoImage, script[p].frame, script[p].k, script[p].mine)
    BY <1>3, ExitBecame, Types DEF Create
  <2>2. Apart(p)
    BY <1>3, <2>1, NoFaultType, Types DEF Create, Apart, TypeOK
  <2>3. FilesTyped(p)
    BY <1>3, <2>1, Types, ImageType DEF Create, FilesTyped, TypeOK, Became
  <2>4. TypeOK'
    BY <2>1, <2>2, <2>3, TypeKept, Types DEF Create, Became
  <2>5. ASSUME alone[p], Undisturbed(p) PROVE Undisturbed(p)'
    BY <1>3, <2>1, <2>2, <2>5, Types, NobodyElseWrites DEF Create, Undisturbed,
      KeepsOwn, FindsPlace, HasImage, Sorting, Own, Missing, Exists, NameOf, Became,
      Apart, TypeOK
  <2>6. raised' = raised
    BY <1>3 DEF Create
  <2> QED BY <2>1, <2>2, <2>4, <2>5, <2>6, Kept DEF Became
<1> QED BY <1>1, <1>2, <1>3 DEF Create

(* simple_cap removes the file.                                            *)
LEMMA RemoveStep ==
  ASSUME IndInv, NEW p \in Procs, Remove(p)
  PROVE  IndInv'
<1>1. CASE (Missing \/ writer # NoProc) /\ Raise(p) /\ UNCHANGED unsorted
  <2>1. Ended(p) /\ raised' \in [Procs -> BOOLEAN] /\ \A q \in Procs \ {p} :
        raised'[q] = raised[q]
    BY <1>1, RaiseEnded, Types DEF Remove
  <2>2. Apart(p)
    BY <1>1, <2>1, Types DEF Remove, Apart, TypeOK
  <2>3. FilesTyped(p)
    BY <1>1, <2>1, Types, ImageType DEF Remove, FilesTyped, TypeOK, Ended
  <2>4. TypeOK'
    BY <2>1, <2>2, <2>3, TypeKept, Types DEF Ended
  <2>5. ASSUME alone[p], Undisturbed(p) PROVE raised[p] \/ hit'[p]
    BY <1>1, <2>2, <2>5, Types, NobodyElseWrites, MissingIsNotWhole DEF Remove,
      Undisturbed, FindsPlace, HasImage, Sorting, Apart
  <2> QED BY <2>1, <2>2, <2>4, <2>5, Kept DEF Ended
<1>2. CASE ~(Missing \/ writer # NoProc) /\ unsorted' = NoImage /\ Goto(p, "rewrite") /\ UNCHANGED raised
  <2>1. Became(p, "rewrite", script[p].times, script[p].buffer, script[p].frame,
        script[p].k, script[p].mine)
    BY <1>2, GotoBecame, Types DEF Remove, Places
  <2>2. Apart(p)
    BY <1>2, <2>1, Types DEF Remove, Apart, TypeOK
  <2>3. FilesTyped(p)
    BY <1>2, <2>1, Types, ImageType DEF Remove, FilesTyped, TypeOK, Became
  <2>4. TypeOK'
    BY <2>1, <2>2, <2>3, TypeKept, Types DEF Remove, Became
  <2>5. ASSUME alone[p], Undisturbed(p) PROVE Undisturbed(p)'
    BY <1>2, <2>1, <2>2, <2>5, Types, NobodyElseWrites DEF Remove, Undisturbed,
      KeepsOwn, FindsPlace, HasImage, Sorting, Own, Missing, Exists, NameOf, Became,
      Apart, TypeOK
  <2>6. raised' = raised
    BY <1>2 DEF Remove
  <2> QED BY <2>1, <2>2, <2>4, <2>5, <2>6, Kept DEF Became
<1> QED BY <1>1, <1>2 DEF Remove

(* The weather is put into the header.                                     *)
LEMMA WeatherStep ==
  ASSUME IndInv, NEW p \in Procs, Weather(p)
  PROVE  IndInv'
<1>1. CASE ~Missing /\ Goto(p, "sort") /\ NoFault /\ UNCHANGED raised
  <2>1. Became(p, "sort", script[p].times, script[p].buffer, script[p].frame,
        script[p].k, script[p].mine)
    BY <1>1, GotoBecame, Types DEF Weather, Places
  <2>2. Apart(p)
    BY <1>1, <2>1, NoFaultType, Types DEF Weather, Apart, TypeOK
  <2>3. FilesTyped(p)
    BY <1>1, <2>1, Types, ImageType DEF Weather, FilesTyped, TypeOK, Became
  <2>4. TypeOK'
    BY <2>1, <2>2, <2>3, TypeKept, Types DEF Weather, Became
  <2>5. ASSUME alone[p], Undisturbed(p) PROVE Undisturbed(p)'
    BY <1>1, <2>1, <2>2, <2>5, Types, NobodyElseWrites DEF Weather, Undisturbed,
      KeepsOwn, FindsPlace, HasImage, Sorting, Own, Missing, Exists, NameOf, Became,
      Apart, TypeOK
  <2>6. raised' = raised
    BY <1>1 DEF Weather
  <2> QED BY <2>1, <2>2, <2>4, <2>5, <2>6, Kept DEF Became
<1>2. CASE (Missing \/ ~unsorted.whole) /\ Raise(p) /\ NoFault
  <2>1. Ended(p) /\ raised' \in [Procs -> BOOLEAN] /\ \A q \in Procs \ {p} :
        raised'[q] = raised[q]
    BY <1>2, RaiseEnded, Types DEF Weather
  <2>2. Apart(p)
    BY <1>2, <2>1, NoFaultType, Types DEF Weather, Apart, TypeOK
  <2>3. FilesTyped(p)
    BY <1>2, <2>1, Types, ImageType DEF Weather, FilesTyped, TypeOK, Ended
  <2>4. TypeOK'
    BY <2>1, <2>2, <2>3, TypeKept, Types DEF Ended
  <2>5. ASSUME alone[p], Undisturbed(p) PROVE raised[p] \/ hit'[p]
    BY <1>2, <2>2, <2>5, Types, NobodyElseWrites, MissingIsNotWhole DEF Weather,
      Undisturbed, FindsPlace, HasImage, Sorting, Apart
  <2> QED BY <2>1, <2>2, <2>4, <2>5, Kept DEF Ended
<1>3. CASE Fault("weather", p) /\ Raise(p)
  <2>1. Ended(p) /\ raised' \in [Procs -> BOOLEAN] /\ \A q \in Procs \ {p} :
        raised'[q] = raised[q]
    BY <1>3, RaiseEnded, Types DEF Weather
  <2>2. Apart(p)
    BY <1>3, <2>1, FaultType, Types DEF Weather, Apart, TypeOK
  <2>3. FilesTyped(p)
    BY <1>3, <2>1, Types, ImageType DEF Weather, FilesTyped, TypeOK, Ended
  <2>4. TypeOK'
    BY <2>1, <2>2, <2>3, TypeKept, Types DEF Ended
  <2>5. ASSUME alone[p], Undisturbed(p) PROVE raised[p] \/ hit'[p]
    BY <1>3, <2>2, <2>5, FaultType, Types, NobodyElseWrites, MissingIsNotWhole DEF
      Weather, Undisturbed, FindsPlace, HasImage, Sorting, Apart
  <2> QED BY <2>1, <2>2, <2>4, <2>5, Kept DEF Ended
<1> QED BY <1>1, <1>2, <1>3 DEF Weather

(* Is there a folder?                                                      *)
LEMMA SortStep ==
  ASSUME IndInv, NEW p \in Procs, Sort(p)
  PROVE  IndInv'
<1>1. CASE script[p].tag \in folders
  <2>1. Became(p, "name", script[p].times, script[p].buffer, script[p].frame,
        script[p].k, script[p].mine)
    BY <1>1, GotoBecame, Types DEF Sort, Places
  <2>2. Apart(p)
    BY <1>1, <2>1, Types DEF Sort, Apart, TypeOK
  <2>3. FilesTyped(p)
    BY <1>1, <2>1, Types, ImageType DEF Sort, FilesTyped, TypeOK, Became
  <2>4. TypeOK'
    BY <2>1, <2>2, <2>3, TypeKept, Types DEF Sort, Became
  <2>5. ASSUME alone[p], Undisturbed(p) PROVE Undisturbed(p)'
    BY <1>1, <2>1, <2>2, <2>5, Types, NobodyElseWrites DEF Sort, Undisturbed,
      KeepsOwn, FindsPlace, HasImage, Sorting, Own, Missing, Exists, NameOf, Became,
      Apart, TypeOK
  <2>6. raised' = raised
    BY <1>1 DEF Sort
  <2> QED BY <2>1, <2>2, <2>4, <2>5, <2>6, Kept DEF Became
<1>2. CASE script[p].tag \notin folders
  <2>1. Became(p, "mkdir", script[p].times, script[p].buffer, script[p].frame,
        script[p].k, script[p].mine)
    BY <1>2, GotoBecame, Types DEF Sort, Places
  <2>2. Apart(p)
    BY <1>2, <2>1, Types DEF Sort, Apart, TypeOK
  <2>3. FilesTyped(p)
    BY <1>2, <2>1, Types, ImageType DEF Sort, FilesTyped, TypeOK, Became
  <2>4. TypeOK'
    BY <2>1, <2>2, <2>3, TypeKept, Types DEF Sort, Became
  <2>5. ASSUME alone[p], Undisturbed(p) PROVE Undisturbed(p)'
    BY <1>2, <2>1, <2>2, <2>5, Types, NobodyElseWrites DEF Sort, Undisturbed,
      KeepsOwn, FindsPlace, HasImage, Sorting, Own, Missing, Exists, NameOf, Became,
      Apart, TypeOK
  <2>6. raised' = raised
    BY <1>2 DEF Sort
  <2> QED BY <2>1, <2>2, <2>4, <2>5, <2>6, Kept DEF Became
<1> QED BY <1>1, <1>2

(* The folder of the day.                                                  *)
LEMMA MakeDayStep ==
  ASSUME IndInv, NEW p \in Procs, MakeDay(p)
  PROVE  IndInv'
<1>1. CASE NoTag \in folders /\ script[p].tag = NoTag /\ Raise(p) /\ UNCHANGED folders
  <2>1. Ended(p) /\ raised' \in [Procs -> BOOLEAN] /\ \A q \in Procs \ {p} :
        raised'[q] = raised[q]
    BY <1>1, RaiseEnded, Types DEF MakeDay
  <2>2. Apart(p)
    BY <1>1, <2>1, Types DEF MakeDay, Apart, TypeOK
  <2>3. FilesTyped(p)
    BY <1>1, <2>1, Types, ImageType DEF MakeDay, FilesTyped, TypeOK, Ended
  <2>4. TypeOK'
    BY <2>1, <2>2, <2>3, TypeKept, Types DEF Ended
  <2>5. ASSUME alone[p], Undisturbed(p) PROVE raised[p] \/ hit'[p]
    BY <1>1, <2>2, <2>5, Types, NobodyElseWrites, MissingIsNotWhole DEF MakeDay,
      Undisturbed, FindsPlace, HasImage, Sorting, Apart
  <2> QED BY <2>1, <2>2, <2>4, <2>5, Kept DEF Ended
<1>2. CASE NoTag \in folders /\ script[p].tag # NoTag /\ Goto(p, "handler") /\ UNCHANGED <<folders, raised>>
  <2>1. Became(p, "handler", script[p].times, script[p].buffer, script[p].frame,
        script[p].k, script[p].mine)
    BY <1>2, GotoBecame, Types DEF MakeDay, Places
  <2>2. Apart(p)
    BY <1>2, <2>1, Types DEF MakeDay, Apart, TypeOK
  <2>3. FilesTyped(p)
    BY <1>2, <2>1, Types, ImageType DEF MakeDay, FilesTyped, TypeOK, Became
  <2>4. TypeOK'
    BY <2>1, <2>2, <2>3, TypeKept, Types DEF MakeDay, Became
  <2>5. ASSUME alone[p], Undisturbed(p) PROVE Undisturbed(p)'
    BY <1>2, <2>1, <2>2, <2>5, Types, NobodyElseWrites DEF MakeDay, Undisturbed,
      KeepsOwn, FindsPlace, HasImage, Sorting, Own, Missing, Exists, NameOf, Became,
      Apart, TypeOK
  <2>6. raised' = raised
    BY <1>2 DEF MakeDay
  <2> QED BY <2>1, <2>2, <2>4, <2>5, <2>6, Kept DEF Became
<1>3. CASE NoTag \notin folders /\ folders' = folders \cup {NoTag} /\ script[p].tag = NoTag /\ Goto(p, "name") /\ UNCHANGED raised
  <2>1. Became(p, "name", script[p].times, script[p].buffer, script[p].frame,
        script[p].k, script[p].mine)
    BY <1>3, GotoBecame, Types DEF MakeDay, Places
  <2>2. Apart(p)
    BY <1>3, <2>1, Types DEF MakeDay, Apart, TypeOK
  <2>3. FilesTyped(p)
    BY <1>3, <2>1, Types, ImageType DEF MakeDay, FilesTyped, TypeOK, Became
  <2>4. TypeOK'
    BY <2>1, <2>2, <2>3, TypeKept, Types DEF MakeDay, Became
  <2>5. ASSUME alone[p], Undisturbed(p) PROVE Undisturbed(p)'
    BY <1>3, <2>1, <2>2, <2>5, Types, NobodyElseWrites DEF MakeDay, Undisturbed,
      KeepsOwn, FindsPlace, HasImage, Sorting, Own, Missing, Exists, NameOf, Became,
      Apart, TypeOK
  <2>6. raised' = raised
    BY <1>3 DEF MakeDay
  <2> QED BY <2>1, <2>2, <2>4, <2>5, <2>6, Kept DEF Became
<1>4. CASE NoTag \notin folders /\ folders' = folders \cup {NoTag} /\ script[p].tag # NoTag /\ Goto(p, "tag") /\ UNCHANGED raised
  <2>1. Became(p, "tag", script[p].times, script[p].buffer, script[p].frame,
        script[p].k, script[p].mine)
    BY <1>4, GotoBecame, Types DEF MakeDay, Places
  <2>2. Apart(p)
    BY <1>4, <2>1, Types DEF MakeDay, Apart, TypeOK
  <2>3. FilesTyped(p)
    BY <1>4, <2>1, Types, ImageType DEF MakeDay, FilesTyped, TypeOK, Became
  <2>4. TypeOK'
    BY <2>1, <2>2, <2>3, TypeKept, Types DEF MakeDay, Became
  <2>5. ASSUME alone[p], Undisturbed(p) PROVE Undisturbed(p)'
    BY <1>4, <2>1, <2>2, <2>5, Types, NobodyElseWrites DEF MakeDay, Undisturbed,
      KeepsOwn, FindsPlace, HasImage, Sorting, Own, Missing, Exists, NameOf, Became,
      Apart, TypeOK
  <2>6. raised' = raised
    BY <1>4 DEF MakeDay
  <2> QED BY <2>1, <2>2, <2>4, <2>5, <2>6, Kept DEF Became
<1> QED BY <1>1, <1>2, <1>3, <1>4 DEF MakeDay

(* The tag's folder.                                                       *)
LEMMA MakeTagStep ==
  ASSUME IndInv, NEW p \in Procs, MakeTag(p)
  PROVE  IndInv'
<1>1. CASE script[p].tag \in folders /\ Raise(p) /\ UNCHANGED folders
  <2>1. Ended(p) /\ raised' \in [Procs -> BOOLEAN] /\ \A q \in Procs \ {p} :
        raised'[q] = raised[q]
    BY <1>1, RaiseEnded, Types DEF MakeTag
  <2>2. Apart(p)
    BY <1>1, <2>1, Types DEF MakeTag, Apart, TypeOK
  <2>3. FilesTyped(p)
    BY <1>1, <2>1, Types, ImageType DEF MakeTag, FilesTyped, TypeOK, Ended
  <2>4. TypeOK'
    BY <2>1, <2>2, <2>3, TypeKept, Types DEF Ended
  <2>5. ASSUME alone[p], Undisturbed(p) PROVE raised[p] \/ hit'[p]
    BY <1>1, <2>2, <2>5, Types, NobodyElseWrites, MissingIsNotWhole DEF MakeTag,
      Undisturbed, FindsPlace, HasImage, Sorting, Apart
  <2> QED BY <2>1, <2>2, <2>4, <2>5, Kept DEF Ended
<1>2. CASE script[p].tag \notin folders /\ folders' = folders \cup {script[p].tag} /\ Goto(p, "name") /\ UNCHANGED raised
  <2>1. Became(p, "name", script[p].times, script[p].buffer, script[p].frame,
        script[p].k, script[p].mine)
    BY <1>2, GotoBecame, Types DEF MakeTag, Places
  <2>2. Apart(p)
    BY <1>2, <2>1, Types DEF MakeTag, Apart, TypeOK
  <2>3. FilesTyped(p)
    BY <1>2, <2>1, Types, ImageType, TagType DEF MakeTag, FilesTyped, TypeOK,
      Became
  <2>4. TypeOK'
    BY <2>1, <2>2, <2>3, TypeKept, Types DEF MakeTag, Became
  <2>5. ASSUME alone[p], Undisturbed(p) PROVE Undisturbed(p)'
    BY <1>2, <2>1, <2>2, <2>5, Types, NobodyElseWrites DEF MakeTag, Undisturbed,
      KeepsOwn, FindsPlace, HasImage, Sorting, Own, Missing, Exists, NameOf, Became,
      Apart, TypeOK
  <2>6. raised' = raised
    BY <1>2 DEF MakeTag
  <2> QED BY <2>1, <2>2, <2>4, <2>5, <2>6, Kept DEF Became
<1> QED BY <1>1, <1>2 DEF MakeTag

(* The times are set, or the serial line fails.                            *)
LEMMA SetTimesStep ==
  ASSUME IndInv, NEW p \in Procs, SetTimes(p)
  PROVE  IndInv'
<1> DEFINE s == script[p]
<1>0. s \in Script /\ s.left > 0 /\ s.ask \in Times
  BY DEF IndInv, TypeOK, SetTimes
<1>1. CASE /\ register' = s.ask
           /\ script' = [script EXCEPT ![p].at = "open", ![p].times = script[p].ask]
           /\ NoFault /\ UNCHANGED raised
  <2>1. Became(p, "open", s.ask, s.buffer, s.frame, s.k, s.mine)
    <3> DEFINE r == [s EXCEPT !.at = "open", !.times = s.ask]
    <3>1. /\ r \in Script /\ r.at = "open" /\ r.tag = s.tag /\ r.ask = s.ask /\ r.left = s.left
          /\ r.times = s.ask /\ r.buffer = s.buffer /\ r.frame = s.frame /\ r.k = s.k
          /\ r.mine = s.mine
      BY <1>0 DEF Script, Places
    <3>2. script' = [script EXCEPT ![p] = r]
      BY <1>1
    <3> HIDE DEF r
    <3> QED BY <1>0, <3>1, <3>2, Replaced, Types DEF Became
  <2>2. Apart(p)
    BY <1>1, <2>1, NoFaultType, Types DEF SetTimes, Apart, TypeOK
  <2>3. FilesTyped(p)
    BY <1>0, <1>1, <2>1, Types DEF SetTimes, FilesTyped, TypeOK, Became
  <2>4. TypeOK'
    BY <1>0, <2>1, <2>2, <2>3, TypeKept, Types DEF Became
  <2>5. ASSUME alone[p], Undisturbed(p) PROVE Undisturbed(p)'
    BY <1>1, <2>1, <2>2, <2>5, Types DEF SetTimes, Undisturbed, KeepsOwn, FindsPlace,
      HasImage, Sorting, Missing, Became, Apart
  <2> QED BY <1>1, <2>1, <2>2, <2>4, <2>5, Kept DEF Became
<1>2. CASE Fault("serial", p) /\ Raise(p) /\ UNCHANGED register
  <2>1. Ended(p) /\ raised' \in [Procs -> BOOLEAN] /\ \A q \in Procs \ {p} : raised'[q] = raised[q]
    BY <1>2, RaiseEnded, Types
  <2>2. Apart(p)
    BY <1>2, <2>1, FaultType, Types DEF SetTimes, Apart, TypeOK
  <2>3. FilesTyped(p)
    BY <1>2, <2>1, Types DEF SetTimes, FilesTyped, TypeOK, Ended
  <2>4. TypeOK'
    BY <2>1, <2>2, <2>3, TypeKept, Types DEF Ended
  <2> QED BY <1>2, <2>1, <2>2, <2>4, FaultType, Types, Kept DEF Ended
<1> QED BY <1>1, <1>2 DEF SetTimes

(* An image is taken, or the wait times out.                               *)
LEMMA GrabStep ==
  ASSUME IndInv, NEW p \in Procs, Grab(p)
  PROVE  IndInv'
<1> DEFINE s == script[p]
<1>0. s \in Script /\ s.left > 0 /\ s.times \in Times
  BY DEF IndInv, TypeOK, Grab
<1>1. PICK full \in BOOLEAN :
        /\ IF full THEN NoFault ELSE Fault("timeout", p)
        /\ script' = [script EXCEPT ![p].at = "create", ![p].mine = shots + 1,
                        ![p].buffer = [shot |-> shots + 1, time |-> register,
                                       full |-> full, whole |-> FALSE]]
  BY DEF Grab
<1> DEFINE image == [shot |-> shots + 1, time |-> register, full |-> full, whole |-> FALSE]
<1>2. image \in Image /\ shots + 1 \in Nat /\ image.shot = shots + 1 /\ image.time = register
  BY ShotType
<1>3. PICK n \in Nat : n = shots + 1
  BY <1>2
<1> HIDE DEF image
<1>4. Became(p, "create", s.times, image, s.frame, s.k, n)
  <2> DEFINE r == [s EXCEPT !.at = "create", !.mine = n, !.buffer = image]
  <2>1. /\ r \in Script /\ r.at = "create" /\ r.tag = s.tag /\ r.ask = s.ask /\ r.left = s.left
        /\ r.times = s.times /\ r.buffer = image /\ r.frame = s.frame /\ r.k = s.k
        /\ r.mine = n
    BY <1>0, <1>2 DEF Script, Places
  <2>2. script' = [script EXCEPT ![p] = r]
    BY <1>1, <1>3 DEF image
  <2> HIDE DEF r
  <2> QED BY <1>0, <2>1, <2>2, Replaced, Types DEF Became
<1>5. Apart(p)
  <2>1. ~At(p, "idle") /\ UNCHANGED <<runs, alone, fresh, raised>>
    BY DEF Grab
  <2>2. CASE full
    BY <1>1, <2>1, <2>2, NoFaultType, Types DEF Apart, TypeOK
  <2>3. CASE ~full
    BY <1>1, <2>1, <2>3, FaultType, Types DEF Apart, TypeOK
  <2> QED BY <2>2, <2>3
<1>6. FilesTyped(p)
  BY <1>2, <1>4, Types DEF Grab, FilesTyped, TypeOK, Became
<1>7. TypeOK'
  BY <1>0, <1>4, <1>5, <1>6, TypeKept, Types DEF Became
<1>8. ASSUME alone[p], Undisturbed(p) PROVE Undisturbed(p)'
  BY <1>2, <1>3, <1>4, <1>5, <1>8, Types DEF Grab, Undisturbed, KeepsOwn, FindsPlace,
    HasImage, Sorting, Own, Missing, Became, Apart
<1>9. raised' = raised
  BY DEF Grab
<1> QED BY <1>4, <1>5, <1>7, <1>8, <1>9, Kept DEF Became

(* simple_cap reads the file.                                              *)
LEMMA LoadStep ==
  ASSUME IndInv, NEW p \in Procs, Load(p)
  PROVE  IndInv'
<1> DEFINE s == script[p]
<1>0. s \in Script /\ s.left > 0 /\ s.times \in Times /\ At(p, "load")
  BY DEF IndInv, TypeOK, Load
<1>1. CASE /\ ~Missing /\ UNCHANGED raised
           /\ script' = [script EXCEPT ![p].at = "remove", ![p].frame = unsorted]
  <2>1. Became(p, "remove", s.times, s.buffer, unsorted, s.k, s.mine)
    <3> DEFINE r == [s EXCEPT !.at = "remove", !.frame = unsorted]
    <3>1. /\ r \in Script /\ r.at = "remove" /\ r.tag = s.tag /\ r.ask = s.ask /\ r.left = s.left
          /\ r.times = s.times /\ r.buffer = s.buffer /\ r.frame = unsorted /\ r.k = s.k
          /\ r.mine = s.mine
      BY <1>0, Types DEF Script, Places
    <3>2. script' = [script EXCEPT ![p] = r]
      BY <1>1
    <3> HIDE DEF r
    <3> QED BY <1>0, <3>1, <3>2, Replaced, Types DEF Became
  <2>2. Apart(p)
    BY <1>1, <2>1, Types DEF Load, Apart, TypeOK
  <2>3. FilesTyped(p)
    BY <1>0, <1>1, <2>1, Types DEF Load, FilesTyped, TypeOK, Became
  <2>4. TypeOK'
    BY <1>0, <2>1, <2>2, <2>3, TypeKept, Types DEF Became
  <2>5. ASSUME alone[p], Undisturbed(p) PROVE Undisturbed(p)'
    BY <1>1, <2>1, <2>2, <2>5, Types DEF Load, Undisturbed, KeepsOwn, FindsPlace,
      HasImage, Sorting, Own, Missing, Became, Apart
  <2> QED BY <1>1, <2>1, <2>2, <2>4, <2>5, Kept DEF Became
<1>2. CASE (Missing \/ ~unsorted.whole) /\ Raise(p)
  <2>1. Ended(p) /\ raised' \in [Procs -> BOOLEAN] /\ \A q \in Procs \ {p} : raised'[q] = raised[q]
    BY <1>2, RaiseEnded, Types
  <2>2. Apart(p)
    BY <1>2, <2>1, Types DEF Load, Apart, TypeOK
  <2>3. FilesTyped(p)
    BY <1>2, <2>1, Types DEF Load, FilesTyped, TypeOK, Ended
  <2>4. TypeOK'
    BY <2>1, <2>2, <2>3, TypeKept, Types DEF Ended
  <2>5. ASSUME alone[p], Undisturbed(p) PROVE raised[p] \/ hit'[p]
    BY <1>2, <2>2, <2>5, MissingIsNotWhole DEF Load, Undisturbed, HasImage, Sorting, Apart
  <2> QED BY <2>1, <2>2, <2>4, <2>5, Kept DEF Ended
<1> QED BY <1>1, <1>2 DEF Load

(* expose.py writes the file anew.                                         *)
LEMMA RewriteStep ==
  ASSUME IndInv, NEW p \in Procs, Rewrite(p)
  PROVE  IndInv'
<1> DEFINE s == script[p]
<1>0. s \in Script /\ s.left > 0 /\ s.times \in Times /\ At(p, "rewrite")
  BY DEF IndInv, TypeOK, Rewrite
<1>1. CASE writer # NoProc /\ Raise(p) /\ UNCHANGED unsorted
  <2>1. Ended(p) /\ raised' \in [Procs -> BOOLEAN] /\ \A q \in Procs \ {p} : raised'[q] = raised[q]
    BY <1>1, RaiseEnded, Types
  <2>2. Apart(p)
    BY <1>1, <2>1, Types DEF Rewrite, Apart, TypeOK
  <2>3. FilesTyped(p)
    BY <1>1, <2>1, Types DEF Rewrite, FilesTyped, TypeOK, Ended
  <2>4. TypeOK'
    BY <2>1, <2>2, <2>3, TypeKept, Types DEF Ended
  <2>5. ~alone[p]
    BY <1>0, <1>1, NobodyElseWrites
  <2> QED BY <2>1, <2>2, <2>4, <2>5, Kept DEF Ended
<1>2. CASE /\ writer = NoProc /\ UNCHANGED raised
           /\ unsorted' = [s.frame EXCEPT !.whole = TRUE]
           /\ script' = [script EXCEPT ![p].at = "weather", ![p].frame = NoImage]
  <2>1. Became(p, "weather", s.times, s.buffer, NoImage, s.k, s.mine)
    <3> DEFINE r == [s EXCEPT !.at = "weather", !.frame = NoImage]
    <3>1. /\ r \in Script /\ r.at = "weather" /\ r.tag = s.tag /\ r.ask = s.ask /\ r.left = s.left
          /\ r.times = s.times /\ r.buffer = s.buffer /\ r.frame = NoImage /\ r.k = s.k
          /\ r.mine = s.mine
      BY <1>0, ImageType DEF Script, Places
    <3>2. script' = [script EXCEPT ![p] = r]
      BY <1>2
    <3> HIDE DEF r
    <3> QED BY <1>0, <3>1, <3>2, Replaced, Types DEF Became
  <2>2. Apart(p)
    BY <1>2, <2>1, Types DEF Rewrite, Apart, TypeOK
  <2>3. /\ unsorted' \in Image /\ unsorted'.whole
        /\ unsorted'.shot = s.frame.shot /\ unsorted'.time = s.frame.time
    BY <1>2, WholeType, Types
  <2>4. FilesTyped(p)
    BY <1>2, <2>1, <2>3, Types DEF Rewrite, FilesTyped, TypeOK, Became
  <2>5. TypeOK'
    BY <1>0, <2>1, <2>2, <2>4, TypeKept, Types DEF Became
  <2>6. ASSUME alone[p], Undisturbed(p) PROVE Undisturbed(p)'
    BY <1>0, <2>1, <2>2, <2>3, <2>6, Types DEF Rewrite, Undisturbed, KeepsOwn, FindsPlace,
      HasImage, Sorting, Own, Missing, Became, Apart
  <2> QED BY <1>2, <2>1, <2>2, <2>5, <2>6, Kept DEF Became
<1> QED BY <1>1, <1>2 DEF Rewrite

(* A number is found for the image.                                        *)
LEMMA ChooseStep ==
  ASSUME IndInv, NEW p \in Procs, Choose(p)
  PROVE  IndInv'
<1> DEFINE s == script[p]
<1>0. s \in Script /\ s.left > 0 /\ s.times \in Times /\ At(p, "name")
  BY DEF IndInv, TypeOK, Choose
<1>1. PICK k \in 0 .. Cardinality(DOMAIN filed) :
        /\ ~Exists(NameOf(p, k))
        /\ script' = [script EXCEPT ![p].at = "rename", ![p].k = k]
  BY DEF Choose
<1>2. k \in Nat
  BY <1>1, SMT
<1>3. Became(p, "rename", s.times, s.buffer, s.frame, k, s.mine)
  <2> DEFINE r == [s EXCEPT !.at = "rename", !.k = k]
  <2>1. /\ r \in Script /\ r.at = "rename" /\ r.tag = s.tag /\ r.ask = s.ask /\ r.left = s.left
        /\ r.times = s.times /\ r.buffer = s.buffer /\ r.frame = s.frame /\ r.k = k
        /\ r.mine = s.mine
    BY <1>0, <1>2 DEF Script, Places
  <2>2. script' = [script EXCEPT ![p] = r]
    BY <1>1
  <2> HIDE DEF r
  <2> QED BY <1>0, <2>1, <2>2, Replaced, Types DEF Became
<1>4. Apart(p)
  BY <1>3, Types DEF Choose, Apart, TypeOK
<1>5. FilesTyped(p)
  BY <1>3, Types DEF Choose, FilesTyped, TypeOK, Became
<1>6. TypeOK'
  BY <1>0, <1>3, <1>4, <1>5, TypeKept, Types DEF Became
<1>7. ASSUME alone[p], Undisturbed(p) PROVE Undisturbed(p)'
  BY <1>0, <1>1, <1>2, <1>3, <1>4, <1>7, Types DEF Choose, Undisturbed, KeepsOwn, FindsPlace,
    HasImage, Sorting, Own, Missing, Exists, NameOf, Became, Apart
<1>8. raised' = raised
  BY DEF Choose
<1> QED BY <1>3, <1>4, <1>6, <1>7, <1>8, Kept DEF Became

(* The script takes the next image or ends.                                *)
LEMMA NextLoopBecomes ==
  ASSUME TypeOK, NEW p \in Procs, ~At(p, "idle"), ~At(p, "set"), NextLoop(p)
  PROVE  \/ Ended(p)
         \/ \E place \in {"set", "open"} :
              Became(p, place, script[p].times, script[p].buffer, script[p].frame, 0, 0)
<1> DEFINE s == script[p]
<1>0. s \in Script /\ s.left > 0 /\ s.left \in 0 .. MaxLoops /\ s.times \in Times
  BY DEF TypeOK, Script
<1>1. CASE s.left = 1
  <2>1. script' = [script EXCEPT ![p] = Idle]
    BY <1>1 DEF NextLoop
  <2> QED BY <2>1, IdleType, Replaced DEF Ended
<1>2. CASE s.left # 1
  <2> DEFINE place == IF s.kind = "expose" THEN "set" ELSE "open"
  <2>1. PICK n \in 0 .. MaxLoops : n = s.left - 1 /\ n > 0
    BY <1>0, <1>2, CaptureAssumption
  <2>2. place \in {"set", "open"} /\ place \in Places
    BY DEF Places
  <2> DEFINE r == [s EXCEPT !.at = place, !.left = n, !.k = 0, !.mine = 0]
  <2>3. script' = [script EXCEPT ![p] = r]
    BY <1>2, <2>1 DEF NextLoop
  <2> HIDE DEF place
  <2>4. /\ r \in Script /\ r.at = place /\ r.tag = s.tag /\ r.ask = s.ask /\ r.left = n
        /\ r.times = s.times /\ r.buffer = s.buffer /\ r.frame = s.frame /\ r.k = 0
        /\ r.mine = 0
    BY <1>0, <2>1, <2>2 DEF Script
  <2> HIDE DEF r
  <2>5. Became(p, place, s.times, s.buffer, s.frame, 0, 0)
    BY <2>1, <2>3, <2>4, Replaced DEF Became
  <2> QED BY <2>2, <2>5
<1> QED BY <1>1, <1>2

(* The file gets its name; or it is gone, or the name is taken.           *)
LEMMA RenameStep ==
  ASSUME IndInv, NEW p \in Procs, Rename(p)
  PROVE  IndInv'
<1> DEFINE s    == script[p]
           name == NameOf(p, s.k)
<1>0. /\ s \in Script /\ s.left > 0 /\ s.times \in Times /\ At(p, "rename")
      /\ s.tag \in Tags \cup {NoTag} /\ s.k \in Nat
  BY TagType, Types DEF IndInv, TypeOK, Rename
<1>1. CASE CannotRename(p, name) /\ Raise(p) /\ UNCHANGED <<unsorted, filed>>
  <2>1. Ended(p) /\ raised' \in [Procs -> BOOLEAN] /\ \A q \in Procs \ {p} : raised'[q] = raised[q]
    BY <1>1, RaiseEnded, Types
  <2>2. Apart(p)
    BY <1>1, <2>1, Types DEF Rename, Apart, TypeOK
  <2>3. FilesTyped(p)
    BY <1>1, <2>1, Types DEF Rename, FilesTyped, TypeOK, Ended
  <2>4. TypeOK'
    BY <2>1, <2>2, <2>3, TypeKept, Types DEF Ended
  <2>5. ASSUME alone[p], Undisturbed(p) PROVE raised[p] \/ hit'[p]
    BY <1>0, <1>1, <2>2, <2>5, NobodyElseWrites, MissingIsNotWhole
    DEF CannotRename, Undisturbed, FindsPlace, HasImage, Sorting, Apart
  <2> QED BY <2>1, <2>2, <2>4, <2>5, Kept DEF Ended
<1>2. CASE /\ ~Missing /\ s.tag \in folders /\ unsorted' = NoImage
           /\ filed' = [n \in DOMAIN filed \cup {name} |-> IF n = name THEN unsorted ELSE filed[n]]
           /\ Goto(p, "stamp") /\ UNCHANGED raised
  <2>1. Became(p, "stamp", s.times, s.buffer, s.frame, s.k, s.mine)
    BY <1>0, <1>2, GotoBecame, Types DEF Places
  <2>2. Apart(p)
    BY <1>2, Types DEF Rename, Apart, TypeOK
  <2>3. /\ filed' = [n \in DOMAIN filed' |-> filed'[n]]
        /\ DOMAIN filed' \subseteq folders \X Times \X Nat
        /\ \A n \in DOMAIN filed' : filed'[n] \in Image
        /\ filed'[name] = unsorted
    <3>1. name \in folders \X Times \X Nat
      BY <1>0, <1>2 DEF NameOf
    <3>2. DOMAIN filed \subseteq folders \X Times \X Nat /\ \A n \in DOMAIN filed : filed[n] \in Image
      BY Types DEF TypeOK
    <3> HIDE DEF name
    <3>3. DOMAIN filed' = DOMAIN filed \cup {name}
      BY <1>2
    <3>4. \A n \in DOMAIN filed' : filed'[n] = IF n = name THEN unsorted ELSE filed[n]
      BY <1>2
    <3>5. filed' = [n \in DOMAIN filed' |-> filed'[n]]
      BY <1>2
    <3> QED BY <3>1, <3>2, <3>3, <3>4, <3>5, Types
  <2>4. FilesTyped(p)
    BY <1>0, <1>2, <2>1, <2>3, Types, ImageType DEF Rename, FilesTyped, TypeOK, Became
  <2>5. TypeOK'
    BY <1>0, <2>1, <2>2, <2>4, TypeKept, Types DEF Became
  <2>6. ASSUME alone[p], Undisturbed(p) PROVE Undisturbed(p)'
    <3>1. NameOf(p, script[p].k)' = name
      BY <2>1 DEF Became, NameOf
    <3>2. fresh[p] => Own(p, unsorted)
      BY <1>0, <1>2, <2>6 DEF Undisturbed, KeepsOwn, HasImage, Sorting
    <3>3. fresh'[p] => KeepsOwn(p)'
      BY <1>2, <2>1, <2>2, <2>3, <3>1, <3>2
      DEF KeepsOwn, HasImage, Sorting, Own, Missing, Became, Apart
    <3>4. ~hit[p] => unsorted.whole
      BY <1>0, <2>6 DEF Undisturbed, HasImage, Sorting
    <3> HIDE DEF name
    <3> QED BY <1>0, <2>1, <2>2, <2>3, <2>6, <3>1, <3>3, <3>4
            DEF Rename, Undisturbed, FindsPlace, HasImage, Sorting, Became, Apart
  <2> QED BY <1>2, <2>1, <2>2, <2>5, <2>6, Kept DEF Became
<1> QED BY <1>1, <1>2 DEF Rename, CannotRename

(* The header of the image gets its card, and the script goes on; or the   *)
(* file is not whole and refuses it.                                       *)
LEMMA StampStep ==
  ASSUME IndInv, NEW p \in Procs, Stamp(p)
  PROVE  IndInv'
<1> DEFINE s == script[p]
<1>0. s \in Script /\ s.left > 0 /\ s.times \in Times /\ At(p, "stamp")
  BY DEF IndInv, TypeOK, Stamp
<1>1. CASE ~filed[NameOf(p, s.k)].whole /\ Raise(p)
  <2>1. Ended(p) /\ raised' \in [Procs -> BOOLEAN] /\ \A q \in Procs \ {p} : raised'[q] = raised[q]
    BY <1>1, RaiseEnded, Types
  <2>2. Apart(p)
    BY <1>0, <1>1, <2>1, Types DEF Stamp, Apart, TypeOK
  <2>3. FilesTyped(p)
    BY <1>0, <1>1, <2>1, Types DEF Stamp, FilesTyped, TypeOK, Ended
  <2>4. TypeOK'
    BY <2>1, <2>2, <2>3, TypeKept, Types DEF Ended
  <2>5. ASSUME alone[p], Undisturbed(p) PROVE raised[p] \/ hit'[p]
    BY <1>0, <1>1, <2>2, <2>5 DEF Undisturbed, Apart
  <2> QED BY <2>1, <2>2, <2>4, <2>5, Kept DEF Ended
<1>2. CASE NextLoop(p) /\ UNCHANGED raised
  <2>1. \/ Ended(p)
        \/ \E place \in {"set", "open"} : Became(p, place, s.times, s.buffer, s.frame, 0, 0)
    BY <1>0, <1>2, NextLoopBecomes, Types
  <2>2. Apart(p)
    BY <1>0, <1>2, Types DEF Stamp, Apart, TypeOK
  <2>3. FilesTyped(p)
    <3>1. script'[p].at # "write"
      BY <2>1 DEF Ended, Became
    <3> QED BY <1>0, <1>2, <3>1, Types DEF Stamp, FilesTyped, TypeOK
  <2>4. CASE Ended(p)
    <3>1. TypeOK'
      BY <2>2, <2>3, <2>4, TypeKept, Types DEF Ended
    <3> QED BY <1>2, <2>2, <2>4, <3>1, Kept DEF Ended
  <2>5. ASSUME NEW place \in {"set", "open"}, Became(p, place, s.times, s.buffer, s.frame, 0, 0)
        PROVE  IndInv'
    <3>1. TypeOK'
      BY <1>0, <2>2, <2>3, <2>5, TypeKept, Types DEF Became
    <3>2. ASSUME alone[p], Undisturbed(p) PROVE Undisturbed(p)'
      BY <1>0, <1>2, <2>2, <2>5, <3>2, Types DEF Stamp, Undisturbed, KeepsOwn, FindsPlace,
        HasImage, Sorting, Missing, Became, Apart
    <3> QED BY <1>2, <2>2, <2>5, <3>1, <3>2, Kept DEF Became
  <2> QED BY <2>1, <2>4, <2>5
<1> QED BY <1>1, <1>2 DEF Stamp

(* A script is started: whoever runs already is no longer alone.           *)
LEMMA StartStep ==
  ASSUME IndInv, NEW p \in Procs, Start(p)
  PROVE  IndInv'
<1> DEFINE others == {q \in Procs \ {p} : ~At(q, "idle")}
<1>1. PICK kind \in {"expose", "capture"}, t \in Times, g \in Tags \cup {NoTag}, n \in 1 .. MaxLoops :
        script' = [script EXCEPT ![p] = [Idle EXCEPT !.at = "set", !.kind = kind,
                                                     !.ask = t, !.tag = g, !.left = n]]
  BY DEF Start
<1> DEFINE r == [Idle EXCEPT !.at = "set", !.kind = kind, !.ask = t, !.tag = g, !.left = n]
<1>2. r \in Script /\ r.at = "set" /\ r.ask = t /\ r.left = n /\ n > 0
  <2>1. n \in 0 .. MaxLoops /\ n > 0
    BY CaptureAssumption
  <2>2. t \in Times \cup {0} /\ "set" \in Places
    BY DEF Places
  <2> QED BY <2>1, <2>2, IdleType DEF Script
<1> HIDE DEF r
<1>3. /\ script' \in [Procs -> Script] /\ script'[p] = r
      /\ \A q \in Procs \ {p} : script'[q] = script[q]
  BY <1>1, <1>2, Replaced, Types DEF r
<1>4. /\ alone' \in [Procs -> BOOLEAN] /\ alone'[p] = (others = {})
      /\ \A q \in Procs \ {p} : alone'[q] = (alone[q] /\ q \notin others)
  BY Types DEF Start, TypeOK
<1>5. /\ fresh' \in [Procs -> BOOLEAN] /\ fresh'[p] = Missing
      /\ hit' \in [Procs -> BOOLEAN] /\ raised' \in [Procs -> BOOLEAN] /\ ~raised'[p]
      /\ \A q \in Procs \ {p} : hit'[q] = hit[q] /\ raised'[q] = raised[q]
  BY Types DEF Start, TypeOK, Missing
<1>6. At(p, "idle") /\ runs' \in Nat /\ UNCHANGED <<register, shots, unsorted, writer, folders, filed, faults>>
  BY Types DEF Start, TypeOK
<1>7. TypeOK'
  <2>1. \A q \in Procs : script'[q].at # "idle" => script'[q].left > 0 /\ script'[q].ask \in Times
    BY <1>2, <1>3, Types DEF TypeOK
  <2>2. \A q \in Procs : script'[q].at \notin {"idle", "set"} => script'[q].times \in Times
    BY <1>2, <1>3, Types DEF TypeOK
  <2>3. \A q \in Procs : writer' = q <=> script'[q].at = "write"
    BY <1>2, <1>3, <1>6, Types DEF TypeOK
  <2> QED BY <1>3, <1>4, <1>5, <1>6, <2>1, <2>2, <2>3, Types DEF TypeOK
<1>8. \A q \in Procs \ {p} : alone'[q] => script'[q].at = "idle"
  BY <1>3, <1>4
<1>9. alone'[p] => \A q \in Procs \ {p} : script'[q].at = "idle"
  BY <1>3, <1>4
<1>10. AloneSays'
  <2> SUFFICES ASSUME NEW q \in Procs, alone'[q], script'[q].at # "idle", NEW o \in Procs \ {q}
               PROVE  script'[o].at = "idle"
    BY DEF AloneSays
  <2> QED BY <1>8, <1>9
<1>11. RaisesOnlyWhenHit'
  <2> SUFFICES ASSUME NEW q \in Procs, raised'[q], alone'[q] PROVE hit'[q]
    BY DEF RaisesOnlyWhenHit
  <2> QED BY <1>4, <1>5 DEF IndInv, RaisesOnlyWhenHit
<1>12. ASSUME NEW q \in Procs, alone'[q], script'[q].at # "idle" PROVE Undisturbed(q)'
  <2>1. q = p
    BY <1>8, <1>12
  <2>2. Undisturbed(p)'
    BY <1>2, <1>3, <1>5, <1>6 DEF Undisturbed, KeepsOwn, FindsPlace, HasImage, Sorting, Missing
  <2> QED BY <2>1, <2>2
<1> QED BY <1>7, <1>10, <1>11, <1>12 DEF IndInv

(* Nothing happens.                                                        *)
LEMMA StutterStep ==
  ASSUME IndInv, UNCHANGED vars
  PROVE  IndInv'
BY DEF IndInv, vars, TypeOK, AloneSays, RaisesOnlyWhenHit, Undisturbed, KeepsOwn, FindsPlace,
  HasImage, Sorting, Own, Missing, Exists, NameOf

(* The invariant holds when the program starts.                            *)
LEMMA InitInv ==
  ASSUME Init
  PROVE  IndInv
<1>1. TypeOK
  <2>1. filed = [n \in {} |-> NoImage] /\ DOMAIN filed = {}
    BY DEF Init
  <2>2. filed = [n \in DOMAIN filed |-> filed[n]]
    BY <2>1
  <2>3. folders \subseteq Tags \cup {NoTag}
    BY DEF Init
  <2>4. script \in [Procs -> Script] /\ \A p \in Procs : script[p].at = "idle"
    BY IdleType DEF Init
  <2> QED BY <2>1, <2>2, <2>3, <2>4, ImageType, CaptureAssumption DEF Init, TypeOK
<1>2. \A p \in Procs : At(p, "idle") /\ raised[p] = FALSE
  BY IdleType DEF Init
<1> QED BY <1>1, <1>2 DEF IndInv, AloneSays, RaisesOnlyWhenHit

(* Every step keeps it.                                                    *)
LEMMA NextInv ==
  ASSUME IndInv, [Next]_vars
  PROVE  IndInv'
<1>1. CASE UNCHANGED vars
  BY <1>1, StutterStep
<1>2. CASE Next
  <2>1. PICK p \in Procs : \/ Start(p) \/ SetTimes(p)
                           \/ CaptureExe(p) \/ SimpleCap(p) \/ Rewrite(p) \/ Weather(p)
                           \/ FileSorting(p)
    BY <1>2 DEF Next
  <2>2. CASE Start(p) \/ SetTimes(p) \/ Rewrite(p) \/ Weather(p)
    BY <2>2, StartStep, SetTimesStep, RewriteStep, WeatherStep
  <2>3. CASE CaptureExe(p)
    BY <2>3, OpenStep, GrabStep, CreateStep, WriteStep DEF CaptureExe
  <2>4. CASE SimpleCap(p)
    BY <2>4, LoadStep, RemoveStep DEF SimpleCap
  <2>5. CASE FileSorting(p)
    BY <2>5, SortStep, MakeDayStep, MakeTagStep, ChooseStep, RenameStep, StampStep DEF FileSorting
  <2> QED BY <2>1, <2>2, <2>3, <2>4, <2>5
<1> QED BY <1>1, <1>2

(* The inductive invariant: a script that runs alone is not disturbed.     *)
THEOREM Invariance == Spec => []IndInv
<1>1. Init => IndInv
  BY InitInv
<1>2. IndInv /\ [Next]_vars => IndInv'
  BY NextInv
<1> QED BY <1>1, <1>2, PTL DEF Spec

(* The variables keep their types; the file is open while it is written.   *)
THEOREM TypeCorrect == Spec => []TypeOK
<1>1. IndInv => TypeOK
  BY DEF IndInv
<1> QED BY <1>1, Invariance, PTL

(* A script that runs alone, and found no image left over, files only the  *)
(* image it took in this loop, with its times in the name.                 *)
THEOREM FilesOwn == Spec => []FilesOwnImage
<1>1. IndInv => FilesOwnImage
  <2> SUFFICES ASSUME IndInv, NEW p \in Procs, alone[p], fresh[p], Sorting(p) \/ At(p, "stamp")
               PROVE  /\ Sorting(p) /\ ~Missing => Own(p, unsorted)
                      /\ At(p, "stamp") => Own(p, filed[NameOf(p, script[p].k)])
    BY DEF FilesOwnImage
  <2>1. ~At(p, "idle")
    BY DEF Sorting
  <2>2. KeepsOwn(p)
    BY <2>1 DEF IndInv, Undisturbed
  <2> QED BY <2>2 DEF KeepsOwn, HasImage
<1> QED BY <1>1, Invariance, PTL

(* A script that runs alone ends by an exception only when something       *)
(* failed.                                                                 *)
THEOREM RaisesWhenHit == Spec => []RaisesOnlyWhenHit
<1>1. IndInv => RaisesOnlyWhenHit
  BY DEF IndInv
<1> QED BY <1>1, Invariance, PTL

=============================================================================
