---------------------------- MODULE CaptureFile ----------------------------
(***************************************************************************)
(* Taking images and filing them: the scripts expose.py and                *)
(* misc_scripts/capture.py run capture.exe, which leaves its image in one  *)
(* file, image_unsorted.fits on the network share, and file_sorting gives  *)
(* that file its name in the folder of the day.                            *)
(*                                                                         *)
(* The integration and the frame time are one value here; how they are set *)
(* is the subject of CameraCommand.  The folder of the day, the folders    *)
(* below it and the file are shared by every script that runs.  An open    *)
(* file can be read but not removed, replaced or renamed (Windows).        *)
(***************************************************************************)
EXTENDS Integers, FiniteSets

CONSTANTS
  Procs,      (* places where a script can run                              *)
  Times,      (* the times the scripts are run with                         *)
  Tags,       (* what folders are asked for: -g                             *)
  NoTag,      (* no folder is asked for                                     *)
  NoProc,
  MaxLoops,   (* bound: images per script                                   *)
  MaxRuns,    (* bound: scripts run                                         *)
  Faults,     (* what may fail                                              *)
  MaxFaults   (* bound: how often something fails                           *)

ASSUME CaptureAssumption ==
  /\ Times # {} /\ 0 \notin Times
  /\ NoTag \notin Tags /\ NoProc \notin Procs
  /\ MaxLoops \in Nat /\ MaxRuns \in Nat /\ MaxFaults \in Nat
  /\ Faults \subseteq {"serial", "open", "timeout", "create", "write", "weather"}

VARIABLES
  register,   (* the times the camera uses                                  *)
  shots,      (* images taken                                               *)
  unsorted,   (* image_unsorted.fits                                        *)
  writer,     (* whose capture.exe has it open                              *)
  folders,    (* the folder of the day (NoTag) and those below it           *)
  filed,      (* the images filed, under their names                        *)
  script,     (* the script that runs in a place, and its variables         *)
  faults, runs,
  (* history *)
  alone,      (* no other script has run since this one started             *)
  fresh,      (* there was no unsorted image when it started                *)
  hit,        (* something failed since it started                          *)
  raised      (* it ended by an exception                                   *)

cameraVars == <<register, shots>>
fileVars   == <<unsorted, writer>>
shareVars  == <<folders, filed>>
countVars  == <<faults, runs>>
startVars  == <<alone, fresh>>
vars == <<cameraVars, fileVars, shareVars, script, countVars, startVars, hit, raised>>

NoImage == [shot |-> 0, time |-> 0, full |-> FALSE, whole |-> FALSE]

Missing == unsorted = NoImage

(* A script: where it is, which one it is, the times and the folder it was *)
(* asked for, images still to be taken; the times set_int_time and         *)
(* set_frame_time returned; the image of its capture.exe, the image        *)
(* simple_cap returned, and k of file_sorting.  mine is history: the image *)
(* its capture.exe took in this loop.                                      *)
Idle ==
  [at |-> "idle", kind |-> "expose", ask |-> 0, tag |-> NoTag, left |-> 0,
   times |-> 0, buffer |-> NoImage, frame |-> NoImage, k |-> 0, mine |-> 0]

At(p, place) == script[p].at = place

Goto(p, place) == script' = [script EXCEPT ![p].at = place]

(* Something fails in the script of p.                                     *)
Fault(kind, p) ==
  /\ kind \in Faults /\ faults < MaxFaults
  /\ faults' = faults + 1
  /\ hit' = [hit EXCEPT ![p] = TRUE]

NoFault == UNCHANGED <<faults, hit>>

(* An exception nobody catches.                                            *)
Raise(p) ==
  /\ script' = [script EXCEPT ![p] = Idle]
  /\ raised' = [raised EXCEPT ![p] = TRUE]

-----------------------------------------------------------------------------

(* A script is started.                                                    *)
Start(p) ==
  /\ At(p, "idle") /\ runs < MaxRuns
  /\ runs' = runs + 1
  /\ \E kind \in {"expose", "capture"}, t \in Times, g \in Tags \cup {NoTag},
        n \in 1 .. MaxLoops :
       script' = [script EXCEPT ![p] = [Idle EXCEPT !.at = "set", !.kind = kind,
                                                    !.ask = t, !.tag = g, !.left = n]]
  /\ LET others == {q \in Procs \ {p} : ~At(q, "idle")}
     IN  alone' = [q \in Procs |-> IF q = p THEN others = {}
                                   ELSE alone[q] /\ q \notin others]
  /\ fresh' = [fresh EXCEPT ![p] = Missing]
  /\ hit' = [hit EXCEPT ![p] = FALSE]
  /\ raised' = [raised EXCEPT ![p] = FALSE]
  /\ UNCHANGED <<cameraVars, fileVars, shareVars, faults>>

(* set_int_time and set_frame_time return what the camera then uses.       *)
SetTimes(p) ==
  /\ At(p, "set")
  /\ \/ /\ register' = script[p].ask
        /\ script' = [script EXCEPT ![p].at = "open", ![p].times = script[p].ask]
        /\ NoFault /\ UNCHANGED raised
     \/ /\ Fault("serial", p)
        /\ Raise(p)
        /\ UNCHANGED register
  /\ UNCHANGED <<shots, fileVars, shareVars, runs, startVars>>

(***************************************************************************)
(* capture.exe, as img_cap runs it: whatever happens, img_cap returns.     *)
(***************************************************************************)

Exit(p) ==
  script' = [script EXCEPT
    ![p].at = IF script[p].kind = "expose" THEN "load" ELSE "sort",
    ![p].buffer = NoImage]

Open(p) ==
  /\ At(p, "open")
  /\ \/ Goto(p, "grab") /\ NoFault
     \/ Exit(p) /\ Fault("open", p)
  /\ UNCHANGED <<cameraVars, fileVars, shareVars, runs, startVars, raised>>

(* pdv_wait_image returns the buffer when it is full, and also when the    *)
(* wait timed out.                                                         *)
Grab(p) ==
  /\ At(p, "grab")
  /\ shots' = shots + 1
  /\ \E full \in BOOLEAN :
       /\ IF full THEN NoFault ELSE Fault("timeout", p)
       /\ script' = [script EXCEPT ![p].at = "create", ![p].mine = shots + 1,
                       ![p].buffer = [shot |-> shots + 1, time |-> register,
                                      full |-> full, whole |-> FALSE]]
  /\ UNCHANGED <<register, fileVars, shareVars, runs, startVars, raised>>

(* fits_create_file: the name begins with "!", and a file that exists is   *)
(* removed first.                                                          *)
Create(p) ==
  /\ At(p, "create")
  /\ \/ /\ writer = NoProc
        /\ unsorted' = script[p].buffer /\ writer' = p
        /\ Goto(p, "write") /\ NoFault
     \/ /\ writer = NoProc
        /\ unsorted' \in {unsorted, NoImage} /\ UNCHANGED writer
        /\ Exit(p) /\ Fault("create", p)
     \/ /\ writer # NoProc
        /\ Exit(p) /\ NoFault /\ UNCHANGED fileVars
  /\ UNCHANGED <<cameraVars, shareVars, runs, startVars, raised>>

(* The pixels and the header are written and the file is closed; after an  *)
(* error it stays as it is, and the process ends.                          *)
Write(p) ==
  /\ At(p, "write")
  /\ \/ unsorted' = [unsorted EXCEPT !.whole = TRUE] /\ NoFault
     \/ Fault("write", p) /\ UNCHANGED unsorted
  /\ writer' = NoProc
  /\ Exit(p)
  /\ UNCHANGED <<cameraVars, shareVars, runs, startVars, raised>>

(***************************************************************************)
(* simple_cap, and expose.py to the end of weather_to_fits.                *)
(***************************************************************************)

(* A file that is not whole may be refused by fits.open.                   *)
Load(p) ==
  /\ At(p, "load")
  /\ \/ /\ ~Missing
        /\ script' = [script EXCEPT ![p].at = "remove", ![p].frame = unsorted]
        /\ UNCHANGED raised
     \/ /\ Missing \/ ~unsorted.whole
        /\ Raise(p)
  /\ UNCHANGED <<cameraVars, fileVars, shareVars, countVars, startVars, hit>>

Remove(p) ==
  /\ At(p, "remove")
  /\ IF Missing \/ writer # NoProc
     THEN Raise(p) /\ UNCHANGED unsorted
     ELSE /\ unsorted' = NoImage
          /\ Goto(p, "rewrite") /\ UNCHANGED raised
  /\ UNCHANGED <<cameraVars, writer, shareVars, countVars, startVars, hit>>

(* fits.writeto with overwrite.                                            *)
Rewrite(p) ==
  /\ At(p, "rewrite")
  /\ IF writer # NoProc
     THEN Raise(p) /\ UNCHANGED unsorted
     ELSE /\ unsorted' = [script[p].frame EXCEPT !.whole = TRUE]
          /\ script' = [script EXCEPT ![p].at = "weather", ![p].frame = NoImage]
          /\ UNCHANGED raised
  /\ UNCHANGED <<cameraVars, writer, shareVars, countVars, startVars, hit>>

(* The weather is fetched by FTP and put into the header.                  *)
Weather(p) ==
  /\ At(p, "weather")
  /\ \/ /\ ~Missing
        /\ Goto(p, "sort")
        /\ NoFault /\ UNCHANGED raised
     \/ /\ Missing \/ ~unsorted.whole
        /\ Raise(p) /\ NoFault
     \/ /\ Fault("weather", p)
        /\ Raise(p)
  /\ UNCHANGED <<cameraVars, fileVars, shareVars, runs, startVars>>

(***************************************************************************)
(* file_sorting.                                                           *)
(***************************************************************************)

NameOf(p, k) == <<script[p].tag, script[p].times, k>>

Exists(name) == name \in DOMAIN filed

(* Is there a folder for the image?                                        *)
Sort(p) ==
  /\ At(p, "sort")
  /\ Goto(p, IF script[p].tag \in folders THEN "name" ELSE "mkdir")
  /\ UNCHANGED <<cameraVars, fileVars, shareVars, countVars, startVars, hit, raised>>

(* The folder of the day: when it is there after all, the handler makes    *)
(* the tag's folder in it, which fails when no tag was given.              *)
MakeDay(p) ==
  /\ At(p, "mkdir")
  /\ \/ /\ NoTag \in folders /\ script[p].tag = NoTag
        /\ Raise(p) /\ UNCHANGED folders
     \/ /\ NoTag \in folders /\ script[p].tag # NoTag
        /\ Goto(p, "handler") /\ UNCHANGED <<folders, raised>>
     \/ /\ NoTag \notin folders
        /\ folders' = folders \cup {NoTag}
        /\ Goto(p, IF script[p].tag = NoTag THEN "name" ELSE "tag")
        /\ UNCHANGED raised
  /\ UNCHANGED <<cameraVars, fileVars, filed, countVars, startVars, hit>>

(* The tag's folder.  When it has been made meanwhile the handler looks    *)
(* for a folder of the day in the folder of the day; in the handler the    *)
(* exception is a new one.  Both end the script.                           *)
MakeTag(p) ==
  /\ At(p, "tag") \/ At(p, "handler")
  /\ IF script[p].tag \in folders
     THEN Raise(p) /\ UNCHANGED folders
     ELSE /\ folders' = folders \cup {script[p].tag}
          /\ Goto(p, "name") /\ UNCHANGED raised
  /\ UNCHANGED <<cameraVars, fileVars, filed, countVars, startVars, hit>>

(* Mutant: the number of an image is never raised.                         *)
ChooseFirst(p) ==
  /\ At(p, "name")
  /\ script' = [script EXCEPT ![p].at = "rename", ![p].k = 0]
  /\ UNCHANGED <<cameraVars, fileVars, shareVars, countVars, startVars, hit, raised>>

(* The first number under which there is no image.                         *)
Choose(p) ==
  /\ At(p, "name")
  /\ \E k \in 0 .. Cardinality(DOMAIN filed) :
       /\ ~Exists(NameOf(p, k)) /\ \A j \in 0 .. k - 1 : Exists(NameOf(p, j))
       /\ script' = [script EXCEPT ![p].at = "rename", ![p].k = k]
  /\ UNCHANGED <<cameraVars, fileVars, shareVars, countVars, startVars, hit, raised>>

(* The next loop: expose.py sets the times again, capture.py does not.     *)
NextLoop(p) ==
  LET s == script[p]
  IN  script' = [script EXCEPT ![p] =
        IF s.left = 1 THEN Idle
        ELSE [s EXCEPT !.at = IF s.kind = "expose" THEN "set" ELSE "open",
                       !.left = @ - 1, !.k = 0, !.mine = 0]]

(* On Windows a file that exists is not replaced.                          *)
CannotRename(p, name) ==
  Missing \/ writer # NoProc \/ Exists(name) \/ script[p].tag \notin folders

(* Mutant: the image is copied to its name, not renamed.                   *)
RenameCopies(p) ==
  /\ At(p, "rename")
  /\ LET name == NameOf(p, script[p].k)
     IN  IF CannotRename(p, name)
         THEN Raise(p) /\ UNCHANGED filed
         ELSE /\ filed' = [n \in DOMAIN filed \cup {name} |->
                             IF n = name THEN unsorted ELSE filed[n]]
              /\ Goto(p, "stamp") /\ UNCHANGED raised
  /\ UNCHANGED <<cameraVars, fileVars, folders, countVars, startVars, hit>>

Rename(p) ==
  /\ At(p, "rename")
  /\ LET name == NameOf(p, script[p].k)
     IN  IF CannotRename(p, name)
         THEN Raise(p) /\ UNCHANGED <<unsorted, filed>>
         ELSE /\ filed' = [n \in DOMAIN filed \cup {name} |->
                             IF n = name THEN unsorted ELSE filed[n]]
              /\ unsorted' = NoImage
              /\ Goto(p, "stamp") /\ UNCHANGED raised
  /\ UNCHANGED <<cameraVars, writer, folders, countVars, startVars, hit>>

(* The image is opened again under its name and a card is added to its     *)
(* header, which a file that is not whole may refuse.                      *)
Stamp(p) ==
  /\ At(p, "stamp")
  /\ \/ NextLoop(p) /\ UNCHANGED raised
     \/ ~filed[NameOf(p, script[p].k)].whole /\ Raise(p)
  /\ UNCHANGED <<cameraVars, fileVars, shareVars, countVars, startVars, hit>>

-----------------------------------------------------------------------------

Init ==
  /\ register \in Times /\ shots = 0
  /\ unsorted = NoImage /\ writer = NoProc
  /\ folders \in {{}, {NoTag}} \cup {{NoTag, g} : g \in Tags}
  /\ filed = [n \in {} |-> NoImage]
  /\ script = [p \in Procs |-> Idle]
  /\ faults = 0 /\ runs = 0
  /\ alone = [p \in Procs |-> TRUE] /\ fresh = [p \in Procs |-> TRUE]
  /\ hit = [p \in Procs |-> FALSE] /\ raised = [p \in Procs |-> FALSE]

CaptureExe(p) == Open(p) \/ Grab(p) \/ Create(p) \/ Write(p)

SimpleCap(p) == Load(p) \/ Remove(p)

FileSorting(p) == Sort(p) \/ MakeDay(p) \/ MakeTag(p) \/ Choose(p) \/ Rename(p) \/ Stamp(p)

Next ==
  \E p \in Procs :
    \/ Start(p) \/ SetTimes(p)
    \/ CaptureExe(p) \/ SimpleCap(p) \/ Rewrite(p) \/ Weather(p)
    \/ FileSorting(p)

Spec == Init /\ [][Next]_vars

(***************************************************************************)
(* Properties.                                                             *)
(***************************************************************************)

Places == {"idle", "set", "open", "grab", "create", "write", "load", "remove",
           "rewrite", "weather", "sort", "mkdir", "tag", "handler", "name", "rename", "stamp"}

Image == [shot : Nat, time : Times \cup {0}, full : BOOLEAN, whole : BOOLEAN]

Script ==
  [at : Places, kind : {"expose", "capture"}, ask : Times \cup {0},
   tag : Tags \cup {NoTag}, left : 0 .. MaxLoops, times : Times \cup {0},
   buffer : Image, frame : Image, k : Nat, mine : Nat]

(* Besides the types: the file is open exactly while capture.exe writes,   *)
(* and every image that is filed is in a folder that exists.               *)
TypeOK ==
  /\ register \in Times /\ shots \in Nat
  /\ unsorted \in Image /\ writer \in Procs \cup {NoProc}
  /\ script \in [Procs -> Script]
  /\ \A p \in Procs : ~At(p, "idle") => script[p].left > 0 /\ script[p].ask \in Times
  /\ \A p \in Procs : script[p].at \notin {"idle", "set"} => script[p].times \in Times
  /\ \A p \in Procs : writer = p <=> At(p, "write")
  /\ folders \subseteq Tags \cup {NoTag}
  /\ DOMAIN filed \subseteq folders \X Times \X Nat
  /\ filed = [n \in DOMAIN filed |-> filed[n]]
  /\ \A n \in DOMAIN filed : filed[n] \in Image
  /\ faults \in Nat /\ runs \in Nat
  /\ alone \in [Procs -> BOOLEAN] /\ fresh \in [Procs -> BOOLEAN]
  /\ hit \in [Procs -> BOOLEAN] /\ raised \in [Procs -> BOOLEAN]

Sorting(p) == script[p].at \in {"sort", "mkdir", "tag", "handler", "name", "rename"}

Own(p, image) == image.shot = script[p].mine /\ image.time = script[p].times

(* What a script is about to file, and has filed, is the image it took     *)
(* itself in this loop, taken with the times in its name, when no other    *)
(* script runs and none left an image behind: a capture that failed leaves *)
(* nothing to be filed in its place.                                       *)
FilesOwnImage ==
  \A p \in Procs :
    alone[p] /\ fresh[p] =>
      /\ Sorting(p) /\ ~Missing => Own(p, unsorted)
      /\ At(p, "stamp") => Own(p, filed[NameOf(p, script[p].k)])

(* A script that runs alone ends by an exception only when something       *)
(* failed: whatever folders, images and leftovers are there already, it    *)
(* finds a folder and a free name, and its image.                          *)
RaisesOnlyWhenHit ==
  \A p \in Procs : raised[p] /\ alone[p] => hit[p]

(***************************************************************************)
(* The inductive invariant behind these.                                   *)
(***************************************************************************)

(* A script that runs alone runs alone.                                    *)
AloneSays ==
  \A p \in Procs : alone[p] /\ ~At(p, "idle") => \A q \in Procs \ {p} : At(q, "idle")

(* What is to be filed is there, once there is an image.                   *)
HasImage(p) == Sorting(p) \/ script[p].at \in {"load", "remove", "weather"}

(* The image on the share, or in simple_cap's hands, is the script's own.  *)
KeepsOwn(p) ==
  /\ script[p].at \in {"set", "open", "grab", "create", "stamp"} => Missing
  /\ HasImage(p) => Missing \/ Own(p, unsorted)
  /\ At(p, "write") => Own(p, unsorted)
  /\ script[p].at \in {"remove", "rewrite"} => Own(p, script[p].frame)
  /\ At(p, "stamp") => Own(p, filed[NameOf(p, script[p].k)])

(* It has a folder when it is named, and nothing has its name.             *)
FindsPlace(p) ==
  /\ script[p].at \in {"mkdir", "tag", "handler"} => script[p].tag \notin folders
  /\ script[p].at \in {"name", "rename"} => script[p].tag \in folders
  /\ At(p, "rename") => ~Exists(NameOf(p, script[p].k))

Undisturbed(p) ==
  /\ ~At(p, "set") => script[p].times = register
  /\ At(p, "create") => Own(p, script[p].buffer)
  /\ fresh[p] => KeepsOwn(p)
  /\ ~hit[p] /\ HasImage(p) => unsorted.whole
  /\ ~hit[p] /\ At(p, "stamp") => filed[NameOf(p, script[p].k)].whole
  /\ FindsPlace(p)

IndInv ==
  /\ TypeOK /\ AloneSays /\ RaisesOnlyWhenHit
  /\ \A p \in Procs : alone[p] /\ ~At(p, "idle") => Undisturbed(p)

(***************************************************************************)
(* What the code says and does not ensure.                                 *)
(***************************************************************************)

(* simple_cap: "Take single image and return numpy array and header".      *)
ReturnsImageTaken ==
  \A p \in Procs : At(p, "rewrite") => script[p].frame.shot = script[p].mine

=============================================================================
