# Verification of scicam

scicam controls a Camera Link camera (Princeton Infrared 1280SCICAM) through an
EDT frame grabber. The repository holds the Python scripts of the telescope and,
in `src/pdv_env`, the vendor's C library and programs, with the authors' own
`capture.c` among them. This directory models the parts of it in which
the order of steps, the failure of one of them or the distance between two
counters decides what an image file contains or whether a program goes on, checks
those models with TLC, and proves the safety of all of them with TLAPS.

    tlc -workers 2 -config MCEdtRing.cfg MCEdtRing      # one run
    tlapm TakeLoop_proofs.tla                           # the proofs of one module

## 1. The system

| component | state | operations | talks to |
|---|---|---|---|
| Ring buffers (`libedt.c`, `libpdv.c`) | the driver's `done`, `todo`, timeouts and DMA; the handle's `ring_buffer_numbufs`, `donecount`, `last_wait_ret` | `pdv_multibuf`, `pdv_start_images`, `pdv_wait_images` and its variants, `edt_last_buffer`, `edt_check_for_buffers`, `pdv_timeout_restart`, `pdv_timeout_cleanup`, `edt_reset_ring_buffers`, `edt_disable_ring_buffers`, `edt_user_dma_wakeup` | the driver by ioctls, by an auto-reset event, and by slots of memory that the DMA overwrites |
| Capture loops (`simple_take.c`, `simple_take_fits.c`) | loop counters, timeouts already seen | prestart, wait, start the next, recover, save | the ring |
| Camera commands (`scicam.py`, `serial_cmd.c`) | the time being set, the try; the receive FIFO; the camera's registers | `set_int_time`, `set_frame_time`, `read_int_time`, `read_frame_time` | a `serial_cmd` process per packet, its printed output |
| Capture and filing (`scicam.py`, `expose.py`, `misc_scripts/capture.py`, `capture.c`) | `image_unsorted.fits`, the folders of the day, the images filed | `img_cap`, `simple_cap`, `weather_to_fits`, `file_sorting` | a `capture` process per image, a network share, an FTP server, other scripts |
| Serial transport (`libpdv.c`) | the driver's write and read buffers, the bytes still to be written | `pdv_serial_command`, `pdv_query_serial`, `pdv_serial_txrx`, `pdv_serial_read_blocking` over `pdv_serial_write`, `pdv_serial_wait`, `pdv_serial_read` | the driver, and through it the camera |
| Event callbacks (`libedt.c`) | one `EdtEventHandler` per event, its thread, its handles | `edt_set_event_func`, `edt_remove_event_func`, the thread between them | the driver's events, the program's function |
| Deinterlacing (`pdv_interlace.c`, `libpdv.c`) | the function looked up, the buffers allocated | `pdv_setsize`, `pdv_set_depth_extdepth_dpath`, `pdv_set_extdepth`, `pdv_set_interlace`, `pdv_multibuf`, `pdv_wait_images`, `pdv_read`; the `deIntlv` functions | the ring |
| Live display of pdvshow (`LiveDisplay.cpp`, `PdvInput.cpp`, `MainFrm.cpp`) | flags of the live thread, images started and done, a stop under way | going live, its thread, stopping, single images, closing | the ring, the user |
| Configuration, exposure setters, device open and registers | files, register values | sequential translation | driver, camera |
| Recorder, flash tools, simulator, analysis, vendored libraries | - | - | - |

How they interact: a script sets the camera's times (one `serial_cmd` process per
packet), runs `capture`, which configures a ring of one buffer, starts it and
waits, and then files what `capture` left on the share. The capture loops and the
viewer of the vendor use the same ring with more buffers and keep it running; the
wait for an image puts it in order when the configuration names a method.

Where it is hard, and what makes each component correct:

* **Ring.** Two counters are moved by three parties: the DMA, the waits and the
  recoveries. A slot is handed to the application by address and goes on being
  part of the ring. Correct means: the image handed out is the one waited for
  and stays whole as long as the ring's depth allows; the overrun test misses
  nothing; a wait whose image is there does not sleep; after a timeout and a
  recovery the counters agree again.
* **Loops.** Starts, waits and restarts must balance through timeouts. Correct
  means: images come in order, every image that does not is accounted for by a
  timeout, the loop ends.
* **Camera commands.** An answer can be late, cut in two, missing or an error,
  and a failed try changes the time that is asked for. Correct means: the time
  reported, which names the files, is the camera's; the exposure still fits
  into the frame; the retries end.
* **Capture and filing.** Every step may fail and most results are not looked at;
  one file name is shared by all. Correct means: what is filed is the image just
  taken, with its own times.
* **Serial transport.** The room in the driver's buffer is asked for and used at
  different moments, a command may be longer than that room, and an answer may come
  after its wait has given up. Correct means: the camera sees whole commands in order,
  the result tells which, and an exchange reads its own answer.
* **Event callbacks.** Two threads write one structure without a lock. Correct means:
  a function is called for its events, not after its removal, not twice when once
  was asked for, and no handle is lost. The code keeps to that until a function is set
  while an earlier thread has still to zero the structure.
* **Deinterlacing.** Walks of several pointers, forwards and backwards, over pictures of
  any size; function and buffers chosen earlier than the picture they are used for.
  Correct means: every pixel in one place, nothing beside the picture or its buffer.
* **Live display.** The user interface and the live thread share flags, counters and
  the device. Correct means: one of them uses the device, a stop ends the display,
  nothing is left running, the image shown is whole.

`PROJECT.json` lists each hazard with its line and the properties aimed at it.

## 2. Modules

| module | models | of |
|---|---|---|
| `EdtRing` | ring buffers: driver, library, waits, recovery, user wakeup | `libedt.c`, `libpdv.c` |
| `TakeLoop` | the capture loop on the ring (EXTENDS `EdtRing`) | `simple_take.c`, `simple_take_fits.c` |
| `FrameStream` | abstract: what a capture loop promises | |
| `CameraCommand` | times set and read over the serial line | `scicam.py`, `serial_cmd.c`, `expose.py`, `misc_scripts/capture.py` |
| `CaptureFile` | taking and filing images | `scicam.py`, `capture.c`, the two scripts |
| `SerialLink` | the serial calls of the library | `libpdv.c` |
| `EventThread` | event functions and their threads | `libedt.c` |
| `Deinterlace` | where the `deIntlv` functions put the pixels | `pdv_interlace.c` |
| `PostProc` | which function is used, on which buffers | `pdv_interlace.c`, `libpdv.c` |
| `LiveView` | the live display | `pdvshow`, `pdvplus/PdvInput.cpp` |
| `..._proofs` | theorems about `TakeLoop` and the `EdtRing` in it, `CameraCommand`, `CaptureFile`, `SerialLink`, `EventThread`, `LiveView`, `Deinterlace`, `PostProc` | |
| `MC...` | the instances TLC runs | |

### EdtRing

`done`, `todo`, `timeouts` are the driver's counters as the ioctls return them,
`donecount`, `numbufs`, `last_wait_ret` fields of the handle. Buffer *k* lives in
slot *(k - 1) % numbufs*; `slot[s]` says which number and which exposure it holds,
and `Torn` when it holds neither. `pc` and the variables beside it are the call in
progress of the one application thread: a wait is split at the points at which the
driver or another thread can come between, that is reading the done count
(`WaitCheck`), entering `WaitForSingleObject` (`WaitEnter`), its end by the event
(`WaitWoken`) or by time (`WaitExpires`), the timeout ioctl (`WaitDoTimeout`) and
the bookkeeping (`WaitReturn`). The recoveries are split between the reading of the
counters and the setting (`RestartRead`/`RestartAct`, `CleanupRead`/`CleanupAct`,
`AbortRead`/`AbortAct`). `wpc` is a second thread in `edt_user_dma_wakeup`, which sets
the event, resets it, and only then marks the wait (`WakeSet`, `WakeReset`, `WakeMark`).

The driver is not in the repository. `FrameStart` and `FrameDone` let it complete
started buffers in order, one at a time, at any moment; `DriverTimeout` aborts the
current one. Whether the aborted buffer is counted as done cannot be read off the
library, so `TimeoutCounts` is the set of answers allowed: the ring's runs and
theorems allow both.

Left out: the branch of `edt_wait_for_buffers` that waits inside an older driver,
Linux, time stamps, output DMA, starts with count 0 (run for ever), a call of
`edt_check_for_buffers` without a ring (it divides by zero, `libedt.c:2758`), and
`edt_wait_for_next_buffer` and `edt_add_ring_buffer`, which nothing in the repository calls.
(`edt_wait_for_next_buffer` would need a word of its own in `AheadOnlyAfterTimeout`: it
advances `donecount` after a timeout without saying so in `last_wait_ret`.)
`edt_check_ring_buf_parms` is taken to succeed. Left out as well is the framesync mode that
emulates timeouts (`PDV_FRAMESYNC_EMULATE_TIMEOUT`, `libpdv.c:5615`, off unless the camera
configuration asks for it): with it a wait that returned a frame with a bad footer calls
`edt_do_timeout`, one more way for the driver's counters to move between two calls.

### TakeLoop and FrameStream

`lpc` follows the loop from `pdv_multibuf` to `pdv_close`; its actions call those of
`EdtRing`. `simple_take_fits.c` is the instance `NumBufs = 1`. `FrameStream` is the
promise: `Loops` images are handed over; each is newer than all before it, or one of
the driver's timeouts accounts for it; the sequence does not get stuck. `TakeLoop`
implements it under the mapping *taken* = images returned by a wait, *lost* =
timeouts (less the one of a wait that has not returned), *newest* = exposure of the
latest image a wait reported in time. `NumBufs <= MaxCount` says only that the loop's
first start is one that `EdtRing` allows its client.

The run takes `TimeoutCounts = {TRUE}`, which is what `pdv_timeout_restart`'s arithmetic
presupposes. With a driver that does not count the aborted buffer, a timed out wait
leaves the library ahead of it, the restart queues the lost image and the loop starts one
more: after that the DMA may write into a slot whose image was not waited for, and the wait
reports success for a torn image. `CountsKeepUp` in `UnwaitedIntact` says so.

### CameraCommand

One script after another runs (`Start`), sets or reads the integration time, then
the frame time. Each packet goes through `Send` (the padding to eight digits and
the CRC whose leading zero is refused), and through one `serial_cmd` process:
`Flush` what is there, `Write`, wait, `Read` until a wait finds nothing, `Exit`.
`Answers` says what `command` can make of the printed bytes: the camera's value,
its error code, no number (`Garbage`), some other number (`Nonsense`), or one beyond
the bound that the code checks (`Unbound`). `SetAnswer` is the chain of retries of
`set_int_time` and `set_frame_time`: an error or an undecodable answer raises the time
by a millisecond. (The comments beside that line speak of 0.1 ms; the code adds
0.001 s.) The two functions are the same code for the two commands and share actions;
`which` tells them apart.

The camera answers packets in order and may refuse one, ignore it, obey without
answering, or answer after `serial_cmd` has stopped reading. An answer travels in
two halves. Times are milliseconds; the bytes of a packet are not modelled, and which
packets have a bad CRC is a constant. (With the real polynomial they are, below
200 ms, the integration time 155 and the frame times 7, 8, 22, 30, 39, 40, 72, 81, 141
and 143: the instance has two in a row as well.)

### CaptureFile

`unsorted` is `image_unsorted.fits`: which image, with which times it was taken, whether the DMA had
filled the buffer and whether the file is whole. Each process in `Procs` runs scripts: `SetTimes`;
`capture.c` as `Open`, `Grab`, `Create`, `Write`, after any of which the process may end and
`img_cap` returns all the same; for expose.py `Load`, `Remove` (simple_cap), `Rewrite`, `Weather`;
then `file_sorting` as `Sort`, `MakeDay`, `MakeTag`, `Choose`, `Rename` and `Stamp`, which writes
the new name into the header of the filed image (`scicam.py:340`) and raises when the image cannot
be read as one. The place `handler` is the `except FileExistsError` branch. An exception nobody
catches is `Raise`. The operating system is Windows: a rename does not replace, an open file can be
read but not removed. `SetTimes` is atomic and truthful here; `CameraCommand` has the detail.

### SerialLink

A byte is a pair, the call it belongs to and its place in it. `tx` and `rx` are the
driver's buffers, `owed` what the camera has still to send. `pdv_serial_write` is
`WriteAvailable` (asking for room), `FirstBlock`, `MoreBlocks` and `SendMsg` (giving the
block to the driver, byte by byte when `pause_for_serial` is set), each a step of its
own between which `Transmit` drains the buffer. `FlushWait` and `FlushRead` are the
flush with which only `pdv_serial_txrx` begins; `AnswerWait`/`AnswerRead`,
`QueryWait`/`QueryRead` and `BlockingWait`/`BlockingRead` are the three ways in which answers
are read. A wait returns what is there, at any moment, or nothing. `SendMsg` may find that the driver
refuses the message: `edt_send_msg` does not look at the result of its ioctl, so the library goes on as if
it had been sent, and `lost` in the record of the call remembers it for the properties.

### EventThread

Variables of the handler keep their names. Threads and handles carry the number of the
`edt_set_event_func` that made them. `Set` and its continuation (`KernelEvent`, `ClosingEvent`,
`CreateThread`, `Resume`) and `Remove` with its own (`SetClosing`, `Join`, `Joined`, `ClearClose`,
`ClearZero`) are the program's; `Loop`, `Wait`, `Check`, `Callback`, `CallbackReturns`, `After`,
`ThreadDel`, `ThreadClose`, `ThreadZero` are those of the waiting thread, split wherever it reads or
writes the shared structure. `CanFail` lets `CreateEvent` and `CreateThread` fail. It is the Windows
build, on which the scripts run. A thread waits on the handles it read (`waits_on`), whatever
becomes of the structure. `overtaken` is history: a function was set while the thread of an earlier
one had still to zero the structure. The event is one of those for which `edt_set_event_func` is
documented; for `EDT_EVENT_BUF`, which is not, `edt_wait_for_buffers` may have made a `wait_event`
before (`libedt.c:2457`), whose handle `edt_get_kernel_event` overwrites: that is not followed.

### Deinterlace and PostProc

Every `deIntlv` function is a few pointers with a start, a step and a way to the next
line; `Walk` is that record, `process` chooses it, and one step of the system is one
round of the function's outer loop, which puts the pixels of all its pointers where
they belong. Pixels are the numbers under which the camera sent them, so that the
picture shows where each went. The 8 and 16 bit variants of a method are one operator
where only the type differs. The rows are those that `pdv_deinterlace` hands to the function; which of the
picture's they are is a matter of `PostProc`. Methods in `AnyRows` are tried on any number of rows,
odd ones included, whether the code asks for a second row or not; the others on sizes a camera with such taps sends
(`Fits`).

`PostProc` has no pixels: it follows sizes, depths, the method and the ring through the calls that
change them, and compares the bytes a function reads and writes with those of the buffers it is
given. The number of rows is the configuration's `frame_height`, if it has one, else the height
(`pdv_interlace.c:2111`); the buffers follow the height. The second field of `FIELD_INTLC` starts at
the configuration's `interlace` (`pdv_interlace.c:2024`). A wait with a method for which no output
buffers were allocated ends the program at a NULL pointer (`libpdv.c:5706`, `found`). It is built as
`makefile.def` has it, without `USE_MMX`. Left out: frame headers, the offset of a field, what the
Bayer filters do to pixels, and the framesync mode that emulates timeouts.

### LiveView

The counters of the driver, of the library and of `PdvInput` only grow while the display
is live and are kept as differences (`queued`, `unseen`, `pending`). `at["live"]` is the live thread,
`at["single"]` the thread of the user interface when it takes one image; both go through
`GetNextBuffer` (`Test` .. `Drained`). `Stop` is split between the question whether the camera is
capturing and the request to it (`InitiateStop`), with LiveDisplay's lock between. `Timer`
is the timer that waits for the end of the live thread. `keptUp` is history: whether images
have been waited for other than one by one since the display went live.

## 3. Runs

| run | question | instance | states |
|---|---|---|---|
| `ring` | Do the counters, slots and calls stay in step, with timeouts, recoveries and user wakeups at any moment? | rings up to 3, 3 images, 1 timeout | 4.3 M |
| `ring_live` | With endless waits and no wakeup, does every wait whose image is there return? | rings up to 3, 4 images | 714 k |
| `take_loop` | Does the loop keep the promise of `FrameStream`? | 2 buffers, 4 images, 4 timeouts | 8.3 k |
| `camera` | Is what a script reports true unless an answer was late? Do the frames hold the exposures? Do the retries end? | 2 scripts, 3 faults | 28 k |
| `capture` | Does a script that runs alone file only its own image under its own times, and raise only when something failed? | 2 processes, 2 scripts, 2 images each, 1 fault | 4.0 M |
| `serial` | Does the camera see whole commands, does the result tell, does an exchange read its own answer and end? | 2 calls, commands of 1 and 4 bytes, rooms of 2 and 3, messages of 2, any of them refused | 88 k |
| `events` | Is a function called when and only when it should be, and is nothing lost when handles cannot be had? | 2 functions set, 3 events | 33 k |
| `deinterlace` | Do the methods put every pixel in one place? | widths 1 to 8 and 16, heights 1 to 6, odd ones too | 2.4 k |
| `postproc` | Do buffers and functions fit the picture, whatever is set in whatever order? | heights of 2 and 3, frame heights of 0, 2 and 3, 4 depths, 5 methods, 2 buffers | 937 k |
| `live` | Is the device used by one, and does the display end as it should? | 4 buffers, endless or 3 images | 52 k |

The properties:

* `OverrunSound`: while `edt_ring_buffer_overrun` answers 0, every image completed and
  not yet waited for is in its slot.
* `HeldImageIntact`: the image in hand is intact until `numbufs - 1` more are complete,
  across all calls except a reset of the counters.
* `AheadOnlyAfterTimeout`: a wait that reports success was for a completed buffer.
* `NoSleepPastCompletion`, `WaitReturns`: no lost event (without user wakeups).
* `ImplementsStream`, `UnwaitedIntact`, `SyncedBeforeWait`, `StarvedOnlyAfterTimeout`: the
  loop.
* `TruthfulWhenQuiet`, `IntFitsFrame`, `ScriptEnds`: camera commands. `IntFitsFrame`
  needs that the retries did not use up the 250 ms (20 ms) between the two times: each
  retry raises the integration time by one, the frame time is computed from
  the time first asked for.
* `FilesOwnImage`: for a script that runs alone and found no image left over, what it
  is about to file was taken by it in this loop with the times in the name. A failing
  capture therefore leaves nothing to file. It says the same of the image that was renamed and whose header is
  being written.
* `RaisesOnlyWhenHit`: a script running alone ends by an exception only when a fault
  struck, whatever folders, images and leftovers exist.
* `NeverOverfilled`, `CommandsInOrder`, `SuccessIsWhole`, `FailureIsNone`: what the driver
  and the camera are given. `FailureIsNone` holds when the driver's buffer is no larger than a message;
  with a larger one a second block can fail and leave a command without its end. Of a call in which the driver refused
  a message `CommandsInOrder` says that its bytes come in order, with gaps, and `SuccessIsWhole` nothing.
* `OwnAnswer`, `ExchangeEnds`: `pdv_serial_txrx` reads the beginning of its own answer, if none
  was due when it began; every call but `pdv_serial_read_blocking` ends.
* `NoCallbackAfterRemove`, `OnceIsOnce`, `HandlerStays`, `NoHandleLost`, `Delivered`,
  `RemoveReturns`: event functions. All but the last hold until a function is set while the thread of an earlier one
  has still to zero the structure (`overtaken`). `Delivered` ends with the call itself, in either mode.
* `StaysInPicture`, `EveryPixelPlaced`, `LinesStayLines`: deinterlacing. `StaysInPicture` is about any number of
  rows: no method writes beside its rows but the three that put down two rows at a time without asking for the
  second (`PutTwoRows`), and those for an odd number only. The other two are about pictures of a size
  that a camera with such taps can send.
* `OutputFollowsPicture`: there are output buffers exactly when the ring was last allocated with a
  method set, and then they have the present picture's size and the ring's number; a wait that finds
  none is one for a method set since. `FitsWhenAgreed`: a picture put in order by the function for
  what is set, in buffers allocated for what is set, finds its output buffer and stays within both,
  if the configuration's `frame_height` and `interlace` suit the present height and it is not
  `InOut`, which goes on for half a row (`Suits`). Nothing in the library sees to the former: after
  `pdv_set_height` to fewer rows than `frame_height` the function goes beyond the buffers.
* `CaptureAlone`, `IdleWhenDone`, `ShownIntact`, `AskedStops`, `CaptureEnds`,
  `StopEndsSteady`: the live display. `ShownIntact` and `StopEndsSteady` hold while images are
  waited for one by one.
* `IndInv` of the ring, the event functions and the live display: the invariants that the
  proofs use, each conjunct of which is a statement about the code (section 4).

Two runs must fail, each on a sentence of the code that does not hold:

| run | sentence | what happens |
|---|---|---|
| `stale_image` | "Take single image and return numpy array" (`scicam.py:590`) | after a script that could not fetch the weather, a capture that fails makes `simple_cap` return the earlier script's image |
| `lost_stop` | "Start the next io operation if we weren't asked to stop" (`PdvInput.cpp:989`) | a stop that comes when all images started have been counted and the next is not yet started is dropped; the timer waits for ever, and no further stop is accepted |

### What else the models show

These came up while modelling; they hold in the models and in the code, and no run is
kept for them.

* `edt_user_dma_wakeup` resets the event it has set (`libedt.c:8614`): the event it wipes out may
  be that of a frame, and the wait sleeps on past the completion of its buffers. With
  `UserWakeup = TRUE`, `NoSleepPastCompletion` fails.
* The number of skipped images (`libpdv.c:5321`) is negative after a wait that timed out, and
  `pdv_wait_next_image_raw` tests `*nSkipped`, what the caller left there, where the pointer is
  meant: the count is written only when it was not zero.
* Frames that complete between `pdv_timeout_restart`'s reading of the counters and its setting
  of them are forgotten (`libpdv.c:8618`): after a restart the loop may wait for an image nobody
  has started, until the next timeout.
* `edt_ring_buffer_overrun` is documented to answer true when the buffer about to be accessed
  was overwritten; it answers true as soon as the ring is full, one image earlier.
* The image saved by the loop is a slot of the ring: it is overwritten once `numbufs` more images
  have been started, with one buffer by the very next. A wait that timed out goes on to save what is
  there, in the loop and in `capture.c:80`.
* `command` takes whatever `serial_cmd` printed first as the reply: with a late answer, or half
  of one, the time printed as set need not be the camera's. `TruthfulWhenQuiet` says how far
  that reaches: only the scripts that ran while an answer was on its way. `read_int_time` hands
  an error word to `hex_to_int`, which raises.
* A capture that fails while an earlier image lies on the share makes `capture.py` file that image; an
  incomplete file is announced as written (`capture.c:97`).
* `edt_send_msg` drops the result of its ioctl (`libedt.c:4592`): a command that the driver refuses is taken for sent,
  and `pdv_serial_write` returns 0 ("@return 0 on success, -1 on failure", `libpdv.c:3976`).
* `pdv_query_serial` and `pdv_serial_read_blocking` do not flush: they read what came too late for
  an earlier call. The latter has no way out when too few bytes come (`libpdv.c:4095`).
* The thread of a once function clears the structure by itself (`libedt.c:5272`): it closes the handle that a
  removal waits for and zeroes the structure afterwards. The removal returns in between, and a
  function set then is wiped out, its handles are lost, and its thread goes on with what a third
  function sets, so that this one can be called twice. ("If you wish to receive notification of one event only, [...]
  send a final argument of 0", `libedt.c:5039`.) Without the condition `~overtaken` and
  with `MaxSets = 3`, `OnceIsOnce`, `NoCallbackAfterRemove`, `HandlerStays` and `NoHandleLost` all fail. Setting the same function again while its
  only call is being made is answered with 0 and has no effect (`libedt.c:5315`).
  `edt_remove_event_func` called from within the callback waits for its own thread.
* With an odd number of rows `deIntlv_ES10_16`, its odd variant (`pdv_interlace.c:171`, `:199`) and
  `deIntlv_MidTop_Line` (`:1220`) write a row beside the picture;
  `deIntlv_ES10_16_hilo` (`:227`), `deIntlv_TopBottom` (`:253`) and `deIntlv_quad` (`:533`) read one beyond it.
* A method that is set after the ring was allocated without one finds no output buffers: `libpdv.c:6683` allocated
  nothing, and the wait takes its result from a NULL array (`libpdv.c:5706`). `pdv_multibuf` "need
  only be called once after a #pdv_open or #pdv_open_channel" (`libpdv.c:6777`).
* `pdv_deinterlace` works on `frame_height` rows if the configuration has that, in buffers of the height
  that was set (`pdv_interlace.c:2111`).
* `deIntlv_dalsa_4ch_8` overlaps its bands by a pixel each, `deIntlv_quad2` starts its middle
  pointers *width * y / 2* instead of half a picture below the upper ones, `deIntlv_HiLo_Line16`
  starts its lower line a pixel early, so that each wraps, and no size makes `InOut` place every
  pixel. These four are not among `MethodsInOrder`. `deIntlv_merge_fields` with an offset repeats
  pixels of the even field in the last line, and `pp_bgr_2_rgb`, which is in place, leaves the
  middle byte alone and so is wrong into another buffer.
* Setting the depth does not look up the function anew (`libpdv.c:1448`): until the method
  is set again, a function for words may run over buffers of bytes. The entry for
  `PDV_ILLUNIS_INTLV` and words has the source type `EDT_TYPE_SHORT`, which no depth has: it is
  never found.
* With `keepUp` on, which is the default of the viewer, the number of images to start leaves out those
  complete and not yet taken (`PdvInput.cpp:1013`): the image being shown may be written into.

### Bounds

A ring behaves differently when it has one slot, when it has two (the image being
written and the one in hand), and when there is one between: three slots show all,
and the images of `ring_live` go once round the largest. One timeout followed by any recovery, wait or
restart is the unit of every scenario of the ring; the loop has four because it
recovers twice from each and a second timeout may strike during recovery; twelve
exposures are more than four images and four restarts can use. Two camera scripts are
enough for an answer of the first to reach the second; three faults allow a refusal,
garbage and a late answer in one script. Times 3 and 7 give one integration time
with a bad CRC and one without, and frame times of which two in a row are bad. Two filing
scripts of two images are a leftover, a capture over it, a name clash, and every
overlap of two scripts; in `capture` one fault is enough to leave each kind of leftover,
the run `stale_image` has two. `ring` uses one
application thread because the library documents a handle as not shared, apart from
`edt_user_dma_wakeup`.

Two serial calls are one whose answer is late or that leaves bytes behind, and one that meets them;
the theorems say the same for any number. Four bytes take two messages of two, and the driver's
buffer is once as large as a message and once larger. Two event functions are one that goes and one
that comes while it does. Widths up to 8 and 16 have every remainder by 2, 4 and 8 that the methods
distinguish, heights up to 6 are odd and even and hold one band more than once. `postproc` has one
method and one depth of every kind in the table (bytes, words cut to bytes, Bayer, packed; fields,
two rows at a time) and two heights, of which one is odd and each may be less or more than
`frame_height`. `live` has four buffers: with three the display starts one image at a time and the
difference between waiting for one and for all is lost; `MaxPending` bounds only the frames that a
restart may skip.

Counters are bounded by constants named *Max...* in the guards. `CHECK_DEADLOCK FALSE` is set
where the bound or the end of the program stops the system; in `postproc` that is the wait that finds no
output buffer.

### Fairness

`ring_live`: weak fairness of the waiting thread's own steps; nothing of the camera.
`take_loop`: weak fairness of the loop's steps, where the end of `WaitForSingleObject`'s
timeout is a step of the wait. `camera`: weak fairness of the camera and the line and
of a script that has been started. `serial`: weak fairness of the line in both
directions and of a call once made. `events`: weak fairness of the program's call in progress and
of each thread; callbacks return. `live`: weak fairness of the live thread and of the user interface's
call in progress, whose waits end by an image or by their timeout, and strong fairness of the timer: it goes
on firing, and the user can keep it off only by taking single images, between which it gets
its turn. No run assumes that frames arrive. `ring`, `capture`, `deinterlace` and `postproc` have no
liveness property: their loops are a search for a free name and walks of a known length.

## 4. Proofs

Each theorem is `Spec => []P` for every value of the constants, from the assumption named in the
component's module. No property is inductive by itself; each module has an
invariant `IndInv` (`LoopInv`) made of named parts, a lemma per action that keeps it, and theorems
that read the properties off it. TLC checks the same invariants on the instances above:
those of `EdtRing`, `EventThread` and `LiveView` in the runs; the others were checked with the same `.cfg`
files and are not listed there, for the theorems say more. The type invariants are part of them.

* **`TakeLoop_proofs`**, the ring: `TypeCorrect`, `OverrunCorrect`, `HeldImageSafe`, `NeverAhead`;
  `NoFrameMissed` when there is no user wakeup. That an image is intact
  depends on the number of images completed since, hence on `CountersInOrder`
  (`base <= done <= todo`, nothing is written that was not started) and on `RingHolds`
  (the last `numbufs - 1` images completed since the last reset are in place, even while
  the next is written). A recovery sets the counters to what it read some steps ago,
  so `CallInOrder` says that what was read is still in order. `HandedOut` ties the
  address to the library's count: it is why `RingHolds`, which speaks of numbers, gives
  `HeldImageIntact`, which speaks of an address. The lemmas on `SlotOf` (it is a slot; two
  numbers less than `numbufs` apart have different slots) carry the arithmetic of the
  remainder. `NoFrameMissed` needs `EventKept` as well: between the look at the counter and
  the wait a completed buffer has left the event signalled.
* **`TakeLoop_proofs`**, the loop: `UnwaitedStays`, `WaitsInStep`, `NotStarved`, and `StreamSafety`,
  the safety half of `ImplementsStream` when the driver counts the buffers it aborts: initial states
  map to initial states and every step to a step of `FrameStream` or to a stutter. `StepOfRing`
  shows that each step of the loop is one that `EdtRing` allows, so the ring's `IndInv` is a
  conjunct and its theorems hold of the loop (`LoopUsesRing`). `CallMatches` says which call the
  library is in; `Unrecovered` and `InStep`, how far the library may be ahead between a timeout and
  its recovery; `StartsKeepUp` and `RoomLeft` bound the images started from below and above, the
  former until the first timeout; `RingFull` and `Newer` say what the slots then hold.
* **`CameraCommand_proofs`**: `Truthful`, `IntFits`, for any times, bad CRCs, faults and scripts. `OwnExchange`
  lists where the one answer of a quiet exchange can be, in which halves; `TimesKept` what has been
  reported of the script's times so far.
* **`CaptureFile_proofs`**: `FilesOwn`, `RaisesWhenHit`, for any number of processes, folders and
  faults. Scripts that overlap do as they like; `AloneSays` makes the others idle, and `Undisturbed`
  says, for each place of a script that runs alone, what is on the share, that its folder exists
  once it is to be named, that its name is free, and that the image renamed is its own until the
  header is written. One lemma per action; a step of another process is impossible for a script that
  runs alone, or starts one, and then it is no longer alone.
* **`SerialLink_proofs`**: `NeverTooMuch`, `SentInOrder`, `AllOnSuccess`, `NothingOnFailure`,
  `ReadsOwnAnswer`, for any lengths and sizes. The driver may refuse any message. `InStep` says that
  the bytes given ascend and, unless one was refused, end with the last one sent, `RoomKept` that
  what was found free still is, `OwnExchange` that a quiet exchange meets nothing but its own bytes,
  and an answer only after its last. The facts on sequences (a byte appended, a first part taken
  away) are lemmas at the top.
* **`EventThread_proofs`**: `NoneAfterRemove`, `CalledOnce`, `StaysSetUp`, `HandlesKept`, for any
  number of functions, threads and events and for programs that remove functions of either mode at
  any moment. Each is conditional on `~overtaken`: no function was set while an earlier thread had
  still to zero the structure, after which the code keeps none of them (section 3). That a
  removal may pass a once thread that clears by itself is within the proofs. `OnlyLast` says that
  only the thread last made may run; `WhoIsWhere` ties its place to the program's, with a place of
  its own for a thread that is about to zero the structure; `HandlesKnown` says which handles are
  open then, `ArmedWaits` that what was set up still waits.
* **`LiveView_proofs`**: `DeviceNotShared`, `EndsIdle`, `ShownIsIntact`, for any number of buffers
  from three on, endless or not, with `keepUp` changing at any time. `PendingCovers` is the heart:
  what is started and not yet taken is pending, so that no images pending means that the driver has
  nothing to do; it has to be said place by place because `GetNextBuffer` counts an image before it
  starts the next.

* **`Deinterlace_proofs`**: `NothingBeside`, `AllPlaced`, `NoLineWrapped`, for any number of bands,
  in place and not, under the hypothesis `Methods \subseteq MethodsInOrder`: of the four other
  methods section 3 says what is wrong. `NothingBeside` holds for pictures of any size, odd numbers
  of rows included, and has an invariant of its own (`InStep`): a method either takes no round whose
  second row is not there or is one of `PutTwoRows` (`OddRowsStay`, `EvenRowsFit`). `AllPlaced`
  speaks of pictures of a size that suits the method (`Fits`), `NoLineWrapped` of those and of any
  number of rows for `ES10_8` (`Suited`). The argument has two halves. A walk is `Laid` out well
  when its pointers stay in the picture, each in one row for the length of a line, and no two pixels
  are put at one place; there is a lemma for each method, `ES10_8Laid` to `merge_fieldsLaid`, which
  names the rows and the columns its pointers go through (`OnGrid`) and shows that no two meet.
  Since a position has one row and one column (`Unique`, `GridLaid`), that is enough. The other half
  knows no method: `FromOrigin` and `FromOnto` say that the walk takes each pixel of the source
  once, `IndInv` that the lines that are over lie where the walk puts them (`Placed`) and everything
  else is as it was (`OnlyPlaced`, without which a later line could have written over an earlier
  one). That no place is left empty at the end is then a count: the pixels are as many as the
  places. In place `OwnRow` shows that a line is read from a row no earlier line was written to, so
  that only the line buffer is needed.
* **`PostProc_proofs`**: `OutputFits`, for every order of settings, a method set after the ring
  included: there are output buffers exactly when the ring was last allocated with a method set, and
  a wait finds none only for a method set since. `WithinBuffers`, for every entry of the table,
  every method, pictures of any size and every `frame_height` and `interlace` that suit it (`Suits`:
  no more rows than the picture has, the second field within its first half). `Fewer` and `RowsOf`
  compare the bytes of fewer rows, and `SuitedFits` takes what `TableFits` says of the picture's own
  rows over to them. `AgreedIsNow` says that while function and buffers agree with what is set, they
  are what the table and an allocation would give now. `Kinds` reads off the table how the width of
  a pixel can change, and `TableFits` compares, kind by kind, what a function reads and writes with
  `pdv_get_dmasize` and the image size. The hypothesis `WholeBytes` excludes pictures of one, two
  and four bits and cameras of two and four: `pdv_lookup_postproc` takes these for bytes,
  `pdv_bytes_per_line` for fractions of one, and a function would go beyond the buffer. The
  configurations in `camera_config` have depths from 8 to 32. Cameras of single bits (`1_8_MSB7`)
  are covered.

Every safety invariant of the runs is proved, `LinesStayLines` without the odd numbers of rows that
the run tries on methods other than `ES10_8`. Only model-checked: all liveness (`WaitReturns`,
`ScriptEnds`, `ExchangeEnds`, `Delivered`, `RemoveReturns`, `AskedStops`, `CaptureEnds`,
`StopEndsSteady`, the fairness half of `ImplementsStream`), which is out of the prover's reach.

## 5. What is not modelled, and the plan

Done: the ring and its loop, the scripts, the serial line, event functions, deinterlacing, the live
display. What could be added, in this order:

1. `CaptureFile` on `CameraCommand`: the times in a name against the camera's, with both kinds of failure.
2. `take.c` and `simple_sequence.c` as instances of a loop with a start before or after the wait, and a
   second channel.
3. The recorder (`pdvrecord.c`): its writing thread against the ring.
4. `EdtRing`: output DMA, starts that run for ever, and the framesync mode that emulates timeouts.
5. Theorems: of `StopEndsSteady`, the invariant that a stop is only dropped with `keepUp` on or with three buffers.

Not modelled and not planned: parsing of configuration files, register access, flash
loading and the simulator (device I/O without state of its own), setters that format one
command for one camera make, pixel arithmetic (Bayer filter, packed bits, analysis), drawing and dialogs of the
viewers, and the vendored libraries. They are most of the repository by size. Of two scripts that
overlap nothing is claimed: they share one file name and the code has no lock.
