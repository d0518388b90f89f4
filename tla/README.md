# Capsule hotel: a TLA+ model of the capsule controller

The repository is the firmware of one sleeping capsule: a C program for a small
Linux board that opens the gate, measures the air, watches the guest's sleep,
takes a photo when somebody comes near, and reports to a server over wifi. This
directory holds TLA+ modules translated from that code, TLC configurations that
check them on small instances, and TLAPS proofs of their main safety
properties for every value of the constants.

`PROJECT.json` lists the components, the runs, the mutants that show each
property can fail, the source lines of each definition, the findings, the
hazards and the theorems.

## The system

### Components

| component | source | state | operations | modelled |
|---|---|---|---|---|
| shared state | `main.c:41-50` | `socket_mutex`, `alsa_mutex`, `send_mutex`, `sleep_mutex`, `alsa_con_var`, `send_con_var`, `choice_play`, `my_sleep`, the open files | lock, unlock, wait, signal, open, exit | `Process`, `Capsule` |
| `receive_thread` | `main.c:490-558` | `rcv_buf` | poll the socket, parse, post a command | `ReceiveThread` |
| `play_thread`, `open_sound`, `set_pcm_play` | `main.c:442-488, 673-819` | its copy of `choice_play`, the relay, the PCM device, the file | wait, open and lock the gate, play a file | `PlayThread` |
| `sensor_send_thread` | `main.c:376-440` | frames left of a burst, what `sprintf` last wrote to `send_voltage` | sample, format and send four frames | `SensorThread` |
| `sleep_detection_thread` | `main.c:318-374` | `can`, the filter | read the angle, send an alert once | `SleepThread` |
| `hc_04_distance`, loop of `main()` | `main.c:53-83, 308-313` | descriptors it keeps | measure, wake the picture thread | `MainLoop` |
| `pictuer_send_thread` | `main.c:560-647` | buffer in use | wait, capture, convert, save, send | `PictureThread` |
| camera | `camera/v4l2.c`, `camera_manager.c` | buffer queues, `camera_buf_cur_index`, what `v4l2_init` has done so far | init, start, get, put | `Camera` (queues), `CameraSetup` |
| TCP wifi | `wifi/rtl8188eus.c` | the socket | send, receive | `Rtl8188eus` |
| serial wifi | `wifi/HLK-RM04.c` | `flag_wifi`, `msg`, its line | `rm04_init`, `rm04_send_safe`, `wifi_recv_thread` | `SendSafe`, `Startup` |
| `main()` up to its threads | `main.c:264-306` | descriptors, the threads created | check the argument, init, create threads | `Startup` |
| wifi device list | `wifi/wifi_manager.c` | the list, `wifi_device` | register, init | `Startup` |
| list of operations | `include/list_core.h` | | init, add | `ListCore` |
| converter list | `convert/convert_manager.c` | the list | register, look up | `ConvertManager` |
| YUYV to JPEG | `convert/yuyv2jpg.c` | `pixel_datas`, the cursor, `written` | convert | `JpegBuffer`, `Color` |
| YUYV and MJPEG to RGB | `convert/yuyv2rgb.c`, `mjpeg2rgb.c`, `color.c`, `jdatasrc-tj.c` | the output buffer, the line decoded, the colour tables | convert, fail, exit | `RgbBuffer`, `Color`, `Conversion` |
| framebuffer, zoom, merge | `lcd/`, `operation/` | | | no: not in the Makefile |
| `test/` | serial port tools | | | no: stand-alone programs |

### Interaction

`main()` connects, creates five detached threads and then measures the distance
for ever. `receive_thread` turns a frame `AA05`, `AA06`, `AA07` or `AA88` into
a value of `choice_play` and a signal of `alsa_con_var` for `play_thread`, and a
frame `AA08` or `AA09` into a value of `my_sleep`, which
`sleep_detection_thread` reads. `hc_04_distance` signals `send_con_var` for
`pictuer_send_thread`. Four threads share the socket under `socket_mutex`. All
share one table of descriptors, and one `exit(1)`, SIGPIPE or fault ends all.

### What is hard

- Interleavings of six threads over four mutexes; a mutex that is polled
  without a pause by one of its users.
- Condition variables without a predicate: a signal nobody waits for is lost,
  a spurious wake-up is taken for a command, and the value is never reset.
- TCP delivers bytes: half a frame, or two frames, in one read.
- State used after its lock was released (`my_sleep`, `flag_wifi`).
- Resources: descriptors, camera buffers, the send buffer.
- Failures that end the process, or hang one thread, half way.
- Arithmetic: colours through tables of cut products, pixels packed into 16
  bits, and one byte of a picture that is taken for a sign that it is torn.

### What makes each component correct

- *locks*: a mutex is owned by the thread inside its region; no thread waits
  for one while it holds another; the socket has one user at a time.
- *gate*: it is a lock whose keeper hears one command at a time (`Gate`): it opens only for
  a command 5, once per command, is open only while the greeting plays, and is
  locked again.
- *receive_thread*: what is obeyed was sent, in that order, however TCP cuts it.
- *socket*: its users take turns (`Line`), and the turn of a sensor burst is four
  frames long, each as long as its buffer.
- *sleep alerts*: none unarmed, except one that was being decided on.
- *camera*: a buffer is in one place; a photo is one whole frame, for one signal,
  and the frames are shown in the order they were captured in (`Film`).
- *descriptors*: what a thread opens it closes or keeps using.
- *serial wifi*: a matching reply is a receipt that one call takes (`Receipt`), so
  no two calls succeed on one, and a call that hangs in `pthread_join` ends with the next one.
- *start-up*: no thread runs before the device it will use is ready, and a
  device that was tried and declined leaves nothing open to the threads.
- *camera setup*: the camera stays open just if every buffer was mapped and
  queued, and the converter that is found takes what the camera gives.
- *JPEG buffer*: a photo that fits stays inside it, and what is sent is the photo
  that was just converted.
- *RGB converters*: each pixel has its own colour up to rounding, and a picture
  that is taken is whole or grey where its data ended.

## The modules

| module | models | notes |
|---|---|---|
| `Process` | mutexes, condition variables, shared integers, descriptors, `alive` | a mutex is a variable holding its owner or `Free`; a condition variable is the set of threads blocked on it; `Unlock` does not check the owner, as pthreads do not; a thread of `MayFail` may never have been created (`Starts`), which `main()` does not notice |
| `Rtl8188eus` | the socket and the server | `inbound` keeps frames whole, `taken` the bytes already read of the first; a read may take any number of bytes; `Send` blocks while the send buffer is full, and may kill the process (SIGPIPE) once the peer closed |
| `ReceiveThread` | `receive_thread` | `rcv_buf` is what its first four bytes say, since the code reads no others |
| `PlayThread` | `play_thread` and the player | the exits of `open_sound` and `set_pcm_play` end the process; a device that keeps failing keeps the thread in the loop |
| `SensorThread`, `SleepThread`, `MainLoop` | the threads of those names | of a sensor's value the width it is written with is kept (`FieldWidth`); the Kalman output is one of three classes; `MainOpen` has no close because the code has none |
| `Camera` | the buffer queue of `v4l2.c` and the driver | FIFO both ways |
| `ListCore` | `list_core.h` | a list is a sequence; a new entry goes in front |
| `ConvertManager` | the converters' list and lookup | pairs of formats instead of functions |
| `PictureThread` | `pictuer_send_thread` | with the failures that make it return; the converter is looked up in `ConvertManager` |
| `Capsule` | composition of all the above | `Next`, `Spec`, fairness, invariants, the refinement mappings to `Gate` and `Line` |
| `Gate` | abstract: a lock with a keeper who hears one command at a time | what `receive_thread`, `play_thread` and their condition variable are there for: which posts are heard, replaced or lost |
| `Line` | abstract: users who take turns on a line | what `socket_mutex` is there for; a turn is a fixed number of pieces |
| `Film` | abstract: numbered frames on a film of a few places | what `hc_04_distance`, the picture thread and the buffers of the driver bring about together |
| `CapsuleDoor`, `CapsulePhoto`, `CapsuleSleep` | `Capsule` and history variables | the histories only watch: `DoorSpec => Spec` is proved; the mapping to `Film` is in `CapsulePhoto`, since its frames are numbered there |
| `SendSafe` | `rm04_send_safe` and `wifi_recv_thread` | separate: this device is an alternative to the TCP one; has the refinement mapping to `Receipt` |
| `Receipt` | abstract: a box of one receipt, and a listener hired for each call | what `flag_wifi` and the thread made for a call are there for |
| `CameraSetup` | `camera_init`, `camera_device_init`, `v4l2_init`, `v4l2_start`, the converter lookup | one action per `ioctl`, each of which may fail; `PictureThread` has all of it in one step |
| `Startup` | `main()` up to its threads, with `CameraSetup` | separate: it ends where `Capsule`, with `rtl8188eus` as the device, begins. An argument is one of five kinds, and every call that can fail may fail |
| `Frame` | the size `v4l2_init` agrees on | constants of the converters |
| `Color` | `color.c` and the colour arithmetic of `yuyv2jpg.c` | integers as they are, with C's division towards zero; pixels packed as the code packs them, in 16, 24 and 32 bits |
| `JpegBuffer` | the destination manager of `yuyv2jpg.c` and the buffer a photo is sent from | a byte is the number of the photo it belongs to and its place in it |
| `RgbBuffer` | `yuyv2rgb.c`, `mjpeg2rgb.c`, what `jdatasrc-tj.c` makes of data that ends early | libjpeg gives lines of colours, or fails, at any line or at the end; `format` and `bpp` are variables of their own, because `yuyv2rgb` sets `bpp` by the format and `mjpeg2rgb` takes the one it finds |
| `Conversion` | composition: a caller that looks a converter up and uses it | `pictuer_send_thread` is one that asks for JPEG |
| `MCConversion` | the pictures an MJPEG camera shows in the run `convert` | |
| `CapsuleProofs`, `GateProofs`, `HistoryProofs`, `SendSafeProofs`, `StartupProofs`, `ManagerProofs`, `ConversionProofs` | proofs | see below |

Each action of a thread is what the code does between two points where another
thread could notice: a lock, a blocking call, a release. The program counters
(`rpc`, `ppc`, `spc`, `zpc`, `cpc`, `mpc`) name those points. Code that holds a
lock and touches only its own variables is one step with the unlock that ends
it. In `SendSafe` every locked region is one step; `flag_wifi`, which no lock
protects, is read and written in steps of their own.

Two choices follow from undefined behaviour in the code. The filter of
`sleep_detection_thread` starts from the uninitialised `Angle_X_Final`, so a
reading may be of any class, whatever the ones before. In
`HLK-RM04.c`, `strstr` runs past `msg` when it is full, so the match may be
found or not (`HandResults`).

More follow in the converters. `line_buffer` of `mjpeg2rgb.c` is set between
`setjmp` and `longjmp` and not volatile, so after an error in a line it is freed
or lost (`DecodeFails`); after one in `jpeg_finish_decompress`, when it was freed
already, it may be freed a second time, which may end the program
(`FinishFails`, `result = "crashed"`). The byte `mjpeg2rgb.c:173` tests is any
byte if it is behind a frame of fewer than 240 lines, or if the depth is one of which
nothing is written (`Tested`). A JPEG that is larger than its buffer overruns
the heap, and nothing is said of the program after that (`pc = "overrun"`). The
photo buffer is `malloc`ed and sent whole, so what was never written is of any
value (`Leftovers` counts it as older). And `pixelformat` of the picture
thread's `camera_device` is uninitialised: 0, or a value that is no format
(`Indeterminate`); that it is not by chance a format the program knows is an
assumption.

Operators commented `Mutant:` are not part of the specification. Each is a
plausible mistake in the operator after it, and makes one property fail when it
takes that operator's place.

## The runs

| run | configuration | shows |
|---|---|---|
| `door` | `CapsuleDoor`, `Door.cfg` | Two frames of three codes cut in every way, spurious wake-ups, no `Co.wav`, and either thread may be missing. The two threads implement `Gate` (`ImplementsGate`); every opening is paid for by one posted command or one spurious wake-up (`NoPhantomOpening`); the commands obeyed are frames that were sent, in their order (`ObeyedInOrder`); the gate stays locked until the first `AA05` (`LockedUntilFirstUnlock`), and without the distance sensor each descriptor in use is one that a thread still has (`OnlyDistanceLeaks`). |
| `socket` | `CapsuleSleep`, `Socket.cfg` | Receive, sensor, sleep and picture thread, commands 08 and 09, two threads that may be missing, and a server that may close. The four implement `Line` (`ImplementsLine`), so bursts are unbroken and no two threads use the socket together; no hold-and-wait (`NoHoldAndWait`); every frame of a burst has exactly the 18 bytes of its buffer (`FrameFits`); after a command 09 at most one more alert is sent, and none before the first 08 (`AtMostOneLateAlert`); and the `fopen` of `photo.jpg`, which nobody looks at, finds a descriptor as long as the threads leave one over and the distance sensor takes none (`PhotoFileOpens`). |
| `gate_live` | `Capsule`, `GateLive.cfg` | An open gate is locked again unless the process ends or the sound device dies; a command that woke `play_thread` is served. |
| `socket_live` | `Capsule`, `SocketLive.cfg` | All four users of the socket. An alert or a photo that is on its way gets through, unless the others take the socket again and again for ever: nobody keeps it, the camera never runs out of buffers, and no failed thread is in the way (`AlertOnlyStarved`, `PhotoOnlyStarved`). |
| `photo` | `CapsulePhoto`, `Photo.cfg` | Distance, picture thread and driver implement `Film` (`ImplementsFilm`): a photo is of the oldest frame on the film, for one call, and its place is free only after that. The k-th photo is the k-th frame since start-up (so the first four photos of the real program show the capsule at start-up, whenever they are taken), the frame is not overwritten while in use, at most `NBuf - 1` newer frames exist, one photo per signal, and every buffer is in one place and none is lost (`BuffersConserved`). |
| `send_safe` | `SendSafe`, `SendSafe.cfg` | Two calls against a module that says anything, with spurious wake-ups: caller and thread implement `Receipt` (`ImplementsReceipt`), so no two calls succeed on one match; a call that hangs in `pthread_join` ends with the next match (`JoinEndsOnMatch`, under fairness). |
| `startup` | `Startup`, `Startup.cfg` | Five kinds of argument, standard input a terminal or not, every failure: threads start only with a device that was initialised to the end (`ThreadsHaveDevice`) and without the line or socket of the other (`NoOtherLine`). While `main()` still creates threads the picture thread sets its camera up, and each of its calls may fail: `CameraKeptWhole`, `ConverterFitsCamera`. |
| `convert` | `MCConversion`, `Convert.cfg` | Every camera format, every format asked for and every depth, frame after frame through one buffer, with failures of libjpeg and exits between: `YuyvShown`, `ConvertersAgree`, `PictureShown`, `TornRefused`, `RefusedOnlyGrey`. Three photos of sizes below, at and above the buffer's: only one that is larger than the buffer overruns it (`WithinBuffer`), the server gets the JPEG in order, cut off at one byte per pixel, and what follows a shorter JPEG is always older than it (`Leftovers`). |
| `serial_start` | violation, `SerialStart.cfg` | Started with a serial line, the program takes a device that has no `receive`, and `receive_thread` calls it. |
| `senses_forever` | violation | `hc_04_distance` never closes `/dev/hc04`: measuring ends. |
| `lost_unlock` | violation | A command 5 that is signalled while `play_thread` does not wait is lost. In TLC's trace it comes before the thread first waits; one that comes while a sound plays is lost in the same way. |
| `resends` | violation | `rm04_send_safe` waits without a timeout: a lost line is never sent again. |

### Bounds

- `Devices` is the set of device files that exist. A thread whose device is
  missing returns, as in the code; leaving devices out is how a run keeps to
  the threads it is about. `door` has the gate, `socket` everything that sends.
- `FdLimit` is small so that the limit is reached: the failing open and the
  fault in `PictureSave` are reached, and the leak of `hc04` ends runs quickly.
- `FrameLen = 4` is the shortest frame with a code; `BufLen` of 4 to 6 against
  4 lets a read end inside, at the end of, and beyond a frame, as 24 does.
- `MaxFrames` of 1 to 3: two commands can be under way in `play_thread`, one
  delivered and one posted; a third would have to be posted in place of one.
- `MayFail` names threads that `pthread_create` may not have created: in each
  run the ones its properties are about, as far as the number of states allows.
- `SendRoom = 1` makes the send buffer fill after every write. `MaxChunks = 1`
  has both turns of the playing loop. `NBuf` of 1 and 2 (4 in the code): order
  and exclusion between buffers need two.
- `opens` and `spurious` stop counting at `MaxFrames + 1` and `MaxFrames + 2`.
- `Startup` has the lists and threads of the program, and the four buffers of
  `v4l2_init`, of which the driver grants 1 to `NBuf`; `MaxFormats = 2` has a
  format that is skipped before one that is known, and a camera with no known one.
- `RgbBuffer`: 2 times 2 pixels, so that a pair of pixels has a neighbour in its
  line and a line has one before and after it. `TestedLine = 1` of `Height = 2`
  stands for line 240 of 480. `Lumas` and `Chromas` are near the ends of a byte,
  where the tables are cut and the factors of green differ most; for every other
  sample there are the proofs. `MCPictures` has colours whose packed pixel ends
  in the byte 132, begins with it, or neither. The depth 8 stands for every one
  that `covert_one_line` does not know. `MaxErrors = 2` has an error after
  an error.
- `JpegBuffer`: `Area = 4` gives a buffer of 8 bytes and a photo of 4;
  `OUTPUT_BUF_SIZE = 2` divides some sizes and not others, so that the last
  copy is empty, partial or preceded by full ones. `JpegLengths` has sizes below,
  at and above a photo's and the buffer's, which the code never compares: 9 and 10
  overrun the buffer in the last copy and in a full one. The third photo follows
  both a longer and a shorter one.
- `SendSafe`: `MsgSize = 3` has room for the two halves of the expected text
  and one more piece; six pieces are two full replies, for two calls.

### Fairness

`Fairness` assumes that a thread that can run does, and no more: it is weak
fairness of each thread. A mutex is promised to nobody. `receive_thread`
unlocks `socket_mutex` and locks it again without a pause, POSIX promises a
default mutex to no particular thread, and a thread that waits for one may wait
for ever. The model has such behaviours, so that an alert or a photo gets
through is not a property of the code; `AlertOnlyStarved` and `PhotoOnlyStarved` say
that nothing else stops it: a thread that never finishes stands before
`socket_mutex`, and others take and release it infinitely often.

There is one strong fairness, of `SoundWrite`: a device that keeps recovering
eventually accepts a period, against underruns without end. The server keeps
reading and the camera keeps capturing. No failure is fair: nothing has to
break, and the picture thread returning is excluded from what must happen. The
properties of `gate_live` need no fairness of a mutex, because the server sends
at most `MaxFrames` commands: from some point on nobody but `play_thread` takes
`alsa_mutex`.

`FairSpec` of `SendSafe` has weak fairness of the caller and of
`wifi_recv_thread`, which run when they can. Spurious wake-ups and the module's
answers are not fair: nothing has to be answered.

### Deadlock

Deadlock is checked in every run of `Capsule`, but says little there:
`receive_thread` can always poll, and a failed open in `main()` stutters. What
excludes a circle of waiting threads is `NoHoldAndWait`, which is checked and
proved. After the process ended, `Exited` stutters. `SendSafe` really stops:
when the caller resets `flag_wifi` before `wifi_recv_thread` tests it, the
thread waits for another reply and `pthread_join` waits for the thread, and
with a full `msg` the thread spins. Its runs say `CHECK_DEADLOCK FALSE`.

## The proofs

| module | theorem | says, for every value of the constants |
|---|---|---|
| `CapsuleProofs` | `LockDisciplineAlways` | each mutex is owned by the thread inside its region |
| | `SocketExclusiveAlways`, `NoHoldAndWaitAlways` | follow from it |
| | `TypeInvAlways` | types, and what they rest on |
| | `ImplementsLineAlways` | refinement: the users of the socket implement `Line` |
| | `BurstUninterruptedAlways` | action property: nobody writes inside a burst |
| | `FrameFitsAlways` | a sensor frame fills its 18 bytes, for every value the code can format |
| | `OnlyDistanceLeaksAlways` | without the distance sensor no descriptor is lost |
| | `PhotoFileOpensAlways` | so there is one for `photo.jpg`, if the threads leave one over |
| | `GateOpenOnlyWhileWelcomingAlways` | the relay is on only inside a command 5 |
| `GateProofs` | `ImplementsGateAlways` | refinement: the two threads implement `Gate` |
| | `NoPhantomOpeningAlways` | openings are paid for |
| | `LockedUntilFirstUnlockAlways` | the gate waits for the first unlock frame |
| | `ObeyedInOrderAlways` | what is obeyed is a subsequence of what was sent |
| `HistoryProofs` | `ImplementsFilmAlways` | refinement: distance, picture thread and driver implement `Film` |
| | `AtMostOneLateAlertAlways` | one alert after a command 09, at most |
| | `BuffersConservedAlways` | each camera buffer is in one place |
| | `PhotoIsKthFrameAlways`, `BoundedLagAlways` | which frame a photo shows |
| | `FrameKeptWhileUsedAlways` | action property: it is not overwritten meanwhile |
| | `PhotoPerSignalAlways` | each photo answers a signal of its own |
| `StartupProofs` | `ThreadsHaveDeviceAlways`, `NoOtherLineAlways` | what threads find at their start |
| | `ConverterFitsCameraAlways`, `CameraKeptWholeAlways` | the camera setup |
| `SendSafeProofs` | `ImplementsReceiptAlways` | refinement: `rm04_send_safe` and `wifi_recv_thread` implement `Receipt` |
| | `SuccessBackedByMatchAlways`, `LeavesOnlyOnMatchAlways` | parts of it, said directly |
| | `TypeOKAlways` | no reply outgrows `msg` |
| `ConversionProofs` | `YuyvShownAlways`, `ConvertersAgreeAlways` | colours, for each of the 2^24 samples |
| | `PictureShownAlways`, `TornRefusedAlways`, `RefusedOnlyGreyAlways` | MJPEG frames |
| | `RgbTypeOKAlways` | the output buffer |
| | `WithinBufferAlways`, `PhotoArrivesAlways`, `LeftoversAlways` | the photo buffer, for JPEGs of every size |

They rest on the assumptions named in the modules (`ProcessAssumption`,
`SocketAssumption`, ...), which say only what kind of value a constant is.

*Locks.* `LockDiscipline` is inductive as it stands: it lists, for each mutex,
the program counters at which each thread owns it. Every action moves one
counter and at most one mutex.

*Types.* `TypeOK` alone is not inductive: `SoundEnd` closes two descriptors,
`PostSignal` needs a code that has a value, `SensorSend` counts down, and
`CameraPut` queues `held`. `TypeInv` adds what each of these needs.

*Descriptors.* A thread is past its open only if its device exists (`DevicesThere`),
so what `OnlyDistanceLeaks` counts is at most `MostFds`. `photo.jpg` needs one more,
and one is enough: `fclose` gives it back each time (`PhotoFileOpens`).

*Gate.* `NoPhantomOpening` needs to know that a command on its way (delivered
to the waiting thread, or read and not yet served) is paid for already:
`DoorInv` counts it in `Underway`. Signals to a thread already woken do not add
to it, so the inequality is strict in general. `LockedInv` is the absence of
any code 05 between the socket and the relay. `OrderInv` follows a frame from
the server through the socket and `rcv_buf` to `choice_play`; it needs that
`rcv_buf` is cleared before each read, or an old code could be completed by the
rest of a later frame.

*Gate, refined.* `TheGate` takes `choice_play` for the last command, and has the
keeper listen while `play_thread` is blocked on `alsa_con_var`, called from the
signal until `choice_play` was read, and deaf otherwise. What needs an invariant
(`DoorInv`, `LockDiscipline`) is that a post is never heard by halves: one that
falls between the wake-up and the read would have `receive_thread` own
`alsa_mutex`, which `play_thread` has. `GateOpenOnlyWhileWelcoming` follows from
the mapping, and is proved beside it.

*Line, refined.* `TheLine` takes for the users inside a turn those at a place
where they call the device, and for what is left of it `burst`, or 1.
`LockDiscipline` makes that set empty or a single user (`TurnInv`), and `TypeInv`
has `burst` positive inside a burst; each action of the capsule then begins a
turn, is one piece of it, or leaves the line alone. What was not read is counted
in bytes, of which only a reader in its turn takes any: `TakeConsumes` divides them
into frames again, for every length of a frame. `SocketExclusive` and
`BurstUninterrupted` say parts of it directly, and are proved only.

*Film, refined.* `TheFilm` counts as released what was captured and is neither in
`done` nor held. That the photo sent is of frame `released + 1` is `FrameInv`; that
the driver has a buffer just while the film has a place is `BufferInv`; and that a
signal finds the thread where `Film` has its photographer waiting is `ListedWaits`.

*Sensor frames.* `Digits` counts powers of ten, so that no recursion is needed;
`DigitsBounds` bounds the count for each value of the two ranges and `FrameSizes`
concludes that 18 is the only size a frame has. The ranges are what the code gives
its `sprintf`: a byte of the ADC in an `int`, and a `char`, signed or not.

*Camera.* `BuffersConserved` speaks of a concatenation, `NoneTwice` says the same
element by element, which is what a queue operation can be proved to keep; and
`BufferInv` adds that nothing is held outside the turn that took it. `FrameInv`
puts every frame that was captured somewhere: sent, in use, or at a known place
of `done`. `WakeInv` lets a signal be used up before its photo exists.

*Alerts.* `AlertInv` counts the alert that the thread may still send.

*Send-safe, refined.* `TheReceipt` takes `flag_wifi` for the box. Between the test
and the reset of the flag only the reset can clear it, which is `ReceiptInv`; so
the two steps take one receipt. What is lost, a match that finds another not yet
taken, and what is left over for the next call are in `Receipt` as well: the
refinement says that nothing else is.

*Start-up.* `StartupInv` says what each place of `main()` has behind it. Two of
its parts are not obvious. The socket is closed while `HLK-RM04` is tried,
because that device, registered last, is first in the list (`RegisteredOrder`).
And a server's address leaves the serial line closed, because `open` fails on it.

*Camera setup.* Its invariant counts: buffers are mapped one by one up to
`camera_buf_cnt`, then queued one by one. `Found`, of `ManagerProofs`, says what
a walk through the registered converters finds.

*JPEG buffer.* `written` is the boundary in `pixel_datas` between the bytes of
this photo and older ones, and the cursor is always at it. `FlushKeeps` proves
that a copy moves the boundary by what it copies; `Convert` puts it back to 0,
which makes every byte older than the new photo. `JpegInv` is that. The overrun
begins when the boundary passes the end, and the boundary never passes the
length of this photo's JPEG; so the photos before do not matter.

*Colours.* The table lemmas bound the distance of an entry from the product it
stands for; the rest is linear arithmetic over them. The proof corrected a bound:
TLC's samples let the two converters' red and blue differ by one level, over
all samples they differ by two. `RgbInv` says of each pixel of the lines decoded
so far what it was made of. It needs that the buffer is of the depth that is
written (`Kept`): `yuyv2rgb` sets the depth by the format, and neither changes but
after an exit, which is what is assumed of the caller.

*Inductive invariants* (`DoorInv`, `OrderInv`, `LockedInv`, `AlertInv`,
`DevicesThere`, `BufferInv`, `FrameInv`, `WakeInv`, `ListedWaits`, `TurnInv`, `ReceiptInv`, `RgbInv`,
`JpegInv`) were checked by TLC in
the configurations of their properties before they were proved; the runs list
only the properties.

Model-checked only: liveness (`GateRecloses`, `WokenUnlockOpens`,
`AlertOnlyStarved`, `PhotoOnlyStarved`, `JoinEndsOnMatch`), which is beyond the prover.
Every safety property of a passing run is proved. No module declares a
recursive operator.

## Findings

1. `main.c:62`: the descriptor leak of `hc_04_distance` (`senses_forever`). The
   next failure after it is worse: `open_sound` ends the process when its
   `fopen` fails, and if it plays the greeting the gate is left open.
2. `main.c:511`: lost unlock commands (`lost_unlock`).
3. `HLK-RM04.c:151`: the wait without a timeout (`resends`).
4. `HLK-RM04.c:177`: the device for a serial line has no `receive`, and
   `receive_thread` calls it without a check (`serial_start`).

Met while modelling, bounded by a passing property rather than shown by a run
of their own: a spurious wake-up serves the last command again, so it may open
the gate (`NoPhantomOpening` counts it); an alert can follow the command that
cancelled it (`AtMostOneLateAlert`); an alert or a photo may wait for ever for
`socket_mutex` (`AlertOnlyStarved`, `PhotoOnlyStarved`); frames after the first of a read are
dropped; a JPEG of more bytes than the frame has pixels is sent cut off, and a
shorter one is followed by bytes of earlier photos (`PhotoArrives`,
`Leftovers`), and one that is larger than the buffer overruns it (`WithinBuffer`); the usage text asks for a `/dev/video0` that never starts the
threads (`UsageNeverStarts`, proved in `StartupProofs`); a match that is reported
while the caller of `rm04_send_safe` is in `pthread_join` stays in `flag_wifi`, and
the next call succeeds on it; `mjpeg2rgb.c:173` calls the byte it tests the last of
a frame, but line 240 is the last only of frames of 240 lines, and `v4l2_init`
asks for 480: a frame torn in its lower half is taken (`TornRefused` says for
which ones it is not), and a good one with a grey or yellow pixel there is thrown
away (`RefusedOnlyGrey`); the two factors of green in `color.c` are exchanged
(`Formula`, `ConvertersAgree`). An error in `jpeg_finish_decompress` may free
`line_buffer` a second time (`mjpeg2rgb.c:119`), and `mjpeg2rgb` never sets the
`bpp` by which it allocates and writes: no property bounds these, the
actions have them.

What the properties leave open: an `exit(1)` while the relay is on leaves the gate
open, and a sound device that keeps failing keeps it open; `Gate` and `GateRecloses`
exempt both. The lag of a photo is bounded in frames and not in time. `TypeOK` of
`SendSafe` bounds `msg`, and does not exclude the spin on a full one.

## Not modelled

- Callers of the RGB converters that change the format or the depth without an exit,
  and frames of another size than the one agreed on: both converters keep the
  buffer of their first frame and compare it with nothing. The program has no such
  caller (`pictuer_send_thread` asks for JPEG, once).
- Which value a sensor gave, the Kalman filter's arithmetic, ALSA parameters: data
  the properties above do not depend on. So neither is that a failed read of the
  ADC goes unnoticed (`main.c:399`) and a frame then repeats an old value.
- Times (`sleep`, `usleep`): a step may take any time, so the properties hold
  at any speed.
- `rtl8188eus_exit`, `v4l2_exit`, the exit of `yuyv2jpg.c`, `set_uart`: nobody calls
  them. `rm04_send` is a single write, and a serial line ends in the fault
  of `serial_start` before anything is sent over it.
- `malloc` is taken to succeed, except where `jpeg_mem_src_tj` reports it.
- A driver that grants more buffers than it was asked for would run past
  `puc_buf` (`v4l2.c:140`); what a driver grants is outside the program.
- The RGB to YUV tables and macros of `color.c`, which nobody uses; libjpeg and
  its headers (`jpeglib.h`, `jerror.h`, `jinclude.h`), which are third-party code.
- `lcd/` and `operation/` are commented out of the Makefile, and `test/` holds
  stand-alone tools for a serial port.

## Plan

Done: every part of the program that the Makefile builds and `main()` reaches,
threads that were not created, the RGB converters it registers, the format of the
sensor frames, the refinements of `Gate`, `Line`, `Film` and `Receipt`, and the proofs of every
safety property and every refinement that a run checks. Left, in this order:

1. The values of the sensors, with `main.c:399`: which reading a frame shows.
2. What follows from the abstract modules alone, so that a property of the
   threads is concluded from the refinement instead of being proved beside it.
