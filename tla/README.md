# A verification of the CrossPoint simulator

The simulator runs the CrossPoint e-reader firmware as a desktop or iOS
program: it supplies the firmware's hardware layer (`Hal*`), the Arduino and
ESP-IDF libraries it links against, FreeRTOS, and the network services, on top
of SDL and the host. This directory holds TLA+ models of the simulator's own
code (`src/*.cpp`, `src/*.h`, `ios/`), the TLC instances that check them, and
proofs checked by TLAPS. The firmware itself is not in the repository; it is
modelled as the caller these interfaces are written for.

    tlc -config ButtonInput.cfg MCButtonInput.tla      # check an instance
    tlapm ButtonInputProofs.tla                        # check the proofs

## 1. The system

| Component | State | Operations | Works with |
| --- | --- | --- | --- |
| Button input (`HalGPIO.cpp`, `SimulatorInput.h`) | edge latches, synthetic levels, releases held back, frame counter | `update()`, `beginFrame()`, `tick()`, `buttonDown/Up()`, `isPressed()`, `wasPressed()` ... | SDL's event queue, the key strip, the schedule, background tasks that read levels |
| Home key (`HalGPIO.cpp`) | down, edges, long press fired, release held back, time pressed | `beginHomeKey()`, `endHomeKey()`, `updateHomeKeyHold()` | as above |
| Touch panel (`HalGPIO.cpp`) | `touchState`, `liveTouchEvents`, followed finger | `beginTouch()`, `moveTouch()`, `endTouch()`, `processLiveTouchEvent()`, `wasTouchTap()`, `wasSwipe()` ... | fingers, mouse, schedule, strip |
| Input script, screenshot list (`HalGPIO.cpp`, `HalDisplay.cpp`) | events sorted by time | parsing, handling what is due | the environment |
| On-screen key strip (`SimulatorOnScreenControls.cpp`, SwiftUI on iOS) | captured key, layout | `handlePress()`, `handleRelease()`, `render()` | pushes input events, asks for presents |
| Panel and presentation (`HalDisplay.cpp`) | frame buffer, gray base and planes, pixel buffer, present flag, texture | `displayBuffer()`, `displayGrayBuffer()`, `presentIfNeeded()`, screenshots | render task and main thread |
| Frame loop and lifecycle (`simulator_main.cpp`, `SimulatorLifecycle.cpp`, `startDeepSleep()`) | quit and background flags, environment | frames, deep sleep, relaunch | SDL, the host, the schedule |
| FreeRTOS shim (`freertos/*.h`) | mutexes with holder and count, semaphores, notification counts | take, give, peek, notify, wait | every task |
| WebSocket server (`WebSocketsServer.cpp`) | clients, event queue, threads | `begin()`, `loop()`, `sendTXT()`, `broadcastTXT()`, `close()` | its threads and the firmware's loop |
| Web server for the firmware (`WebServer.cpp`) | routes, the current request, upload state | `begin()`, `send()`, `stop()`, raw and multipart uploads | a worker thread |
| File transfer server (`CrossPointWebServer.cpp`) | the request in progress | list, download, upload, mkdir, rename, move, delete, WebDAV | a worker thread, storage |
| Storage (`HalStorage.cpp`) | open files with windows and directory positions | open, read, seek, rename, remove, walk | the host's file system |
| iOS platform (`sim_ios_platform.m`, `SdSystemDir.cpp`) | root path, scope, bookmark, scene and window | pick a folder, attach the window, find the state's folder | UIKit, the user defaults |
| HTTP clients (`SimHttpFetch.h`, `HTTPClient.h`, `SecureHttpClient.h`, `ResumableFetch.h`, `esp_http_client.h`) | the transfer in progress | fetch, resume, sink, stream | curl or NSURLSession |
| Stand-ins: board, frontlight, ports, memory, clock, WiFi, settings, images, strings, sealed keys | small records | setters, parsers, formatters | the firmware |

How they interact: the main thread runs frames (`beginFrame(); loop();
presentIfNeeded()`), and inside `loop()` the firmware polls input through
`update()`, which alone drains SDL's queue. Firmware tasks are host threads:
one renders into the panel's pixel buffer, others read button levels, serve
sockets or download. The strip injects its presses through SDL's queue; what
must survive deep sleep crosses into a new process through environment
variables. Servers and firmware meet on the card without a lock.

What is hard:

- *interleaving and atomicity*: levels read by other threads in the middle of
  `update()`; pixels written while they are copied; the present flag; sockets
  closed by one thread and numbers used by another; files replaced while read;
- *ordering*: edges cleared and held back releases delivered at the frame
  boundary; one contact event per frame out of several updates; two fingers;
- *time*: long presses and swipes against frames as long as an e-ink render;
- *lifecycle*: background, deep sleep with an event loop of its own, relaunch,
  a library folder that goes away between two launches;
- *partial failure*: uploads, downloads, recursive removal, move and copy;
- *stale state*: members of a server that outlive a request, caches of the
  environment or of the card's layout.

What makes each part correct:

- *input*: no press or release is lost, duplicated or reordered; edges and
  levels agree at every frame boundary; no key or contact sticks; a press is
  reported as one gesture; a touch reaches the pixel that is shown there;
- *panel*: no torn or forgotten frame, no mixture of the planes of two frames;
- *lifecycle*: quitting ends the process, a key ends sleep, what a relaunch
  carries over is used once, the chosen card and its state are kept;
- *FreeRTOS*: each call takes effect at one moment, tokens are conserved;
- *servers*: each client is announced and removed once under a number that is
  its own; a handler sees the whole of its request or an abort; no request
  loses a file or touches a protected one; stopping ends;
- *downloads*: complete means exactly the body;
- *stand-ins*: each answers as the firmware expects of the device.

## 2. The modules

| Module | Models | Checked by |
| --- | --- | --- |
| `ButtonInput` | the latches of all buttons and the four sources that write them | `ButtonInput.cfg` |
| `HomeKeyInput` | the Home key's press, tap and long press | `HomeKeyInput.cfg` |
| `TouchInput` | contacts and gestures | `TouchInput.cfg` |
| `PanelPresent` | a frame's way from a task to the window | `PanelPresent.cfg` |
| `AppLoop` | frames, background, deep sleep, relaunch | `AppLoop.cfg` |
| `FreeRtosSync`, abstract `SyncObjects` | mutex, semaphore and notifications over the C++ library | `FreeRtosSync.cfg` |
| `WebSocketsServer`, abstract `ClientSessions` | the threads of the WebSocket server | `WebSocketsServer.cfg` |
| `WebServer` | requests, bodies and answers of the firmware's server | `WebServer.cfg` |
| `Storage`, `FileTransfer` | the card; the file server and the firmware that uses it | `FileTransfer.cfg` |
| `HttpFetch` | transport, clients, resumable download | `HttpFetch.cfg` |
| `LibraryFolder` | folder, bookmark, state folder and window on iOS | `LibraryFolder.cfg` |
| `RequestText`, `Multipart`, `WireFrames`, `ScreenGeometry`, `InputSchedule`, `FileWindow` | pure parts of the components above | `Conversions.cfg` |
| `DeviceBoards`, `WirelessNetworks`, `ClockFaces`, `KeptSettings`, `ImageRows`, `ArduinoText`, `SealedKeys`, stated by `Platform` | the stand-ins | `Conversions.cfg` |
| `ButtonInputProofs`, `TouchInputProofs`, `PanelPresentProofs`, `AppLoopProofs`, `FreeRtosSyncProofs`, `WebSocketsServerProofs`, `FileTransferProofs`, `HttpFetchProofs` | theorems about the module each is named after (section 4) | tlapm |
| `Conversions` | takes one input at a time and states what must come of it | `Conversions.cfg` |

Each `MC*` module extends a module with the sets its configuration uses; where
plain sets will do, the configuration is given to the module itself.
`FileTransfer` composes the server, the firmware and `Storage`; `Conversions`
composes the pure modules; `FreeRtosSync` and `WebSocketsServer` are shown to
implement their abstract specifications.

### Input: `ButtonInput`, `HomeKeyInput`, `TouchInput`

The three modules share the shape of a frame. `phase` says where the main
thread is: in the firmware's `loop()`, polling SDL's queue in `update()`, in
the rest of `update()` (schedule, holds), or at the boundary where
`beginFrame()` runs. The firmware calls `update()` as often as it likes in one
frame. Polling is modelled one event at a time, since levels are read and
events pushed by other threads in between; `toPoll` is the number of events
`update()` is sure to take, those queued when it began (SDL marks the end of a
poll; older versions go on until the queue is empty, and both are allowed).

`ButtonInput` follows two strip keys, the keyboard, the schedule and the S
shortcut into `pressed`, `released`, `synthDown` and `releasePending`.
`buttonDownFrame[b] == inputFrameCounter` is the boolean `downThisFrame[b]`;
at start both counters are 0, hence its initial value. `finger` and `seen` are
what the user does and what the firmware believes from the edges of complete
frames; the properties relate the two through the queue and the latches.

`HomeKeyInput` adds time: ages are counted in ticks up to the long press
threshold, the only comparison made. `report` remembers how the press was
reported.

`TouchInput` keeps positions of one axis in panel pixels and multiplies the
slops out exactly as the floating point code does (divide by 799, multiply by
800). Time passes while the firmware runs; a tick stands for 250 ms, so that a
long press is 2 ticks and the longest swipe not quite 3. A contact event
carries the time it is polled, as in the code. `sources` is what touches the
panel in a session, with `"windowless"` if the window an event of a finger names
may be gone, so that the finger has no position (`fingerToLogicalNormalized()`
returns false) and only the tracking of the finger goes on. `Bounds` says how
far each kind of session goes; TLC starts once from each.

### `PanelPresent`

One action for each step another thread can see between: taking the render
lock (the firmware's; the HAL relies on it), the snapshot of the gray base,
the copies of planes, the two halves of writing the pixels under
`pixelBufMutex`, taking the present flag, the two halves of the copy to the
texture, the panel screenshot, and `SDL_RenderPresent()`. An image is the
number of the frame its base, LSB and MSB planes were drawn in. The main
thread can draw too: `displayBuffer()` presents at once when it is called
there.

### `AppLoop`

Only the main thread acts, so an `update()` is one step. `SleepScript` and
`SleepPoll` are the two halves of a round of `startDeepSleep()`. `Reboot`
replaces the process: memory is gone and the environment decides the schedule
and the wake reason, or `execvp()` fails and the process ends. `level` is the
synthetic level of Power; other buttons reach it only through events that deep
sleep drops. Schedules are sequences of numbered actions, of which any prefix
may be due.

### `FreeRtosSync` and `SyncObjects`

What a task does under an object's `std::mutex` is one step. The recorded
holder of a mutex is read without it, so the writes around the lock are steps
of their own, and so is `notify_one()`, which is called after the lock is let
go. Condition variables wake for nothing, too. `SyncObjects` has one mutex, one
token and one counter per task, each operation in one step; the refinement maps
a waiting task to one that asks (or naps). The recorded holder is not in it:
what a task reads there is the subject of the theorem `HolderTellsTheTruth`.

### `WebSocketsServer` and `ClientSessions`

The firmware's thread, the accepting thread and one thread per connection; what
runs under one lock is one step. A connection is named by its descriptor, which
the next one may be given again, and a client by its number, likewise.
`ClientSessions` is the callback's view: a client is met, heard from in order,
and gone, and only then may its number mean another.

### `WebServer`

The worker's reading of a request in pieces, the raw handler called per piece,
the upload handler called part by part once the body is whole, and what of it
stays in the members `resetRequest()` clears. `client` tags what a request
brought, so that arguments and lengths of an earlier one can be recognised.

### `Storage` and `FileTransfer`

A card is a function from paths to nodes; each operation of `HalStorage` is
what becomes of the card and what it returns, also when it fails half way. `Entries`
lists a directory in `readdir()` order, which `Order` fixes; `IsCard` says what
a file system can hold.
What clients may ask is in `Requests`, one set per handler (`AskMove`,
`AskUpload`, ...); the methods in lower case are the page's own.
The worker serves one request: rename, remove and mkdir are steps as in the
handler, a copy is walked entry by entry, a file's write is split by the
truncation at its beginning. A fault is a write that comes out short or, in a
copy, a source that does not open, a listing that ends or skips a child early
(`Heard`), or a block that cannot be read; `cut` remembers the last two kinds,
which the code does not report. An answer is one step, at whose place
(`Streaming`) the worker may stay for ever, since the client may stop reading.
The firmware reads (size, then bytes) and walks a directory, closing and
resuming it.

### `HttpFetch`

A body is a sequence of blocks tagged with the resource and its place, so that
a block of another request or one delivered twice shows. Transport outcomes:
whole, cut short (curl's exit code tells of it, but is looked at only when there
is neither a status nor a body; NSURLSession hands out no such body), an error
page, none. The sink may refuse, with or without a `rewind`.

### `LibraryFolder`

`card` has, for each card, which spellings of the system folder exist, where
the state was written and where the user put a file; `app` is the process
(root path, scope, `g_resolved`), `bookmark` survives it. The system may end
the app and a folder may go away and come back at any moment. Scene, window and
blocks on the main queue are the way to the picker and to the keys.

### The pure modules

Texts are sequences of bytes, the coordinates whole numbers or half pixels,
floats the fractions they stand for with what the conversion may lose. Each
module gives the functions of the code, `Conversions` and `Platform` a
reference definition: encode and decode, a frame after RFC 6455, digests of
FIPS 180-4, the pixel that is shown, a file that is only the entry, the same
board out of three tables, a clock that counts on. `ScreenGeometry` also lays
out the key strip, with the gutter of a phone, and draws its keys: each glyph
lies within its key, no two look alike, and the key that is touched is the one
that is drawn filled.

## 3. What is checked

Twelve runs; all of them pass.

| Run | Instance | Distinct states | Shows |
| --- | --- | --- | --- |
| `buttons` | 2 strip keys, Power also on keyboard, schedule and S; 3 queued events | 306 000 | `FingerAccounted`: the level is the last word of the finger, less what is queued or held back. `PressSpansFrame`: a press seen in a frame is down to its end. `EdgesTellLevel`: the edges alone give the level. `EveryReleaseSeen`: each release reaches the firmware in the end |
| `home_key` | strip alone, and all sources; long press of 2 ticks; 3 queued events | 27 000 | `OneReportPerPress` under all sources; `HoldBecomesLongPress` |
| `touch` | 2 fingers, mouse with strip, or finger with schedule and a window that may be gone; with a backlog of 5 events in the first; positions 0, 29, 100; 3 times | 1 276 000 | `ContactsWhole`, `TapOrSwipe`, `StripPressIsNotTouch`, `ContactEnds` |
| `panel` | render task and main thread, 2 drawings, 2 screenshots | 219 000 | `NeverTorn`, `PlanesMatchBase`, `LastFrameShown` |
| `app` | schedules before and after the wake, phone, 2 queued events | 83 000 | `CarriedOverOnce`, `QuitEnds`, `ButtonKeyWakes` |
| `sync` | 3 tasks, nesting of 2, 1 notification | 155 000 | `ImplementsSyncObjects` |
| `websockets` | 2 descriptors, 2 numbers, 3 connections, 1 message | 533 000 | `NumberReachesClient`, `QuietAfterClose`, `CloseEnds`, `ImplementsClientSessions` |
| `webserver` | 9 kinds of request on 3 routes and a raw handler, 3 requests, bodies to 2 chunks and too large | 5 000 | `RawBodyWhole`, `UploadsWholeOrNone`, `EachAnsweredForItself`, `StopEnds` |
| `transfer` | 4 cards, every request on 5 paths, one of them changing the card, 1 fault (a short write or a failing read) | 353 000 | `MoveKeepsSource`, `CopyWhole`, `ReadsRealBytes`, `WalkAccounts`, `ProtectedKept`, `StopReturns` |
| `fetch` | 2 resources of 2 blocks, 3 requests, each client, both platforms | 7 600 | `BodiesExact` |
| `library` | Documents and a folder, 2 scenes, 2 launches, 2 picks | 285 000 | `CardKept`, `KeysAppear` |
| `conversions` | some 206 000 inputs, one step each | 206 000 | `FormsRoundTrip`, `FramesRoundTrip`, `TouchFindsPixel`, `ScheduleLetsGo`, `WindowIsAFile`, `PlatformAgrees` |

Each property has a comment that states it. What the properties leave out,
because the code does not do it, is in section 5.

### Bounds

- *Queues* of keys hold up to 3 events. Three strip events are enough for a press, its
  release and the next press to be pending at once, which is the longest chain
  the held back release depends on; the proofs have no such bound on the
  events in flight other than being finite.
- *Buttons*: the latches of two buttons never influence each other except
  through the queue; two keys, one of them with every other source, show it.
- *Contacts*: two fingers alone (`FingersOnly`) have 5 events on the way or
  waiting to be applied, so that a whole contact of either waits, with moves
  that are taken together, when a finger is already gone, and another begins
  behind it. Distance and time, which do not matter to that, vary in the other
  two sessions, with 1 event on the way; `TapIsNoSwipe` and
  `ContactsComeWhole` have no bounds.
- *Positions* are one start and one position beyond each threshold
  (28 < 29 < 59 and 100 > 60).
- *Time* stops after the ticks needed to pass each threshold once.
- *Drawings*: two, so that a frame can overtake or mix with another.
- *Schedules*: sleep, press and release before the wake; sleep and quit after.
- *Reports*: the firmware stops asking for the wake reason after two positive
  answers, one more than is right.
- *Tasks*: three, so that two wait while one gives; nesting of two tells a
  recursive take from a first one.
- *Connections*: three over two descriptors and two numbers, so that each is
  used again while the former client is not yet forgotten, and all numbers can
  be taken at once.
- *Requests*: three in a row for the state that outlives one; bodies on both
  sides of the chunk (2 units), the buffer (3) and the limit (4).
- *Cards*: four, which stand for the requests that would have led to them;
  paths of two names reach files, directories and entries within directories.
  Two requests that both change the card are therefore not explored. One fault
  is enough for each way to fail.
- *Fetches*: three requests are a failure, a retry and a use afterwards.
- *Launches and picks*: two each, a choice and its change across a relaunch.
- *Inputs* of `conversions`: names of one or two bytes out of those some escape
  treats apart (line ends and control characters among them) and a few longer
  ones; payloads on both sides of every length that is written differently, and
  lengths of 64 bits up to and past the code's limit of 256 MiB, whose payloads
  are not written out; digests on both sides of a block; every pixel of
  a small panel in all orientations; scripts of up to two items, in all orders
  the sort allows; every window on a container of four bytes with up to two
  operations; every build flag.

Deadlock is not checked where the system may stop: a process that has quit, a
bounded number of connections, requests or fetches that is used up, and an
input that was converted.

### Fairness

The main loop calls `loop()` again and again and the firmware's `loop()` calls
`update()` and returns, so the steps of a frame are fair: weakly where they
stay possible (`EndPoll`, `EndUpdate`, `BeginFrame`, a poll of an event that
was queued at the start), strongly where the firmware chooses between several
(`BeginUpdate`, `EndLoop`, `Update`). In `PanelPresent` a task that started to
write finishes, and the main thread gets the mutex in the end, since tasks
release it after each frame (`SF` on `CopyTop`). In `HomeKeyInput` the clock
runs. In `FreeRtosSync` a woken task runs and a deadline passes; no task must
give anything. In `WebSocketsServer`, `WebServer` and `FileTransfer` threads
run, a receive ends within its five seconds, and the firmware finishes a
`close()` or `stop()` that it began, and calls `loop()`. The worker of
`FileTransfer` is fair except while it sends (`~Streaming`): its socket has a
timeout for what it receives only (`CrossPointWebServer.cpp:993-995`), so a
client that stops reading holds it. In `LibraryFolder`
the main queue runs its blocks. No user, finger, schedule, peer or host is
fair.

## 4. What is proved

TLC checks a small instance; the theorems hold for every value of the
constants. Each proof module ends in theorems of the form `Spec => []P`, from an
inductive invariant that its first section states, conjunct by conjunct, with
what each says of the code. What a run checks and a theorem states:

| Module | Theorem | Property | For any |
| --- | --- | --- | --- |
| `ButtonInputProofs` | `LevelFollowsFinger` | `FingerAccounted` | buttons, sources, length of the queue |
| | `PressIsHeldForTheFrame` | `PressSpansFrame` | |
| | `EdgesAreTheLevel` | `EdgesTellLevel` | |
| `TouchInputProofs` | `ContactsComeWhole` | `ContactsWhole` | fingers, positions, times, length of the queues |
| | `TapIsNoSwipe` | `TapOrSwipe` | slops and thresholds too |
| | `StripKeepsItsPress` | `StripPressIsNotTouch` | |
| `PanelPresentProofs` | `ShownWhole` | `NeverTorn` | tasks, drawings, screenshots |
| | `ShownPlanesFit` | `PlanesMatchBase` | |
| `AppLoopProofs` | `UsedOnce` | `CarriedOverOnce` | schedules, sleeps |
| `FreeRtosSyncProofs` | `Implements` | the safety part of `ImplementsSyncObjects` | tasks, depth, notifications |
| `WebSocketsServerProofs` | `NumberLeadsToClient` | `NumberReachesClient` | descriptors, connections, messages |
| | `NothingLeftBehind` | `QuietAfterClose` | |
| | `Implements` | `ImplementsClientSessions` | |
| `FileTransferProofs` | `MoveIsWhole` | `MoveKeepsSource` | cards, names, requests, contents, depths, failures |
| | `CopyIsWhole` | `CopyWhole` | writes and reads that fail, too |
| | `ProtectedIsKept` | `ProtectedKept` | |
| | `ReadIsReal` | `ReadsRealBytes` | |
| | `WalkIsAccounted` | `WalkAccounts` | |
| `HttpFetchProofs` | `NothingButTheBody` | `BodiesExact` | resources, sizes, attempts |

Each module also proves `TypeCorrect`, and some say more than a run checks:
`FirmwareSeesAlternation` and `EdgesStayLatched` (edges of a strip key take
turns, and only the boundary lowers them), `PixelsGuarded` (one thread at a
time writes the pixels, none while they are copied), `HolderTellsTheTruth` (the
holder that is read without the lock tells a task between two calls whether the
mutex is its own) and `NobodyBargesIn` (an action property: the mutex changes
hands only through being free).

### The arguments

- *Buttons.* `FingerAccounted` is inductive with the types: the strip events of
  a key waiting in the queue alternate, begin with the opposite of the settled
  level (the level less a release held back) and end with what the finger does;
  pushing appends the finger's next change, polling consumes the first. The
  edge properties are not inductive alone: `InFrame` adds that within a frame
  the edges so far, on top of the belief of earlier frames, give the level, and
  that a press latched means pressed in this frame and still down.
- *Touch.* `ContactsWhole` is almost inductive: what is put in the deque goes
  on where it ends, because the finger that is followed tells whether it ended
  in a contact; `FingerHost` keeps other kinds of events out. For `TapOrSwipe`
  the invariant `Sound` says what the flags of a contact stand for: one that is
  not beyond the release slop is not far enough for a swipe, one that is, is
  beyond the tap slop too, and a long press was held as long. For the strip, a
  history of the button's level along the queued events (`ButtonLevels`) shows
  that presses and releases take turns.
- *Panel.* `RenderLock` and `PixelLock` say who holds the two locks at each
  place; with them the pixels are whole unless their writer is half way, and
  the texture is whole unless it is being copied from whole pixels. For the
  planes, `PlanesOfThisDrawing` adds that past its base a drawing leaves nothing
  of another frame in them.
- *Lifecycle.* What this process and the next have left to run are disjoint
  from each other and from what was run (`Carried`), and the wake is either in
  the environment and not yet told of, or not in it (`Wakes`).
- *Mutex.* Between `lock()` and the count, and between the count and
  `unlock()`, the recorded count is one behind the depth and the holder may not
  be named: `CountFollows` and `OwnerNamed` say exactly when. The refinement
  takes each step of the shim to one of `SyncObjects` or to none.
- *WebSockets.* Each connection has a serial of its own; the table holds a
  client under the number it has, and until `close()` clears it all of them
  (`TableTrue`); an event bears the number and serial of the connection it is
  about (`EventsTrue`). For the refinement, `Promising` says that the queued
  events, told one after the other, lead the callback from what it knows to
  what the threads know. It is proved by giving those views one by one.
- *Files.* A rename or a copy changes the path a tree hangs from and keeps what
  is below, so trees are compared by the rests: `SameAt` says that two cards
  hold the same below two paths, and the properties' `Stored` trees are equal
  when it does. Six invariants build on one another.
  `TypeInv`: the card stays one that a file system can hold, a file is half
  written and a copy pending only within a request, and the firmware has one
  file open at most. `GotInv` keeps what was read a beginning of what the file
  held. `MoveInv`: until a MOVE is carried out the source is as it was when the
  request came, also once the destination was removed; the answer is then that
  of `rename()`. `GuardInv`: what lies outside protected names holds no hidden
  block, and neither do the request, the file being written and the answer;
  without it a copy or a rename of an earlier request could bring a protected
  block to a name that is served. `CopyInv`: what stands at the destination is
  what the source shows (`Faithful`), what is queued are pairs of source and
  destination (`Queued`), and all the rest of the source is at the destination or
  below something queued (`Covered`) unless something could not be read (`cut`),
  so that with an empty queue the copy is whole; a file being written lacks exactly the blocks still to come.
  `WalkInv` counts entries up to the one that came last: as long as nothing was
  removed at least as many as the position says, as long as nothing was added
  at most as many, and `seekSet()` comes back to that place or on the safe side
  of it.
- *Downloads.* `Downloading` says what the sink holds at each place of
  `fetchResumable()`; `OneBody` that what was read and what is left are the
  body; `Honest` that on iOS a status of 200 comes with the whole resource.

### The assumptions

The constants are what their declarations say they are (`ButtonAssumption`,
`TouchAssumption`, `PanelAssumption`, `AppAssumption`, `FreeRtosAssumption`,
`WebSocketsAssumption`, `NamesAssumption`, `TransferAssumption`,
`FetchAssumption`; for TLC's modules also `PayloadAssumption` and
`OffsetAssumption`, which keep numbers within TLC's): sets of the right kind, bounds that
are numbers, and a value for "none" outside of the set it is used with. Four say
more:

- `SlopAssumption`: what a tap may drift while it is held is no more than what
  its release may, and that is less than the shortest swipe. In the code they
  are 28, 59 and 60 pixels.
- `EnoughNumbers`: at most as many connections at once as client numbers. The
  code has 256, and does not refuse the 257th client; section 5 says what it
  does.
- `CardsAssumption`: a card before the server begins is one that a file system
  can hold (every entry but the root is in a directory, no path is longer than the
  host allows), the firmware has nothing open, and the blocks called hidden are
  in protected files only. The last names the secrets: with `TransferAssumption`,
  which has no client send such a block, it says where they came from.
- `NumberedApart`: the numbers by which the model tells scheduled actions apart
  are different. It is a convention, the code has no numbers.

### What stays with TLC

- Liveness under fairness, and with it the fairness that `SyncObjects` asks for:
  out of the prover's reach.
- `StopReturns` of the file server, for the same reason; its five safety
  properties are proved.
- `WebServer`: what it says of bodies is said of sums over the parts of a body,
  which are folds, and what a fold computes for every input needs induction over
  data.
- `LibraryFolder` and `HomeKeyInput`: not proved, though nothing in them seems out
  of reach. They speak of one root path and of one key, and their runs take every
  order of events on them, so a larger instance would add more cards, sources and
  time rather than other situations.
- `Conversions`: functions over data of any length, some of them bitwise.

## 5. Where the code and its documents differ

Found while modelling; the models do what the code does, and the properties are
stated so that they hold of it.

Input and presentation:

- `SimulatorInput.h:16-19` has `tick()` keep "a very fast tap" a press frame
  and a release frame. The held back release of Home is timed when `tick()`
  delivers it (`HalGPIO.cpp:307`), so after a press frame of 700 ms or more
  there is no tap.
- `HalGPIO.cpp:101-105` stamps contacts "when the contact actually happened";
  line 802 takes the time of the poll, so that a quick swipe around a render is
  dropped.
- `HalGPIO.cpp:49-50` has a release stop being a tap only once it is far enough
  for a swipe; 59 pixels measure 59.07 (positions are divided by 799 and
  multiplied by 800), too far for the one and too near for the other.
- `HalGPIO.cpp:813-820` ends the following of a finger that is lifted, and the
  contact only if its window is still there (155-158); otherwise the panel
  stays touched until the next contact. `ContactEnds` is about fingers in a
  window.
- A script coordinate of exactly 1 is taken as the fraction 1.0 (lines
  342-346), so pixel 1 cannot be named.
- `README.md:490` has "any mapped simulator key" wake the device; H, S and the
  strip do not (`HalGPIO.cpp:1072`).
- `HalGPIO.h:61-62` has the background last until the app is in the foreground
  again; the loop that waits in the background polls nothing
  (`simulator_main.cpp:25-26`), so it never ends, and in deep sleep the event
  that begins it is dropped (`HalGPIO.cpp:1066`).
- `SimulatorOnScreenControls.h:13` has the strip "always on for iOS";
  `enabled()` returns false there (`.cpp:185`).
- `BoardConfig.h:155-159` has every board at 800x480; the X3's panel is
  792x528.

Storage and servers:

- `HalStorage.h:39-40` promises the bytes of the file; when it shrinks between
  the two calls `readFile()` pads with NUL (`HalStorage.cpp:498-506`).
  `readFileToString()` does not (`ReadsRealBytes`).
- MOVE onto the source itself or a directory above it removes it first, and a
  COPY into its own subtree copies what it makes (`CrossPointWebServer.cpp:938`,
  409). `MoveKeepsSource` and `CopyWhole` leave these out.
- A COPY whose source cannot be read to the end is answered as done: a block
  that cannot be read ends its file (`CrossPointWebServer.cpp:448-451`), and a
  child that cannot be opened ends the listing as if it were the last
  (418-434, `HalStorage.cpp:383-385`). `CopyWhole` then has a beginning of the
  source at the destination and nothing else; what is missing nobody is told.
- `stop()` joins the worker (`CrossPointWebServer.cpp:1067`), which may be
  sending to a client that has stopped reading: `sendAll()` (193-203, 711-718)
  waits without a timeout, as only the receiving one is set (993-995).
  `StopReturns` has `stop()` return or the worker stay at that place for ever.
- The page puts names into its buttons with `js()`
  (`CrossPointWebServer.cpp:646`), which leaves line ends, and what ends or is
  decoded in an attribute, as they are (654-659): the buttons of a name with a
  LF, CR, quote or `&` may be a syntax error or mean another name. The XML of
  WebDAV leaves control characters as they are, which XML does not allow.
  `FormsRoundTrip` leaves such names out of these two places.
- Names with `+` or `%` followed by two digits are decoded twice on the way to
  download, rename and WebDAV, DELETE decodes once, and listings do not encode
  (lines 465-481, 799, 902): such a name does not come back. `README.md:593-596`
  makes no exception.
- The boundary's text within a file's data ends the part in the firmware's
  server (`WebServer.cpp:250`), with or without the CRLF before it.
- `semphr.h:43-45` says that "nothing frees a handle in this shim (there is no
  vSemaphoreDelete)" and that the base therefore needs no virtual destructor;
  line 133 defines it, deleting through the base.
- `ulTaskNotifyTake` says "clear-on-exit" (`task.h:51`) and decrements by one,
  waiting for ever whatever the timeout.
- With 256 WebSocket clients connected, the next one is given the number of
  another (`WebSocketsServer.cpp:283-294`), which `sendTXT()` then no longer
  reaches: hence `EnoughNumbers` in section 4.
- A WebSocket client that says nothing for five seconds is disconnected, and
  frames that continue a message are dropped (`WebSocketsServer.cpp:77`, 430).

Downloads:

- `ResumableFetch.h:10-12` promises a complete download or an error. With curl
  a body cut short is complete: its exit code is not looked at once there is a
  status or a body (`SimHttpFetch.h:229-230`). `BodiesExact` has the sink hold
  the whole resource except for exactly these bodies, and then what came; on
  iOS there is no exception.
- `resolveUrl()` looks for the last slash in the query too
  (`SecureHttpClient.h:88`).

iOS folder:

- `SdSystemDir.h:14-15` has the folder probed "after the card is mounted";
  `g_resolved` is kept for the process, so on a card picked later the state
  goes under the former card's spelling, where the next launch may not look.
  `CardKept` leaves out the cards that were picked after the probe.
- `README.md:219-220` has the app fall back to Documents when the folder
  disappears: that is so from the next launch on (`sim_ios_platform.m:88-91`).
- `sim_ios_platform.m:27-28` has access "never stopped"; lines 141-142 stop it
  for the folder that was picked before.

## 6. Not modelled

- Held times of buttons, which read the same levels.
- When the strip draws its highlight, which needs strip, queue and present path
  in one state space; what it draws is in `ScreenGeometry`.
- What can race in C++ but is written by one thread at a time under the
  firmware's render lock (gray base and planes, `inverted`), and the frame
  buffer that the firmware borrows.
- Calls of the host that fail elsewhere than in a copy: a listing, or a read or
  walk of the firmware, that ends early; the calls by which an entry is removed;
  the temporary file through which curl's answer comes.
- In the WebSocket server, the moment between looking up a client's descriptor
  under the lock and using it outside (`clientFd()`): they are one step.
- Creating and deleting tasks and semaphores: the handle is stored after the
  thread has started, and deleting an object in use is undefined; the firmware
  must not do it on the device either.
- The PSRAM pool taken by two tasks at once, and the root path written by the
  picker while a server thread reads it (`HalStorage.cpp:36`): data races whose
  outcome the host decides.
- Vendored code (`stb_image.h`, taken as a function of the bytes), calls into
  curl, CommonCrypto and wolfSSL, options that are only stored, constant stubs,
  build scripts. `PROJECT.json` lists every component and what is left out.

## 7. Plan

1. *Done*: the input core, the panel, the lifecycle; proofs for `ButtonInput`.
2. *Done*: the FreeRTOS shim and the WebSocket server with their abstract
   specifications; the web server; the file server over the card; downloads;
   the iOS folder; the pure parts and the stand-ins.
3. *Done*: proofs for the panel, the touch input, the lifecycle, the FreeRTOS
   shim and the WebSocket server with their refinements, and the downloads.
4. *Done*: the file server's safety properties over any card.
5. What is left: the web server's bodies, whose proof needs lemmas about the
   sums of a sequence; the folder and the Home key, whose inductive invariants
   are small; the two tasks that take PSRAM at once, once the code says what
   should become of them.
