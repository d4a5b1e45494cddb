# Verification of the Xibo digital-signage client

This directory holds TLA+ specifications of the Xibo client kept in this
repository, the TLC configurations that check them, and proofs checked by
TLAPS. The repository is a distribution of Xibo for ARM boards: the Python
client (`pyclient/client/python`), the media engine it drives (`libavg`), the
browser renderer it embeds (`berkelium`, `berkelium-browsernode`), the CMS it
talks to (`pyclient/server`) and two further clients (`client/dotNET`,
`client/offline`). The Python client is the program that runs on the board. It
is one process of a dozen threads that share objects, semaphores and timers,
and nearly everything that can go wrong in it is a matter of their order. It is
what this project models first. What it stands on, the player, the queues, the
video decoder and the touch input of libavg, is modelled next to it.

## The system's parts

| Part | State | Operations | Talks to |
|---|---|---|---|
| `XiboDisplayManager` | current layout manager, scheduler, downloader, XMDS, switch watcher | `run`, `nextLayout` | creates every other thread; called by layout managers |
| `XiboLayoutManager` (one thread per layout shown) | region list, `expiring`, `nextLayoutTriggered`, `hold`, two locks | `run`, `regionElapsed`, `regionDisposed`, `dispose` | regions; `DisplayManager.nextLayout` |
| `XiboRegionManager` (one thread per region) | `regionExpired`, `disposing`, `disposed`, `oneItemOnly`, semaphores `lock` and `tLock`, previous and current media | `run`, `next`, `tNext`, `dispose`, `disposeTransitionComplete` | media, transition and effect plugins; layout manager; player timers |
| media, transition, effect plugins | node names, options, own semaphores | `add`, `start`, `dispose`, `run` | player queue, region callbacks |
| `XiboPlayer` | command queue, `uniqueId`, current frame handler, lock | `enqueue`, `frameHandle`, `keyDown`, `nextUniqueId` | libavg, on the main thread |
| `XmdsScheduler` | layouts, schedule, pointer, tag, lock, timer | `run`, `collect`, `nextLayout` | XMDS, display manager, switch watcher |
| `XiboLayout` | parsed layout, `canRun`, `isPriority` | `canRun`, `isPriority` | scheduler |
| `XiboDownloadManager`, `XiboDownloadThread`, `XiboFile` | queue, running downloads, `md5Cache`, timer semaphore | `run`, `collect`, `dlThreadCompleteNotify`, `updateInfo`, `updateMediaInventory`, `downloadMedia`, `downloadLayout` | XMDS, the library directory |
| `XMDS`, `XMDSOffline` | `checkLock`, `hasInitialised`, service proxy | `check` and one method per service call | the CMS |
| `SwitchWatcher` | stack of lifts, debounce counters, `activeLift` | `run` | parallel or serial port, scheduler's tag, current layout |
| `TicketCounter` | counter value, pending triggers | `run`, fade timers | player OSD |
| `XiboLog`, `XiboLogXmds`, `XiboLogXmdsWorker` | log and statistics queues, documents on disk | `log`, `stat`, `process`, `flush` | XMDS |
| libavg `Queue`, `WorkerThread`, `CmdQueue` | a deque, one mutex, one condition | `push`, `pop`, `peek`, commands | every thread of libavg |
| libavg `Player`, `Timeout`, `Signal`, `Anim` | two lists of timers, listeners of a signal, running animations | `handleTimers`, `setTimeout`, `clearInterval`, `emit`, `start`, `abort`, `play`, `stop` | Python callbacks on the main thread |
| libavg `AsyncDemuxer`, `VideoDemuxerThread`, `FFMpegDemuxer` | packet queues, cached packets, end-of-file flags, seek marks | `getPacket`, `seek`, destructor | both decoder threads, the file |
| libavg `VideoNode`, `AsyncVideoDecoder`, `VideoDecoderThread`, `AudioDecoderThread` | frame and audio queues, flags in three layers | `play`, `pause`, `stop`, `seekToTime`, `preRender`, `fillAudioBuffer` | player, audio engine, demuxer |
| libavg `TUIOInputDevice`, `TouchStatus`, `EventDispatcher`, `Contact` | touches by identifier, contacts, listeners, nodes under each cursor | `processSet`, `processAlive`, `pollEvents`, `handleCursorEvent`, `connectListener` | UDP packets, nodes' handlers |
| berkelium | windows, navigation entries, IPC | load, navigate, paint | browser node |
| CMS `XMDSSoap` | displays, required files, nonces | one method per service call | clients |
| .NET client, offline downloader | their own schedule, cache and file collector | | CMS |

How one layout follows another: the display manager starts a layout manager for
the splash screen; that starts one region manager per region; each shows its
media one by one, woken by timers that the player runs. When every region has
gone round once the layout is expired, its regions are disposed, and the thread
that finds the last of them disposed calls `DisplayManager.nextLayout`, which
asks the scheduler for a layout and starts its manager. Key presses, lift
switches and the end of the registration interfere from other threads.

## What is hard

* Flags read outside a lock and acted upon inside it (`regionElapsed`,
  `regionDisposed`), and flags set by threads that take no lock (`hold`,
  `disposing`, the scheduler's tag).
* Semaphores used as wake-up signals, which remember a release nobody waited
  for.
* Timers that are armed once and not armed again on every path.
* Exceptions between `acquire()` and `release()`.
* Lists that grow while another thread walks them.
* Files rewritten in place, and read back after a restart.
* Seeks that overlap reads: marks in queues that must be received by the side
  that waits for them, once (libavg's demuxer and video decoder).
* Threads joined while they may be waiting for room in a queue.
* Lists walked while the callbacks they call change them (timers, signals,
  contact listeners).
* Packets of a tracker that get lost, and identifiers it gives again.

PROJECT.json lists each of these at its line, with the property that covers it.

## The modules

| Module | Stands for | Uses |
|---|---|---|
| `LayoutExit` | one layout's life on the screen: `XiboLayoutManager`, the exit half of `XiboRegionManager`, the callers outside the layout | `LayoutLife` as its abstraction |
| `LayoutLife` | what a layout promises the display manager | |
| `LayoutExit_proofs` | theorems about `LayoutExit` | `LayoutExit` |
| `RegionLoop` | one region's media loop with both of its semaphores, timers and transitions | |
| `RegionLoop_proofs` | theorems about `RegionLoop` | `RegionLoop` |
| `PlayerQueue` | `XiboPlayer.enqueue` and `frameHandle` | |
| `XmdsScheduler` | `XmdsScheduler` and the `XiboLayout` objects it keeps | |
| `XmdsScheduler_proofs` | theorems about `XmdsScheduler` | `XmdsScheduler` |
| `Downloader` | `XiboDownloadManager`, `XiboDownloadThread`, `XiboFile`, `cache.xml`, `rf.xml` | |
| `Downloader_proofs` | theorems about `Downloader` | `Downloader` |
| `SwitchWatcher` | `SwitchWatcher` beside `XiboDisplayManager.nextLayout` | |
| `SwitchWatcher_proofs` | theorems about `SwitchWatcher` | `SwitchWatcher` |
| `Queue` | libavg's bounded queue: mutex, one condition, `notify_one` | `AtomicQueue` as its abstraction |
| `AtomicQueue` | what a queue promises the threads that share it | |
| `Handover_proofs` | theorems about `PlayerQueue`, `Queue` and `TouchInput`, where threads hand something on | these three |
| `AsyncDemuxer` | libavg's threaded demuxer with the flags and the seek of `FFMpegDecoder` around it | `PacketSource` as its abstraction |
| `AsyncDemuxer_proofs` | theorems about `AsyncDemuxer` | `AsyncDemuxer` |
| `PacketSource` | what a demuxer promises the decoder threads | |
| `AsyncVideo` | a video on screen: `VideoNode`, `AsyncVideoDecoder`, both decoder threads, the audio callback | |
| `TouchInput` | touches from the packets of the tracker to contacts, listeners and nodes | |
| `PlayerFrame` | the player's timers, animations and its frame, with scripts in every callback | `TimerService`, `AnimService` as its abstractions |
| `TimerService`, `AnimService` | what the player promises about timers and about animations | |
| `Playback_proofs` | theorems about `AsyncVideo` and `PlayerFrame`, what scripts set going | these two |
| `MC...` | values of the structured constants for TLC | the module they are named after |

The modules meet where the code does: `PlayerQueue` relies on the frame handler of
`PlayerFrame`; `AsyncDemuxer` and `AsyncVideo` use queues whose calls are one step,
which `Queue` shows of the real one; a read of `AsyncVideo`'s lower decoder is one
step, which stands on `AsyncDemuxer`. `RegionLoop`'s timers are those of `PlayerFrame`.

A thread of the program is a program counter (`pc`, `cpc`, `dpc`, `fh`), and a
step of a thread is the code between two points at which another thread can make
a difference: an acquire that may block, a write of a shared flag, a release, a
call of XMDS or of the file system. A `threading.Semaphore` is a number, since
several of them are released more often than they are acquired; the two layout
locks, which always pair, are the name of their holder.

### LayoutExit

`built` is the length of `self.regions`; a region's flags are functions on
regions. `Construct`, `StartRegion`, `AppendRegion` are the loop of
`XiboLayoutManager.run`, in the order of the code: the region's thread runs
before the region is in the list. `ScanExpired`/`LockExpired` and
`ScanDisposed`/`LockDisposed` are the two halves of `regionElapsed` and
`regionDisposed`: the flags are read outside the lock and acted upon within. The
scan is one step, because the flags it reads never go back. `Dispose`, `Complete`,
`Unlock` are `dispose` and `disposeTransitionComplete`; an exit transition makes
them run in a thread of their own. `dispose` hands it `previousMedia`, which from a region's
second media on may name one that is deleted already (`StalePrevious`): the transition is then
`stuck`, as its command raises on the player's thread and nobody calls back. `RunFails` is an exception
in `run`, which ends the layout's thread with the regions built so far.
`StartDispose` is a key press or a switch. A region's media are one wait per round:
`RegionLoop` has the whole.

`LiftHold`, `CallSplash` and `CallSuccessor` are the end of `XiboDisplayManager.run`. It reads
`currentLM` once to lift the splash layout's hold and once more to call `regionDisposed`: in between
another thread may have handed over, and the call goes to the successor, whose region list may be
empty. The module is one layout, so the two ends of that call are two actions: `CallSplash` seen
from the splash layout (nothing, if that has handed over) and `CallSuccessor` from the one that replaces it.

`LayoutLife` says what the display manager counts on: regions leave one by one,
and when the last has left and nobody holds the layout it asks for the next one,
once. The mapping is `on <- regions not disposed, held <- hold, asked <- handovers`.

### RegionLoop

The media loop of one region: `lock` and `tLock` with every acquire and release
of them, `next` (`MediaEnds`), `tNext` (`TransitionEnds`), the exit of
`previousMedia` (`CleanUp`) and any number of disposals from outside and one from
the region's own `regionElapsed`. Transitions are matched (one plugin for both
media) or sequential, as in the code. A transition ends in time or only
after the region was disposed.

### PlayerQueue

`enqueue` is `Acquire`, `Put`, `Handler`, `Release`; `frameHandle` is
`FrameAcquire` to `FrameRelease`. `frameHandle` calls itself for the next command
after it has released the lock, so `depth` counts its frames and `MaxDepth` is
the recursion limit; a call too deep raises in the handler of the call before it,
which releases once more. `currentFH` is what the object believes, `installed`
what libavg has. Key presses come from the player's own thread, between frames.

### XmdsScheduler

A published schedule is a version of the server; `Ids`, `Schedule`, `Inside`,
`CanRun`, `IsPriority` are `XiboLayout` (the order of first appearance, the `fromDt`
that a date that cannot be parsed leaves as it was). `run()` is `XmdsAnswers` to
`Awake`, the disk copy is truncated and written in two steps. `nextLayout` is
`Call` to `Release`: the priorities are looked at once, every candidate later.
An exception in it leaves the lock taken (`raised`). With `ManualUpdate` the thread sets no timer
and only the `r` key wakes it (`Timers`); the run has it off, the theorems are for both. `steady`, `shifted` and `missed` are
history: layouts that could be shown all through a call, a change of priority
during it, turns a layout had a right to and did not get; such a change
during a call starts that count anew.

### Downloader

What a file holds stands for its checksum. A modification time is compared only
with the one recorded for the same file, so a record says whether it is still
current. A write makes it old, unless the clock of the file system has not ticked since
(the second half of `Write`). `Look` to `Decide` are one `<file>` node, with the two different rules for
media and layouts: `Look` tests file and record, `Read` takes the checksum, `Stamp` asks for the
time, `Decide` queues. Between `Read` and `Stamp` the thread of an overlapping round may delete or write the
file, or replace the record (`Displaced`); a record that joins the new time to the old
checksum is in `misread`. `Save` writes `cache.xml`, whose loop ends at the first expired entry it
deletes. `Crash` restarts the client on the library it left: `Loaded` reads `cache.xml`
back, which holds the hash a file should have, and the time to twelve digits, so that some
files (`rounded`) no longer have theirs and are read again. `trusted` is history: the files
for which that record was saved while they held something else, or that were written
twice in a tick.

### SwitchWatcher

`Poll` is one round over all switches, `Raise`, `AllOff`, `BackToLast` the stack
of lifts. Writing the tag and disposing the current layout are two steps, between
which the display manager (`Choose`, `Replace`, `Built`) may hand over. A `dispose()` of a layout
that is on its way out, or still held (`Release` ends that), does nothing. `exit` says what comes of disposing
of a layout: its regions are disposed and it hands over; the `dispose()` of one raises, which
ends the watcher's thread and leaves that region, hence the layout, on the screen for ever;
or an exit transition never reports back, with the same end. A layout without a background colour goes from
`building` to `ending`. The tag the scheduler starts with is written in the code, the watcher's
default is read from the configuration, and they may differ until the watcher first sets one (`tagged`).

### Queue

An action is what a thread does between taking and giving back the mutex, so that
`wait` is `WaitNotFull`, `WaitNotEmpty` and being in `waiting`. One thread
pushes, any number pop, try or peek, as in libavg. `AtomicSpec` says that the
threads cannot tell it from `AtomicQueue`, a queue without condition, whose
blocking calls happen in one step and are fair: the mapping forgets `waiting`.
`peek` notifies although it makes no room, which looks odd in the code and is
needed: it may have used up the wake-up of a `push` that another reader sleeps for.

### AsyncDemuxer

`Work`, `Mark` and the command actions are the demuxer thread. `Work` picks the stream
with the fewest packets queued (`reading`); `CachedPacket` takes its packet from the cache of
the decoder below, `ReadFrame` reads the file, which may give another stream's to
keep. `FileFrom` is the file's packets of a stream from a place on. `BeginRead` to
`Pop` the read of a decoder thread, `PushSeek` to `ResetFlags` the seek, `BeginClose` to
`JoinDemux` the destructor. A packet is its place in the file, so that order, loss
and repetition show. `Pop` is outside the mutex, as in the code: a seek can
overtake it, and then it may get a packet of the old position or meet a mark and
fail its assertion. A seek visits the streams by ascending index; either may be the lower
(`Seeker`): the run has video first, the theorems hold for both orders. `PacketSource` allows exactly that and nothing else;
`Rest`, the packets a stream is still to be given, is computed from queues,
caches, marks and commands and is the refinement mapping.

### AsyncVideo

Time is counted in video frames. The main thread is in a call of a script
or in a frame of the player (`PreRender` to `FrameEnd`); `mainPc` says where.
`WaitBegin`/`WaitPop` are `waitForSeekDone`, by main or the audio engine, which
hold `m_SeekMutex` meanwhile. `VWork`, `VPush`, `VCommand` and `AWork`, `AWait`, `APush`,
`AStop` are the decoder threads. A seek of the decoder below is two steps, `SyncSeek`, after which the
demuxer delivers from the new position, and `SyncReset`, which resets the flags: the audio thread may
read the end of the new position in between, and then waits in `getPacket` for a packet that
does not come (`AWait`, `EndLost`) until the next seek. The flags of the end of the file exist in the
decoder below (`syncVideoEOF`), in `AsyncVideoDecoder` (`m_bVideoEOF`) and in the node
(`nodeEOFPending`).

### TouchInput

`FingerDown`, `FingerMoves`, `ProcessAlive` are the packets that arrive; a
packet that is lost is one that is not taken, and one that is late or repeated
names identifiers that are gone. `PollEvents` takes one event of every touch.
Cursors are numbered as touches begin, `addTouchStatus` appends and `pollEvents` keeps the
order, so that the vectors `m_Touches` and `events` ascend by cursor: they are maps here, and
the event at hand is that of the least cursor.
Which nodes are under a cursor is chosen anew at every event, because handlers
move nodes. A callback is a state (`callback`, `deliver`) in which handlers
connect and disconnect listeners and delete nodes. `connected` and `over`
are history: what the users of a contact and the nodes have been told.

### PlayerFrame

One thread; `phase` says whether a loop of the player or a script runs. `Fire`,
`FireReturns`, `TimersDone` are `handleTimers` with both lists; `StepAnim`, `LastStep`,
`ListenerReturns` are `Signal::emit` with the iterator as an index that
an erasure moves like the iterator of a list. `Merge` is the loop that brings the new timers into
the pending ones. `TimersServed` maps the union of the
lists to the timers of `TimerService`, `AnimsStepped` the rest of the list to the steps
that `AnimService` owes.

`StartAnim` is `Anim::start` up to the start callback, in which the script goes on;
`starting` is the stack of animations whose start callbacks run. `StartReturns` is the rest of
`SimpleAnim::start`: the first step, or, for an animation without duration, or one that keeps its
attribute and is late, the end with its stop callback. `RemoveAnim` is what every end goes through.

A script may end an animation inside a callback of that animation's own (`endedOwn`), and then
the code steps an animation that has stopped, which `assert(isRunning())` in
`SimpleAnim::step` denies. If it was aborted in its start callback, `SimpleAnim::start` steps it when that
returns. If its stop callback, called from `emit`, starts it and aborts it again (or starts it
without duration), `connect` pushes the listener a second time, while the second `disconnect` sees the
current listener and only sets the flag that is set already: the second entry stays for the
next `emit`. `AnimsStepped` holds until then, and the model goes on past it, except for what a failed
assertion does.

## The runs

| Run | Module | Expected | Properties | What it shows |
|---|---|---|---|---|
| `layout_safe` | LayoutExit | pass | HandoverOnce, HoldRespected, TransitionOnce | One outside disposal and the end of the hold at any time, also while the layout is still being built, with an empty region, an invalid one whose dispose() raises, and a layout without a background colour: the screen is handed over at most once, never while on hold, and a region has one exit transition; a layout without a background colour that the display manager takes for the splash layout hands over twice, and no other one does. |
| `layout_live` | LayoutExit | pass | TypeOK, ExpiredWhole, LifeSpec, HandsOver | Built in time, with valid regions, a layout implements LayoutLife, expires only when every region has, and hands over once its hold is lifted, whichever of the hold and the regions ends first, unless an exit transition of it was given a deleted media and never reports back. |
| `region_safe` | RegionLoop | pass | Alone, AtMostOneLate, FullTime, TransitionFirst, LeavesMedia | Three media with a matching pair of transitions, a lone exit and a lone entry, disposed by two others and by the region itself: each media item has its full time alone on the screen, after its transition, and a disposed region is not left waiting for a media item. |
| `player_safe` | MCPlayerQueue | pass | TypeOK, Exclusive, NoneStranded, InOrder, AllRun | Two threads and the keyboard enqueue, one command fails: the lock excludes, nothing is lost, repeated, overtaken or left without a frame handler, and every command is run. |
| `sched_safe` | MCXmdsScheduler | pass | MathsRight, NoStarvation, OverlookedOnShift, InForce | While schedules arrive, XMDS and the disk fail, the client restarts, priorities come and go, a lift switch changes the tag and files appear: nextLayout counts in one list only, starves no layout, overlooks none unless priority shifts during the call, and the schedule the server stays with comes in force. |
| `dl_safe` | MCDownloader | pass | ValidIsWhole, Complete, SparesFiles | While the server changes files and disk, downloads and client fail: a file the cache calls valid is whole, unless it was written at one of three moments; in a regular round a valid file is not deleted and none is recorded with an older checksum; and the library ends up with the files required. |
| `switch_safe` | MCSwitchWatcher | pass | TagIsUp, Follows | Three lifts come and go in any order while layouts follow each other: the tag is that of a lift that is up, and the screen comes to follow the tag although disposals are lost, unless a layout stays on it because a region of it is never disposed. |
| `queue` | Queue | pass | NoLostWakeup, AtomicSpec | One writer and three readers of a queue of three places: with one condition for both directions and notify_one no wake-up is lost, and the queue implements AtomicQueue, whose blocking calls are atomic and fair. |
| `demuxer` | MCAsyncDemuxer | pass | MarksMatch, PacketSpec, CallsReturn | A decoder thread per stream, one of which also seeks twice, and main that closes at any time: both sides agree on the seek marks to come, every stream is handed out without gap or repetition, and calls return and the demuxer can be deleted. |
| `video` | AsyncVideo | pass | SeekDoneAwaited, Closes, PlaysToEnd | With and without audio, looping or not, a script plays, pauses, seeks and stops at any moment of the decoder threads and the audio callback: the decoder knows of every seek under way, stop() returns, and a video that plays on meets its end, unless a seek makes the audio thread forget that it has read the end already. |
| `touch` | TouchInput | pass | TouchesInOrder, Paired, CallsConnected, TouchesEnd | Two fingers whose identifiers are given again, packets that come late or not at all, nodes that move and disappear, listeners that come and go in callbacks: a touch goes down first and once and up last and once, over and out are paired, exactly the connected listeners are called, and every touch that is lifted disappears. |
| `frame` | PlayerFrame | pass | TimersServed, AnimsStepped | Scripts set and clear timers, start and abort animations and stop the player, in timers, events and the animations' start and stop callbacks: the player implements TimerService (each due timer once, in order, none after it was cleared) and AnimService (each running animation one step at its start and one per frame, none after it has stopped), the latter until an animation is ended in a callback of its own. |


Deadlock is switched off where a model really stops: a layout that has handed over, a
region whose loop is done, an empty command queue, a client whose threads died of an
exception (`sched_safe`), a downloader with all its slots held by dead threads
(`dl_safe`), a demuxer that is closed, and a video whose script has made all its
calls, and lift switches at rest beside a watcher that died and a layout that stays
(`switch_safe`). `queue`, `touch` and `frame` check it.

### Bounds

* `LayoutExit`: two regions, one disposal from outside. Two regions are the least
  with an "all of them" to get wrong, and three kinds of thread already compete for
  each lock; `layout_safe` gives the regions the odd kinds together (empty with an
  exit transition, invalid with a raising `dispose`). The theorems are for any number.
* `RegionLoop`: three media, so that each place (first, middle, last and first
  again) has a neighbour with and without transition; two disposers beside the
  region's own thread.
* `PlayerQueue`: two threads and the keyboard, two commands each. `MaxDepth` is 7,
  deeper than the six commands can go.
* `XmdsScheduler`: three schedules, of up to three layouts; one has layouts whose
  priority begins and ends at different times, one a layout with an unknown
  medium, one an unreadable date. `MaxTime` 3 lets each period begin and end.
  `MaxEvents` 2 bounds publications, disk errors, `r` keys and crashes together:
  every pair of them is there. A timer that fires, an XMDS call that fails, a file or
  a tag that changes cost nothing.
* `Downloader`: one layout and one medium, which follow different rules; three versions,
  of which two have the same size, as the rule for media looks at the size.
  `MaxDownloads` is 3 for the code's 5 and `MaxTries` 2 for 5: the loop waits from
  `MaxDownloads - 1` on, so that two threads fill the slots. `MaxEvents` 2 as above; a write
  within a tick counts as one. A file that stays recorded as the whole while it holds part of it for good
  needs three (the `r` key, a failing download, and one within the overlapping round).
* `SwitchWatcher`: three lifts, because the stack must be able to skip one in the
  middle; `Trigger` 2 for 3 polls; six changes of switches, so that each goes up and down.

* `Queue`: three readers, since a wake-up can be lost only if a third thread takes what
  was meant for another; three places, so that the writer waits as well. The
  theorems are for any number.
* `AsyncDemuxer`: two streams, which is what a video has; packet queues of two, so that
  a mark can meet a full queue; three packets, of which the last has no video after
  it, so that a seek meets the end of one stream at once; two seeks, the
  least that overlap.
* `AsyncVideo`: two frames and one audio buffer, a message queue of one and an audio
  queue of two, so that every thread meets a full queue and the end of the file; three
  calls of the script, enough for a seek in a seek and a stop during either.
* `TouchInput`: two identifiers and two touches, so that one identifier can be given
  to a second touch or two fingers be down together; two listeners,
  for one that disconnects the other; one node, since nodes do not interact.
* `PlayerFrame`: three timers with delays of none and one, six actions of scripts and
  a clock that goes to two, so that timers repeat, meet and are cleared in each
  other's callbacks; three animations, for one before and one after the one that stops.

### Fairness

Weak fairness on a thread's steps says that the thread keeps running: nothing
in the client stops a thread but its end or an exception, which are steps of the
models. Weak fairness on a timer says that libavg fires it. Nothing says that a key
is pressed, that a switch moves, that the server publishes or that the
client crashes. XMDS may fail any number of times but not for ever (strong fairness on
`XmdsAnswers`), which only liveness needs. `Swap` is strongly fair because callers
of `nextLayout` show a layout for seconds between two calls, so that the lock
is free again and again. In `LayoutExit` a transition that is stuck has no fair step, and nothing says
that the server answers `RegisterDisplay`; once it has, `CallSplash` is fair. In `SwitchWatcher`
a layout ends by itself if its regions can be disposed (`Expire`, with `exit = "handsOver"`), which is `HandsOver`
of `LayoutExit`, and the display is registered in the end.

In libavg's modules the threads of the process are weakly fair, which says that the
operating system schedules them and a `boost::mutex` is given to a thread that waits
for it, and the player draws frames without end. The audio thread's fairness does not make its reads end:
one that has lost the end of the file (`EndLost`) has no step. Calls of scripts, seeks, packets
and closes are not fair: nobody has to make them. The one strong fairness is that time
passes between two frames (`PreRender(1)` in `AsyncVideo`): a frame that advances the
video's time is enabled again and again between the script's calls. `PlayerFrame`
needs none, as its properties are safety.

### Where the code does otherwise than its text says

Checking the following statements gives counterexamples, each of which was
traced back to the code. The definitions stand in the modules and say that the
code does not ensure them; no run checks them.

* `ExpiredWhole` of `LayoutExit` with an invalid first region. Its constructor calls
  `regionElapsed()` with an empty region list, and the layout is marked as
  expired, once and for all, before the other regions exist (XiboClient.py:1592),
  while line 1501 logs "All regions have expired".
* `LeavesLoop` of `RegionLoop`. `disposeTransitionComplete` releases `tLock` once, and
  `tNext` releases nothing once the region is disposed. A region disposed during
  an entry transition uses that release for the transition and waits for ever at line 1752,
  although line 1846 says "Unlock the media loop and allow it to complete."
* `AllRun` of `PlayerQueue` with a backlog deeper than the recursion limit. The
  call at line 3993 raises in a `frameHandle` that has given the lock back; it is
  released a second time, and a command can be left without a frame handler until the next
  one is enqueued.
* `Survives` of `XmdsScheduler`. `schedule.xml` is truncated and rewritten in
  place (line 2226). A client that dies in between and is started again without
  network takes the truncated copy, and `minidom.parseString` at 2249 ends the
  scheduler's thread, although line 2240 promises "the default blank schedule".
* `KeepsAsking` of `Downloader`. `collect` (line 1171) returns without waking the
  manager or setting another timer when it finds a download running: after a
  download that outlasts the interval no file is asked for again. An `IOError` of
  `fh.write` (1308) has the same end: the slot stays taken.
* The movie time while a seek backwards is pending (`FrameEnd` of `AsyncVideo`).
  VideoNode.cpp:706 says that it "also stays still while waiting for a seek to
  complete". The first test of `getBmpsForTime` (`UsesLast`) finds that the last
  frame shown is later than the one wanted and has it reused, and a
  reused frame ends the node's wait (line 727) before the decoder's seek is done: from
  then on the time advances, and the first frames after the seek may be dropped as late.
* A sound message from before a seek. `AsyncVideoDecoder::seek` empties the video
  queue but not the audio queue; an END_OF_FILE left there sets `m_bAudioEOF`
  after the seek has reset it, and the sound of a video that was sought back is silent until
  the next seek. `PlaysToEnd` holds nevertheless, because the end then comes early.

Outside the modules, met while reading the code next to them:

* A timer callback that raises (Player.cpp:1554) leaves `m_bInHandleTimers` set and the
  new timers in their list, also after `cleanup` and the next `play`.
* A listener of a contact that raises (Contact.cpp:141) leaves `m_bSendingEvents` set.
* `AttrAnim::start` (AttrAnim.cpp:68) aborts the animation that owns the attribute before it
  enters itself in the map; a stop callback that starts a third one on the same attribute
  leaves two of them running.
* An event hook that swallows a CURSORUP (Player.cpp:978) leaves the cursor's state, and
  its fake events, for good.

### Conditions in the properties

Some properties hold under a condition that the code does not ensure. Each is a
fact about the code and stands as a hazard in PROJECT.json:

* `OverlookedOnShift` leaves out calls of `nextLayout` during which priority comes or goes:
  `thereIsPriority` is computed once, and a round in which the last priority ends
  finds no candidate. `NoneOverlooked`, which is not checked by a run, is the statement without it.
  `NoStarvation` counts anew after such a call: with the stale `thereIsPriority` it may pass a
  layout over that has its right again.
* `FullTime` is about media that load (`Unloadable = {}`): the release given for a plugin that
  cannot be imported (XiboClient.py:1765) has no acquire waiting for it and cuts the next item short.
* `ValidIsWhole` leaves out three kinds of files. Those `cache.xml` was saved for before the thread
  that was to replace them had touched them: after a crash at that moment the old
  content passes for the new until it changes again. Those written twice within a tick of the file system's
  clock (both in `trusted`). And those that an overlapping round writes between their checksum and
  their time (`misread`): part of a file passes for the whole, and is not fetched again. `Complete`
  is about libraries in which, in the end, there are none of these.
* `SparesFiles` and `Complete` are about rounds that do not overlap: the `r`
  key starts a round, and a timer, of its own. `SparesFiles` says, too, that `misread` stays empty then.
* `HandoverOnce` excepts one layout: without background colour, and met by the second
  read of `currentLM` at XiboClient.py:3558, it hands over from there and once more from `run()`. Any other
  layout met by that read hands over once, before it is built, and shows its regions under its successor.
* `Complete` asks media for their size only. A changed media file of the same size is
  never fetched again.
* `TagIsUp` leaves out what follows two lifts coming up in one poll. Before a lift first comes up
  the tag is the scheduler's own, and not the configured default.
* `Follows` excepts a layout that stays on the screen for ever because the `dispose()` of a region raises
  or an exit transition of it is silent. That a successor is handed over twice at the
  end of the registration is in `LayoutExit` only.
* `ExpiredWhole` and `HandsOver` hold for valid regions, and for a layout that is
  built before anybody disposes it (`BuiltFirst`, `OutsideLater`), which the code
  leaves to its timing; `HandsOver` also needs that neither `run()` nor a `dispose()` raises, and excepts
  a region whose exit transition was given a deleted media and is stuck. `layout_safe` has none
  of these assumptions.
* `InForce` holds while no thread has died of an exception, and with `manualUpdate` off.
* `Closes` and `PlaysToEnd` except the audio thread that has lost the end of the file (`EndLost`):
  FFMpegDecoder.cpp:429 resets the flag after the thread has read that end, and it waits in
  `getPacket`. `stop()` then waits for it for ever, as the lower decoder is closed only after the join, and the
  end of the video is not met before another seek.
* `AnimsStepped` ends with the first animation that is ended in a callback of its own (`endedOwn`).

## The proofs

| Theorem | Module | Establishes |
|---|---|---|
| `TypeCorrect` | LayoutExit_proofs | Every variable of a layout keeps its type, for any number of regions and outside disposals. |
| `HandsOverOnce` | LayoutExit_proofs | A layout asks for its successor at most once, for any number of regions and outside disposals, wherever the second read of currentLM leads; only a layout without a background colour that this read takes for the splash layout asks twice. |
| `HoldIsRespected` | LayoutExit_proofs | A layout on hold never asks for its successor. |
| `ImplementsLife` | LayoutExit_proofs | With valid regions, a run() that does not raise, and nobody disposing before it is built, a layout implements LayoutLife: it is handed over once, whole and not on hold. |
| `TransitionOnceAlways` | LayoutExit_proofs | No region has two exit transitions at a time that the layout's own threads started, for any number of regions and whoever disposes from outside. |
| `ExpiredWholeAlways` | LayoutExit_proofs | A layout built in time, with valid regions, is marked as expired only when every region has shown its media. |
| `TypeCorrect` | RegionLoop_proofs | Both semaphores, the loop, the timers and the media nodes keep their types, for any media, transitions and disposers. |
| `AloneAlways` | RegionLoop_proofs | While the thread waits for a media item, that item is on the screen once and nothing else of the region is, for any list of media, also with items that do not load. |
| `AtMostOneLateAlways` | RegionLoop_proofs | Once a region is disposed, at most one more media item is begun, however many threads dispose it. |
| `TransitionFirstAlways` | RegionLoop_proofs | A media item begins its time after its transition has ended, unless the region is disposed. |
| `FullTimeAlways` | RegionLoop_proofs | If every item loads, the thread goes on to the next one only after the current one has ended or the region is disposed. |
| `TypeCorrect` | Handover_proofs | Type correctness of the queue, the lock and the recursion, for any threads, commands and recursion limit. |
| `ExclusiveHolds` | Handover_proofs | enqueue and frameHandle exclude each other for any number of threads and commands, as long as no backlog fills the stack. |
| `NoneStrandedHolds` | Handover_proofs | No command is left without a frame handler, under the same condition. |
| `InOrderAlways` | Handover_proofs | What has run and what is queued are, together, each thread's commands once and in the order it sent them, for any threads, commands and failures and also when Python's stack fills up. |
| `TypeCorrect` | XmdsScheduler_proofs | Every variable of the scheduler keeps its type, for any schedules, layouts, tags, callers and bounds. |
| `MathsRightAlways` | XmdsScheduler_proofs | nextLayout takes a layout only at a place of the list in force, for any schedules and any number of callers. |
| `OverlookedOnShiftAlways` | XmdsScheduler_proofs | A layout that could be shown all through a call is not passed over for the default one unless priority came or went meanwhile. |
| `NoStarvationAlways` | XmdsScheduler_proofs | A layout that keeps its right to be shown misses fewer turns in a row than the list is long, calls with a shift of priority aside. |
| `TypeCorrect` | Downloader_proofs | Caches, queue, threads and library keep their types, for any files, versions, sizes and numbers of downloads and tries. |
| `ValidIsWholeAlways` | Downloader_proofs | A file the cache calls valid has the content its record is for, through saves, restarts, failed downloads and rounds that overlap; files that a restart had to trust, that were written twice in a tick of the clock, or between their checksum and their time, aside. |
| `SparesFilesAlways` | Downloader_proofs | While rounds do not overlap, no thread deletes a file that is valid and what the round asks for, and no file is recorded with the checksum of what it held before. |
| `TypeCorrect` | SwitchWatcher_proofs | Counters, states, stack, tag and screen keep their types, for any number of lifts. |
| `TagIsUpAlways` | SwitchWatcher_proofs | The tag is that of a lift that is up, or the default one when all are down (the scheduler's own until a lift first comes up), for any number of lifts and any debouncing, until two come up in one poll. |
| `QueueTypeCorrect` | Handover_proofs | The deque stays within its bound and only threads inside a blocking call wait, for any readers, capacity and elements. |
| `NoWakeupIsLost` | Handover_proofs | No sleeping thread is forgotten, for any number of readers that the capacity can hold. |
| `ImplementsAtomic` | Handover_proofs | Every step of the queue is a step of AtomicQueue or invisible: the safety half of AtomicSpec. |
| `TouchesInOrderAlways` | Handover_proofs | A contact sees down first and once and up last and once, and its end is on its way as soon as the finger is gone, for any number of fingers and touches and whatever packets come. |
| `PairedAlways` | Handover_proofs | Between events the nodes told of a cursor over them are those of its CursorState, for any nodes that move and disappear in handlers. |
| `CallsConnectedAlways` | Handover_proofs | Exactly the listeners that are connected are called, for any number that connect and disconnect in callbacks. |
| `AnimsSteppedAlways` | Playback_proofs | The frame implements AnimService: each running animation takes one step when it is started and one per frame, and a stopped one none, for any animations and whatever scripts start and abort in callbacks, until they end an animation inside its own start callback, or inside its own stop callback after starting it again there. |
| `TimersServedAlways` | Playback_proofs | The frame implements TimerService: each timer that is due is called once per frame, in order, and a cleared one never, for any timers and whatever callbacks set and clear. |
| `SeekDoneAwaitedAlways` | Playback_proofs | The decoder expects exactly the answers to seeks that are on their way, one per thread, for any length of the video, of the queues and of the script. |
| `MarksMatchAlways` | AsyncDemuxer_proofs | Every mark in a queue has a seek whose answer is on its way and the other way round, for any file, streams, bounds and seeks. |
| `ImplementsPacketSource` | AsyncDemuxer_proofs | The demuxer, its thread and their queues implement PacketSource, for any file, streams, bounds and seeks: packets arrive once and in order, and after a seek only those from its target on. |


Assumed are only the named assumptions of the modules about their constants,
which TLC evaluates in every run.

`LayoutExit_proofs`. The type invariant is not inductive by itself: that `built`
stays in its range needs that `run()` is at a region when it builds one
(`BuildRoom`), and that `pos` does needs the test that precedes every use of it
(`LoopInside`). With them it is `PlaceInv`. `HandoverInv` is the argument of
`nextLayoutTriggered`: a thread at `hand` holds the dispose lock, has set the
flag and finds no hand-over made; before the flag is set there is none. The hold is
respected because it is never set again. A layout without background colour hands over
past flag and lock, and has no regions: a second hand-over can only come from the display
manager's thread, which calls one layout once. `ImplementsLife` needs that the scan of `regionDisposed`
covers every region. `LifeInv` carries it: until the last region is built nobody
disposes (`Quiet`), and a scan that found all regions disposed found all of
them. Its hypothesis `Timely` names what the code leaves open: valid
regions, a `run()` that does not raise, and nobody disposing the layout while it is being built. Without it the
statement is false, as the invalid first region above shows for one half of it.

`TransitionOnce` needs to know who disposes the regions: `SoleInv` says that of all the
threads inside the layout only the one that set `expiring`, under `__regionLock`, has
begun (`Began`), or has an exit transition running for it. `ExpiredWhole` is
`WholeInv`, that a thread which has found all regions expired finds them
so for ever, since no flag is reset and, under `Timely`, the list is complete.

`Handover_proofs`, the player's queue. `LockInv` says that the semaphore is 0 or 1, that at most one
thread is inside and nobody is when it is 1; `ServedInv` adds that a command in
the queue has a frame handler, or a producer about to install one. Both need
`Shallow`, that no backlog reached the recursion limit, at every step; what happens
otherwise is described above. `InOrder` needs no such condition: what has run
followed by what is queued changes only when a producer appends its next command.

`Downloader_proofs`. `RecordInv` says that a record marked as current has the checksum of what
the file holds now, because every write to a file, and its deletion, takes the mark away
or puts the file in `trusted` (`WriteFacts`), and `Stamp` puts one in `misread` that was written since
`Read`; and that an entry of `cache.xml`, which gets the hash a file should have,
is right too, except for the files in `trusted`, which `Save` adds to when the two differ.
`ValidIsWhole` follows, also after a restart. `SparesFiles` is shown under `OneRound` at
every step. `VisitInv`: with one round at a time no thread runs while the manager
checks files, so that what `Read` saw is there at `Stamp`, and `misread` stays empty. `RoundInv`: a round begins when no thread runs and with an empty queue.
`QueueInv`: each queued file stands there once, waits for no check, has no thread, and is not
what it should be. `StaysBroken` is the crux: only the manager's look at a file, or the file's
own thread at the end of its download, can find that it has become what it should be, and
neither happens between the queue and the deletion.

`RegionLoop_proofs`. `ScreenInv` counts the nodes of each media item: one for the previous
item until it is cleaned up, one for the current from its entry on; `Alone` and
`TransitionFirst` follow. `LockInv` and `TLockInv` are the accounts of the two semaphores while
nobody disposes the region: the release the loop waits for is owed by exactly one timer (or
transition), or has been given, and no other is. `DisposeInv` orders a disposal: flags before
releases. `LateInv` is `AtMostOneLate` with what makes it inductive: the first late item
leaves the loop behind a test it cannot pass again. Only `FullTime` needs `LockInv`, and with it
that all items load.

`XmdsScheduler_proofs`. `LockInv` is the mutex. `CountInv` is the argument of
`MathsRight`: while a call is inside, nobody swaps the list, so that the number it read and
the pointer belong to the list in use. For `OverlookedOnShift`, `SteadyInv` says that a layout
in `steady` has its right now, and `VisitInv` that the places a call has
behind it held no layout of `steady`: when it has tried all places, there is none. For
`NoStarvation`, `Back(i)` is how many turns ago the pointer was at place `i`, and `MissInv`
bounds `missed` of a layout by `Back` of each of its places: an undisturbed call moves the pointer on by
at least one and never past a layout with a right. The lemmas on `Back` are arithmetic modulo the
length of the list.

`SwitchWatcher_proofs`. `TagInv`: the lift to be raised is up (`RaisedIsUp`), every lift
that is up is on the stack or about to be (`UpIsOnStack`), and between two
decisions of the loop the tag is that of a lift that is up, or of none, or the scheduler's own until
`tagged` (`TagFits`), all until two lifts
come up in one poll. The stack keeps lifts that have gone down; `BackToLast` finds the highest
place that is still up, and `MaxOfFinite` shows that there is one.

`AsyncDemuxer_proofs`. `DemuxerInv` holds the types and, until an assertion of the code fails
(`failed`), `ClientInv`, which relates where main, the readers and the holder
of the mutex are, and `MarkInv`: the mark of a stream for the seek under way is in exactly one place,
still inside the command, in the list of the seek that runs, or in the stream's queue.
`MarksMatch` follows. For `ImplementsPacketSource` each step is shown to be `Deliver`, `DeliverOld`,
`Fail`, `Seek` or `Close` of `PacketSource`, or to change nothing it sees. Most of the work is that
`Rest` is kept: a packet moves from the file to a cache or a queue, or a mark to the
queue, and what the stream is still to be given stays the same. `FileFrom` is a recursive
function, which is shown to satisfy its equation by the least place where it would not.

`Playback_proofs`, the video. `Protocol` says what main may do in which state and when the threads
are joined. `SeekInv`: while `m_bSeekPending`, there is one seek command, or one SEEK_DONE, in the command
queue, in the video thread's hands or in the message queue, and in only one of them; else none.
The counts of `SeekDoneAwaited` follow.

`Playback_proofs`, the player's frame. `SignalInv`: the signal's list holds each running animation
once, and nothing else but the listener that is being called and has stopped, which stands
at the iterator until its call returns. So what is behind the iterator is what `AnimService`
owes, and an erasure before or behind it changes that by the erased animation at
most. It holds until `endedOwn`, after which an animation may stand in the list and not run.
`StartingInv`: the animations whose start callbacks run do run, each once on the stack, so that the
first step when a callback returns is that of a running animation. `TimerInv`: no timer is in the two lists twice, numbers are not given out
again, and the pending timers are sorted, but for the one that is being called, which heads the
list and has its next time already. That the list is sorted is what makes a loop that stops
at the first timer not due call all that are. `ListsAdd`, `ListsReturn`, `ListsMerge` and their like
say what each operation does to the lists and to the set of their timers, on which the steps of
`TimerService` are shown. `Merge` is a recursive function, which is shown to satisfy its
equation, and then to keep what is needed, by the least place where it would not.

`Handover_proofs`, libavg's queue. `NoLostWakeup` counts: while a reader sleeps, there are at least as
many awake readers inside a call as elements, so that nothing lies in the queue that nobody is
coming for. A `push` adds an element and wakes a sleeper, which is a reader as the only
writer is awake; a `pop` takes one element and one reader away; a `peek` takes a
reader away and wakes another. The writer sleeps only while the queue is full: as the capacity
is at least the number of readers (`CapacityAssumption`), a full queue and a sleeping
reader exclude each other, and the thread that a `pop` wakes is the writer. It is inductive
together with `QueueTypeOK`. `ImplementsAtomic` maps each action to its namesake and waiting
to a stutter; the fairness half of `AtomicSpec` is TLC's.

`Handover_proofs`, the touches. `DeviceInv`: each finger that is down has a touch of its own,
a touch that has not been polled yet holds its beginning, perhaps with its end, and one that has been
holds at most one event, and it holds an end just if the finger is gone. `EventInv` ties the
events polled to the touches: an end was the last of its touch. `ContactInv` says which cursors have a
contact: those whose beginning has been handled and whose end has not. `TouchesInOrder`
follows by looking at what the two stages can hold together. `Paired` is `OverInv`, which says what
the nodes have been told also inside an event. `CallsConnected` needs `ListenInv`: the map of listeners is
what its users see, but for the listener that is being called and has
disconnected itself, and identifiers are given once, so that no listener is mistaken for one of
another contact.

Model-checked only: liveness (`HandsOver`, `LeavesMedia`, `AllRun`, `InForce`,
`Complete`, `Follows`, `CallsReturn`, `Closes`, `PlaysToEnd`, `TouchesEnd`, the fairness of
`AtomicSpec`), which is beyond the proof system. Every other property of the runs is a
theorem, under the conditions its theorem names.

## Not modelled

* Media plugins: what they fetch and draw is I/O; for the region each is a timer
  and two calls. Rendering, graphics, image processing and the codecs under libavg,
  berkelium and its browser node for the same reason: numeric code of one thread.
* In libavg: hardware decoding, the synchronous decoder, the texture upload and bitmap
  loading threads (queues with one reader and one writer), event capture, mouse and
  keyboard, callbacks that raise, `ParallelAnim`, `StateAnim`.
* Log worker, statistics, the connection to XMDS and the registration, ticket
  counter, transition plugins: planned, below.
* CMS, .NET client, offline downloader: other programs. The CMS is present as a server
  whose schedule and files change at any time and whose calls fail.
* Numbers of XLF layout and screen geometry, XML wording, log texts, lamps.

## The plan

Done, in this order: the exit of layouts, the region loop, the player's queue, the
scheduler, the downloader, the switches; then libavg below them: the
queues, the demuxer, the video, the touches, the player's frame. Then the proofs: the exit of
layouts, the player's queue, libavg's queue, the switches, the region loop, the
video's seeks, the demuxer, the scheduler, the downloader, the touches, the player's frame.

Next, as models: the transition plugins with the semaphores of their own;
`XMDS.check` and `RegisterDisplay` with an exception between acquire and release, where
any exception but one kind leaves `checkLock` held (XiboClient.py:2880); the log
worker with its batches and the flush on quit, whose lock an exception in
`process()` leaves held (XiboClient.py:645); the display manager composed with scheduler and switches.

