# H5GG: models and proofs

H5GG is an iOS memory editor. Native code (Objective-C++, C++) runs inside a host
application or as one; its menu is a web page; the page calls native methods over a
JavaScript bridge. This directory has TLA+ models of the parts that have a state
worth arguing about, TLC configurations that check them on small instances, and
TLAPS proofs for every value of the constants. Paths below are relative to the
repository's root; every definition's source lines are in `PROJECT.json` under
`map`.

Contents: [the system](#1-the-system), [the models](#2-the-models),
[the runs](#3-the-runs), [where the code and the docs part](#4-where-the-code-and-the-docs-part),
[the proofs](#5-the-proofs), [only model-checked, not modelled](#6-only-model-checked-not-modelled),
[the plan](#7-the-plan).

## 1. The system

### Threads and processes

* The *main thread* runs the bridge, the engine's methods, the freezer's timer,
  dialogs, and completion blocks. It is one thread, but not one sequence of
  handlers: a native dialog and `evalJS` spin a nested run loop, and from there
  the next handler runs on top of the one that waits.
* *Background threads* may ask for a dialog (they block on a condition variable);
  one *dump worker* streams memory to a file.
* The *web process* runs the page; messages to it and from it are queues.
* The *target process*, whose memory is searched, starts, exits and writes its
  memory when it likes; its pid may later belong to another process.
* With GlobalView, *SpringBoard* hosts the floating button of an application and
  shares two small structures with it by reading and writing its memory.

### Components

| component | code | state | operations | talks to | what is hard | what makes it correct |
|---|---|---|---|---|---|---|
| Modal request queue | `ModalRequestQueue.cpp` | deque of requests, a status each, mutex and condition variable | `enqueue`, `waitUntilActive`, `waitUntilCompleted`, `complete`, `cancel` | dialogs | destruction of any request at any time; two predicates on one condition variable | one active request, FIFO, no missed wakeup |
| Synchronous dialogs | `ModalShow.mm` | frames waiting in `present:`, alert controllers, submit blocks | `alert`, `confirm`, `prompt` from the main thread or another | queue, UIKit, bridge | nested run loops are LIFO, the queue is FIFO; failed presentation; late dismissal | one dialog at a time; a call returns its own answer, and returns |
| JavaScript bridge | `FloatMenu.mm` | page: `_id`, `_cb`; native: `pendingCallId`, `hasPendingCallback` | dispatch, `deferCurrentCall`, `resolveCallId:`, reload, `evalJS`, the page's `alert` and `confirm` | page, engine, dialogs, pickers | dispatches and run loops nest; answers come late, in any order, or to another document; two processes may wait for each other | each promise settles once, with its own answer; `evalJS` returns |
| File picker request | `FilePickerRequest.m` | call number, retained picker | pick, cancel | bridge | the menu may be reloaded meanwhile | as the bridge |
| Target session | `TargetSession.cpp` | pid, task port, who owns the port | `setTargetProc`, `getTargetStatus` | kernel, engine, freezer, dumps | exit and pid reuse; ports are counted by hand | references balance; nobody writes into the wrong process |
| Engine façade | `h5gg.mm` | session, last type, controllers | some fifty methods | all of the native side | order of replacement of its parts | each method leaves its parts consistent |
| Freezer | `FreezerController.mm` | entries by address, a timer | freeze, unfreeze, clear, tick | session | the target changes under the timer | writes stay in the process they were asked for |
| Memory dumps | `DumpController.mm`, `MemoryDump.cpp` | status, cancellation flag, lease, file | start, stream, cancel, finish | session, file system, bridge | cancellation anywhere; engine deallocated under the worker | status, promise and file agree; every dump ends |
| Memory search engine | `MemScan.mm`, `MemoryResults.cpp`, `MemoryFilter.cpp` | result regions with types, snapshot, `firstScanDone`, `lastNumberType` | number, hex, change, filter and nearby searches, clear | target memory, façade | long sequences of searches of different kinds; memory changes and disappears | types agree; searches narrow; snapshot fits the results |
| Memory reader and pages | `MemoryReader.cpp`, `MemoryPage.cpp` | position in the page | a page, chunk by chunk and byte by byte | engine, target memory | partial reads, memory that changes between two of them | each byte is one its address has held |
| Pointer search | `PointerSearch.cpp` | cursor, bytes scanned, results | bounded search for pointers | engine, target memory | limits, alignment, the last address, regions that end in a pointer | all aligned pointers up to the limits, once each, and it ends |
| Values and text | `MemoryValue.cpp`, `TextEncoding.cpp`, `FileNames.cpp` | none | parse and format | façade | widths and overflow | round trips |
| GlobalView | `globalview/*`, `Tweak.mm`, `RuntimeCoordinator.m` | shared `GVData` and image slot | publish, poll, click, follow | two processes | torn and lost updates, either side dying | whole images, no lost click, a restarted application finds nothing stale, hosted views appear |
| Script store | `ScriptStore.cpp` | files, last error | save, load, remove, list | file system | a failure, kill or power loss between two system calls; others in the same directory | each name is an atomic register; a listing is true |
| Library builder | `DylibBuilder.cpp`, `makeDYLIB.mm` | output file | fill the template, sign, rename | file system, `ldid` | as above, and a signer that fails half way | the output is a signed library, replaced exactly by a build that says so |
| Plugin loader | `PluginLoader.m` | loaded bundles | load, instantiate | bridge | loading twice, failing half way | one library handle per path, each handle id names one object |
| Preferences | `PreferencesStore.m` | history, bookmarks | add, remove, list | user defaults | bounds, a lock | bounded, newest first, no repeated first entry; one bookmark per address |
| Method schema | `BridgeMethods.cpp` | none | check arguments | bridge | – | a static table |
| Process lookup | `crossproc.mm` | none | list processes, libraries | kernel | – | stateless queries |
| Floating interface, pages | `FloatButton.m`, `FloatWindow.m`, `*.html` | views | gestures | all | – | layout only |
| Vendored code | `ldid-master`, headers | – | – | – | – | third party |

`PROJECT.json` gives each component a status and, under `hazards`, the lines at
which this code can go wrong in a way a unit test would hardly reach, with the
properties that would notice.

## 2. The models

```
ModalTurns  <--implements--  ModalQueue  <--extends--  ModalShow
BridgeCalls
TargetSession, FreezerController, DumpController  <--extends--  TargetEngine
SortedSets  <--extends--  ResultEngine, MemoryReads
GlobalView
FileSystem  <--extends--  ScriptStore, DylibBuilder  <--extends--  DocumentFiles
AtomicScripts  <--implements--  ScriptStore
```

Conventions. One action is one handler, callout or critical section; what a
handler calls is part of its action. A call that is refused and changes nothing is
a stuttering step and has no action. A variable marked *history* is read by no
action. A definition whose name ends in `Bug` has the parameters of the
definition that follows it and is a plausible defect of it (a dropped guard, a
missing reset, a swapped order). No specification uses it: putting it in the
definition's place shows that a property would notice that defect.

### `ModalTurns`, `ModalQueue` — the modal request queue

`ModalTurns` is the promise, without a queue: a client draws a ticket, the turn
belongs to the oldest ticket still inside, a client leaves once. `ModalQueue` is
the code: `queue` is `Coordinator::requests`, `status` each `State::status`,
`Enqueue`, `Complete` and `Cancel` the three critical sections with the promotion
and the `notify_all` they contain. A blocking wait is a sleep
(`SleepForTurn`, `SleepForEnd`), which is possible only if the predicate was false
under the mutex, and a wakeup (`NotifyAll`, `SpuriousWakeup`); `blocked` tells which
of the two predicates a thread sleeps on. `ticket` and `issued` are history and
give the refinement: `turn` is the set of active requests, `gone` of the completed.

### `ModalShow` — synchronous dialogs

Extends the queue. `stack` holds the frames of `present:` on the main thread; only
the innermost can move, since the others are inside the run loop that called it.
Button taps, dismissals, posted submit blocks and further calls are callouts of
whichever run loop turns. A request that is active as soon as it is enqueued is submitted
without a turn of the run loop (`"submitting"`, `InRunLoop`); only one that had to wait can be
overtaken by callouts between its promotion and its submission. `Submit` is the submit block: it presents, or completes
the request when there is no window, no controller or UIKit raises. `MainThrow` is
the exception that unwinds the frame and destroys the handle. `Tap` has the two
outcomes of `H5GGDismissAlert`: a dismissal under way whose completion
(`Dismissed`) ends the request, or an alert that is already down. UIKit is external:
it refuses with an exception or keeps what it was given on screen until dismissed.

One assumption: the main dispatch queue is drained by every run loop, nested or not
(`RunPosted`). This is so unless an outer frame was itself entered from a block on
that queue; the calls of `present:` come from WebKit's message handler, a run loop
source.

### `BridgeCalls` — promises over the bridge

A call is `<<page, id>>`, and native code only ever sees `id`, which starts again
at 1 in each document. `cb` is the page's `_cb`, `inbox` the posted messages,
`outbox` the scripts sent back. `stack` holds frames of
`didReceiveScriptMessage`; a frame is `fresh`, in a dialog (its run loop turns, so further
messages may be dispatched over it) or `ending`. `pendingCallId` and
`hasPendingCallback` are the two slots of the menu. `DeferCurrentCall` takes the
call over, `Finish` is the native work's answer, before or after the dispatch has
returned. Which method is called is left out: a method may open a dialog, take its
call over, or just return.

A dialog waits for its turn, is shown, and is answered (`Dialog`). Turns are given in the order
in which the dialogs were asked for, as `ModalQueue` has it; any dialog on screen can be
answered, wherever its frame lies, but only the innermost frame can see that it has its turn
(`ShowDialog`) or its answer (`CloseDialog`, `ClosePageDialog`).

Two more kinds of frame spin a run loop on the same stack. `EvalJS` sends a script and
waits until its completion block has run (`Evaluate`, whichever frame is innermost by
then); its callers are timers, the floating button, rotations and the end of a
navigation, never a method itself. `OpenPageDialog` is a page's own `alert()` or
`confirm()`: between `CallAlert` and `ClosePageDialog` the web process evaluates
nothing, as it waits for the delegate's completion handler.

`Deadlocked` is one of two states. `EvalOverAlert` is an `evalJS` frame above the frame of a
page's dialog: the first waits for the web process, which waits for the second, which cannot go
on under the first. The code gets there when somebody taps the button, or turns the device,
while the page has an `alert()` open. `docs/architecture.md:98-99` has main-thread callers
servicing their run loop while they wait; it is this service that runs the `evalJS`. `Buried` is
finding 1 seen from the bridge: the dialog whose turn it is waits under a dialog whose turn comes
later. That takes three dialogs, of methods or of the page, nested in each other. The
liveness properties except these two states and, for promises, shadowed calls.

### `TargetSession`, `FreezerController`, `DumpController`, `TargetEngine` — the target

`TargetSession`: `session` is what `_session` holds, `rights` the user references
on each port. A port is named by the task it denotes, `<<pid, life>>`, so that
pid reuse is visible: `TargetIsAvailable` asks about the pid, as
`_targetIsAvailable` does, `Alive` about the task. `TakeTarget` is the second half
of `setTargetProc` in its order: the new session takes its reference before the
old one drops its own.

`FreezerController`: entries by address with the pid and the status that the code
keeps, and the task as history. A tick may fail to write any entry, and fails for
all when the task is gone. Values, types and the failure count are left out, for
nothing here depends on them.

`DumpController`: main-thread operations (`StartFrom`, `CancelDump`,
`CompletionBlock`) and worker steps: `OpenFile`, for each chunk `TestCancelled`, `ReadChunk`,
`WriteChunk` and `CountChunk`, and `FinishWork`. A `cancel` may come between any two. One that
is accepted after the last test of the flag is too late (`WillTest`), and the dump completes
although the page was told that it is cancelled. All dumps write one path, which is the hardest
case for the removal of partial files. The removal may fail, and the code ignores it: the file
then stays, and `unremoved`, a history, says so.

`TargetEngine` composes them as `h5gg.mm` does: changing or losing the target
clears the freezer, a dump takes a lease with its own reference, `Dealloc` cancels
the dump, clears the freezer and deletes the session. Processes start and exit in
between, and the worker is interleaved freely with the main thread.

### `SortedSets` — what the code keeps in ascending order

A finite set of integers as a sequence, smallest first (`Ascending`), and the elements of a
sequence at some indices in their order (`Selected`): scans, refinements, `removeEmptyRegions`,
`std::sort` of regions and the pointers found in a chunk are all written with these two. An
element is placed by the number of those below it, so that proofs need no recursion.

### `ResultEngine` — searches and their results

Memory is a few regions of cells, each one unit of any value type, so that a type is
a label and what can go wrong is what the layers believe it to be. `results` are
the code's regions with `slides` and, perhaps, `types`; `lastNumberType` (engine)
and `lastSearchType` (session) are the two fall-backs for regions without types.
Each search method of the façade is one action: first scan or rescan,
byte pattern, change, filter, nearby, with the engine's `removeEmptyRegions` and
`saveSnapshot` where the code has them. `NearSlide` follows `JJNearBySearch` window by
window, including its two cursors; `NearSlides` is a function from how many slides have been
looked at to what they have found. When slides are out of order a window may end before
it begins; `ScanData` (`MemScan.mm:69-85`) computes an end below its start from the size that has
wrapped around and finds nothing, so such a window is empty. The target writes any cell and
unmaps any region between two methods.

`searchNumber` and `searchNearby` catch `bad_alloc`, say so, and go on as if the search were done.
`SearchNumberRunsOut` leaves out regions of a first scan, cuts a repeated one short, and takes
part of a snapshot or none; the engine's `firstScanDone` may then be FALSE while the session's
`firstSearchDone` is TRUE, so the next search may start over. `SearchNearbyRunsOut` leaves the first
regions replaced, some of them by null pointers, and no snapshot; the session's type is set
all the same, so results without types are shown as of a type that they were not found with. `starved`
is history: the methods this has happened in since the last clear. The properties except what
follows from it, and no more. The next search that comes across a null region ends the process
(`Intact`).

### `GlobalView` — two processes over shared memory

`slot` is `GVSharedImage`, `data` the flags of `GVSharedData`; `app` and `host` say
where the two main threads are. There is no lock, so an action is one access to a
field that the other side may change: the application claims, copies in two halves,
and publishes; SpringBoard sees `Ready`, copies in two halves, and frees; the
monitor tests, takes off and handles a click in three steps; the host's reset of
its two structures is two steps. `Exit` may come between any two steps of the
application, and leaves shared memory as it is; `Launch` and `Connect` begin again.
`FrontAppChanges` stands for both dismissal preferences. The branch for iOS 13 and
later is modelled (the build's deployment target is iOS 15), and SpringBoard lives as
long as the model.

`Connect` may fail (no SpringBoard, no right to its task, no or several libraries of that name, no
mapping, another version of the header, `Tweak.mm:144-192`, `globalview.mm:515`): the
application is then `"alone"` as long as it lives. It may also connect without publishing an icon,
when that is absent or too large. Whether a tick finds an application window, and
whether its orientation is SpringBoard's, are choices of each tick (`TickWindow`, `TickLoaded`).
A tick that handles a click is inside `evalJS` until `EvalReturns`: meanwhile the timer is
not served again, but the nested run loop serves all other calls. Nothing makes `evalJS`
return, since it may deadlock (`BridgeCalls`). So two properties state what they need:
`ClicksAreHandled` that `evalJS` keeps returning (`EvalsReturn`), and `HostedViewsAppear` that the
application follows (`AppFollows`): it connects, and again and again a tick finds its window, and
finds it turned the right way. Neither is the code's to guarantee.

`raced` is history: the host saw the application gone, but a new one had connected
before the structures were reset. That takes a launch within a few instructions of
SpringBoard's main thread; what it wrote is then lost, and the properties say so. They
also leave alone what the code does not repair: SpringBoard resets only while it hosts
a view, so an application that dies unhosted leaves its claim on the slot and its
`customButtonAction` to the next one (`FreshStart` is about the first to connect after
a reset).

`RequestsAreFollowed` is about `setWindowVisible`, which stores its flag before the
value it announces (`Tweak.mm:441`): a poll of SpringBoard between the two stores acts on the
old value and clears the flag, and a poll that has read the old one may clear it after
them. The request is then lost. The property begins when both are stored and no such poll is
under way, and says that from there on the request is followed.

### `FileSystem`, `ScriptStore`, `DylibBuilder`, `DocumentFiles` — files that survive

`FileSystem` is what POSIX promises to the two writers: a descriptor keeps its file
whatever becomes of the name, a file is written in `Chunks` calls, `rename` is atomic, and
the disk has of data and of directories what was synced or what the system chose to write
out. `tree` is the directory the processes see, `kept` the one on the disk; `PowerLoss`
falls back to the latter and may take from each file what was not durable.

`ScriptStore` takes one step per system call: `op.at` is the next one. `SaveFails` is a
failure of `write`, `fsync`, `close` or `rename`, `SaveDiscards` the `unlink` after it, which may
fail too. `LoadOpens` and `LoadReads` are apart, for the name may be replaced in between.
`list` reads the directory entry by entry while others add and remove scripts;
`scan.errno` is the errno it looks at after its loop, which `lstat` sets as well as
`readdir`. `touched` and `removed` are history: the names others have changed while it ran, and
those of them they have removed.

`DylibBuilder` has the error statuses of `H5GGDylibBuildStatus`; reading and checking the
inputs changes nothing and is one step. `SigningFails` leaves the file signed or not, since
the signer may fail after it has written. `DocumentFiles` puts both over one file system and
adds `Kill` and `PowerFails`, after any step. Both are called by bridge methods on the main
thread and spin no run loop, so one call is under way at a time.

`AtomicScripts` is the promise (`docs/javascript-api.md:222`, "Atomically writes Documents";
`docs/architecture.md:165-166`): a call takes effect at one moment between its begin and its
answer, and answers TRUE exactly if it did; a killed call has taken effect or not; after a power
loss the scripts are those of one earlier moment. A load takes its script when it opens
the file. The refinement mapping reads what each name holds, and finds a script that is not
whole to be no value of the register.

Two things the code does not do. `list` answers a failure when a script was removed under it,
although the directory could be read (`ListingIsTrue` says: only then; a script that others
save meanwhile never makes it fail). And the
library that the signer has written is not synced before the rename, so a power loss may leave a
partial one under the output's name although the build had said `Completed`
(`OutputIsSigned` holds until then). Temporary files are left behind by a kill; nothing
collects them.

### `MemoryReads` — pointer search and memory page

Both are long reads of a target that goes on running, one `vm_read_overwrite` per step,
all or nothing. Addresses have `AddressBits` bits and pointers `PointerWidth` bytes, in place of
64 and 8, so that the last address is within reach: `Aligned` and `RegionEnd` have the
code's guards against overflow, and their defect in `RegionEndBug` wraps around.
`NextRegion`, `Request`, `PointersIn` and `EndsRegion` are the loops of `JJFindExactPointers`
with its three limits; `PageChunk` and `PageByte` those of `JJReadMemoryPage`. `had` is
history: what each address has held since the call began, which is all that a read of a
running target can be measured against.

The regions searched are those the code enumerates: it skips what is not writable (`ReadOnly`)
and, when it searches its own process, the stack of the thread that scans (`OwnStack`). So a region
(`OneRegion`) ends where mapped memory or one of these ends, and a pointer in memory that is skipped
is never found (`Searchable`). Pages read any mapped memory.

`NoPointerIsMissed` compares with a definition that has no chunks: every aligned word in the
range, outside what is skipped, that has held the pointer all along is found, up to `Reached`, where a limit stopped the
search. It excepts a target that unmaps memory meanwhile: `vm_read_overwrite` then fails for the
whole chunk, and unlike the page the search does not try again byte by byte.

## 3. The runs

| run | instance | properties | shows |
|---|---|---|---|
| `modal_show` | 3 main-thread calls, 1 background call | `StatusMatchesQueue`, `ArrivalOrder`, `NoMissedWakeup`, `TurnsSpec`, `OneDialogAtATime`, `AnswerBeforeReturn`, `ReturnsUnlessBuried` | the queue is consistent and FIFO, wakes whom it must and implements `ModalTurns`; dialogs never overlap, no answer is lost, and calls return unless a buried frame has the turn |
| `modal_show_stacked` | 3 main-thread calls | `EveryCallReturns` (violated) | finding 1 |
| `bridge` | a document with 2 calls and one after it with 1, 1 `evalJS`, 1 page dialog | `AnsweredOnce`, `AnswersDoNotCross`, `LostOnlyIfShadowed`, `SettlesUnlessShadowed`, `EvalEndsUnlessDeadlocked` | nested dispatches neither answer twice nor exchange answers within a document; only shadowed calls are lost; promises settle and `evalJS` returns, but for the two deadlocks |
| `bridge_nested` | 1 document, 2 calls | `NoPromiseIsLost` (violated) | finding 2 |
| `bridge_reload` | a document with 2 calls and one after it with 1 | `ResultsReachTheirCall` (violated) | finding 3 |
| `target_engine` | 1 pid used by 2 processes in turn, the host, 2 addresses, 2 chunks | `RightsAreAccounted`, `FreezesStayHome`, `TimerMatchesEntries`, `DumpTellsTheTruth`, `CancelTakesEffect`, `DumpEnds` | references balance, frozen writes stay at home, dumps tell the truth and end |
| `target_status` | as above, 1 address, 1 chunk | `StatusIsTrue` (violated) | finding 4 |
| `results` | regions of 2 cells and of 1, 2 values, 2 types, 2 ranges, 3 searches, memory runs out in one | `TypesAgree`, `SnapshotMatchesAfterScan`, `SearchesNarrow` | types agree between the layers, the snapshot fits, searches narrow; what a search that memory ran out in may leave wrong, and nothing else |
| `global_view` | 2 images, 2 launches | `WholeImages`, `FreshStart` | images arrive whole, nothing stale survives a reset |
| `global_hosting` | no image, 2 launches | `ClicksAreHandled`, `HostedViewsAppear`, `RequestsAreFollowed` | clicks are handled, hosted views appear, visibility requests are followed |
| `files` | 2 script names, 2 scripts, the library; 2 files of 2 writes | `ListingIsTrue`, `OutputIsSigned`, `BuildIsAtomic`, `AtomicSpec` | scripts are atomic registers, listings are true, the output is signed and replaced exactly by a build that says so |
| `memory_reads` | 16 addresses, pointers of 2 bytes, 3 layouts, 3 bytes of read-only memory and 1 of stack, 3 ranges, 3 pages, 2 changes of the target | `NoPointerIsMissed`, `PointersAreTrue`, `LimitsAreKept`, `PageIsExact`, `ReadsEnd` | searches find what is there and end, pages are exact |

### Bounds, and why they are enough

* *Dialog calls* (3 + 1). Burying takes three main-thread calls: the dialog of the first is on
  screen while the other two wait, and its answer gives the turn to the second, under the third. With
  fewer none is buried, since a call that finds the queue empty submits at once. One background
  call exercises the condition variable and the posted block beside each of them.
  Safety is proved for any number. Through `present:` only an exception cancels, and it
  unwinds the frame that has just been given the turn; that any request may be cancelled
  anywhere in the queue is covered by the proofs, which are about `QueueSpec`.
* *Documents and calls* (2 + 1). A call number can repeat only across documents, two
  suffice; nesting needs two calls in one document, so the first has two (`MaxId`) and the next one
  less. Two calls and the page's dialog, or the calls of both documents, are the three dialogs that
  it takes to bury one. *`MaxEvals`*, *`MaxAlerts`* (1 each):
  one of each over and under the dispatches and under and over each other; scripts are
  evaluated in order, so a second `evalJS` on top of the first ends after it has become
  able to. Safety is proved for any number.
* *`MaxLife`* (2). One reuse of a pid. *Addresses* (2): the first and the last
  freeze differ from one in between. *`Chunks`* (2): a whole file differs from a
  partial one. *Pids* (1 and the host's own): a change of target between the host
  and another process, or between two lives of one pid, has all the interleavings
  of two other pids. Safety is proved for any values.
* *Memory*: two cells let the windows of a nearby search overlap and be clipped at
  both ends; the region of one cell can empty and vanish, or be unmapped, while
  the other stays. `MaxSearches` = 3 (between two clears) is a first search, one
  that mixes types, and one that trips over them. `MaxDistance` = 2 covers windows
  that overlap and that swallow the whole region. *Ranges*: all of memory, and
  one that cuts the first region and misses the second. Types are
  symmetric (`TypeSymmetry`): they are only compared with each other and with the two
  constants for none and byte patterns, and the runs check no liveness. The three properties
  are proved for any regions, values, ranges, distances and numbers of searches.
  *`MaxShortages`* (1): in how many of the two methods memory runs out between two clears. It may
  come before, between and after two searches that it does not touch.
* *Images* (2), each in two halves: enough to tell a torn image from a whole one.
  *`MaxLaunches`* (2): one application finds what another has left. Taps, monitor
  ticks and transfers are not bounded. `global_hosting` has no image, which is an application
  whose icon is absent or too large and that sets none: the properties it checks do not read
  the slot, and no step of theirs waits for it.
* *Files* (2 of 2 writes). One file under a name and one that replaces it; a whole file
  differs from a partial one. Calls, builds, kills and power losses are not bounded. Two
  names let one change while the other is listed. All four properties are proved
  for any numbers.
* *Address space* (16 addresses). Regions that begin and end inside a word, one up to the
  last address, one wholly mapped layout in which only what is skipped parts the regions; ranges that cut words at both ends, and one that is empty. Chunks of 3
  and 4 bytes are rounded to one and two words, one of 1 byte reads nothing; 5 scanned bytes end
  in a word; no result, one or all.
  *`MaxChanges`* (2): a byte is written or unmapped between two reads of one call. All but
  the end of reads (`ReadsEnd`) is proved for any of these.

### Deadlock

Every configuration that says `CHECK_DEADLOCK FALSE` has a finite supply of
something the model only consumes (requests, call numbers, lives of a pid, or the
engine itself, which may be deallocated); when it is used up and all work is done,
the system really has nothing left to do. A wait for ever is caught by the liveness
properties. The `ResultEngine`, `GlobalView` and `files` runs check deadlock.

### Fairness, and why the code justifies it

* `ModalShow!FairSpec`: weak fairness of each call's next step (the polling loops
  call `runMode:beforeDate:` with a short limit and look again; background threads
  are scheduled; the user answers the dialog on screen; UIKit calls the dismissal's
  completion) and of the main dispatch queue. No fairness on new calls, on sleeping,
  on spurious wakeups, or on exceptions.
* `BridgeCalls!FairSpec`: the innermost frame of the main thread goes on, the user answers the
  dialog on screen, native work that was taken over ends, and the web process evaluates scripts, unless it waits
  for a dialog of its page. No fairness on the page making calls or being reloaded, nor
  on `evalJS` being called.
* `TargetEngine!FairSpec`: the dump worker is a GCD block that runs, and the main
  queue, where it posts its completion, is drained. No fairness on anything else;
  in particular `CancelTakesEffect` does not need the target to live or to die.
* `GlobalView!FairSpec`: each main thread goes on with what it has begun (weak
  fairness), and a timer that is due is served however often the page, a tap or the
  other timer comes first (strong fairness of `TickBegins` and `HostBegins`: both are
  repeating 0.1 s timers on a main run loop, which serves every timer that has fired). No fairness on launches, exits, taps or calls, nor on the
  return of `evalJS`. A connection that is attempted ends, with or without success.
* `MemoryReads!FairSpec`: the loops run on (`ReadsEnd` says that they do not run for
  ever). No fairness on the target.
* `ResultEngine` and `DocumentFiles` state safety only.

## 4. Where the code and the docs part

Each is a run that finds a violation of a statement the repository makes; the quotes
are under `findings` in `PROJECT.json`.

1. *Stacked dialogs* (`ModalShow.mm:38`). Three main-thread calls nest: the first is on
   screen, the others wait. When the
   first is answered the second has the turn, but its frame lies under the third's,
   which polls for a turn that comes only after the second's. None returns.
   `ReturnsUnlessBuried` shows that this is the only way for a call not to return.
2. *Shadowed calls* (`FloatMenu.mm:352`). A call is in a dialog; a call nested in it
   takes itself over and sets the shared `hasPendingCallback`; the first resumes,
   finds it set, and never answers. `LostOnlyIfShadowed` and
   `SettlesUnlessShadowed` show that no other promise is lost.
3. *Reload* (`FloatMenu.mm:432`). A method takes its call over, the menu is reloaded, and then
   its answer settles the call of the same number in the new document. `AnswersDoNotCross` shows that
   within one document this does not happen.
4. *Pid reuse* (`h5gg.mm:294`). `getTargetStatus` says that the target is available
   when another process has its pid. `FreezesStayHome` shows that frozen values
   are nevertheless never written into that process: the port still
   denotes the dead task.

Seven more places where the code is known to do less than one might wish have no run of
their own; the properties except them, as said in section 2: a nearby search takes no snapshot, so
its entries may have another type than their results until the next search, against
`docs/architecture.md:204` (`MemScan.mm:567`; `SnapshotMatchesAfterScan`), a nearby search may list an
address twice (`MemScan.mm:627`; `SnapshotMatchesAfterScan`), a visibility request may be lost
between its two stores (`Tweak.mm:441`; `RequestsAreFollowed`), `evalJS` over a page's
dialog deadlocks (`FloatMenu.mm:298`; `Deadlocked`), a library that was built just
before a power loss may be partial (`DylibBuilder.cpp:209`; `OutputIsSigned`), a partial dump stays
when it cannot be removed (`DumpController.mm:195`; `DumpTellsTheTruth`), and a search that memory
ran out in counts as done (`h5gg.mm:457-464, 511-517`; the three properties of `ResultEngine`).

## 5. The proofs

`tlapm` proves all of them with Z3, Zenon and LS4. The modules `*Proofs` extend the
models; the assumptions used are those the models declare: `CallsAreRequests`,
`CallsAreDisjoint`, `MaxLifeIsNat`, `RangesAreNotEmpty`, `BoundsAreCounts`,
`LaunchesAreCounted`, `ChunksAssumption`, `MaxFilesAssumption`, `ScriptsAssumption`,
`OutputAssumption`, `OutputIsNoScript`, `AddressAssumption`, `PointerAssumption`,
`LayoutsAssumption`, `ProtectionAssumption`, `RangesAssumption`, `OptionsAssumption`, `PagesAssumption` and
`RegionsAssumption`: bounds are numbers, scripts and the output are among the named files, the
output is none of the scripts, a target's memory is a function on the addresses, what is read-only or stack is among the addresses, pointers have at
least one byte, ranges are pairs of addresses, limits are numbers, and pages begin at an address
and have chunks of at least one byte (`MemoryPage.cpp:30` takes 0 for 1). One set is assumed to
be finite, that of a target's writable regions in `ResultEngine`, which
`vm_region_recurse_64` enumerates; requests, calls, pids, documents, values, scripts and images
may be any number.

| theorem | statement | module |
|---|---|---|
| `QueueTypeCorrect` | `QueueSpec => []QueueTypeOK` | `ModalProofs` |
| `QueueStatusesCorrect` | `QueueSpec => []StatusMatchesQueue` | |
| `QueueIsFifo` | `QueueSpec => []ArrivalOrder` | |
| `QueueNeverMissesWakeup` | `QueueSpec => []NoMissedWakeup` | |
| `QueueImplementsTurns` | `QueueSpec => TurnsSpec` (refinement) | |
| `ShowTypeCorrect` | `Spec => []ShowTypeOK` | |
| `ShowImplementsQueue` | `Spec => QueueSpec` (refinement) | |
| `DialogsNeverOverlap` | `Spec => []OneDialogAtATime` | |
| `CallsReturnTheirAnswer` | `Spec => []AnswerBeforeReturn` | |
| `TargetTypeCorrect` | `Spec => []TypeOK` | `TargetEngineProofs` |
| `ReferencesBalance` | `Spec => []RightsAreAccounted` | |
| `FreezesNeverStray` | `Spec => []FreezesStayHome` | |
| `TimerIsNeeded` | `Spec => []TimerMatchesEntries` | |
| `DumpReportsAreTrue` | `Spec => []DumpTellsTheTruth` | |
| `BridgeTypeCorrect` | `Spec => []BridgeTypeOK` | `BridgeCallsProofs` |
| `CallsAreAnsweredOnce` | `Spec => []AnsweredOnce` | |
| `AnswersReachTheirCall` | `Spec => []AnswersDoNotCross` | |
| `OnlyShadowedCallsAreLost` | `Spec => []LostOnlyIfShadowed` | |
| `GVTypeCorrect` | `Spec => []GVTypeOK` | `GlobalViewProofs` |
| `ImagesAreWhole` | `Spec => []WholeImages` | |
| `ResetsLeaveNothing` | `Spec => []FreshStart` | |
| `FilesTypeCorrect` | `Spec => []FilesTypeOK` | `DocumentFilesProofs` |
| `OutputIsAlwaysSigned` | `Spec => []OutputIsSigned` | |
| `BuildsAreAtomic` | `Spec => BuildIsAtomic` (action property) | |
| `StoreImplementsRegisters` | `Spec => AtomicSpec` (refinement) | |
| `ListingsAreTrue` | `Spec => []ListingIsTrue` | |
| `PagesAreExact` | `Spec => []PageIsExact` | `MemoryReadsProofs` |
| `SearchKeepsItsLimits` | `Spec => []LimitsAreKept` | |
| `FoundPointersAreTrue` | `Spec => []PointersAreTrue` | |
| `SearchMissesNothing` | `Spec => []NoPointerIsMissed` | |
| `PageAndEngineAgree` | `Spec => []TypesAgree` | `ResultEngineProofs` |
| `LaterSearchesNarrow` | `Spec => SearchesNarrow` (action property) | |
| `SnapshotMatches` | `Spec => []SnapshotMatchesAfterScan` | |

`SortedSetsProofs` has the lemmas on sorted sequences that the last six rest on.

*The queue.* `QueueIInv` joins the types, `Ticketed` (who has a ticket, and that no
ticket exceeds `issued`), and the three safety properties. They need each other: the
promotion in `Cancel` gives the right statuses only because the deque has no
duplicates, which follows from the order of tickets, and tickets stay ordered
because a new one exceeds those in the deque. `RemoveAtProperties` says what
removing an element does to a sequence. `CompleteIsCancel` shows that completing
the front is a cancellation of it, so that one proof serves both.

*Turn taking.* The mapped turn is the set of active requests. `InsideAreQueued`: those
inside are exactly those in the deque; `ActiveIsOldest`: the front holds the oldest
ticket. Hence enqueueing maps to `Arrive`, completing and cancelling to `Leave`, and
waits to stuttering.

*Dialogs.* `ShowStepIsQueueStep` shows that every step of `present:` is a queue
operation or leaves the queue alone, so `QueueIInv` holds in `ModalShow` for free.
`ShowIInv` adds that what is on screen or posted belongs to an active, submitted
request and that a returned call is completed; as only one request is active
(`OneActive`), dialogs cannot overlap.

*The target.* `TargetInv` joins the types with three invariants. `HeldInv`: references
are accounted for, a lease exists exactly from the start of a dump to the end of its
worker, and a pid in use has a process; without the second, a new dump could
overwrite a lease that was never given back, and without the first, the types
would not hold, since a count might fall below zero. `FreezeInv`: every entry was
made for the task of the current session, which is true because each change of
session clears the freezer in the same step. `DumpInv`: what is on disk and
promised, by the worker's place; a file that is left of a dump that did not complete is one
that could not be removed.

*The bridge.* `CallsInv` follows a call through its places: a message in the inbox is of a
call nobody has answered or begun (`InboxInv`); a frame on the stack likewise owes its
call an answer, unless its method has just taken the call over, and then it is innermost and
`hasPendingCallback` is set until it ends, so the call is not answered again
(`StackInv`, `AnswersInv`). Only the innermost frame is ever fresh, and no run loop has turned
since it was pushed, so `pendingCallId` is still its own number: that is why
`deferCurrentCall` takes over the right call (`DeferredInv`) although the slot is shared.
Every answer carries the number of
its call (`NumbersInv`), and within one document the number is the call. `LossInv` says
where a promise that is still waiting is to be found: in one of these places, or among
the shadowed.

*GlobalView.* `SlotInv`: the slot belongs to the writer while `Writing` and to the reader while
`Ready`, and when ready its halves are of one image. `ResetInv`: what is left in the shared
structures from a reset to the next connection is no button action, no loaded application
and a slot nobody writes. Both hold until an
application connects inside the reset (`raced`), and `RacedStays` shows that this is final.

*Files.* That a name always holds a whole script is not inductive. `FilesInv` adds that the
file of a save or a build has no name, in the directory or on the disk, until it is
published, that it is whole and durable by the time it is, and that the library under the
output's name is signed until power is lost. A power loss then finds whole scripts, since
what the disk's directory names is durable. For the refinement each step of the store maps to
one of the register's, or to none: creating, writing and syncing to stuttering, the rename
to `Save`, opening to `LoadTakes`, a flush of the directory to `Keep`.

*Listings.* `ListInv` says, while a listing is under way, what it has found of the names it is
through with (`FoundSoFar`): a name nobody else touched has been found exactly if it is
there. The name between `readdir` and `lstat` is neither left nor through, so it has a case
of its own; if it is gone by then others have removed it, since nothing else takes a name away while
`list` runs: that is why an `errno` without a broken directory needs a removed name.

*Pages.* `PageInv` says which places are through: all below the offset, and below the index in
the chunk under way. What was read stays what its address has held, because `had` only
grows, and `memory[a] \in had[a]` makes each new byte so. The chunk stays in the page
(`offset + requested <= PageLength`) and the page below the last address (`Fits`), so no read is
of an address that does not exist.

*Pointer searches.* That nothing has been missed so far is not inductive: it does not say where
what has not been found yet is. `FindInv` says of each address to be found (`NoneMissed`) that it
is a result (`IsFound`), in what is left of the region (`IsNext`), in a region still to be entered
(`IsLeft`), or beyond what the limits allow (`PastResults`, `PastBudget`); a step may only move it
along. For that, reads must be of whole pointers from an aligned cursor on (`ChunkOK`,
`RequestProperties`), so that the next aligned address after a read is at its end and no word is
cut (`Multiples`); the regions left must be apart and above the last read (`LeftOK`), so that an
address beyond a limit is above all results; and what is left of a region must have been mapped when
the search began, so that a read fails only if the target has unmapped something since
(`Shrunk`). `PartsOfRegions` and `EnumerateProperties` show that a word of mapped bytes in the
range, none of them skipped, lies in one of the regions enumerated, and that no byte of
these is skipped; `AlignedProperties` and `RegionEndProperties` that
the guards against overflow lose none.

*Results.* `TypesAgree` needs the shape of what each search leaves. `ResultsInv` says that a
region with types has one for each result (`Shaped`). A region without types then comes
from a search that made the two fall-backs equal; of the two that set one without the other, a
filter gives types to all its regions, and a nearby search to all when the fall-backs would differ
(`NearBySearchProperties`). Empty regions are left only by a nearby search that memory
runs out in, where null ones stay; no later search gets past them (`Intact`), and all others leave
none (`Formed`). That each narrowing search lists only what was listed is shown region by
region (`Narrows`, `KeepProperties`). `SavedInv` ties the snapshot to the results it was taken of;
when no address is listed twice, the last result at an address is the only one
(`SavedTypeIsItsOwn`).

*Sorted sequences.* `AscendingProperties` says of any finite set that `Ascending` holds each
element once and upwards. The proof, and the one that every window of a nearby search keeps
slides and types of one length (`NearSlidesProperties`), go by induction, which the
library's induction theorems cannot give here: they take an operator as a parameter, which none
of the provers can instantiate. `LeastNumber`, every set of numbers has a least one, is proved from
well-foundedness, and the least number that fails the claim contradicts the step.

## 6. Only model-checked, not modelled

Only model-checked: all liveness properties (`ReturnsUnlessBuried`,
`SettlesUnlessShadowed`, `EvalEndsUnlessDeadlocked`, `CancelTakesEffect`, `DumpEnds`, `ReadsEnd`
and three of `GlobalView`), because the prover handles neither fairness nor `ENABLED`. Every
invariant, action property and refinement that a passing run checks is also proved.

Abstracted within the modelled parts: text, buttons and layout of dialogs; argument
validation of the bridge (a refusal); values, types and failure counts of frozen
entries; percentages of dumps; byte widths, float tolerance and the reading and
writing of single values in searches; a `bad_alloc` that is caught nowhere (in
`searchHex`, `searchChange` and `searchFilter`, and on the bridge) and ends the process; and
the count that `Result::add` raises before a `push_back` that fails (`MemoryResults.cpp:37-38`),
which is one too high until the next `recount`.

Not modelled, and why:

* *Value parsing and formatting*: conversions of strings without state, character by
  character; nothing interleaves and unit tests reach their edges.
* *Plugin loader*: a dictionary of handles under one lock that is held for a whole load; there is no
  step at which anything else could come in.
* *Preferences*: each call reads, changes and writes a bounded list under one lock, so it is one
  step, and what it does is a function of the list.
* *Process lookup, method schema*: stateless queries of the kernel and a static table.
* *Start-up*: installs timers and retains objects once, before anything modelled here begins.
* *In GlobalView*: touch regions and geometry, which are values one side writes and the other
  reads, without a protocol.
* *Views, menu pages and vendored code*: layout, and third parties' code.

## 7. The plan

Modelled in the order of what hurts most when it goes wrong: dialogs block the
whole menu, the bridge is under every call, the target session decides whose
memory is written, the results are what the user works with, SpringBoard outlives
the application, and files outlive them all. What remains:

1. The last error of the script store, which a listing by `getLocalScripts` clears between a
   failing call and the page's `getLastFileError`.
2. An abstract mailbox for `GlobalView` that never shows a torn image, and its
   refinement.
