# Verification of the concurrent and stateful code of gitbook-daliu-ios

The repository is a book on iOS development: chapters in Markdown, demo projects in
Swift and Objective-C that go with them, and copies of other projects' sources
(objc4, dyld, Alamofire, SnapKit, AFNetworking, Masonry), and a web page that a chapter
was written on, saved with its scripts. Its own logic is in the
demos. This directory models the ones in which several threads, callbacks, timers or
notifications share state, and the readable scripts of the saved page, checks them with
TLC and proves the main invariants with TLAPS. Paths below are relative to the repository.

The scripts of the saved page (`Https/images/我的分享-章节 - 蓝湖_files/`, "the LanHu page")
are not this repository's work: they are what the page's authors and others wrote, kept
with the book. They are modelled because they are the repository's only JavaScript that is
more than a snippet, and because a loader with a fallback and a calendar are worth it.

## 1. Inventory

| Component | State | Operations | Interaction | What is hard |
|---|---|---|---|---|
| GCD readers-writer lock (`Runtime/源代码/Joy-Demo/GCDReadWriteLock/.../ViewController.swift`) | two semaphores, a counter, the blocks of the global queue | `读`, `写`, the loop of `viewDidLoad` | blocks on worker threads share the semaphores | interleavings; waits that hold worker threads |
| Dispatch groups (`Demos/sdks/network/DispatchGroupVC.swift`) | a group per tap, a semaphore per tap, data fields and image views shared by all taps | `common`, `commonRequest`, `dependencyRequest`, `getDataFromUrl` | main thread, worker threads, network callbacks | a group that empties early, overlapping taps, failed requests, blocked workers |
| SRVideoPlayer: playback and controls (`视频/demos/SRVideoPlayer-master/SRVideoPlayer/SRVideoPlayer.m`, `SRVideoBottomBar.m`) | player state, manual pause, visibility of bars, slider flag | the app's calls, KVO, notifications, gestures, timers, seek completions | everything on the main thread, in any order | late completions and timers, background and foreground |
| SRVideoPlayer: full screen (same file) | orientation, full screen flag, superview, status bar | device notifications, the button, `destroyPlayer` | UIDevice, the key window | notifications that come late or stand for several turns |
| SRVideoDownloader (`.../SRVideoDownloader.m`) | files in tmp and in the cache; one path pair and one file handle for all requests | start, session callbacks, cancel, clear | SRVideoPlayer; HTTP servers; the file system | resume, crash, cancellation, overlapping requests, servers that do not honour Range |
| Views without state (`SRVideoTopBar.m`, `SRVideoProgressTip.m`, ...) | layout only | | forward touches to the player | nothing |
| LDSpeedTest (`LDNetworkSpeedTool.m`, `LDNetworkFlowTool.m`) | singletons: counters, time stamps, a timer | start, timer, session callbacks | app, NSURLSession | state kept from one measurement to the next |
| BMModuleKit (`Runtime/DELtold/BMModuleKit/.../BMModuleRouter.m`) | modules, lazily built routes with unretained pointers to them, kept targets | add, remove, route, target | app | routes that outlive a module; removal against lazy rebuilding |
| LanHu page: captcha loader (`lib-393472a69e.js` 5-125) | a status, a queue of callers | `initGeetest`, the callbacks and load events of two servers' scripts | callers, script elements | callers that come before, while and after; a fallback; several load events |
| LanHu page: version note (`version.dynamic.js` and eight identical copies) | a record in localStorage, two timers | the script, its timers | reloads the page under the loader; other pages of the browser | runs again and again; records before it shows |
| LanHu page: date picker (`lib-393472a69e.js` 286-763) | date, page, mode, popup, text, handlers on the window | the plugin's methods, keys, clicks, `resize`, `mousedown` | user and app | the page drawn against the page computed; month ends; the turn of a year |
| LanHu page: minified and compiled scripts | | | | not meant to be read |
| ZZQRManager, JKVideoPlayer, TestAVFoundation, BMAudioRecorder | capture, playback and recording sessions | delegate calls, buttons | AVFoundation | start/stop against late results; 32-bit sizes in the WAV header |
| Swizzling demos, BMAutoLayout, UI demos, chapters, vendored code | none that changes after set-up, or not this repository's | | | |

What makes each component correct:

* lock: exclusion, nobody blocked for ever, the lock back in its initial state;
* groups: the merge after all tasks and exactly when they are done; nothing that was
  downloaded lost or shown over something newer; the third request after the other two
  and, if they end, sent;
* player: a paused video stays paused and can be resumed; late callbacks do not wake
  what was destroyed; the slider obeys the finger, then playback again;
* screen: flag, superview and status bar agree; the picture follows the device; the
  button does something;
* router: no route outlives its module; routes are all there or none is; a kept target is
  made once;
* cache: what is found in the cache is the video, whole; what was downloaded is kept;
* loader: whoever asks is answered once, and in the end, whichever script arrives;
* note: it is not recorded unseen;
* picker: a click picks the date it shows; pages are whole months, each day under its
  weekday, and an arrow turns one; the text says what the date is.

`PROJECT.json` lists under `hazards` the most important lines at which these can go wrong, with the
properties that cover each, or the reason why none does.

## 2. Modules

| Module | Models | State |
|---|---|---|
| `ReadWriteLock` | the lock, statement by statement (`pc`), and the queue (`submitted`, `started`, at most `Workers` running) | `wrt`, `mutex`, `readCount` are the view controller's fields; `printed` records what line 49 printed |
| `SharedExclusive` | what a readers-writer lock promises (abstract) | one phase per client |
| `GroupCommon` | `common`: N tasks entered by the main thread while earlier ones already leave | `count` of the group, `block`, `notify` |
| `GroupRequest` | `commonRequest`: several taps with a group each and shared `imgData`, `image` | `request`, `group` (its count) and `notices` (its notify block) per tap; `latest` is a history variable |
| `GroupDependency` | `dependencyRequest` and `getDataFromUrl`: group, notify block, semaphore, the global queue with its threads, the main thread | `queue`, `pc`, `count`, `sem`, `main`; `printed` records the END lines |
| `VideoPlayer` | playback, controls and slider of SRVideoPlayer | `item`, `rate`, `state`, `manualPaused`, `seeks`, `ended`, `touches`, `bars`, `replay`, `hideTimer`, `finger`, `dragging`, `dragTimers`, `panning`, `active`, `onScreen` |
| `VideoScreen` | orientation and full screen of SRVideoPlayer | `device`, `notes`, `orientation`, `full`, `parent`, `statusHidden`, `item`, `listening`; `changed` is a history variable |
| `VideoDownloader` | SRVideoDownloader, its two directories, its requests and the servers | `tmpDir`, `cacheDir`, `tmpPath`, `cachePath`, `handle`, `task` |
| `VideoStore` | what a cache of videos fetched piece by piece promises (abstract) | `held`, `kept`, `fetching`: no file, path or request |
| `ModuleRouter` | BMModuleRouter: its two dictionaries, and of each module whether it keeps its target and has one | `made`, `modules`, `shouldCache`, `target`, `routers`; `instances` is a history variable |
| `GeetestLoader` | `initGeetest`: queue and status, the two servers' scripts, the element `gt_lib` | `status`, `callbacks`; `library` and `element` are what `detect` looks at; `front`, `frontMore`, `downs`, `downMore` the load events to come; `starter` the closure's caller; `called` and `refused` count |
| `VersionNote` | the version script, on a page and on the others of the browser | `stored` (localStorage), `runs`, `timers`, `retries`, `reloading`, `dialog`; `first`, `seen`, `failed` are history variables |
| `LanhuPage` | both on one page: `Reload` makes the loader new | those of the two |
| `Calendar` | JavaScript's dates as far as the picker uses them, `parseDate`, `formatDate`, the 42 cells of `fill` | none: operators |
| `DatePicker` | the picker of one element and its popup | `date`, `viewDate`, `viewMode`, `text`, `shown`, `resizes`, `mousedowns`; `drawn` and `panel` are what the popup shows; `over` is the room below the input; `strayed` and `scrolled` are history variables |
| `*_proofs` | theorems about the module they extend | |
| `MC*` | instances for TLC | |

Every module's actions are the code's handlers, whole: one action per statement where
threads interleave (`ReadWriteLock`), one per handler where everything runs on the main
thread (`VideoPlayer`, `VideoScreen`, `VideoDownloader`, `ModuleRouter`, `GeetestLoader`,
`VersionNote`, `DatePicker`), and one per block or main-thread
body in the dispatch-group modules, where the blocks touch nothing but what the action
shows. The one body of `main.sync` that does something after it has let others go on
(`group.leave()` and then `print`, lines 236-237) is two actions. The definitions with a
comment that begins "Mutant" are not part of a specification; each is a plausible mistake
in the operation next to it, and a property named in `PROJECT.json` fails with it.

What is outside the source and modelled from its use: the global queue (oldest block
first, a bounded number of threads), `DispatchGroup.leave`, semaphores, the AVPlayer's
end of playback, the turning of the device, the servers' answers, the end of the process
and the purging of tmp and Caches; on the LanHu page, what the captcha's servers send, the
other pages of the browser, and JavaScript's `Date` (`Normal`, `Weekday`).

### Interaction of the parts of SRVideoPlayer

`play` hands the URL to the downloader, which calls back `didFindCacheVideoFilePath:` or
`notFindCacheVideoFile`; both end in `setupPlayer` within the same call. So for
`VideoPlayer` a play is one step with an item that loads, and for `VideoDownloader` it is
`DownloadVideo`. The player streams from the network by itself and never reads the file
that is being downloaded. The only other connection is the close button, which destroys
the player and cancels the downloads; `viewDidDisappear` destroys without cancelling,
hence `Overlap` in the downloader. `VideoScreen` and `VideoPlayer` share `destroyPlayer`
and the condition that there is an item; each models its own part of it.

## 3. Runs

| Run | Instance | Question |
|---|---|---|
| `rwlock` | 3 writers, 3 readers, 4 threads | exclusion, printed count, restoration, termination, implementation of `SharedExclusive` |
| `group_common` | 5 tasks | merge after all; merge happens |
| `group_request` | 3 images, 2 taps | nothing stranded, nothing outdated shown, every tap shown |
| `group_dependency` | 3 taps, 4 threads, 2 failures | third after both; third shown unless its own tap failed |
| `third_after_failure` | 1 tap, 1 failure | violated: the third request follows the end of the pair |
| `player` | 2 plays, 2 seeks, 2 slider timers, every end action, apps with and without calls of their own | controls in reach, pauses hold, seeks wait, quiet after destroy, slider thaws |
| `screen` | 2 notifications under way | status bar, following the device, the button |
| `cache` | 2 videos of 3 pieces, one request at a time, servers that honour Range | cache faithful, completion caches, nothing lost, implementation of `VideoStore` |
| `cache_overlap` | the same, 2 requests at once | violated: cache faithful |
| `router` | 2 classes, 3 selectors, 5 modules in all | routes alive, whole and up to date; targets kept |
| `page` | 3 callers, of whom 1 has an `onError`; 1 or 2 load events of a script; note 2, seen, older or unknown; the script twice before its first timer; any number of reloads | everyone answered once, and in the end; the note not recorded unseen |
| `picker` | 3 configurations, 4 texts, 2 dates, the cells of days 1 and 31, five months of 2014, 2023 and 2024, 2 calls of `show` | clicks, arrows, whole pages, text and date, popup and handlers |

Why the bounds are enough. Lock: a reader can be first, join, be last and come too late
only with three; four threads are fewer than the six blocks, so all threads can be
blocked in a wait while blocks are still queued. Groups: every subset of the tasks can be
early or late around each enter; a second tap can fall between any two steps of the
first; three taps with four threads make two waiting blocks hold threads for ever and the
third still pass. Player: two seeks and two timers are the least with which one overtakes
another, two plays the least with which a callback can belong to a player that was
destroyed. Screen: with two notifications under way one can stand for both turns and the
button can come between them. Cache: three pieces let an interruption fall at the start,
in the middle and at the end. Router: five modules let each of two classes be replaced
while the other has routes; one selector is an instance and a class method. Page: of three callers
one starts the loading, one waits behind it and one comes late; with two load events a
script that finds nothing asks twice for the fallback. Picker: the years hold a leap
day, the turn of a year and a step of a decade back (to 2014 from 2024), and the months
(December to April) every length a month has; the proofs have every
month of every year; days 1 and
31 are the ones drawn on the page of their own month and of its neighbours; the
configurations differ in every option (weeks from Sunday, Monday and Saturday, with and
without days, in an input and not), and the texts are month ends, a day too many, a part
that is no number, and too few parts. `WalkAssumption` of `MCDatePicker` compares the
cells with a walk day by day in years of every kind. The bounds `MaxEvents`, `MaxRuns`,
`MaxShows`, `Years`, `SomeMonths`, `MaxTaps`, `MaxFailures`, `MaxPlays`, `MaxSeeks`,
`MaxTimers`, `MaxNotes`, `MaxLive`, `MaxModules` only cap how often the environment acts. Deadlock is
checked in every run but `page`: a demo that has finished stutters by `Terminating` (`RequestsEnd` in
`GroupRequest`), any other stop
would be reported. A page on which everyone has asked and every script has arrived rests.

### Where code and documentation disagree

1. `third_after_failure`: a failed download never calls its completion, so the group is
   never left and the third request is never sent; the comment at `DispatchGroupVC.swift:210`
   says it is sent when the first two have ended, and `commonRequest` does leave on failure.
2. `cache_overlap`: the callbacks of a request use the paths and the handle of whatever
   was opened last; the cache can hold a mixture of two videos under one name.

Eight more follow from the same specifications, and no run is spent on them. The completion
of request one leaves the group and prints its END afterwards; meanwhile the third download
can print "3 END", which the comment at `DispatchGroupVC.swift:276` says is always last:
`ThreePrintedLast` of `GroupDependency`, as an invariant, fails. The delayed block of one
drag clears the flag of the next, so the thumb jumps, which the delay is there to prevent
(`SRVideoPlayer.m:765`): `SliderHeld` of `VideoPlayer`, as a property, fails. The controls take touches only from the
first readiness on, which "prevents the crash that caused by dragging before the video has not load
successfully" (`SRVideoPlayer.m:324`); but neither `destroyPlayer` nor `play` looks for a
touch that is held, so a thumb (or a pan) let go of while the next video loads begins a seek on
an item that is not ready: `SeekNeedsReady` without its exception `HeldThrough` fails. A player
created while the device is held landscape-right believes that the interface is turned already (`setupOrientation`), and its
full screen button returns early at `SRVideoPlayer.m:522` until the device is turned:
`ButtonToggles` without `changed # "init"` fails. "Unregister module first" says the
comment at `BMModuleRouter.m:144` of `removeModule`, which removes the routes and leaves
the module in `modules`: `RemoveModule` does not change `modules`, and the next `Route` to
a removed class is answered. With `"error"` among
`Responses` an HTTP error page is cached as the video (no status is looked at,
`SRVideoDownloader.m:108`); with `"whole"` a server that ignores Range has the whole video
appended to the part in tmp (line 94); `CacheFaithful` fails for both. With as many taps
as threads (`MaxTaps = Workers`) the blocks of `dependencyRequest` that wait hold every
thread and the notify block that would signal them is never run: `ThirdShown` fails, and
the run reaches a deadlock.

## 4. Fairness

* `ReadWriteLock`, `GroupCommon`, `GroupDependency`: weak fairness of the whole next-state
  relation, i.e. some thread that can take a step does. Nothing finer is needed because
  every behaviour is finite; in particular no order among the threads that wait for a
  semaphore is assumed.
* `GroupRequest`: weak fairness of each request (Alamofire answers every request, if only
  by its timeout) and of each tap's notify block; none of `Tap`: the user need not tap.
* `LanhuPage`: weak fairness of the api server's script, of `gt_lib` and of the static
  server's script: an element that was put into a page loads or fails in the end. None of
  the callers, the timers or the reload.
* `VideoPlayer`, `VideoScreen`, `VideoDownloader`, `ModuleRouter`, `DatePicker`: none; their properties are safety
  properties. Users, servers and devices owe nothing.

## 5. Proofs

Each theorem holds for every value of the constants that satisfies the named assumptions
of its module. The inductive invariants are also invariants of the runs `rwlock`, `player`
(each `IInv`), `group_request` (`RequestInv`), `page` (`PageInv`) and `picker`
(`PickerInv`); of the others the runs check the properties they imply, and adding `IInv` to
a configuration checks the rest. Invariants that only a proof needs (`RunInv`,
`AnyInv`, `PathInv`, the cache's `IInv`, the never-stuck properties) are defined at the head
of the proof module; give TLC that module's definitions in a configuration of one's own to see
them on an instance. The type invariants are parts of the inductive ones and
proved with them.

* `ReadWriteLock_proofs`: `Invariance`, `TypeCorrect`, `MutualExclusion`, `PrintedCount`,
  `LockRestored`, `Implementation` (any number of rounds and threads). `Exclusion` is not
  inductive: it says nothing of who holds what. `IInv` adds that `mutex` is 0 exactly when
  one reader is in a mutex section, `wrt` is 0 exactly when a writer writes or readers
  share it, and `readCount` is the cardinality of the set of counted readers, of which one
  that waits for `wrt` is the only member. `Implementation` shows that the initial states
  and the steps of the semaphores map to those of `SharedExclusive` under the refinement
  `phaseBar`; its liveness part is left to TLC. `LockNeverStuck` and `LockProgress` are the
  safety half of `AllReturn`: until every block has returned some thread can go on, and a
  step uses up one of at most `22 * Rounds` pieces of work. The first is where a deadlock
  would be: a reader that waits for `wrt` holds `mutex`, and whoever holds `wrt` then is a
  writer that needs neither, so even with one worker thread the blocks come through.
* `Groups_proofs`: of `common`, `MergesAfterAll`; of `commonRequest`, `RequestInvariance`,
  `NotifiesAfterAll`, `DataIsShown`, `LatestShown`, for any images and any number of taps.
  The count of a group is the cardinality of the set of tasks it waits for (`Outstanding`,
  `Unanswered`); without it a leave that empties the group proves nothing. Data is not
  stranded because an answer can only come while its own tap's notify block is registered
  (`TapInv`), and whoever runs such a block shows and clears all there is.
  `CommonNeverStuck` and `CommonProgress`, `TapsNeverStuck` and `TapsProgress` are the safety
  halves of `Merged` and `EveryTapShown`. They needed one more fact in each invariant: a
  notify block of `common` that is registered has somebody to wait for, or else the leave or
  the registration that found the group empty would have submitted it; a tap of
  `commonRequest` that was made has registered its block (`TapInv`).
* `GroupDependency_proofs`: `Invariance`, `TypeCorrect`, `ThirdWaits`. The argument is a
  chain (`ChainInv`): the notify block runs after the pair, the semaphore is signalled by
  the notify block, the third request is sent after the semaphore. The signal at line 250
  comes only after the third request, which is why it cannot let it go early.
  `NothingForgotten` is the converse chain (`RunInv`): whatever waits in the queue is there
  to be found, the end of the pair submits the notify block, and its signal stays with the
  semaphore until the third block takes it. From it follows `OnlyWaitsHang`: for
  any number of taps and threads, the one way to hang is that blocks in
  `semaphore.wait()` (line 245) hold every thread. `EnoughWorkers` concludes that
  a thread more than there are taps is enough, and the run of section 3 with
  `MaxTaps = Workers` shows that one less is not. `TapsProgress` bounds the steps by
  `28 * MaxTaps`; with `EnoughWorkers` it is the safety half of `ThirdShown`.
* `VideoDownloader_proofs`, in three layers, each with the assumptions it needs and no more.
  In every environment, overlapping requests included (`HandleInvariance`): the handle is
  open on the file of `tmpVideoPath` or on one that was moved to the cache (`HandleOpen`),
  and a body has no more pieces than its video. If videos are opened one at a time
  (`~Overlap`), whatever the servers answer and however names collide (`PathInvariance`): the
  shared paths and the handle are those of the request alive (`PathsInStep`) and a video is in
  one of the two directories (`OnePlace`). That is enough for `CompletedIsCached` and
  `NothingIsLost`. If moreover servers honour Range and every URL has a name of its own
  (`WellBehaved`, `Invariance`): a tmp file is a prefix of its video (`TmpIsPrefix`), and the
  request alive delivers exactly the next piece it needs (`BodyInStep`), so a request that
  is complete has made the file whole: `CachedVideos`. Each assumption is needed (see the
  violations above). `VideoStoreImplemented` puts it together: what a reader of the class
  expects is `VideoStore`, and under the refinement mapping at the end of `VideoDownloader`
  (`held`: the pieces in either directory; `kept`: the names in the cache;
  `fetching`: the videos of live requests) each step is one of its steps or a stutter. It
  adds to the others that a piece goes only to the video being fetched, and that a video is
  kept only by the request that fetched it, at its end.

* `VideoPlayer_proofs`: `Invariance`, `TypeCorrect`, `PlayOnInReach`, `PausesHold`,
  `Thaws`, `SeeksWait`, `StaysQuiet`. `PauseHolds` and `ControlInReach` need to know who
  can have paused: `PauseInv` says that a paused state is the user's, or the system's
  while the app is not active, that the user can have paused only with a button on bars
  that are there, and that the item was ready. That last part rests on `ReadyInv`: the
  controls that pause or seek are on screen and usable only once the item is ready, and a
  thumb or a pan is held only on a view that took touches. `SeeksWait` follows but for the
  touch held while its player was destroyed (`HeldThrough`), which the code lets seek.
* `VideoScreen_proofs`: `Invariance`, `ScreenAgrees`, `DeviceFollowed`, `ButtonAlive`. What
  a change of orientation establishes is the same whoever makes it (`ChangeFacts`).
  `ListeningInv` is needed because a notification that came after `destroyPlayer` would
  put the view back; `FullInv` ties the flag to the orientation once it has changed.

* `ModuleRouter_proofs`: `Invariance`, `RoutesAlive`, `RoutesCached`, `InstanceKept`, for any
  classes and methods. `RoutesWhole` is what makes a miss safe to act on: by it, a class
  for which one route is missing has none, or has no such method (`BuiltFacts`).

* `PageScripts_proofs`, of both parts of the LanHu page. `PageInvariance`,
  `CallersAnsweredOnce`, `NoteShown`: the queue holds who has asked and has not been called
  back, once each (`CountInv`), and a status goes with the scripts that can bring it about
  (`OrderInv`), so that a run of the queue cannot meet a caller again; who has started the
  loading waits with the others (`StarterInv`), which is why it is not told of an error
  after its callback if a browser fires one load event (`OneEventInv`). `SomethingToWaitFor`,
  `QueueKeepsAll` and `LoaderProgress` are the safety half of `QueueServed`: who waits leaves
  the queue only by being called back, or with the page; something that ends the waiting is
  still to come unless loading has failed; and the events to come are finitely
  many (`EventsLeft`: a load event of the api server's script may ask for the fallback, and
  that one's may come several times), which only a page's first caller adds to. `PickerInvariance`,
  `ClickPicks`, `ArrowsTurnOnePage`, `PagesAreWhole`, `TextIsTheDates`: the page is always
  on a day up to 28 (`PickerInv`), so that no month is skipped. What `PickerInv` says of the popup's mode and place has the
  exceptions the code has: `place` looks at the scroll position and nothing places the popup
  again when the page is scrolled (`scrolled`), and an app can call `showMode` while the popup
  is hidden (`strayed`). That every text can be read, also the ones the picker has written
  (`Readable`, `FormatFacts`), is needed for `update()`, which reads whatever is there. Weekdays are those of a
  count of days that goes up by one from each cell to the next (`DayNumber`, `CellNumber`), whatever
  month or year they cross; the first cell is then the last `weekStart` of the month before.
  `PagesAreDaysInARow`: the cells are the days that the loop of `fill` walks one `setDate` at
  a time (`CellsGoOn`), so the closed form of `Page`, which the model uses, is the loop's
  result, and no day has two cells.
  A text that was written from a date reads back as it, field by field (`RoundTrip`).

Only model-checked: the liveness properties (`AllReturn`, `Merged`, `EveryTapShown`,
`ThirdShown`, `QueueServed`) and the liveness part of `ImplementsSharedExclusive`, because
liveness under fairness and ENABLED are out of the prover's reach. The facts
such proofs would rest on are theorems for each of them: never stuck, and every step does
a piece of finitely many. They say "some step is possible" by the conditions
under which threads block or scripts are under way, not by ENABLED.
Out of reach too, and not needed, is induction over recursive definitions: no module
declares one.

## 6. Not modelled

* Labels, images, spinner, volume and brightness of the player; durations and positions
  (so not the division by a live stream's time scale, `SRVideoPlayer.m:326`).
* `play` twice without `destroyPlayer`: the model's app destroys first, as the demo does.
* When the AVPlayer that `destroyPlayer` lets go of is deallocated.
* Whether UIKit cancels a touch, or a pan, when its view is taken from the screen: the model
  lets it go on (`finger`, `panning`), as a touch stays with the view it began on, and may
  end it at any moment.
* The sleeps of the lock and of `common`: any block may be as slow as it likes.
* The router's marshalling of arguments and results, and calls of the router from within
  the initialiser of a target that it is making.
* Of the LanHu page: the minified and compiled scripts; the picker's markup, `onRender`
  (which only takes clicks away) and the other pickers of a page, which share the handler
  `place` (`lib-393472a69e.js:381`); calls by the app of the picker's `click` and `mousedown`,
  which take an event, and of `fillDow` and `fillMonths`, which add markup; times of the day,
  also of a date given to `setValue` (its cell would not be highlighted), so that no midnight
  is skipped by daylight saving; dates given to it that are invalid; a call of `initGeetest` without a `gt`, which returns at once, and
  callbacks that throw.
* Some things the code does that no property is about, besides the hazards listed as such:
  a tick of the player after its end sets the state to Playing (`SRVideoPlayer.m:341`), and
  a player that is buffering is not paused by `destroyPlayer` (line 501); `LDNetworkFlowTool`
  starts a second timer (line 54) and wraps at 2^31 (line 100); the picker leaves a
  `mousedown` handler behind with each `show` (`lib-393472a69e.js:365`) and opens in a start
  mode finer than `minViewMode` (line 382); a page that stays old, from a cache on the way,
  reloads for ever (`version.dynamic.js:10`).
* LDSpeedTest, ZZQRManager, the smaller players and the audio recorder: see
  the plan. The rest of the repository has no behaviour of its own to model.

## 7. Plan

Done: the lock, the three dispatch-group buttons, the video player, its screen, its cache,
the module router, the captcha loader, the version note and the date picker of the LanHu page.
Next, in this order:

1. `SpeedTool`, `FlowTool`: measurements that overlap or follow one another; a 32-bit
   counter that wraps; the speed as a function of this measurement's bytes only.
2. `QRScanner` and `AudioRecorder`: one result per scan; recorder and player over one file;
   the sizes in the WAV header modulo 2^32.
3. Composition of `VideoPlayer` and `VideoDownloader` through `play` and the close button.
4. Two pickers on one page, with the handlers of `resize` they share.

## 8. Running it

    tlc -workers 2 -config MCReadWriteLock.cfg MCReadWriteLock   # and the other .cfg files
    tlapm ReadWriteLock_proofs.tla                               # and the other _proofs modules

A configuration `MCX_claim.cfg` belongs to module `MCX` and is expected to end in a
counterexample; every other configuration ends without an error.
