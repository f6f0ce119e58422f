# Verification of telesma-app/hid

TLA+ models of this library on its three platforms: the event queue, the
watchers, the open device with its reads, writes and Close, and the code that
computes (descriptor parser, report layouts, uevents, iterators). TLC
configurations check them on small instances; TLAPS proofs cover the event
queue every platform shares, the open device and the watcher on each platform,
the reconciliation of Linux and Windows, and the reports and texts of the code
that computes. Paths and line numbers refer to the repository.

- [Inventory](#inventory)
- [Modules](#modules)
- [How the models correspond to the code](#how-the-models-correspond-to-the-code)
- [Runs](#runs)
- [Fairness](#fairness)
- [Proofs](#proofs)
- [A disagreement between code and comment](#a-disagreement-between-code-and-comment)
- [Limits of the code that the models show](#limits-of-the-code-that-the-models-show)
- [Not modelled](#not-modelled)
- [Plan](#plan)

## Inventory

The library enumerates HID devices, opens them for reports and watches them
come and go, on Windows, macOS and Linux without cgo.

| Component | State | Operations | Interacts with |
| --- | --- | --- | --- |
| Device event queue (`event.go`) | `pending`, `closed` under `mu`; channels `out`, `wake` (capacity 1), `done`, `stopped`; `closeOnce` | `Send`, `Listen`, `Close`, forwarder `run` | senders are the receivers of the three platforms, the consumer is the client |
| Watcher interface (`event.go`) | none of its own | `Snapshot`, `Listen`, `Close` | promise to the client |
| Linux watcher (`event_linux.go`) | netlink socket and eventfd; `closed`, `initializing`, `startupEvents`, `devices`, `runErr`, `closeErr` under `mu`; `stopped`, `closeOnce` | `Watch`, `run` (poll, drain, `onUevent`), `publishStartup`, `Close` | kernel uevents, sysfs, event queue |
| Uevent parsing (`event_linux.go`) | none | `parseLinuxUevent` | Linux watcher |
| Windows watcher (`event_windows.go`) | `cmReceivers`; notification handle; `closed`, `initializing`, `startupEvents`, `devices` under `mu`; `once` | `Watch`, notification callback, `publishStartup`, `Close` | configuration manager threads, SetupAPI enumeration, event queue |
| macOS watcher (`event_darwin.go`) | `darwinEventReceivers`; `closed`, `runLoop`, `devices`, `snapshot`, `initializing` under `mu`; `ready`, `stopped`, `closeOnce` | `Watch`, `run`, matching and removal callbacks, `Close` | IOHIDManager, CFRunLoop, event queue |
| Linux device I/O (`io_linux.go`, `hid_linux.go`) | file, one mutex for each kind of operation | `Read` (polls), `Write` and feature reports (`runIO`), `Close` | hidraw |
| Windows device I/O (`hid_windows.go`) | handle, `readMu`, `writeMu`, `readTimeout` | overlapped `Read`, `Write`, feature reports, `Close` | HID driver, `CancelIoEx` |
| macOS device I/O (`hid_darwin.go`) | `reports` (16), `writes`, `closing`, `removed`, `stopped`, `writeStopped`, `closeMu` | `Read`, `Write`, `runWrites`, `run`, removal callback, feature reports, `Close` | IOHIDDevice, CFRunLoop |
| Report framing | none | report-id byte, buffer lengths, feature ioctl number | device I/O |
| Enumeration and match options (`types.go`, `hid_*.go`) | none | `Enumerate` as an iterator, `match` | platform listing |
| Report descriptor parser (`reportparser/`) | none | `ParseReport` | Linux usage lookup |
| Context plumbing, Windows bindings, platform structs | none | option storage, generated wrappers, declarations | |

Which behaviours are hard, and what makes each component correct:

- **Event queue.** `Send` runs on native callback threads and must never wait.
  The append happens under the mutex, the wake-up after it, into a channel that
  holds one token; `Close` may be called by several goroutines and must return
  although nobody receives. Correct: order, no loss before `Close`, no lost
  wake-up, every `Close` returns and leaves nothing running.
- **Watchers.** Each one subscribes to changes first and lists devices second,
  so changes overtake the listing, repeat it, or contradict it; metadata is
  read while devices go on changing; `Close` races callbacks, the publication
  of the snapshot, and a failure of the event source. Correct: a client that
  knows only the snapshot and the events ends up with the devices that are
  there, failures are reported, a failed `Watch` and a `Close` leave nothing
  behind, and `Close` returns.
- **Device I/O.** A cancelled operation may stay in the driver and keep its
  mutex; timeouts race completions; a request may be cancelled before it is
  issued; removal and `Close` race reads, writes and the two threads of macOS; a
  descriptor or handle value is used again by the rest of the program. Correct:
  operations of one kind never overlap and none is made twice, a report that
  was taken is returned, cancellation, removal, timeout and `Close` end the
  calls they are meant to end, and `Close` touches nothing that is in use or not
  its own.
- **Pure code.** Descriptor parsing, report layouts, matching and iterators,
  uevents and strings: boundaries, malformed input, and three platforms that
  are to agree.

`PROJECT.json` lists the hazards line by line with the properties that are
aimed at them, and says of the two without a property why there is none.

## Modules

| Module | What it is |
| --- | --- |
| `EventStream` | abstract: events are accepted, received in order, and the stream ends, with no queue, wake-up or forwarder |
| `DeviceEventQueue` | the queue, one action for each critical section or channel operation; implements `EventStream` |
| `Watcher` | abstract: a snapshot, then changes to it, then the end |
| `LinuxWatcher` | receiver, `Watch` and kernel on Linux; implements `Watcher` |
| `WindowsWatcher` | receiver, `Watch`, configuration manager and SetupAPI; implements `Watcher` but for repeated connections |
| `DarwinWatcher` | receiver, `Watch`, IOHIDManager and run loop; implements `Watcher` |
| `StartupReconcile` | the reconciliation loops of Linux and Windows against a definition over the whole input |
| `SerialIO` | abstract: calls of one kind begin their native operation once and one at a time, and succeed only if it has ended |
| `SerializedIO` | `runIO` of io_linux.go; implements `SerialIO` |
| `LinuxDevice` | open hidraw device; composes `SerializedIO` (Write) with Read, feature reports, Close and the descriptor number |
| `WindowsDevice` | open device with overlapped I/O; its reads and its writes implement `SerialIO` |
| `DarwinDevice` | open IOKit device with run loop and write worker; its writes implement `SerialIO` |
| `ReportParser` | `ParseReport` and the usage Enumerate takes from it |
| `ReportFraming` | layouts of output, input and feature reports on the three platforms |
| `Uevents` | uevent messages and uevent files of Linux, UTF-16 strings of Windows |
| `Enumeration` | options, match, and the three iterators |
| `PureCode` | all inputs of these four, one element at a time, and what is said of them |
| `DeviceEventQueue_proofs`, `LinuxDevice_proofs`, `WindowsDevice_proofs`, `DarwinDevice_proofs`, `LinuxWatcher_proofs`, `WindowsWatcher_proofs`, `DarwinWatcher_proofs` | theorems about the modules of that name |
| `PureCode_proofs` | theorems about `StartupReconcile` and `PureCode` |
| `MC...` | instances for TLC; `MCPureCode` lists the elements its inputs are made of |

Operators marked `mutant` in the modules are not part of a specification. Each
is an action or helper changed as a plausible bug would change it; replacing
the original by it makes TLC report the property it is paired with in
`PROJECT.json`, which shows that the property depends on the code.

## How the models correspond to the code

Common to all modules: a critical section of a mutex is one action, a native
call that others may overtake is a step of its own, and program counters
(`runPc`, `watchPc`, `closePc`, `sendPc`) say where a goroutine is. `sync.Once`
has three states, because a second caller waits until the first has finished.
Variables under "history" are not in the code: `view` is what a client knows,
`last` the event published last, `steady` the devices that never left.

**DeviceEventQueue.** `pending`, `closed`, `wake`, `done`, `stopped` are the
fields of that name, `outClosed` the closing of `out`, `held` the local
variable `event` of `run`. `Send` is `SendAppend` (the critical section) and
`SendWake` (the non-blocking send after it), or `SendReject`. `run` is
`RunTake`, its two selects (`RunAwoken`, `RunDeliver`, `RunCancel`) and its two
deferred calls in the order in which they run. `Close` is `CloseEnter` (the
Once), `CloseLock`, `CloseSignal`, `CloseReturn`. When `done` and a consumer are
both ready, Go's select may choose either, so `RunDeliver` is not disabled by
`done`. `MaxSends` bounds the accepted events.

**Use of the queue by the watchers.** A receiver's `events.Send` is one step and
`events.Close()` another one. This is what `DeviceEventQueue` is proved and
checked to allow: `Send` neither blocks nor reorders, `Close` returns without a
consumer, and afterwards nothing is delivered.

**LinuxWatcher.** The kernel changes sysfs (`Appear`, `Vanish`) and sends the
uevent afterwards (`Announce`); `Deposit` drops a message and remembers an
overrun when the receive buffer is full. A device is a pair of name and
generation, so metadata read from an earlier device of the same name is
visible as such. `run` is `RunCheck`, `RunPoll`, `RunDrain` (the batch bound),
`RunReceive` (ENOBUFS is terminal), `onUevent` in four steps (`RunHandle` under
the mutex, `RunLoadUsage` and `RunLoadIds` outside of it, one for each sysfs
file, `RunPublish` under the mutex again), then `RunStop` and the deferred
calls. `Watch` lists, loads each device in two steps, reconciles and publishes
(`WatchPublishStartup`), looks at `runErr` and closes itself on failure.
Abstracted: the listing of the directory is one step (what comes or goes
during it is reported by uevents in either case); an interrupted system call
repeats and is a stutter; a uevent is a hidraw add, a hidraw remove or `noise`.
Error values are reduced to whether there is one.

**WindowsWatcher.** A callback holds the receiver's mutex throughout, so
`Callback` is one action with the metadata load in it. Notifications of one
device are called back in order, those of different devices in any order.
SetupAPI and the configuration manager spell paths differently, which
`cmDevicePathKey` removes. `Enumerate` fixes the list first (`WatchList`) and
then opens the devices one by one (`WatchEnumerate`): one that is not started
is skipped, one whose metadata cannot be read fails the whole `Watch`.
`CM_Unregister_Notification` waits for callbacks in progress, drops the others,
or fails. A failure of `HidD_GetHidGuid`, before anything is created, is left
out.

**DarwinWatcher.** `run` owns the run loop's thread; callbacks happen only
inside `CFRunLoopRunInMode` (`runPc = "loop"`) and therefore one at a time.
From `RunMatch` on, the manager queues callbacks: one for every device it found,
and those for later changes. `Match` and `Remove` end at the unlock, `RunSend`
is the `Send` after it. References are addresses and may be given to a later
device once the removal callback has been made. `CFRunLoopStop` acts on the
invocation that is under way and is lost otherwise; a Close that has read
`runLoop` and is overtaken by `run`'s teardown stops nothing, or the loop of
another receiver on the same thread, which checks its own `closed` and goes on.
A device whose registry entry cannot be read has the empty `DeviceInfo`; such
an event is about a device the client cannot name, and `view` records which
device it is about.

**StartupReconcile.** `Put`, `Delete` and `Skip` are the cases of the first loop,
`Collect` is a round of the last one, over the keys in `order` of which
`collected` are done; `snapshot` and `changes` are all inputs up to the bounds;
`foldCase` selects the Windows key.

**SerializedIO.** `mu`, `callPc` and `workPc` are the mutex, the caller and the
goroutine it starts. `Lock`, `Refuse` (the early return), `Spawn`, then in the
goroutine `Start`, `Finish` (the operation and the send of its result to the
channel of one) and `Unlock` (deferred), and in the caller's select `GiveUp` and
`Receive`, both of which may be possible. `ContextDone` may happen at any time.

**LinuxDevice.** Read, feature reports and os.File share one descriptor, whose
number stands for the device, for nothing, or for a file the program has opened
since (`Reuse`). `os.File.Write` keeps the descriptor open while it is in
progress (`refs`); `Fd()` returns the bare number, or -1 once os.File has given
it up, and may make the file blocking again (`FdEffect`). `Read` is `ReadLock`,
`ReadFd`, the loop of `waitLinuxReadable` (`ReadCancelled`, `ReadChecked`,
`PollReady`, `PollTimeout`) and the read itself with its four outcomes. A foreign
file may be readable or not; `ReadForeign` records that a call of this device
acted on it. `WriteStep` and its neighbours are the actions of `SerializedIO`.

**WindowsDevice.** A call (`Lock`, `Refuse`, `Spawn`, `GiveUp`, `Receive`) and its
goroutine (`Issue`, `Signalled`, `Expire`, `ExpiredCancel`, `ExpiredDrain`,
`Result`, `WorkUnlock`) as in the code; reads and writes share the actions and
differ where the code does (a write does not wait with a timeout). `request` is
the state of the OVERLAPPED. The driver completes, fails or aborts a request;
`CancelIoEx` asks it to abort what is pending at that moment and finds nothing
for a request that is not issued yet. `Close` is the Once, `CancelIoEx` of the
whole handle, `CloseHandle`.

**DarwinDevice.** `runPc` is the thread of `run` and of the callbacks that happen
in its run loop, `workPc` the one of `runWrites`. Each select of `Read` and
`Write` is a set of actions of which several may be possible; `Take` is the
meeting on the unbuffered channel `writes`. `Close` is the critical section of
`closeMu` and its five further steps. Initially `OpenPath` has returned. A
context that is done before the call is made is left out: such a call returns
at its first line and has no effect.

**ReportParser, ReportFraming, Uevents, Enumeration.** Each operator is the
function of its name or a platform's version of it. Bytes are numbers, a
`uint32` is a pair of 16-bit halves, file names and keys are values. `ParseReport`
is a loop of rounds, one for each item; reading past the end gives `Panic`, which
the rounds after it leave as it is. The reference definitions stand below the line in each module: items and their
values, the message on the bus, the message of the kernel, the devices that
were asked for. In `Enumeration` an iterator is a recursive function of the
devices so far that records each call of `yield`; `late` records one after
`yield` returned false.

## Runs

`PROJECT.json` names each run's module and configuration.

| Run | Instance | Question |
| --- | --- | --- |
| `queue` | 2 senders, 2 closers, 2 events, 4 sends | order, wake-ups, what Close leaves, refinement of `EventStream`; does Close return when nobody receives, and is a burst delivered to the last event when somebody does |
| `linux_races` | 1 name, 2 generations, buffer of 2, 1 noise message, batch of 1, 2 closers | the view, descriptors, errors, refinement of `Watcher`; do Close and Watch end, does the view become right |
| `linux_scan` | 2 names, 1 further arrival each, no closer | the scan against changes of several devices |
| `windows_safety` | 2 devices, 2 arrivals each, 1 closer | view, cache, what Close leaves, refinement |
| `windows_liveness` | 1 device, 3 arrivals, 2 closers | does Close return, does the view become right |
| `windows_repeats` | 1 device, 2 arrivals | expected violation, see below |
| `darwin_watcher` | 2 references, 2 devices each, 2 closers | view, what is left behind, refinement; does Close return although its stop is lost |
| `reconcile` | 2 devices, 2 spellings, snapshot of 2, 3 changes | the loop against the reference definition, on both platforms |
| `linux_device` | any 2 calls of 2 reads, 2 writes and a feature report; 1 report, 1 Close | cancellation, a write that never ends, reuse of the number, removal |
| `windows_device` | any 2 calls of 2 reads and 2 writes; 1 report, 2 Closes, with and without a read timeout | cancellation before and after the request is issued, timeouts, Close, reuse of the handle value |
| `darwin_device` | any 2 calls of 2 reads and 2 writes; channel of 1, 2 reports, 2 Closes | cancellation, a native write that never ends, removal, a full channel, Close |
| `pure_code` | descriptors of 3 items (and each of their prefixes), reports of 4 bytes, texts of 4 units, uevent files of 3 lines, 2 options, 3 devices | parser, layouts, strings and iterators against reference definitions |

Why the bounds are enough for what is asked: the stale-metadata and duplicate
cases need one name used by two devices in turn; an overtaken scan needs a
second device that is loaded later; a full buffer and an unfinished batch need
one message more than they hold; a taken Once needs two closers; a burst behind
one token needs two accepted events before the forwarder runs, a third one
after it. On a device two calls show every conflict of two operations, of one
kind or of two; a third call of the same kind would wait behind the second as
the second does behind the first. The channel of 16 reports on macOS is one of
1, so that the second report finds it full. Calls and closers of `WindowsDevice`,
`DarwinDevice` and `DarwinWatcher` are numbered in the order they are made:
they differ in nothing else, and liveness leaves no other use of their
symmetry. The pure inputs have every class of item, byte and line in every
order up to their length. Initial states include devices that are just appearing or vanishing
when `Watch` is called.

`CHECK_DEADLOCK FALSE` is set for all runs but the first: with the devices'
changes, reports and calls used up nothing is left to do, the loop of the
reconciliation ends, and an input of the pure code that has its full length
does not grow. The queue run checks deadlock: `SendReject` is a
step of the closed queue, and a waiting queue can always be closed.

The properties, run by run. Where a property is a conjunction of named parts,
the parts are definitions of their own next to it, and `PROJECT.json` pairs each
of them with a changed operator that breaks it.

- `queue`: `InOrder`; `NoLostWakeup` and `AcceptedIsDelivered`, append-then-wake
  against check-then-wait and one token for a burst; `CloseIsFinal` and
  `CloseReturns`, where a second closer waits for the first and no consumer is
  needed; `ImplementsStream`.
- `linux_races`: `FailureHandled`, failure of the event source before, during and
  after the publication of the snapshot (`NoSilentFailure`, `ReturnedIsLive`,
  `FailedWatchReleases`, and `NoSignalAfterClose`, the eventfd's number is not
  written to after `run` closed it); `CallsReturn`, neither Close nor Watch waits
  for ever, unless the write that wakes `run` fails, as then `run` may stay in
  `poll`; `EventuallyAccurate`, a client that folds the events into the snapshot
  ends up with the devices that are there and with no metadata of an earlier
  device under the same name; `ImplementsWatcher`, which says among other things
  that a removal carries exactly what was announced.
- `linux_scan`: `ViewAccurateWhenQuiet`, and `SnapshotCoversSteadyDevices`, a
  device that never left is in the snapshot itself.
- `windows_safety`: `KnownIsToldIsThere`, the cache agrees with what the client
  was told and with what is there, however paths are spelled; `CloseReleases`;
  `ImplementsWatcher`, also with callbacks that come between the steps of Close.
  `windows_liveness`: `CloseReturns` and `EventuallyAccurate`.
- `darwin_watcher`: `LeavesNothing`, and the same questions as on Linux.
- `reconcile`: `ReconcilesRight` (`LastWriterWins`, `OrderOfFirstConnection`).
- `linux_device`: `NoReportLost`; `DescriptorSafe` (`LateCallsHarmless`,
  `CloseSparesWrites`); `OneAtATime`, reads and writes keep the promise of
  `SerialIO` and a write cancelled while it queues is not sent; `CallsReturn`
  (`CancelledReadReturns`, `QueuedReadsReturn`, `UnplugEndsReads`,
  `CancelledWriteReturns`, `WritesReturn`).
- `windows_device`: `RequestsSafe` (`LostOnlyToTheImpatient`, a report is lost
  only to a cancelled or expired read, `BufferIsOwned`); `ClosesOwnHandleOnly`;
  `OneAtATime`; `CallsEnd` (`TimeoutEndsRead`, `CancelFreesMutex`,
  `CloseEndsCalls`).
- `darwin_device`: `ReleasedOnceWhenQuiet` (`ReleasedIsQuiet`, `ReleasedOnce`);
  `ReadsAreRight` (`KeptUntilRead`, a full channel costs the newest reports only,
  `RemovalIsNamed`); `WritesOnce`, which is `SerialIO`; `CallsReturn`
  (`CloseReturns`, `ReadsEnd`, `WritesEnd`, `NextWriteIsTaken`).
- `pure_code`: `DescriptorsParsed` (`Parses`, `Truncated`, `FirstUsage`);
  `PlatformsAgree`, the platforms put the same report on the bus and return the
  same one whatever layout their APIs want (`OutputsAgree`, `InputsAgree`,
  `FeaturesAgree`), and no length below 2^14 spoils the ioctl number
  (`LengthsKept`); `TextUnderstood` (`UeventsUnderstood`, `IdentitiesWhole`,
  `StringsSurvive`); `IteratorsSound` (`BreaksRespected`, `WantedFound`,
  `DictionarySound`).

The type invariant of a module is checked as the first conjunct of one of its
properties, in the queue as a property of its own.

## Fairness

Safety runs assume none. Liveness runs assume weak fairness of each goroutine's
own steps: the Go scheduler runs every runnable goroutine. `sync.Once` and
mutexes are handed on. Of the outside world they assume only that a change the
kernel, the configuration manager or IOKit has made is announced (weak fairness
of `Announce`, `Notify`, `Callback`); on macOS strong fairness of a callback that
waits, as the run loop is entered again and again and serves its sources each
time.

On devices the goroutines and threads that can run do. Of the drivers it is
assumed that time passes and that Windows ends a request it was asked to cancel
(as Windows demands of drivers), and that a macOS run loop returns
when it is stopped or after its second. Not assumed: that a native write ever
ends, that a report comes, that a context ends, that a foreign file becomes
readable. `WritesReturn`, `CloseReturns` of `DarwinDevice` and `NextWriteIsTaken`
need that native writes end and state it as their hypothesis: with a write that
the driver never lets go of, the code does not return there either.

Nobody is assumed to call `Send` or `Close`, to attach or remove devices,
or to receive: only `AcceptedIsDelivered` is about a consumer that keeps
receiving, as README.md:103 asks of clients, and states that as its hypothesis.

## Proofs

Each theorem holds for every value of the constants: any sets of senders,
readers, writers, closers and devices, any bounds on reports, calls and events.
The assumptions on constants are the `...Assumption` of each module: bounds are
natural numbers, a call is a Read or a Write and not both, the value that stands
for nobody is no call, and closers (on Windows and macOS also calls) are numbers,
so that those not made yet can be told apart by order. Three say more. A device
that is there from the start has generation 1, so `MaxGen` is at least 1; a batch
of uevents (`BatchSize`) holds at least one, as the constant 64 of the code does;
`Watching`, the name under which a failing `Watch` closes its own receiver, is
not the name of a client's closer. In `PureCode` bytes, UTF-16 units and the
parts of a line are natural numbers, and an item has 0, 1, 2 or 4 bytes of data,
at least one if the parser reads it as one byte (`IsItem`). No assumption says that a set is finite or
not empty. Runs evaluate them for their instances.

| Module | Theorem | Property |
| --- | --- | --- |
| `DeviceEventQueue_proofs` | `TypeCorrect` | `TypeOK` |
| | `OrderCorrect` | `InOrder` |
| | `WakeupCorrect` | `NoLostWakeup` |
| | `CloseCorrect` | `CloseIsFinal` |
| | `QueueImplementsStream` | `ImplementsStream` |
| `LinuxDevice_proofs` | `TurnsCorrect` | `OneAtATime` |
| | `DescriptorCorrect` | `DescriptorSafe` |
| | `ReportsCorrect` | `NoReportLost` |
| `WindowsDevice_proofs` | `RequestsCorrect` | `RequestsSafe` |
| | `CloseCorrect` | `ClosesOwnHandleOnly` |
| | `TurnsCorrect` | `OneAtATime` |
| `DarwinDevice_proofs` | `ReleaseCorrect` | `ReleasedOnceWhenQuiet` |
| | `ReadsCorrect` | `ReadsAreRight` |
| | `WritesCorrect` | `WritesOnce` |
| `LinuxWatcher_proofs` | `FailureCorrect` | `FailureHandled` |
| | `ViewCorrect` | `ViewAccurateWhenQuiet` |
| | `SnapshotCorrect` | `SnapshotCoversSteadyDevices` |
| | `WatcherCorrect` | `ImplementsWatcher` |
| `WindowsWatcher_proofs` | `KnownCorrect` | `KnownIsToldIsThere` |
| | `ReleaseCorrect` | `CloseReleases` |
| | `WatcherCorrect` | `ImplementsWatcher` |
| `DarwinWatcher_proofs` | `WatcherCorrect` | `ImplementsWatcher` |
| | `SnapshotCorrect` | `SnapshotCoversSteadyDevices` |
| | `ReleaseCorrect` | `LeavesNothing` |
| `PureCode_proofs` | `ReconcileCorrect` | `ReconcilesRight` |
| | `OutputAgrees`, `InputAgrees`, `FeatureAgrees` | the parts of the next |
| | `PlatformsCorrect` | `PlatformsAgree` |
| | `UeventsAreUnderstood`, `IdentitiesAreWhole`, `StringsDecoded` | the parts of the next |
| | `TextCorrect` | `TextUnderstood` |
| | `BreaksAreRespected`, `WantedAreFound`, `DictionaryIsSound` | the parts of the next |
| | `IteratorsCorrect` | `IteratorsSound` |
| | `ItemsAreParsed`, `TruncationIsHarmless`, `UsageIsFound` | the parts of the next |
| | `DescriptorsCorrect` | `DescriptorsParsed` |

`OneAtATime`, `WritesOnce`, `ImplementsStream` and `ImplementsWatcher` are
refinements: each step of the detailed module is shown to be a step of
`SerialIO`, `EventStream` or `Watcher`, or a stutter.

**Queue.** The inductive invariant is `QueueInv`, the conjunction of `TypeOK`,
`InOrder`, `NoLostWakeup` and `Shutdown`. `InOrder` is not inductive: `Close`
assigns `dropped`, so one must know that it does so once, that nothing is
appended afterwards, and that `run` discards its held event in front of what
`Close` discarded. `CloseIsFinal` needs that a closed `stopped` implies that
`run` has halted, and that one closer at most is in the Once's body. `Shutdown`
collects this: `RunState` ties `run`'s position to `held`, `done`, `out` and
`stopped`, `CloseState` ties each closer's position to the Once and the flags.

**Linux device.** Four invariants, proved one on top of the other. `RunIOInv` and
`ReadInv` say who has each mutex: the call between `Lock` and spawn or the
goroutine that has not unlocked. They give the refinements and that no cancelled
call is carried out. `NumberInv` is what makes `DescriptorSafe` inductive: a file
counts its native writes, the number stays the device's until it is closed, and a
call made after that has no number. `ReportInv` places each report in the
kernel's queue or with one read.

**Windows device.** `CallInv` ties call, goroutine, request and mutex to one
another, `ReportInv` says what is in a read's buffer when it fails, `CloseInv` that
one closer is in the Once's body and the handle is open until it is through.
The lemma `Stages` says of each of the many steps which one call it moves on and
how, so that the invariants are proved for those stages and not for each action
again.

**macOS device.** `ReleasedIsQuiet` follows from `OneCloser` (closing needs the
mutex and finds `closed`), `Threads` (each thread says that it ends as the last
thing it does) and `CloseOrder` (the closer has waited for both before it
touches the device). `RequestsInv` says that the worker takes a request from a
caller that still waits for it, and answers it after it has put it down; hence
no request is submitted twice.

**macOS watcher.** The view a client has is `devices` but for the event being sent
(`ViewInv`), which is not inductive without `DevicesInv`: a removal is called back
only for a device that is in `devices`. That again needs `CallsInv`, that a
reference has at most an arrival and a removal waiting, in this order, and
`StartInv`, that nothing was called back before the snapshot was complete.
`PhaseInv` ties all flags to the place where `run` is, `ClientInv` says that
nothing can be closed before `Watch` has returned.

**Linux watcher.** `PhaseInv`, `WatchInv` and `CloseInv` say what is open, recorded
and closed at each place of `run`, `Watch` and `Close`; `FailureHandled` follows
from them. That the view becomes accurate is a statement about the future of the
socket, and inductive only if it is made for every state of it: `MessagesInv`
says that the last message about a name agrees with what the kernel announced
last, `InfoInv` and `Fits` that what is known of a device was read from the
present one *unless its removal is still on the way* (in the socket or in `run`'s
hands), and that presence is known unless some message about it is. `StartInv`
says this of what would be published if the scan ended now (`Pending`), `LiveInv`
of the view once the snapshot is out, and `SteadyInv` keeps the devices that
never left in the scan. All three hold only while `run` gets every message
(`Listening`): after an overrun or a Close the view may be wrong, and
`FailureHandled` says that the client is told. `Reconcile` is used through one
lemma: the last staged change of a name decides, and without one the scan does.

**Windows watcher.** The same argument, with the notifications of a device in the
place of the socket (`NotesInv`: the last one says whether it is there). A device
on its way in may be known from the enumeration before it is announced, which
`Fits` allows; this is where the repeated announcement comes from, and the reason
why the theorem is about `Watcher` with `MayRepeat`. A key stands for one device
however its path is spelled, so that one equation says what cache, client and
devices have in common. `CloseInv` says that the Once has one caller in its body
and the others wait for the end of it, also when unregistering fails.

**Reconciliation.** The loops are steps, so that invariants of the steps say what
the loops compute for inputs of any length. `StateInv`: the map holds for a key the connection
handled last, unless something about the key was handled after it. `OrderInv`:
`order` lists each key once, in the order of first connections, which a removal
does not change. `ResultInv`: the result so far is the kept events of the keys
collected so far, in that order, so that two positions of it are ordered as
their keys are.

**Code that computes.** The theorems are about inputs of any length, an induction.
The library's induction theorems take an operator as a parameter and cannot be
used here; instead `Least` (every set of natural numbers that is not empty has a
least element, from the well-foundedness of `<`) is applied to the set of the numbers for
which a claim fails. So it is proved that zeros at the end begin somewhere and in
one place only (`ZerosBegin`, `ZerosBeginOnce`), which is what makes `Trim` a
function; that the recursive function behind `FillFromUevent` exists
(`FillExists`); and what holds after each of its rounds (`RoundKeepsWhole`). The
agreement of the platforms is then an equation of sequences, position by
position, for reports with and without an ID, shorter and longer than the
buffer. For the iterators `AppendInduction` says that a set of sequences that holds
the empty one, and with a sequence each that is longer by one element, holds all:
so `OptionsHeld` gives the options that count, `RoundsHold` that a `yield` is only
called while the consumer wants more, `AllFound` and `PrefixFound` what has been
found after each device, and `SelectTwice` that selecting with the dictionary
first changes nothing. For the parser the claim is about its rounds: an encoding puts
each item at its place (`Places`), and after k rounds on the first m bytes the
parser has panicked or stands behind some item j with the values of the first j
items, where j is at least k unless it is past the end (`RoundsPass`). As a
descriptor has at least as many bytes as items, the last round of a whole one
stands behind its last item (`ParseEnds`). For messages of the kernel the order of the fields does not matter
because `SetToSeqs` is onto (a count of a finite set) and each key has one value.
`InputInv` says that `PureCode` builds its inputs of their elements.

Only model-checked: everything about liveness and fairness, which is beyond this
prover's reach, as is ENABLED (`AcceptedIsDelivered`, `CloseReturns`,
`EventuallyAccurate`, `CallsReturn`, `CallsEnd`). Every safety property that a
passing run checks is stated by a theorem.

## A disagreement between code and comment

`windows_repeats`: event.go:30 says "Watcher publishes changes which happen after
Snapshot." On Windows an arrival that precedes the SetupAPI enumeration but is
called back after `publishStartup` is published as a connection although the
snapshot holds the device: `onPathAction` (event_windows.go:187) has no
counterpart of the duplicate checks at event_linux.go:305 and
event_darwin.go:157. `Watcher` has the constant `MayRepeat` for this one platform,
and everything else it promises is checked for Windows too.

## Limits of the code that the models show

None of these contradicts a statement of the repository; each is an exception
that a property names or a precondition that it needs.

- Linux: a `Read` or feature report that holds the descriptor number when `Close`
  is called may use a number that another file has got (`LateCallsHarmless` is
  about later calls only). A `Read` made after `Close` polls descriptor -1 until
  its context ends.
- Linux: a `Read` behind another one returns only after that one does.
- Windows: a call cancelled before its request is issued returns, but its
  request stays with the driver and keeps the mutex; a read in this state takes
  the next report (`early` in `CancelFreesMutex`).
- Windows: a call that waits for its turn while `Close` runs issues its request
  on the closed handle value, which somebody else may own by then.
- Windows: timeouts below a millisecond become 0, those above 49 days wrap.
- `GetFeatureReport` with an empty buffer panics on Linux and Windows
  (`FeaturesAgree` is about buffers that hold at least the ID).
- Windows strings: an empty one, or one whose last UTF-16 unit has a nonzero high
  byte, is decoded with one character more (`StringsSurvive`).
- macOS: of overlapping calls of `Close` the second returns at once, before the
  device is released. Feature reports are not ordered with `Close`.
- macOS: when the run loop ends by itself because the device left
  (`kCFRunLoopRunFinished`) before the removal was called back, a `Read` says
  that the device was closed. `Close` must still be called to stop the worker.
- The parser reads one byte for collection, report size, ID and count, also for
  an item of size 0, which then is the next item's first byte; it does not know
  long items, and a truncated descriptor makes it panic (`Parses` and
  `Truncated` say what holds nevertheless).

## Not modelled

- `context.go` delegates each call to the device and adds nothing; `types_*.go` and
  the Windows and macOS bindings are declarations and generated wrappers;
  `items.go` and `consts_string.go` of the parser return constants and fields.
- The native calls of feature reports on Windows and macOS: they are synchronous
  and touch no state of the `Device`. On Linux they are in `LinuxDevice` for the
  descriptor they use. Their buffers are in `ReportFraming`.
- The ways in which `OpenPath` fails: a device that is not open has no further
  behaviour. Loading of frameworks and DLLs, wording of errors.
- The spelling of numbers and of registry strings; a registry property of macOS
  that is missing counts as its zero value, which is what `getDeviceInfo` makes
  of it, but IOKit's own matching may tell the two apart.

## Plan

Done: every component of the inventory that has behaviour of its own is modelled
and checked, and every safety property is a theorem: the event queue, the devices
of the three platforms over the abstract promise `SerialIO`, the watchers of the
three platforms over the abstract promise `Watcher`, reconciliation, the agreement
of the platforms' reports, the reading of uevents and strings, the iterators and
the descriptor parser.

Left: liveness, for which TLC's instances are the evidence.
