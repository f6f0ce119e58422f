---------------------------- MODULE DarwinWatcher ----------------------------
(***************************************************************************)
(* darwinEventReceiver and Watch on macOS (event_darwin.go).               *)
(*                                                                         *)
(* run owns a thread with a run loop.  It creates an IOHIDManager, copies  *)
(* the devices the manager holds into the snapshot and then lets the run   *)
(* loop call back for arrivals and removals, one after the other, on that  *)
(* same thread.  The manager also calls back for every device it held from *)
(* the beginning.  Closers stop the run loop from threads of their own.    *)
(***************************************************************************)
EXTENDS Naturals, Sequences

CONSTANTS Refs,      \* IOHIDDeviceRefs: addresses, reused by later devices
          Closers,   \* calls of Close, numbered in the order they are made
          MaxGen     \* bound: how many devices have one reference in turn

ASSUME DarwinAssumption == MaxGen \in Nat \ {0} /\ Closers \subseteq Nat

(***************************************************************************)
(* Metadata: the device it was read from, 0 for the empty DeviceInfo that  *)
(* stands for a device whose registry entry could not be read.             *)
(***************************************************************************)
Infos == 0..MaxGen
Empty == 0
Absent == MaxGen + 1
MaybeInfos == 0..(MaxGen + 1)

Event == {"connected", "disconnected"} \X Refs \X Infos

VARIABLES
  (* IOKit *)
  present,       \* the device with that reference is plugged in
  gen,           \* how many devices had the reference so far
  manager,       \* "none", "matching" (devices are followed) or "released"
  calls,         \* callbacks not made yet, for every reference
  stop,          \* CFRunLoopStop has been called on the invocation under way
  (* darwinEventReceiver *)
  known,         \* darwinEventReceivers holds the receiver
  closed, runLoop, initializing,
  devices, snapshot,
  ready,         \* content of the channel ready: "none", "nil" or "error"
  stopped, queueClosed,
  (* run *)
  runPc, todo, sending,
  (* Watch and Close *)
  watchPc, once, closePc,
  loopSeen,      \* the run loop Close has read, for every closer
  (* history *)
  view,          \* the snapshot with the published events applied
  last,          \* the event published last
  steady         \* devices that have been there since matching began

iokit == <<present, gen, manager, calls>>
guarded == <<closed, runLoop, initializing, devices, snapshot>>
ends == <<ready, stopped, queueClosed>>
runVars == <<runPc, todo, sending>>
clientVars == <<watchPc, once, closePc, loopSeen>>
history == <<view, last, steady>>
vars == <<iokit, stop, known, guarded, ends, runVars, clientVars, history>>

TypeOK ==
  /\ present \in [Refs -> BOOLEAN] /\ gen \in [Refs -> 0..MaxGen]
  /\ manager \in {"none", "matching", "released"}
  /\ calls \in [Refs -> Seq({"match", "remove"})]
  /\ stop \in BOOLEAN /\ known \in BOOLEAN
  /\ closed \in BOOLEAN /\ runLoop \in BOOLEAN /\ initializing \in BOOLEAN
  /\ devices \in [Refs -> MaybeInfos] /\ snapshot \in [Refs -> MaybeInfos]
  /\ ready \in {"none", "nil", "error"}
  /\ stopped \in BOOLEAN /\ queueClosed \in BOOLEAN
  /\ runPc \in {"create", "setLoop", "match", "copy", "snapshot", "live", "ready", "check",
                "enter", "loop", "send", "teardown", "clear", "delete", "closeQueue",
                "closeStopped", "halted"}
  /\ todo \in SUBSET Refs /\ sending \in Event \union {<<>>}
  /\ watchPc \in {"wait", "await", "returned", "failed"}
  /\ once \in {"fresh", "running", "finished"}
  /\ closePc \in [Closers -> {"idle", "called", "lock", "stop", "await", "returned"}]
  /\ loopSeen \in [Closers -> BOOLEAN]
  /\ view \in [Refs -> MaybeInfos] /\ last \in Event \union {<<>>}
  /\ steady \in SUBSET Refs

\* Watch has stored the receiver and started run.
Init ==
  /\ present \in [Refs -> BOOLEAN]
  /\ gen = [r \in Refs |-> IF present[r] THEN 1 ELSE 0]
  /\ manager = "none" /\ calls = [r \in Refs |-> <<>>] /\ stop = FALSE
  /\ known = TRUE /\ closed = FALSE /\ runLoop = FALSE /\ initializing = TRUE
  /\ devices = [r \in Refs |-> Absent] /\ snapshot = [r \in Refs |-> Absent]
  /\ ready = "none" /\ stopped = FALSE /\ queueClosed = FALSE
  /\ runPc = "create" /\ todo = {} /\ sending = <<>>
  /\ watchPc = "wait" /\ once = "fresh"
  /\ closePc = [c \in Closers |-> "idle"] /\ loopSeen = [c \in Closers |-> FALSE]
  /\ view = [r \in Refs |-> Absent] /\ last = <<>> /\ steady = {}

-----------------------------------------------------------------------------
(* IOKit                                                                   *)

Queue(r, call) == IF manager = "matching" THEN [calls EXCEPT ![r] = Append(@, call)] ELSE calls

\* The manager gives up a reference with the removal callback, not earlier.
Arrive(r) ==
  /\ ~present[r] /\ calls[r] = <<>> /\ gen[r] < MaxGen
  /\ ~(sending # <<>> /\ sending[2] = r)
  /\ present' = [present EXCEPT ![r] = TRUE]
  /\ gen' = [gen EXCEPT ![r] = @ + 1]
  /\ calls' = Queue(r, "match")
  /\ UNCHANGED <<manager, stop, known, guarded, ends, runVars, clientVars, history>>

Leave(r) ==
  /\ present[r]
  /\ present' = [present EXCEPT ![r] = FALSE]
  /\ calls' = Queue(r, "remove")
  /\ steady' = steady \ {r}
  /\ UNCHANGED <<gen, manager, stop, known, guarded, ends, runVars, clientVars, view, last>>

-----------------------------------------------------------------------------
(* run: from the manager to the snapshot                                   *)

RunCreate ==
  /\ runPc = "create"
  /\ \/ runPc' = "setLoop" /\ UNCHANGED ready
     \/ runPc' = "delete" /\ ready' = "error"   \* IOHIDManagerCreate failed
  /\ UNCHANGED <<iokit, stop, known, guarded, stopped, queueClosed, todo, sending,
                 clientVars, history>>

RunSetLoop ==
  /\ runPc = "setLoop"
  /\ runLoop' = TRUE
  /\ runPc' = "match"
  /\ UNCHANGED <<iokit, stop, known, closed, initializing, devices, snapshot, ends, todo,
                 sending, clientVars, history>>

\* SetDeviceMatching, the two registrations and ScheduleWithRunLoop: from
\* here on the manager follows the devices, and it will call back for those
\* it found, but no callback is made before the run loop runs.
RunMatch ==
  /\ runPc = "match"
  /\ manager' = "matching"
  /\ calls' = [r \in Refs |-> IF present[r] THEN <<"match">> ELSE <<>>]
  /\ todo' = {r \in Refs : present[r]}
  /\ steady' = {r \in Refs : present[r]}
  /\ runPc' = "copy"
  /\ UNCHANGED <<present, gen, stop, known, guarded, ends, sending, clientVars, view, last>>

RunCopySkipped ==    \* mutant: the snapshot is left to the first callbacks
  /\ runPc = "copy"
  /\ runPc' = "live" /\ todo' = {}
  /\ UNCHANGED <<iokit, stop, known, guarded, ends, sending, clientVars, history>>

\* IOHIDManagerCopyDevices: the devices of RunMatch, also those that left
\* since, for no callback has been made yet.
RunCopy ==
  /\ runPc = "copy"
  /\ runPc' = "snapshot"
  /\ UNCHANGED <<iokit, stop, known, guarded, ends, todo, sending, clientVars, history>>

LoadsNil(r) == {Absent, gen[r]}   \* mutant: the nil of a failed load is kept

\* getDeviceInfo: the properties of the device, or nil, which becomes Empty.
Loads(r) == {Empty, gen[r]}

\* deviceConnected under the mutex, while initializing.
RunSnapshot(r) ==
  /\ runPc = "snapshot" /\ r \in todo
  /\ todo' = todo \ {r}
  /\ IF closed \/ devices[r] # Absent THEN UNCHANGED <<devices, snapshot>>
     ELSE \E i \in Loads(r) : /\ devices' = [devices EXCEPT ![r] = i]
                              /\ snapshot' = [snapshot EXCEPT ![r] = i]
  /\ UNCHANGED <<iokit, stop, known, closed, runLoop, initializing, ends, runPc, sending,
                 clientVars, history>>

RunSnapshotEnd ==
  /\ runPc = "snapshot" /\ todo = {}
  /\ runPc' = "live"
  /\ UNCHANGED <<iokit, stop, known, guarded, ends, todo, sending, clientVars, history>>

RunLive ==
  /\ runPc = "live"
  /\ initializing' = FALSE
  /\ view' = snapshot
  /\ runPc' = "ready"
  /\ UNCHANGED <<iokit, stop, known, closed, runLoop, devices, snapshot, ends, todo, sending,
                 clientVars, last, steady>>

RunReady ==
  /\ runPc = "ready"
  /\ ready' = "nil"
  /\ runPc' = "check"
  /\ UNCHANGED <<iokit, stop, known, guarded, stopped, queueClosed, todo, sending, clientVars,
                 history>>

-----------------------------------------------------------------------------
(* run: the loop and the callbacks                                         *)

RunCheck ==
  /\ runPc = "check"
  /\ runPc' = IF closed THEN "teardown" ELSE "enter"
  /\ UNCHANGED <<iokit, stop, known, guarded, ends, todo, sending, clientVars, history>>

\* CFRunLoopRunInMode: an earlier stop does not concern this invocation.
RunEnter ==
  /\ runPc = "enter"
  /\ stop' = FALSE
  /\ runPc' = "loop"
  /\ UNCHANGED <<iokit, known, guarded, ends, todo, sending, clientVars, history>>

RunLoopForever ==    \* mutant: the run loop is entered without a timeout
  /\ runPc = "loop" /\ stop
  /\ runPc' = "check"
  /\ UNCHANGED <<iokit, stop, known, guarded, ends, todo, sending, clientVars, history>>

\* CFRunLoopRunInMode returns: it was stopped, or after one second, or
\* because it found no source (run sleeps 10 ms then).
RunLoopReturns ==
  /\ runPc = "loop"
  /\ runPc' = "check"
  /\ UNCHANGED <<iokit, stop, known, guarded, ends, todo, sending, clientVars, history>>

MatchTwice(r) ==     \* mutant: devices of the snapshot are announced by their callback
  /\ runPc = "loop" /\ ~stop
  /\ calls[r] # <<>> /\ Head(calls[r]) = "match"
  /\ calls' = [calls EXCEPT ![r] = Tail(@)]
  /\ IF ~known \/ closed
     THEN UNCHANGED <<devices, runPc, sending>>
     ELSE /\ \E i \in Loads(r) : /\ devices' = [devices EXCEPT ![r] = i]
                                 /\ sending' = <<"connected", r, i>>
          /\ runPc' = "send"
  /\ UNCHANGED <<present, gen, manager, stop, known, closed, runLoop, initializing, snapshot,
                 ends, todo, clientVars, history>>

\* darwinDeviceMatchingCallback: deviceConnected up to the unlock.
Match(r) ==
  /\ runPc = "loop" /\ ~stop
  /\ calls[r] # <<>> /\ Head(calls[r]) = "match"
  /\ calls' = [calls EXCEPT ![r] = Tail(@)]
  /\ IF ~known \/ closed \/ devices[r] # Absent
     THEN UNCHANGED <<devices, runPc, sending>>
     ELSE /\ \E i \in Loads(r) : /\ devices' = [devices EXCEPT ![r] = i]
                                 /\ sending' = <<"connected", r, i>>
          /\ runPc' = "send"
  /\ UNCHANGED <<present, gen, manager, stop, known, closed, runLoop, initializing, snapshot,
                 ends, todo, clientVars, history>>

RemoveKeeps(r) ==    \* mutant: the reference stays in devices
  /\ runPc = "loop" /\ ~stop
  /\ calls[r] # <<>> /\ Head(calls[r]) = "remove"
  /\ calls' = [calls EXCEPT ![r] = Tail(@)]
  /\ IF ~known \/ closed
     THEN UNCHANGED <<runPc, sending>>
     ELSE /\ sending' = <<"disconnected", r, devices[r]>>
          /\ runPc' = "send"
  /\ UNCHANGED <<present, gen, manager, stop, known, guarded, ends, todo, clientVars, history>>

\* darwinDeviceRemovalCallback: deviceDisconnected up to the Send.
Remove(r) ==
  /\ runPc = "loop" /\ ~stop
  /\ calls[r] # <<>> /\ Head(calls[r]) = "remove"
  /\ calls' = [calls EXCEPT ![r] = Tail(@)]
  /\ IF ~known \/ closed
     THEN UNCHANGED <<devices, runPc, sending>>
     ELSE /\ devices' = [devices EXCEPT ![r] = Absent]
          /\ \E i \in IF devices[r] = Absent THEN Loads(r) ELSE {devices[r]} :
               sending' = <<"disconnected", r, i>>
          /\ runPc' = "send"
  /\ UNCHANGED <<present, gen, manager, stop, known, closed, runLoop, initializing, snapshot,
                 ends, todo, clientVars, history>>

\* er.events.Send, outside the mutex, possibly after a Close has begun.
RunSend ==
  /\ runPc = "send"
  /\ last' = sending
  /\ view' = [view EXCEPT ![sending[2]] = IF sending[1] = "connected" THEN sending[3] ELSE Absent]
  /\ sending' = <<>>
  /\ runPc' = "loop"
  /\ UNCHANGED <<iokit, stop, known, guarded, ends, todo, clientVars, steady>>

-----------------------------------------------------------------------------
(* run: the end                                                            *)

\* Unschedule and unregister: no callback is made any more.
RunTeardown ==
  /\ runPc = "teardown"
  /\ manager' = "released"
  /\ calls' = [r \in Refs |-> <<>>]
  /\ runPc' = "clear"
  /\ UNCHANGED <<present, gen, stop, known, guarded, ends, todo, sending, clientVars, history>>

RunClear ==
  /\ runPc = "clear"
  /\ runLoop' = FALSE
  /\ runPc' = "delete"
  /\ UNCHANGED <<iokit, stop, known, closed, initializing, devices, snapshot, ends, todo,
                 sending, clientVars, history>>

\* The deferred calls.
RunDelete ==
  /\ runPc = "delete"
  /\ known' = FALSE
  /\ runPc' = "closeQueue"
  /\ UNCHANGED <<iokit, stop, guarded, ends, todo, sending, clientVars, history>>

RunCloseQueue ==
  /\ runPc = "closeQueue"
  /\ queueClosed' = TRUE
  /\ runPc' = "closeStopped"
  /\ UNCHANGED <<iokit, stop, known, guarded, ready, stopped, todo, sending, clientVars, history>>

RunCloseStopped ==
  /\ runPc = "closeStopped"
  /\ stopped' = TRUE
  /\ runPc' = "halted"
  /\ UNCHANGED <<iokit, stop, known, guarded, ready, queueClosed, todo, sending, clientVars,
                 history>>

-----------------------------------------------------------------------------
(* Watch and Close                                                         *)

WatchReadyOnly ==    \* mutant: a failed Watch does not wait for run
  /\ watchPc = "wait" /\ ready # "none"
  /\ watchPc' = IF ready = "nil" THEN "returned" ELSE "failed"
  /\ ready' = "none"
  /\ UNCHANGED <<iokit, stop, known, guarded, stopped, queueClosed, runVars, once, closePc,
                 loopSeen, history>>

WatchReady ==
  /\ watchPc = "wait" /\ ready # "none"
  /\ watchPc' = IF ready = "nil" THEN "returned" ELSE "await"
  /\ ready' = "none"
  /\ UNCHANGED <<iokit, stop, known, guarded, stopped, queueClosed, runVars, once, closePc,
                 loopSeen, history>>

WatchFailed ==
  /\ watchPc = "await" /\ stopped
  /\ watchPc' = "failed"
  /\ UNCHANGED <<iokit, stop, known, guarded, ends, runVars, once, closePc, loopSeen, history>>

CloseCall(c) ==
  /\ watchPc = "returned" /\ closePc[c] = "idle"
  /\ \A d \in Closers : d < c => closePc[d] # "idle"
  /\ closePc' = [closePc EXCEPT ![c] = "called"]
  /\ UNCHANGED <<iokit, stop, known, guarded, ends, runVars, watchPc, once, loopSeen, history>>

CloseEnter(c) ==
  /\ closePc[c] = "called"
  /\ \/ once = "fresh" /\ once' = "running" /\ closePc' = [closePc EXCEPT ![c] = "lock"]
     \/ once = "finished" /\ closePc' = [closePc EXCEPT ![c] = "returned"] /\ UNCHANGED once
  /\ UNCHANGED <<iokit, stop, known, guarded, ends, runVars, watchPc, loopSeen, history>>

CloseLock(c) ==
  /\ closePc[c] = "lock"
  /\ closed' = TRUE
  /\ loopSeen' = [loopSeen EXCEPT ![c] = runLoop]
  /\ closePc' = [closePc EXCEPT ![c] = "stop"]
  /\ UNCHANGED <<iokit, stop, known, runLoop, initializing, devices, snapshot, ends, runVars,
                 watchPc, once, history>>

\* CFRunLoopStop on the loop that was read: without effect when no
\* invocation is under way, also when run has left the loop altogether.
CloseStop(c) ==
  /\ closePc[c] = "stop"
  /\ stop' = (stop \/ (loopSeen[c] /\ runPc \in {"loop", "send"}))
  /\ closePc' = [closePc EXCEPT ![c] = "await"]
  /\ UNCHANGED <<iokit, known, guarded, ends, runVars, watchPc, once, loopSeen, history>>

CloseAwait(c) ==
  /\ closePc[c] = "await" /\ stopped
  /\ once' = "finished"
  /\ closePc' = [closePc EXCEPT ![c] = "returned"]
  /\ UNCHANGED <<iokit, stop, known, guarded, ends, runVars, watchPc, loopSeen, history>>

-----------------------------------------------------------------------------
Startup == \/ RunCreate \/ RunSetLoop \/ RunMatch \/ RunCopy
           \/ (\E r \in Refs : RunSnapshot(r)) \/ RunSnapshotEnd \/ RunLive \/ RunReady

Teardown == RunTeardown \/ RunClear \/ RunDelete \/ RunCloseQueue \/ RunCloseStopped

Callback(r) == Match(r) \/ Remove(r)

Run == \/ Startup \/ RunCheck \/ RunEnter \/ RunLoopReturns \/ RunSend \/ Teardown
       \/ \E r \in Refs : Callback(r)

CloseBody(c) == CloseEnter(c) \/ CloseLock(c) \/ CloseStop(c) \/ CloseAwait(c)

Next == \/ (\E r \in Refs : Arrive(r) \/ Leave(r))
        \/ Run \/ WatchReady \/ WatchFailed
        \/ \E c \in Closers : CloseCall(c) \/ CloseBody(c)

Spec == Init /\ [][Next]_vars

(***************************************************************************)
(* Threads that can run do, and a run loop that is entered again and again *)
(* makes the callbacks that wait.  No fairness for devices and the client. *)
(***************************************************************************)
Fairness == /\ WF_vars(Run) /\ \A r \in Refs : SF_vars(Callback(r))
            /\ WF_vars(WatchReady \/ WatchFailed)
            /\ \A c \in Closers : WF_vars(CloseBody(c))

FairSpec == Spec /\ Fairness

-----------------------------------------------------------------------------
(* Properties                                                              *)

(***************************************************************************)
(* A device that is there from the time the manager follows devices until  *)
(* the snapshot is complete is in the snapshot, not in a later event (run  *)
(* copies the devices before it clears initializing).                      *)
(***************************************************************************)
SnapshotCoversSteadyDevices ==
  [][initializing /\ ~initializing' => \A r \in steady : view'[r] # Absent]_vars

(***************************************************************************)
(* A Watch that failed, and a Close that has returned, leave no manager,   *)
(* no registration and no open channel behind (run's deferred calls); the  *)
(* types of the variables are part of it.                                  *)
(***************************************************************************)
LeavesNothing ==
  /\ TypeOK
  /\ watchPc = "failed" \/ (\E c \in Closers : closePc[c] = "returned")
    => runPc = "halted" /\ manager # "matching" /\ ~known /\ queueClosed

(***************************************************************************)
(* Close returns, although its CFRunLoopStop may come before the run loop  *)
(* is entered, or between two invocations, and is lost then (run's timeout *)
(* of one second and its check of closed).                                 *)
(***************************************************************************)
CloseReturns == \A c \in Closers : closePc[c] = "called" ~> closePc[c] = "returned"

(***************************************************************************)
(* Once devices stop coming and going, the view of a client whose watcher  *)
(* runs becomes right and stays right, with no metadata of an earlier      *)
(* device under the same reference: the copy into the snapshot, the        *)
(* callbacks that repeat it and the reuse of references do not disturb one *)
(* another (deviceConnected, deviceDisconnected, publishCurrentDevices).   *)
(***************************************************************************)
EventuallyAccurate ==
  <>[](\/ closed \/ watchPc = "failed"
       \/ \A r \in Refs :
            view[r] \in IF present[r] THEN {Empty, gen[r]} ELSE {Absent})

\* What the receiver means to its client.
phase == IF queueClosed THEN "ended" ELSE IF initializing THEN "starting" ELSE "live"

Client == INSTANCE Watcher WITH Devices <- Refs, PathOnly <- Empty, MayRepeat <- FALSE

(***************************************************************************)
(* The receiver keeps the promises of the Watcher interface: no device is  *)
(* announced twice, a removal repeats what was announced, and nothing is   *)
(* published before the snapshot or after the end of the channel.          *)
(***************************************************************************)
ImplementsWatcher == Client!Spec
=============================================================================
