---------------------------- MODULE LinuxWatcher ----------------------------
(***************************************************************************)
(* linuxEventReceiver and Watch on Linux (event_linux.go).                 *)
(*                                                                         *)
(* The goroutines are Watch's caller, which scans sysfs for the initial    *)
(* snapshot, run, which reads uevents from a netlink socket, and any       *)
(* number of closers.  The kernel is the environment: it changes sysfs and *)
(* announces the change in a message afterwards.  The scan, the metadata   *)
(* loads (two files each) and the messages interleave freely; a critical   *)
(* section of er.mu is one action.                                         *)
(*                                                                         *)
(* er.events is used through what DeviceEventQueue is proved to promise:   *)
(* order is kept, Send does not block and events.Close() ends the stream.  *)
(***************************************************************************)
EXTENDS Naturals, Sequences, FiniteSets

CONSTANTS Names,      \* hidraw names, each standing for its /dev path
          Closers,    \* goroutines that call Close on the returned Watcher
          MaxGen,     \* bound: how many devices take a name, one after another
          SockCap,    \* messages the socket's receive buffer holds
          MaxNoise,   \* bound: messages that are not hidraw uevents
          BatchSize,  \* linuxUeventBatchSize: receives between two polls
          Watching    \* Watch itself, as a caller of Close

ASSUME WatcherAssumption ==
  /\ SockCap \in Nat /\ MaxNoise \in Nat
  /\ MaxGen \in Nat \ {0} /\ BatchSize \in Nat \ {0}
  /\ Watching \notin Closers

(***************************************************************************)
(* Metadata of a device: which generation of the name the usage (from      *)
(* report_descriptor) and the identifiers (from uevent) were read from, 0  *)
(* for a file that could not be read.                                      *)
(***************************************************************************)
Infos == (0..MaxGen) \X (0..MaxGen)
PathOnly == <<0, 0>>
Absent == <<>>
MaybeInfos == Infos \union {Absent}

Connected(n, i) == <<"connected", n, i>>
Disconnected(n, i) == <<"disconnected", n, i>>
Event == {"connected", "disconnected"} \X Names \X Infos
Message == ({"add", "remove"} \X Names) \union {<<"noise">>}
Callers == Closers \union {Watching}

VARIABLES
  (* the kernel *)
  kstate,        \* "off", "appearing", "on" or "vanishing" for every name
  gen,           \* how many devices had the name so far
  noise,         \* how many other messages were sent
  sock,          \* the receive buffer of the uevent socket
  overrun,       \* a message was dropped: the next receive is ENOBUFS
  fdsOpen,       \* socketFD and wakeFD are open
  wakeUp,        \* the eventfd wakeFD is readable
  (* linuxEventReceiver *)
  closed, initializing, startupEvents, devices, runErr, closeErr,
  stopped,       \* er.stopped is closed
  queueClosed,   \* er.events.Close() has returned
  (* run *)
  runPc, cur, info, batch, failed,
  (* Watch *)
  watchPc,       \* position of Watch
  todo,          \* names read from sysfs and not loaded yet
  found,         \* the snapshot so far
  (* Close *)
  once, closePc, result,
  (* history *)
  view,          \* the snapshot with the published events applied
  last,          \* the event published last
  steady         \* names taken by one device ever since the socket is bound

kernel == <<kstate, gen, noise>>
fds == <<sock, overrun, fdsOpen, wakeUp>>
guarded == <<closed, initializing, startupEvents, devices, runErr, closeErr>>
ends == <<stopped, queueClosed>>
runVars == <<runPc, cur, info, batch, failed>>
watchVars == <<watchPc, todo, found>>
closeVars == <<once, closePc, result>>
history == <<view, last, steady>>
vars == <<kernel, fds, guarded, ends, runVars, watchVars, closeVars, history>>

TypeOK ==
  /\ kstate \in [Names -> {"off", "appearing", "on", "vanishing"}]
  /\ gen \in [Names -> 0..MaxGen] /\ noise \in 0..MaxNoise
  /\ sock \in Seq(Message) /\ Len(sock) <= SockCap
  /\ overrun \in BOOLEAN /\ fdsOpen \in BOOLEAN /\ wakeUp \in BOOLEAN
  /\ closed \in BOOLEAN /\ initializing \in BOOLEAN
  /\ startupEvents \in Seq(Event)
  /\ devices \in [Names -> MaybeInfos]
  /\ runErr \in BOOLEAN /\ closeErr \in BOOLEAN
  /\ stopped \in BOOLEAN /\ queueClosed \in BOOLEAN
  /\ runPc \in {"none", "check", "poll", "drain", "receive", "handle", "loadUsage",
                "loadIds", "publish", "stop", "closeQueue", "closeStopped", "halted"}
  /\ cur \in Message \union {<<>>} /\ info \in Infos
  /\ batch \in 0..BatchSize /\ failed \in BOOLEAN
  /\ watchPc \in {"open", "list", "scan", "loadIds", "publish", "checkErr",
                  "close", "returned", "failed"}
  /\ todo \in SUBSET Names /\ found \in [Names -> MaybeInfos]
  /\ once \in {"fresh", "running", "finished"}
  /\ closePc \in [Callers -> {"idle", "called", "lock", "await", "result", "returned"}]
  /\ result \in [Callers -> {"none", "nil", "error"}]
  /\ view \in [Names -> MaybeInfos] /\ last \in Event \union {<<>>}
  /\ steady \in SUBSET Names

Attached(n) == kstate[n] \in {"appearing", "on"}

\* Watch is called at any moment, also while a device comes or goes.
Init ==
  /\ kstate \in [Names -> {"off", "appearing", "on", "vanishing"}]
  /\ gen = [n \in Names |-> IF kstate[n] = "off" THEN 0 ELSE 1]
  /\ noise = 0
  /\ sock = <<>> /\ overrun = FALSE /\ fdsOpen = FALSE /\ wakeUp = FALSE
  /\ closed = FALSE /\ initializing = TRUE /\ startupEvents = <<>>
  /\ devices = [n \in Names |-> Absent]
  /\ runErr = FALSE /\ closeErr = FALSE /\ stopped = FALSE /\ queueClosed = FALSE
  /\ runPc = "none" /\ cur = <<>> /\ info = PathOnly /\ batch = 0 /\ failed = FALSE
  /\ watchPc = "open" /\ todo = {} /\ found = [n \in Names |-> Absent]
  /\ once = "fresh"
  /\ closePc = [c \in Callers |-> "idle"] /\ result = [c \in Callers |-> "none"]
  /\ view = [n \in Names |-> Absent] /\ last = <<>> /\ steady = {}

-----------------------------------------------------------------------------
(* The kernel: sysfs changes first, the uevent follows                     *)

Appear(n) ==
  /\ kstate[n] = "off" /\ gen[n] < MaxGen
  /\ kstate' = [kstate EXCEPT ![n] = "appearing"]
  /\ gen' = [gen EXCEPT ![n] = @ + 1]
  /\ UNCHANGED <<noise, fds, guarded, ends, runVars, watchVars, closeVars, history>>

Vanish(n) ==
  /\ kstate[n] = "on"
  /\ kstate' = [kstate EXCEPT ![n] = "vanishing"]
  /\ steady' = steady \ {n}
  /\ UNCHANGED <<gen, noise, fds, guarded, ends, runVars, watchVars, closeVars, view, last>>

\* A full buffer drops the message and remembers that it did.
Deposit(m) ==
  IF ~fdsOpen THEN UNCHANGED <<sock, overrun>>
  ELSE IF Len(sock) < SockCap
       THEN sock' = Append(sock, m) /\ UNCHANGED overrun
       ELSE overrun' = TRUE /\ UNCHANGED sock

Announce(n) ==
  /\ \/ /\ kstate[n] = "appearing"
        /\ Deposit(<<"add", n>>)
        /\ kstate' = [kstate EXCEPT ![n] = "on"]
     \/ /\ kstate[n] = "vanishing"
        /\ Deposit(<<"remove", n>>)
        /\ kstate' = [kstate EXCEPT ![n] = "off"]
  /\ UNCHANGED <<gen, noise, fdsOpen, wakeUp, guarded, ends, runVars, watchVars,
                 closeVars, history>>

\* A uevent of another subsystem, or a message that is not from the kernel.
OtherMessage ==
  /\ noise < MaxNoise
  /\ noise' = noise + 1
  /\ Deposit(<<"noise">>)
  /\ UNCHANGED <<kstate, gen, fdsOpen, wakeUp, guarded, ends, runVars, watchVars,
                 closeVars, history>>

-----------------------------------------------------------------------------
(* run: readUevents and drainUevents                                       *)

Fail == runPc' = "stop" /\ failed' = TRUE

\* er.isClosed() at the head of the loop.
RunCheck ==
  /\ runPc = "check"
  /\ runPc' = IF closed THEN "stop" ELSE "poll"
  /\ UNCHANGED <<kernel, fds, guarded, ends, cur, info, batch, failed, watchVars,
                 closeVars, history>>

\* unix.Poll returns: the wake descriptor takes precedence over the socket.
RunPoll ==
  /\ runPc = "poll"
  /\ wakeUp \/ sock # <<>> \/ overrun
  /\ IF wakeUp THEN runPc' = "stop" /\ UNCHANGED batch
     ELSE runPc' = "drain" /\ batch' = 0
  /\ UNCHANGED <<kernel, fds, guarded, ends, cur, info, failed, watchVars, closeVars, history>>

RunDrainOneMore ==           \* mutant: one receive more than the batch
  /\ runPc = "drain"
  /\ IF batch > BatchSize \/ closed
     THEN runPc' = "check" /\ batch' = 0
     ELSE runPc' = "receive" /\ batch' = batch + 1
  /\ UNCHANGED <<kernel, fds, guarded, ends, cur, info, failed, watchVars, closeVars, history>>

\* The head of the drain loop: its bound, and er.isClosed().
RunDrain ==
  /\ runPc = "drain"
  /\ IF batch = BatchSize \/ closed
     THEN runPc' = "check" /\ batch' = 0
     ELSE runPc' = "receive" /\ batch' = batch + 1
  /\ UNCHANGED <<kernel, fds, guarded, ends, cur, info, failed, watchVars, closeVars, history>>

RunReceiveSkipOverrun ==     \* mutant: ENOBUFS is not terminal
  /\ runPc = "receive" /\ UNCHANGED failed
  /\ \/ /\ sock = <<>>
        /\ runPc' = "check" /\ batch' = 0 /\ UNCHANGED <<cur, sock>>
     \/ /\ sock # <<>>
        /\ sock' = Tail(sock) /\ UNCHANGED batch
        /\ IF Head(sock) = <<"noise">>
           THEN runPc' = "drain" /\ UNCHANGED cur
           ELSE runPc' = "handle" /\ cur' = Head(sock)
  /\ overrun' = FALSE
  /\ UNCHANGED <<kernel, fdsOpen, wakeUp, guarded, ends, info, watchVars, closeVars, history>>

\* unix.Recvmsg and the filters on what it returns.
RunReceive ==
  /\ runPc = "receive"
  /\ \/ overrun /\ Fail /\ UNCHANGED <<cur, sock, batch>>
     \/ /\ ~overrun /\ sock = <<>>
        /\ runPc' = "check" /\ batch' = 0 /\ UNCHANGED <<cur, sock, failed>>
     \/ /\ ~overrun /\ sock # <<>>
        /\ sock' = Tail(sock) /\ UNCHANGED <<failed, batch>>
        /\ IF Head(sock) = <<"noise">>
           THEN runPc' = "drain" /\ UNCHANGED cur
           ELSE runPc' = "handle" /\ cur' = Head(sock)
  /\ UNCHANGED <<kernel, overrun, fdsOpen, wakeUp, guarded, ends, info, watchVars,
                 closeVars, history>>

\* Any other error of poll or recvmsg, POLLHUP, or a truncated message.
RunReadFails ==
  /\ runPc \in {"poll", "drain", "receive"}
  /\ Fail
  /\ UNCHANGED <<kernel, fds, guarded, ends, cur, info, batch, watchVars, closeVars, history>>

-----------------------------------------------------------------------------
(* run: onUevent                                                           *)

Apply(f, e) == [f EXCEPT ![e[2]] = IF e[1] = "connected" THEN e[3] ELSE Absent]

\* publishOrStageLocked; the client's view follows what is sent.
PublishOrStage(e) ==
  IF initializing
  THEN startupEvents' = Append(startupEvents, e) /\ UNCHANGED <<devices, view, last>>
  ELSE /\ devices' = Apply(devices, e)
       /\ view' = Apply(view, e) /\ last' = e
       /\ UNCHANGED startupEvents

\* The first critical section of onUevent, for the device n of the message.
RunHandle(n) ==
  /\ runPc = "handle" /\ cur[2] = n
  /\ \/ /\ closed
        /\ runPc' = "drain" /\ cur' = <<>> /\ UNCHANGED <<devices, startupEvents, view, last>>
     \/ /\ ~closed /\ cur[1] = "remove"
        /\ PublishOrStage(Disconnected(n, IF devices[n] = Absent THEN PathOnly ELSE devices[n]))
        /\ runPc' = "drain" /\ cur' = <<>>
     \/ /\ ~closed /\ cur[1] = "add"
        /\ IF ~initializing /\ devices[n] # Absent
           THEN runPc' = "drain" /\ cur' = <<>>
           ELSE runPc' = "loadUsage" /\ UNCHANGED cur
        /\ UNCHANGED <<devices, startupEvents, view, last>>
  /\ UNCHANGED <<kernel, fds, closed, initializing, runErr, closeErr, ends, info,
                 batch, failed, watchVars, closeVars, steady>>

\* Reading one file of a device: its generation, or 0 for an error, which
\* is certain if the device is not there.
Reads(n) == {0} \union (IF Attached(n) THEN {gen[n]} ELSE {})

\* loadDeviceInfo outside the mutex: report_descriptor ...
RunLoadUsage ==
  /\ runPc = "loadUsage"
  /\ \E u \in Reads(cur[2]) : /\ info' = <<u, 0>>
                              /\ runPc' = IF u = 0 THEN "publish" ELSE "loadIds"
  /\ UNCHANGED <<kernel, fds, guarded, ends, cur, batch, failed, watchVars, closeVars, history>>

\* ... then uevent.
RunLoadIds ==
  /\ runPc = "loadIds"
  /\ \E i \in Reads(cur[2]) : info' = <<info[1], i>>
  /\ runPc' = "publish"
  /\ UNCHANGED <<kernel, fds, guarded, ends, cur, batch, failed, watchVars, closeVars, history>>

RunPublishUnchecked ==       \* mutant: the path is not looked up again after the load
  /\ runPc = "publish"
  /\ PublishOrStage(Connected(cur[2], info))
  /\ runPc' = "drain" /\ cur' = <<>> /\ info' = PathOnly
  /\ UNCHANGED <<kernel, fds, closed, initializing, runErr, closeErr, ends,
                 batch, failed, watchVars, closeVars, steady>>

\* The second critical section of onUevent.
RunPublish ==
  /\ runPc = "publish"
  /\ IF closed \/ (~initializing /\ devices[cur[2]] # Absent)
     THEN UNCHANGED <<devices, startupEvents, view, last>>
     ELSE PublishOrStage(Connected(cur[2], info))
  /\ runPc' = "drain" /\ cur' = <<>> /\ info' = PathOnly
  /\ UNCHANGED <<kernel, fds, closed, initializing, runErr, closeErr, ends,
                 batch, failed, watchVars, closeVars, steady>>

-----------------------------------------------------------------------------
(* run: shutdown                                                           *)

RunStopSilent ==             \* mutant: the error is not recorded
  /\ runPc = "stop"
  /\ closed' = TRUE
  /\ fdsOpen' = FALSE /\ sock' = <<>> /\ overrun' = FALSE /\ wakeUp' = FALSE
  /\ runPc' = "closeQueue"
  /\ UNCHANGED <<kernel, initializing, startupEvents, devices, runErr, closeErr, ends, cur,
                 info, batch, failed, watchVars, closeVars, history>>

\* One critical section: the error, the flag and both descriptors.
RunStop ==
  /\ runPc = "stop"
  /\ runErr' = failed
  /\ closed' = TRUE
  /\ fdsOpen' = FALSE /\ sock' = <<>> /\ overrun' = FALSE /\ wakeUp' = FALSE
  /\ runPc' = "closeQueue"
  /\ UNCHANGED <<kernel, initializing, startupEvents, devices, closeErr, ends, cur,
                 info, batch, failed, watchVars, closeVars, history>>

RunCloseQueue ==
  /\ runPc = "closeQueue"
  /\ queueClosed' = TRUE
  /\ runPc' = "closeStopped"
  /\ UNCHANGED <<kernel, fds, guarded, stopped, cur, info, batch, failed, watchVars,
                 closeVars, history>>

RunCloseStopped ==
  /\ runPc = "closeStopped"
  /\ stopped' = TRUE
  /\ runPc' = "halted"
  /\ UNCHANGED <<kernel, fds, guarded, queueClosed, cur, info, batch, failed, watchVars,
                 closeVars, history>>

-----------------------------------------------------------------------------
(* Watch                                                                   *)

\* The socket is bound before sysfs is read; run starts at once.
WatchOpen ==
  /\ watchPc = "open"
  /\ \/ /\ watchPc' = "list" /\ runPc' = "check" /\ fdsOpen' = TRUE
        /\ steady' = {n \in Names : Attached(n)}
     \/ watchPc' = "failed" /\ UNCHANGED <<runPc, fdsOpen, steady>>
  /\ UNCHANGED <<kernel, sock, overrun, wakeUp, guarded, ends, cur, info, batch, failed,
                 todo, found, closeVars, view, last>>

\* linuxHIDRawNames: a missing directory is no device, an error ends Watch.
WatchList ==
  /\ watchPc = "list"
  /\ \/ watchPc' = "scan" /\ todo' = {n \in Names : Attached(n)}
     \/ watchPc' = "close" /\ UNCHANGED todo
  /\ UNCHANGED <<kernel, fds, guarded, ends, runVars, found, closeVars, history>>

\* getLinuxDeviceInfo for one listed name: report_descriptor ...
WatchLoadUsage(n) ==
  /\ watchPc = "scan" /\ n \in todo
  /\ \E u \in Reads(n) :
       /\ found' = [found EXCEPT ![n] = <<u, 0>>]
       /\ IF u = 0 THEN todo' = todo \ {n} /\ UNCHANGED watchPc
          ELSE todo' = {n} \union todo /\ watchPc' = "loadIds"
  /\ UNCHANGED <<kernel, fds, guarded, ends, runVars, closeVars, history>>

\* ... then uevent.
WatchLoadIds(n) ==
  /\ watchPc = "loadIds" /\ n \in todo /\ found[n] # Absent
  /\ \E i \in Reads(n) : found' = [found EXCEPT ![n] = <<@[1], i>>]
  /\ todo' = todo \ {n}
  /\ watchPc' = "scan"
  /\ UNCHANGED <<kernel, fds, guarded, ends, runVars, closeVars, history>>

WatchScanned ==
  /\ watchPc = "scan" /\ todo = {}
  /\ watchPc' = "publish"
  /\ UNCHANGED <<kernel, fds, guarded, ends, runVars, todo, found, closeVars, history>>

IgnoreChanges(f, changes) == f   \* mutant: startup changes are forgotten

ChangesOnly(f, changes) ==       \* mutant: only what changed is in the snapshot
  [n \in Names |->
     IF \E k \in DOMAIN changes : changes[k] \in {"connected"} \X {n} \X Infos
     THEN PathOnly ELSE Absent]

Hits(changes, n) == {k \in DOMAIN changes : changes[k][2] = n}

Newest(changes, n) ==
  changes[CHOOSE k \in Hits(changes, n) : \A j \in Hits(changes, n) : j <= k]

\* reconcileLinuxStartupEvents: the staged changes are applied in order, so
\* that the newest of a name decides.
Reconcile(f, changes) ==
  [n \in Names |-> IF Hits(changes, n) = {} THEN f[n]
                   ELSE IF Newest(changes, n)[1] = "connected" THEN Newest(changes, n)[3]
                   ELSE Absent]

\* publishStartup: nothing if run has ended, else the snapshot goes live.
WatchPublishStartup ==
  /\ watchPc = "publish"
  /\ IF closed
     THEN UNCHANGED <<guarded, view>>
     ELSE /\ devices' = Reconcile(found, startupEvents)
          /\ view' = Reconcile(found, startupEvents)
          /\ startupEvents' = <<>>
          /\ initializing' = FALSE
          /\ UNCHANGED <<closed, runErr, closeErr>>
  /\ watchPc' = "checkErr"
  /\ found' = [n \in Names |-> Absent]
  /\ UNCHANGED <<kernel, fds, ends, runVars, todo, closeVars, last, steady>>

WatchCheckErrNoClose ==      \* mutant: a failed Watch leaves its goroutine behind
  /\ watchPc = "checkErr"
  /\ watchPc' = IF runErr THEN "failed" ELSE "returned"
  /\ UNCHANGED <<kernel, fds, guarded, ends, runVars, todo, found, closeVars, history>>

WatchCheckErr ==
  /\ watchPc = "checkErr"
  /\ watchPc' = IF runErr THEN "close" ELSE "returned"
  /\ UNCHANGED <<kernel, fds, guarded, ends, runVars, todo, found, closeVars, history>>

\* Watch failed: its own Close has returned.
WatchFailed ==
  /\ watchPc = "close" /\ closePc[Watching] = "returned"
  /\ watchPc' = "failed"
  /\ UNCHANGED <<kernel, fds, guarded, ends, runVars, todo, found, closeVars, history>>

-----------------------------------------------------------------------------
(* Close                                                                   *)

\* Only Watch can call Close before it has returned the receiver.
CloseCall(c) ==
  /\ closePc[c] = "idle"
  /\ watchPc = IF c = Watching THEN "close" ELSE "returned"
  /\ closePc' = [closePc EXCEPT ![c] = "called"]
  /\ UNCHANGED <<kernel, fds, guarded, ends, runVars, watchVars, once, result, history>>

CloseEnter(c) ==
  /\ closePc[c] = "called"
  /\ \/ once = "fresh" /\ once' = "running" /\ closePc' = [closePc EXCEPT ![c] = "lock"]
     \/ once = "finished" /\ closePc' = [closePc EXCEPT ![c] = "result"] /\ UNCHANGED once
  /\ UNCHANGED <<kernel, fds, guarded, ends, runVars, watchVars, result, history>>

CloseLockAlways(c) ==        \* mutant: the wake descriptor is signalled even if run has ended
  /\ closePc[c] = "lock"
  /\ closed' = TRUE
  /\ wakeUp' = TRUE
  /\ closePc' = [closePc EXCEPT ![c] = "await"]
  /\ UNCHANGED <<kernel, sock, overrun, fdsOpen, initializing, startupEvents, devices,
                 runErr, closeErr, ends, runVars, watchVars, once, result, history>>

CloseLockQuiet(c) ==         \* mutant: run is not woken
  /\ closePc[c] = "lock"
  /\ closed' = TRUE
  /\ closePc' = [closePc EXCEPT ![c] = "await"]
  /\ UNCHANGED <<kernel, fds, initializing, startupEvents, devices, runErr, closeErr,
                 ends, runVars, watchVars, once, result, history>>

\* The critical section of Close; the write to the eventfd may fail.
CloseLock(c) ==
  /\ closePc[c] = "lock"
  /\ closed' = TRUE
  /\ \/ closed /\ UNCHANGED <<wakeUp, closeErr>>
     \/ ~closed /\ wakeUp' = TRUE /\ UNCHANGED closeErr
     \/ ~closed /\ closeErr' = TRUE /\ UNCHANGED wakeUp
  /\ closePc' = [closePc EXCEPT ![c] = "await"]
  /\ UNCHANGED <<kernel, sock, overrun, fdsOpen, initializing, startupEvents, devices,
                 runErr, ends, runVars, watchVars, once, result, history>>

CloseAwait(c) ==
  /\ closePc[c] = "await" /\ stopped
  /\ once' = "finished"
  /\ closePc' = [closePc EXCEPT ![c] = "result"]
  /\ UNCHANGED <<kernel, fds, guarded, ends, runVars, watchVars, result, history>>

CloseResult(c) ==
  /\ closePc[c] = "result"
  /\ closePc' = [closePc EXCEPT ![c] = "returned"]
  /\ result' = [result EXCEPT ![c] = IF runErr \/ closeErr THEN "error" ELSE "nil"]
  /\ UNCHANGED <<kernel, fds, guarded, ends, runVars, watchVars, once, history>>

-----------------------------------------------------------------------------
Kernel == (\E n \in Names : Appear(n) \/ Vanish(n) \/ Announce(n)) \/ OtherMessage

OnUevent == (\E n \in Names : RunHandle(n)) \/ RunLoadUsage \/ RunLoadIds \/ RunPublish

Run == \/ RunCheck \/ RunPoll \/ RunDrain \/ RunReceive \/ OnUevent
       \/ RunStop \/ RunCloseQueue \/ RunCloseStopped

Watch == \/ WatchOpen \/ WatchList \/ WatchScanned
         \/ \E n \in Names : WatchLoadUsage(n) \/ WatchLoadIds(n)
         \/ WatchPublishStartup \/ WatchCheckErr \/ WatchFailed

CloseBody(c) == CloseEnter(c) \/ CloseLock(c) \/ CloseAwait(c) \/ CloseResult(c)

Next == \/ Kernel \/ Run \/ RunReadFails \/ Watch
        \/ \E c \in Callers : CloseCall(c) \/ CloseBody(c)

Spec == Init /\ [][Next]_vars

(***************************************************************************)
(* Goroutines that can run do, the kernel announces what it has changed,   *)
(* and a Watch that fails goes on to its own Close.  No fairness for       *)
(* devices, other messages, read failures or the client's Close.           *)
(***************************************************************************)
Fairness == /\ WF_vars(Run) /\ WF_vars(Watch) /\ WF_vars(CloseCall(Watching))
            /\ \A c \in Callers : WF_vars(CloseBody(c))
            /\ \A n \in Names : WF_vars(Announce(n))

FairSpec == Spec /\ Fairness

-----------------------------------------------------------------------------
(* Properties                                                              *)

Live == ~initializing /\ ~closed

\* Nothing is under way between the kernel and the receiver.
Quiet == /\ Live /\ sock = <<>> /\ ~overrun
         /\ runPc \in {"check", "poll", "drain", "receive"}
         /\ \A n \in Names : kstate[n] \in {"on", "off"}

(***************************************************************************)
(* When nothing is under way the client's view, built from the snapshot    *)
(* and the events alone, holds exactly the devices that are there, and     *)
(* nothing it says of them was read from an earlier device of that name.   *)
(* The scan, the staged startup events, the suppressed duplicate adds and  *)
(* the unlocked metadata loads all race with the kernel (onUevent,         *)
(* publishStartup, reconcileLinuxStartupEvents).                           *)
(***************************************************************************)
ViewIsRight(n) ==
  /\ view[n] # Absent <=> Attached(n)
  /\ view[n] # Absent => \A k \in {1, 2} : view[n][k] \in {0, gen[n]}

ViewAccurateWhenQuiet == Quiet => \A n \in Names : ViewIsRight(n)

(***************************************************************************)
(* A device that is there while Watch runs is in the snapshot, whatever    *)
(* messages are staged meanwhile (Watch binds the socket, then scans).     *)
(***************************************************************************)
SnapshotCoversSteadyDevices ==
  [][initializing /\ ~initializing' => \A n \in steady : view'[n] # Absent]_vars

(***************************************************************************)
(* Close never writes to the wake descriptor once run has closed it: the   *)
(* number may belong to another file by then (Close, run: both under mu).  *)
(***************************************************************************)
NoSignalAfterClose == wakeUp => fdsOpen

(***************************************************************************)
(* Watch returns a receiver only if its snapshot went live, also if run    *)
(* failed between the scan and the end of Watch.                           *)
(***************************************************************************)
ReturnedIsLive == watchPc = "returned" => ~initializing

(***************************************************************************)
(* A failed Watch leaves no goroutine and no descriptor behind.            *)
(***************************************************************************)
FailedWatchReleases ==
  watchPc = "failed" => ~fdsOpen /\ runPc \in {"none", "halted"}

(***************************************************************************)
(* No failure is silent: if Listen() is closed and nobody has called       *)
(* Close, the receiver holds the error that Close will return, and a Close *)
(* that returns nil ended a receiver that had not failed (README.md:103).  *)
(***************************************************************************)
NoSilentFailure ==
  /\ queueClosed /\ (\A c \in Callers : closePc[c] = "idle") => runErr
  /\ \A c \in Callers : result[c] = "nil" => queueClosed /\ ~fdsOpen /\ ~failed

(***************************************************************************)
(* When run may fail at any point before, during and after the publication *)
(* of the snapshot, Watch and Close say so, everything is released, and    *)
(* nothing is used that was (event_linux.go:512, :61, :94).                *)
(***************************************************************************)
FailureHandled ==
  TypeOK /\ NoSignalAfterClose /\ ReturnedIsLive /\ FailedWatchReleases /\ NoSilentFailure

(***************************************************************************)
(* Every Close returns, whatever the kernel sends meanwhile, unless the    *)
(* write that wakes run failed.                                            *)
(***************************************************************************)
CloseReturns ==
  \A c \in Callers : closePc[c] = "called" ~> (closePc[c] = "returned" \/ closeErr)

(***************************************************************************)
(* Watch comes to an end, with a receiver or without.                      *)
(***************************************************************************)
WatchReturns == watchPc = "list" ~> (watchPc \in {"returned", "failed"} \/ closeErr)

\* Nobody who calls the watcher waits for ever (event_linux.go:62, :157).
CallsReturn == CloseReturns /\ WatchReturns

(***************************************************************************)
(* Once devices stop coming and going, the view of a client whose watcher  *)
(* runs becomes right and stays right, metadata included.                  *)
(***************************************************************************)
EventuallyAccurate ==
  <>[](\/ closed \/ watchPc \in {"open", "failed"}
       \/ \A n \in Names : ViewIsRight(n))

\* What the receiver means to its client.
phase == IF queueClosed THEN "ended" ELSE IF initializing THEN "starting" ELSE "live"

Client == INSTANCE Watcher WITH Devices <- Names, MayRepeat <- FALSE

(***************************************************************************)
(* The receiver keeps the promises of the Watcher interface.               *)
(***************************************************************************)
ImplementsWatcher == Client!Spec
=============================================================================
