--------------------------- MODULE WindowsWatcher ---------------------------
(***************************************************************************)
(* cmEventReceiver and Watch on Windows (event_windows.go).                *)
(*                                                                         *)
(* The configuration manager calls back on threads of its own, for one     *)
(* device in the order of its arrivals and removals, some time after the   *)
(* device interface has changed.  A callback holds er.mu from beginning to *)
(* end, metadata load included, so it is one action.  Watch registers,     *)
(* enumerates with SetupAPI and then lets the snapshot go live.            *)
(* CM_Unregister_Notification waits for callbacks in progress and drops    *)
(* those not begun.                                                        *)
(***************************************************************************)
EXTENDS Naturals, Sequences

CONSTANTS Devs,      \* device interfaces
          Closers,   \* goroutines that call Close on the returned Watcher
          MaxGen,    \* bound: how often a device interface arrives
          Watching   \* Watch itself, as a caller of Close

ASSUME WindowsAssumption == MaxGen \in Nat \ {0} /\ Watching \notin Closers

(***************************************************************************)
(* SetupAPI and the configuration manager spell the path of one device     *)
(* interface differently; the key of both is the lower-case spelling.      *)
(***************************************************************************)
Paths == Devs \X {"setup", "cm"}
Keys == Devs \X {"setup", "cm", "lower"}

ExactKey(path) == path   \* mutant: paths are compared as they are spelled

cmDevicePathKey(path) == <<path[1], "lower">>

\* Metadata: the arrival of the device it was read from, 0 for the path only.
Infos == 0..MaxGen
PathOnly == 0
Absent == MaxGen + 1
MaybeInfos == 0..(MaxGen + 1)

Event == {"connected", "disconnected"} \X Paths \X Infos
Callers == Closers \union {Watching}

VARIABLES
  (* Windows *)
  istate,        \* "off", "appearing", "on" or "vanishing" for every device
  gen,           \* arrivals so far
  notes,         \* notifications not called back yet, for every device
  registered,    \* CM_Register_Notification is in force
  (* cmEventReceiver *)
  known,         \* cmReceivers holds the receiver
  closed, initializing, startupEvents,
  devices,       \* path key to metadata
  closeErr, queueClosed,
  (* Watch *)
  watchPc, todo, found,
  (* Close *)
  once, closePc,
  (* history *)
  view,          \* the snapshot with the published events applied
  last,          \* the event published last
  steady         \* devices that have been there since the registration

windows == <<istate, gen, notes, registered>>
guarded == <<closed, initializing, startupEvents, devices>>
receiver == <<known, guarded, closeErr, queueClosed>>
watchVars == <<watchPc, todo, found>>
closeVars == <<once, closePc>>
history == <<view, last, steady>>
vars == <<windows, receiver, watchVars, closeVars, history>>

TypeOK ==
  /\ istate \in [Devs -> {"off", "appearing", "on", "vanishing"}]
  /\ gen \in [Devs -> 0..MaxGen]
  /\ notes \in [Devs -> Seq({"arrival", "removal"})] /\ registered \in BOOLEAN
  /\ known \in BOOLEAN /\ closed \in BOOLEAN /\ initializing \in BOOLEAN
  /\ startupEvents \in Seq(Event)
  /\ devices \in [Keys -> MaybeInfos]
  /\ closeErr \in BOOLEAN /\ queueClosed \in BOOLEAN
  /\ watchPc \in {"register", "list", "enumerate", "publish", "close", "returned", "failed"}
  /\ todo \in SUBSET Devs /\ found \in [Devs -> MaybeInfos]
  /\ once \in {"fresh", "running", "finished"}
  /\ closePc \in [Callers -> {"idle", "called", "lock", "unregister", "closeQueue",
                              "delete", "returned"}]
  /\ view \in [Devs -> MaybeInfos] /\ last \in Event \union {<<>>}
  /\ steady \in SUBSET Devs

Attached(d) == istate[d] \in {"appearing", "on"}

Init ==
  /\ istate \in [Devs -> {"off", "appearing", "on", "vanishing"}]
  /\ gen = [d \in Devs |-> IF istate[d] = "off" THEN 0 ELSE 1]
  /\ notes = [d \in Devs |-> <<>>] /\ registered = FALSE
  /\ known = TRUE /\ closed = FALSE /\ initializing = TRUE /\ startupEvents = <<>>
  /\ devices = [k \in Keys |-> Absent]
  /\ closeErr = FALSE /\ queueClosed = FALSE
  /\ watchPc = "register" /\ todo = {} /\ found = [d \in Devs |-> Absent]
  /\ once = "fresh" /\ closePc = [c \in Callers |-> "idle"]
  /\ view = [d \in Devs |-> Absent] /\ last = <<>> /\ steady = {}

-----------------------------------------------------------------------------
(* Windows                                                                 *)

Appear(d) ==
  /\ istate[d] = "off" /\ gen[d] < MaxGen
  /\ istate' = [istate EXCEPT ![d] = "appearing"]
  /\ gen' = [gen EXCEPT ![d] = @ + 1]
  /\ UNCHANGED <<notes, registered, receiver, watchVars, closeVars, history>>

Vanish(d) ==
  /\ istate[d] = "on"
  /\ istate' = [istate EXCEPT ![d] = "vanishing"]
  /\ steady' = steady \ {d}
  /\ UNCHANGED <<gen, notes, registered, receiver, watchVars, closeVars, view, last>>

\* The change is queued for every registration in force.
Notify(d) ==
  /\ istate[d] \in {"appearing", "vanishing"}
  /\ istate' = [istate EXCEPT ![d] = IF @ = "appearing" THEN "on" ELSE "off"]
  /\ notes' = IF ~registered THEN notes
              ELSE [notes EXCEPT ![d] = Append(@, IF istate[d] = "appearing"
                                                  THEN "arrival" ELSE "removal")]
  /\ UNCHANGED <<gen, registered, receiver, watchVars, closeVars, history>>

-----------------------------------------------------------------------------
(* cmNotificationCallback and onPathAction                                 *)

LoadsNil(d) ==               \* mutant: the nil result of a failed load is published
  {Absent} \union (IF Attached(d) THEN {gen[d]} ELSE {})

\* getDeviceInfo: fails for a device that is not there, may fail for others.
Loads(d) == {PathOnly} \union (IF Attached(d) THEN {gen[d]} ELSE {})

Apply(f, key, e) == [f EXCEPT ![key] = IF e[1] = "connected" THEN e[3] ELSE Absent]

EventOfNoCache(d, note) ==   \* mutant: a removal is published without the cached metadata
  IF note = "removal" THEN {<<"disconnected", <<d, "cm">>, PathOnly>>}
  ELSE {<<"connected", <<d, "cm">>, i>> : i \in Loads(d)}

\* The event a notification turns into.  A removal takes the metadata of the
\* cache, which may have been filled under SetupAPI's spelling of the path.
EventOf(d, note) ==
  LET key == cmDevicePathKey(<<d, "cm">>)
  IN IF note = "removal"
     THEN {<<"disconnected", <<d, "cm">>, IF devices[key] = Absent THEN PathOnly ELSE devices[key]>>}
     ELSE {<<"connected", <<d, "cm">>, i>> : i \in Loads(d)}

CallbackNoStaging(d) ==      \* mutant: what happens during the enumeration is ignored
  /\ notes[d] # <<>>
  /\ notes' = [notes EXCEPT ![d] = Tail(@)]
  /\ IF ~known \/ closed \/ initializing
     THEN UNCHANGED <<guarded, view, last>>
     ELSE \E e \in EventOf(d, Head(notes[d])) :
            /\ devices' = Apply(devices, cmDevicePathKey(<<d, "cm">>), e)
            /\ view' = Apply(view, d, e) /\ last' = e
            /\ UNCHANGED <<closed, initializing, startupEvents>>
  /\ UNCHANGED <<istate, gen, registered, known, closeErr, queueClosed, watchVars,
                 closeVars, steady>>

Callback(d) ==
  /\ notes[d] # <<>>
  /\ notes' = [notes EXCEPT ![d] = Tail(@)]
  /\ IF ~known \/ closed
     THEN UNCHANGED <<guarded, view, last>>
     ELSE \E e \in EventOf(d, Head(notes[d])) :
            /\ IF initializing
               THEN startupEvents' = Append(startupEvents, e) /\ UNCHANGED <<devices, view, last>>
               ELSE /\ devices' = Apply(devices, cmDevicePathKey(<<d, "cm">>), e)
                    /\ view' = Apply(view, d, e) /\ last' = e
                    /\ UNCHANGED startupEvents
            /\ UNCHANGED <<closed, initializing>>
  /\ UNCHANGED <<istate, gen, registered, known, closeErr, queueClosed, watchVars,
                 closeVars, steady>>

-----------------------------------------------------------------------------
(* Watch                                                                   *)

\* The receiver is stored before it is registered; a failure closes it.
WatchRegister ==
  /\ watchPc = "register"
  /\ \/ watchPc' = "list" /\ registered' = TRUE /\ steady' = {d \in Devs : Attached(d)}
     \/ watchPc' = "close" /\ UNCHANGED <<registered, steady>>
  /\ UNCHANGED <<istate, gen, notes, receiver, todo, found, closeVars, view, last>>

\* SetupDiGetClassDevs fixes the list of interfaces that are present.
WatchList ==
  /\ watchPc = "list"
  /\ \/ watchPc' = "enumerate" /\ todo' = {d \in Devs : Attached(d)}
     \/ watchPc' = "close" /\ UNCHANGED todo
  /\ UNCHANGED <<windows, receiver, found, closeVars, history>>

\* One turn of Enumerate: a device that is not started is skipped, one whose
\* metadata cannot be read fails the whole Watch.
WatchEnumerate(d) ==
  /\ watchPc = "enumerate" /\ d \in todo
  /\ todo' = todo \ {d}
  /\ \/ istate[d] # "on" /\ UNCHANGED <<found, watchPc>>
     \/ Attached(d) /\ found' = [found EXCEPT ![d] = gen[d]] /\ UNCHANGED watchPc
     \/ watchPc' = "close" /\ UNCHANGED found
  /\ UNCHANGED <<windows, receiver, closeVars, history>>

WatchEnumerated ==
  /\ watchPc = "enumerate" /\ todo = {}
  /\ watchPc' = "publish"
  /\ UNCHANGED <<windows, receiver, todo, found, closeVars, history>>

\* The staged changes of a device, in either spelling of its path.
Staged(d) == {k \in DOMAIN startupEvents :
                cmDevicePathKey(startupEvents[k][2]) = cmDevicePathKey(<<d, "setup">>)}

NewestStaged(d) == startupEvents[CHOOSE k \in Staged(d) : \A j \in Staged(d) : j <= k]

\* reconcileCMStartupEvents: the staged changes win over the enumeration.
Reconcile(d) == IF Staged(d) = {} THEN found[d]
                ELSE IF NewestStaged(d)[1] = "connected" THEN NewestStaged(d)[3] ELSE Absent

WatchPublishStartup ==
  /\ watchPc = "publish"
  /\ IF closed
     THEN UNCHANGED <<devices, view, startupEvents, initializing>>
     ELSE /\ devices' = [k \in Keys |->
                           IF \E d \in Devs : k = cmDevicePathKey(<<d, "setup">>)
                           THEN Reconcile(k[1]) ELSE Absent]
          /\ view' = [d \in Devs |-> Reconcile(d)]
          /\ startupEvents' = <<>> /\ initializing' = FALSE
  /\ found' = [d \in Devs |-> Absent]
  /\ watchPc' = "returned"
  /\ UNCHANGED <<windows, known, closed, closeErr, queueClosed, todo, closeVars, last, steady>>

WatchFailed ==
  /\ watchPc = "close" /\ closePc[Watching] = "returned"
  /\ watchPc' = "failed"
  /\ UNCHANGED <<windows, receiver, todo, found, closeVars, history>>

-----------------------------------------------------------------------------
(* Close                                                                   *)

CloseCall(c) ==
  /\ closePc[c] = "idle"
  /\ watchPc = IF c = Watching THEN "close" ELSE "returned"
  /\ closePc' = [closePc EXCEPT ![c] = "called"]
  /\ UNCHANGED <<windows, receiver, watchVars, once, history>>

CloseEnter(c) ==
  /\ closePc[c] = "called"
  /\ \/ once = "fresh" /\ once' = "running" /\ closePc' = [closePc EXCEPT ![c] = "lock"]
     \/ once = "finished" /\ closePc' = [closePc EXCEPT ![c] = "returned"] /\ UNCHANGED once
  /\ UNCHANGED <<windows, receiver, watchVars, history>>

CloseLockForgotten(c) ==     \* mutant: the closed flag is not set
  /\ closePc[c] = "lock"
  /\ closePc' = [closePc EXCEPT ![c] = "unregister"]
  /\ UNCHANGED <<windows, receiver, watchVars, once, history>>

CloseLock(c) ==
  /\ closePc[c] = "lock"
  /\ closed' = TRUE
  /\ closePc' = [closePc EXCEPT ![c] = "unregister"]
  /\ UNCHANGED <<windows, known, initializing, startupEvents, devices, closeErr,
                 queueClosed, watchVars, once, history>>

CloseUnregisterSkipped(c) == \* mutant: the registration is left in force
  /\ closePc[c] = "unregister"
  /\ closePc' = [closePc EXCEPT ![c] = "closeQueue"]
  /\ UNCHANGED <<windows, receiver, watchVars, once, history>>

\* Unregistering may fail; then callbacks go on coming.
CloseUnregister(c) ==
  /\ closePc[c] = "unregister"
  /\ \/ /\ registered' = FALSE /\ notes' = [d \in Devs |-> <<>>]
        /\ UNCHANGED closeErr
     \/ registered /\ closeErr' = TRUE /\ UNCHANGED <<registered, notes>>
  /\ closePc' = [closePc EXCEPT ![c] = "closeQueue"]
  /\ UNCHANGED <<istate, gen, known, guarded, queueClosed, watchVars, once, history>>

CloseQueue(c) ==
  /\ closePc[c] = "closeQueue"
  /\ queueClosed' = TRUE
  /\ closePc' = [closePc EXCEPT ![c] = "delete"]
  /\ UNCHANGED <<windows, known, guarded, closeErr, watchVars, once, history>>

CloseDeleteHanging(c) ==     \* mutant: the Once is never released
  /\ closePc[c] = "delete"
  /\ known' = FALSE
  /\ closePc' = [closePc EXCEPT ![c] = "returned"]
  /\ UNCHANGED <<windows, guarded, closeErr, queueClosed, watchVars, once, history>>

CloseDelete(c) ==
  /\ closePc[c] = "delete"
  /\ known' = FALSE
  /\ once' = "finished"
  /\ closePc' = [closePc EXCEPT ![c] = "returned"]
  /\ UNCHANGED <<windows, guarded, closeErr, queueClosed, watchVars, history>>

-----------------------------------------------------------------------------
Windows == \E d \in Devs : Appear(d) \/ Vanish(d) \/ Notify(d)

Watch == \/ WatchRegister \/ WatchList \/ (\E d \in Devs : WatchEnumerate(d))
         \/ WatchEnumerated \/ WatchPublishStartup \/ WatchFailed

CloseBody(c) == \/ CloseEnter(c) \/ CloseLock(c) \/ CloseUnregister(c)
                \/ CloseQueue(c) \/ CloseDelete(c)

Next == \/ Windows \/ (\E d \in Devs : Callback(d)) \/ Watch
        \/ \E c \in Callers : CloseCall(c) \/ CloseBody(c)

Spec == Init /\ [][Next]_vars

(***************************************************************************)
(* Windows notifies what has changed and calls back, and goroutines that   *)
(* can run do.  No fairness for devices or for the client's Close.         *)
(***************************************************************************)
Fairness == /\ WF_vars(Watch) /\ WF_vars(CloseCall(Watching))
            /\ \A c \in Callers : WF_vars(CloseBody(c))
            /\ \A d \in Devs : WF_vars(Notify(d)) /\ WF_vars(Callback(d))

FairSpec == Spec /\ Fairness

-----------------------------------------------------------------------------
(* Properties                                                              *)

(***************************************************************************)
(* When nothing is under way, the view of a client that knows only the     *)
(* snapshot and the events holds the devices that are there, with metadata *)
(* read from the present device (onPathAction, publishStartup).            *)
(***************************************************************************)
ViewIsRight(d) ==
  /\ view[d] # Absent <=> Attached(d)
  /\ view[d] # Absent => view[d] \in {0, gen[d]}

ViewAccurateWhenQuiet ==
  ~initializing /\ ~closed /\ (\A d \in Devs : notes[d] = <<>> /\ istate[d] \in {"on", "off"})
    => \A d \in Devs : ViewIsRight(d)

(***************************************************************************)
(* The client has been told of everything in the cache and of nothing      *)
(* else, however the two sources spell a path: what the cache answers to a *)
(* removal notification is what the client was told of the device.         *)
(***************************************************************************)
CacheIsWhatWasTold ==
  ~initializing => \A d \in Devs : devices[cmDevicePathKey(<<d, "cm">>)] = view[d]

(***************************************************************************)
(* What is there, what the receiver knows and what the client was told     *)
(* agree (event_windows.go:158, :302).                                     *)
(***************************************************************************)
KnownIsToldIsThere == TypeOK /\ CacheIsWhatWasTold /\ ViewAccurateWhenQuiet

(***************************************************************************)
(* When Close has returned the registration is gone, or its error is       *)
(* reported; a failed Watch leaves nothing in force either.                *)
(***************************************************************************)
CloseReleases ==
  (watchPc = "failed" \/ \E c \in Callers : closePc[c] = "returned") =>
     queueClosed /\ ~known /\ (registered => closeErr)

(***************************************************************************)
(* Every Close returns, and Watch comes to an end.                         *)
(***************************************************************************)
CloseReturns == \A c \in Callers : closePc[c] = "called" ~> closePc[c] = "returned"

(***************************************************************************)
(* Once devices stop coming and going, the client's view becomes right and *)
(* stays right, metadata included.                                         *)
(***************************************************************************)
EventuallyAccurate ==
  <>[](closed \/ \A d \in Devs : ViewIsRight(d))

(***************************************************************************)
(* "Watcher publishes changes which happen after Snapshot" (event.go:30):  *)
(* no connection is published for a device the client was told of already. *)
(* An arrival that precedes the enumeration and is called back after it is *)
(* published although the snapshot holds the device: onPathAction has no   *)
(* counterpart of the duplicate checks of the other platforms.             *)
(***************************************************************************)
PublishesChangesOnly ==
  [][\A d \in Devs : last' # last /\ last'[1] = "connected" /\ last'[2][1] = d
                       => view[d] = Absent]_vars

\* What the receiver means to its client.
phase == IF queueClosed THEN "ended" ELSE IF initializing THEN "starting" ELSE "live"

Client == INSTANCE Watcher
            WITH Devices <- Devs, MayRepeat <- TRUE,
                 last <- IF last = <<>> THEN <<>> ELSE <<last[1], last[2][1], last[3]>>

(***************************************************************************)
(* But for repeated connections the receiver keeps the promises of the     *)
(* Watcher interface.                                                      *)
(***************************************************************************)
ImplementsWatcher == Client!Spec
=============================================================================
