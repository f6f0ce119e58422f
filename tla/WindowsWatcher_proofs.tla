------------------------ MODULE WindowsWatcher_proofs ------------------------
(***************************************************************************)
(* Proofs about WindowsWatcher for any device interfaces, closers and      *)
(* arrivals: cache, view and devices agree, Close releases everything, and *)
(* the receiver implements Watcher.                                        *)
(***************************************************************************)
EXTENDS WindowsWatcher, SequenceTheorems, TLAPS

Starting == {"list", "enumerate", "publish"}

(***************************************************************************)
(* Where Watch is says what is in force: nobody closes the receiver before *)
(* Watch has given up or has returned it.                                  *)
(***************************************************************************)
PhaseInv ==
  /\ watchPc = "register" => /\ ~registered /\ startupEvents = <<>> /\ todo = {}
                             /\ \A d \in Devs : found[d] = Absent
  /\ watchPc \in Starting => registered
  /\ watchPc \in Starting \union {"register"} =>
       initializing /\ ~closed /\ \A c \in Callers : closePc[c] = "idle"
  /\ ~initializing <=> watchPc = "returned"
  /\ ~initializing /\ ~closed => registered
  /\ watchPc = "publish" => todo = {}

InBody(c) == closePc[c] \in {"lock", "unregister", "closeQueue", "delete"}

(***************************************************************************)
(* The Once lets one caller into the body of Close, every other one waits  *)
(* until the body has run to its end.                                      *)
(***************************************************************************)
CloseInv ==
  /\ \A c \in Closers : closePc[c] # "idle" => watchPc = "returned"
  /\ closePc[Watching] # "idle" => watchPc \in {"close", "failed"}
  /\ watchPc = "failed" => closePc[Watching] = "returned"
  /\ \A c \in Callers :
       /\ InBody(c) => once = "running" /\ \A b \in Callers : InBody(b) => b = c
       /\ closePc[c] \in {"unregister", "closeQueue", "delete"} => closed
       /\ closePc[c] \in {"closeQueue", "delete"} => (registered => closeErr)
       /\ closePc[c] = "delete" => queueClosed
       /\ closePc[c] = "returned" => once = "finished"
  /\ once = "finished" => closed /\ queueClosed /\ ~known /\ (registered => closeErr)
  /\ queueClosed => closed
  /\ ~known => closed

\* Notifications wait for a registration only; the last of them tells
\* whether the device is there.
NotesInv ==
  /\ ~registered => \A d \in Devs : notes[d] = <<>>
  /\ \A d \in Devs : notes[d] # <<>> =>
       (notes[d][Len(notes[d])] = "arrival" <=> istate[d] \in {"on", "vanishing"})

\* Of the staged changes of an interface one is the newest.
StagedInv ==
  \A d \in Devs : Staged(d) # {} => \E k \in Staged(d) : \A j \in Staged(d) : j <= k

(***************************************************************************)
(* What may be known of a device no notification waits for.  A device on   *)
(* its way in may be known from the enumeration only.                      *)
(***************************************************************************)
Fits(d, i) ==
  /\ istate[d] = "off" => i = Absent
  /\ istate[d] = "appearing" => i \in {Absent, gen[d]}
  /\ istate[d] = "on" => i \in {PathOnly, gen[d]}
  /\ istate[d] = "vanishing" => i \in {Absent, PathOnly, gen[d]}

\* The devices Watch has neither enumerated nor heard of.
Ahead(d) == watchPc = "list" \/ d \in todo

(***************************************************************************)
(* What would be published at once fits the device, unless it is still to  *)
(* be enumerated and no change of it is staged.                            *)
(***************************************************************************)
StartInv ==
  watchPc \in Starting =>
    \A d \in Devs :
      /\ Ahead(d) => found[d] = Absent
      /\ notes[d] = <<>> /\ ~(Ahead(d) /\ Staged(d) = {}) => Fits(d, Reconcile(d))

LiveInv ==
  ~initializing =>
    \A d \in Devs : /\ devices[cmDevicePathKey(<<d, "cm">>)] = view[d]
                    /\ ~closed /\ notes[d] = <<>> => Fits(d, view[d])

IInv == TypeOK /\ PhaseInv /\ CloseInv /\ NotesInv /\ StagedInv /\ StartInv /\ LiveInv

-----------------------------------------------------------------------------
\* How metadata and the absence of an interface are numbered.
LEMMA Numbers == /\ Absent \in MaybeInfos /\ Infos \subseteq MaybeInfos /\ Absent \notin Infos
                 /\ PathOnly \in Infos /\ 0..MaxGen = Infos
                 /\ MaybeInfos = Infos \union {Absent}
  BY WindowsAssumption DEF Absent, MaybeInfos, Infos, PathOnly

\* The two spellings of a path have one key, different for different interfaces.
LEMMA PathKeys ==
  ASSUME NEW d \in Devs
  PROVE  /\ \A s \in {"setup", "cm"} : cmDevicePathKey(<<d, s>>) = <<d, "lower">>
         /\ <<d, "lower">> \in Keys /\ <<d, "lower">>[1] = d
         /\ <<d, "cm">> \in Paths /\ <<d, "cm">>[1] = d
  BY DEF cmDevicePathKey, Keys, Paths

\* The initial states satisfy the invariant.
LEMMA InitInv == Init => IInv
  <1> SUFFICES ASSUME Init PROVE IInv
    OBVIOUS
  <1>1. gen \in [Devs -> 0..MaxGen]
    BY WindowsAssumption DEF Init
  <1>2. TypeOK
    BY <1>1, Numbers, EmptySeq DEF Init, TypeOK
  <1>3. PhaseInv /\ CloseInv /\ NotesInv /\ StartInv /\ LiveInv
    BY DEF Init, PhaseInv, CloseInv, NotesInv, StartInv, LiveInv, InBody, Starting, Callers
  <1>4. StagedInv
    BY DEF Init, StagedInv, Staged
  <1> QED
    BY <1>2, <1>3, <1>4 DEF IInv

\* Taking the first notification leaves the last one what it was.
LEMMA LastOfTail ==
  ASSUME NEW S, NEW s \in Seq(S), s # <<>>
  PROVE  /\ Tail(s) \in Seq(S) /\ Head(s) \in S
         /\ Tail(s) # <<>> => Tail(s)[Len(Tail(s))] = s[Len(s)]
         /\ Tail(s) = <<>> => Head(s) = s[Len(s)]
  <1>1. Tail(s) \in Seq(S) /\ Head(s) \in S
    BY HeadTailProperties
  <1>2. Len(Tail(s)) = Len(s) - 1 /\ Len(s) \in Nat \ {0}
    BY HeadTailProperties, EmptySeq
  <1>3. \A i \in 1..Len(Tail(s)) : Tail(s)[i] = s[i + 1]
    BY HeadTailProperties
  <1>4. Tail(s) # <<>> => Tail(s)[Len(Tail(s))] = s[Len(s)]
    <2>1. Tail(s) # <<>> => Len(Tail(s)) \in Nat \ {0}
      BY <1>1, EmptySeq
    <2> QED
      BY <1>2, <1>3, <2>1
  <1>5. Tail(s) = <<>> => Head(s) = s[Len(s)]
    <2> DEFINE t == Tail(s)
    <2>0. t = <<>> => Len(t) = 0
      BY EmptySeq
    <2> HIDE DEF t
    <2>1. t = <<>> => Len(s) = 1
      BY <1>2, <2>0 DEF t
    <2>2. SubSeq(s, 1, Len(s)) = s
      BY SubSeqFull
    <2>3. Head(s) = s[1]
      BY <1>2, <2>2, HeadTailOfSubSeq
    <2> QED
      BY <2>1, <2>3 DEF t
  <1> QED
    BY <1>1, <1>4, <1>5

\* A notification turns into an event of its interface, spelled as the
\* configuration manager does, and a removal into a disconnection.
LEMMA EventsOfNotes ==
  ASSUME TypeOK, NEW d \in Devs, NEW note \in {"arrival", "removal"}, NEW e \in EventOf(d, note)
  PROVE  /\ e \in Event /\ e[2] = <<d, "cm">>
         /\ note = "removal" => e[1] = "disconnected"
         /\ note = "removal" =>
              e[3] = IF devices[<<d, "lower">>] = Absent THEN PathOnly ELSE devices[<<d, "lower">>]
         /\ note = "arrival" => e[1] = "connected" /\ e[3] \in Loads(d)
  <1>1. \A i \in Loads(d) : i \in Infos
    <2>1. gen[d] \in Infos
      BY Numbers DEF TypeOK
    <2> QED
      BY <2>1, Numbers DEF Loads
  <1>2. devices[<<d, "lower">>] \in MaybeInfos
    BY PathKeys DEF TypeOK
  <1>3. cmDevicePathKey(<<d, "cm">>) = <<d, "lower">> /\ <<d, "cm">> \in Paths
    BY PathKeys
  <1>4. CASE note = "removal"
    <2> DEFINE i == IF devices[<<d, "lower">>] = Absent THEN PathOnly ELSE devices[<<d, "lower">>]
    <2>1. i \in Infos
      BY <1>2, Numbers
    <2>2. e = <<"disconnected", <<d, "cm">>, i>>
      BY <1>3, <1>4 DEF EventOf
    <2> QED
      BY <1>3, <1>4, <2>1, <2>2 DEF Event
  <1>5. CASE note = "arrival"
    <2>1. PICK i \in Loads(d) : e = <<"connected", <<d, "cm">>, i>>
      BY <1>5 DEF EventOf
    <2> QED
      BY <1>1, <1>3, <1>5, <2>1 DEF Event
  <1> QED
    BY <1>4, <1>5

\* The staged changes of an interface are those that name it.
LEMMA StagedByName ==
  ASSUME NEW s \in Seq(Event), NEW d \in Devs
  PROVE  {k \in DOMAIN s : cmDevicePathKey(s[k][2]) = cmDevicePathKey(<<d, "setup">>)}
           = {k \in 1..Len(s) : s[k][2][1] = d}
  <1>1. \A k \in DOMAIN s : s[k] \in Event
    BY ElementOfSeq, LenProperties
  <1>2. \A k \in DOMAIN s :
          cmDevicePathKey(s[k][2]) = cmDevicePathKey(<<d, "setup">>) <=> s[k][2][1] = d
    BY <1>1 DEF cmDevicePathKey, Event, Paths
  <1>3. DOMAIN s = 1..Len(s)
    BY LenProperties
  <1> QED
    BY <1>2, <1>3

\* The greatest of some numbers up to n and n + 1 is n + 1.
LEMMA LastIsNewest ==
  ASSUME NEW n \in Nat, NEW S \in SUBSET (1..n)
  PROVE  (CHOOSE k \in S \union {n + 1} : \A j \in S \union {n + 1} : j <= k) = n + 1
  <1> DEFINE T == S \union {n + 1}
             m == CHOOSE k \in T : \A j \in T : j <= k
  <1>1. n + 1 \in T /\ \A j \in T : j \in Nat /\ j <= n + 1
    OBVIOUS
  <1> HIDE DEF T
  <1>2. m \in T /\ \A j \in T : j <= m
    BY <1>1
  <1>3. m = n + 1
    BY <1>1, <1>2
  <1> QED
    BY <1>3 DEF T

(***************************************************************************)
(* A change staged for an interface decides what is published of it, and   *)
(* nothing of the others (onPathAction, reconcileCMStartupEvents).         *)
(***************************************************************************)
LEMMA StageOne ==
  ASSUME TypeOK, StagedInv, UNCHANGED found,
         NEW d \in Devs, NEW e \in Event, e[2] = <<d, "cm">>,
         startupEvents' = Append(startupEvents, e)
  PROVE  /\ Staged(d)' # {}
         /\ Reconcile(d)' = IF e[1] = "connected" THEN e[3] ELSE Absent
         /\ \A q \in Devs \ {d} : Staged(q)' = Staged(q) /\ Reconcile(q)' = Reconcile(q)
         /\ StagedInv'
  <1> DEFINE n == Len(startupEvents)
  <1>1. n \in Nat /\ Len(startupEvents') = n + 1 /\ startupEvents' \in Seq(Event)
    BY AppendProperties, LenProperties DEF TypeOK
  <1>2. \A k \in 1..n : startupEvents'[k] = startupEvents[k]
    BY AppendProperties DEF TypeOK
  <1>3. startupEvents'[n + 1] = e
    BY AppendProperties DEF TypeOK
  <1>4. \A q \in Devs : Staged(q) = {k \in 1..n : startupEvents[k][2][1] = q}
    BY StagedByName DEF TypeOK, Staged
  <1>5. \A q \in Devs : Staged(q)' = {k \in 1..(n + 1) : startupEvents'[k][2][1] = q}
    BY <1>1, StagedByName DEF Staged
  <1> HIDE DEF n
  <1>6. e[2][1] = d
    BY PathKeys
  <1>7. ASSUME NEW q \in Devs \ {d} PROVE Staged(q)' = Staged(q)
    <2>1. \A k \in 1..(n + 1) : k \in 1..n \/ k = n + 1
      BY <1>1
    <2>2. \A k \in 1..n : k \in 1..(n + 1)
      BY <1>1
    <2>3. \A k \in 1..(n + 1) : startupEvents'[k][2][1] = q <=> k \in Staged(q)
      BY <1>1, <1>2, <1>3, <1>4, <1>6, <2>1
    <2> QED
      BY <1>4, <1>5, <2>2, <2>3
  <1>8. Staged(d)' = Staged(d) \union {n + 1} /\ Staged(d) \in SUBSET (1..n)
    BY <1>1, <1>2, <1>3, <1>4, <1>5, <1>6
  <1>9. ASSUME NEW q \in Devs \ {d} PROVE Reconcile(q)' = Reconcile(q)
    <2>1. CASE Staged(q) = {}
      BY <1>7, <2>1 DEF Reconcile
    <2>2. CASE Staged(q) # {}
      <3> DEFINE m == CHOOSE k \in Staged(q) : \A j \in Staged(q) : j <= k
      <3>1. m \in Staged(q)
        BY <2>2 DEF StagedInv
      <3>2. startupEvents'[m] = startupEvents[m]
        BY <1>2, <1>4, <3>1
      <3>3. NewestStaged(q) = startupEvents[m] /\ NewestStaged(q)' = startupEvents'[m]
        BY <1>7 DEF NewestStaged
      <3> QED
        BY <1>7, <2>2, <3>2, <3>3 DEF Reconcile
    <2> QED
      BY <2>1, <2>2
  <1>10. NewestStaged(d)' = e
    <2>1. (CHOOSE k \in Staged(d)' : \A j \in Staged(d)' : j <= k) = n + 1
      BY <1>1, <1>8, LastIsNewest
    <2> QED
      BY <1>3, <2>1 DEF NewestStaged
  <1>11. StagedInv'
    <2>1. \A q \in Devs \ {d} : Staged(q)' # {} =>
            \E k \in Staged(q)' : \A j \in Staged(q)' : j <= k
      BY <1>7 DEF StagedInv
    <2>2. n + 1 \in Staged(d)' /\ \A j \in Staged(d)' : j <= n + 1
      BY <1>1, <1>8
    <2> QED
      BY <2>1, <2>2 DEF StagedInv
  <1>12. Staged(d)' # {}
    BY <1>8
  <1> QED
    BY <1>7, <1>9, <1>10, <1>11, <1>12 DEF Reconcile

\* A callback does nothing when the receiver is gone or closed, otherwise it
\* stages or publishes its event.
LEMMA CallbackCases ==
  ASSUME NEW d \in Devs, Callback(d)
  PROVE  /\ UNCHANGED <<closed, initializing>>
         /\ \/ (~known \/ closed) /\ UNCHANGED <<startupEvents, devices, view, last>>
            \/ /\ known /\ ~closed
               /\ \E e \in EventOf(d, Head(notes[d])) :
                    \/ /\ initializing /\ startupEvents' = Append(startupEvents, e)
                       /\ UNCHANGED <<devices, view, last>>
                    \/ /\ ~initializing /\ UNCHANGED startupEvents
                       /\ devices' = Apply(devices, <<d, "lower">>, e)
                       /\ view' = Apply(view, d, e) /\ last' = e
  BY DEF Callback, guarded, cmDevicePathKey

\* What is staged and found decides what would be published.
LEMMA NothingStaged ==
  ASSUME UNCHANGED startupEvents
  PROVE  \A d \in Devs : /\ Staged(d)' = Staged(d)
                         /\ found'[d] = found[d] => Reconcile(d)' = Reconcile(d)
  <1>1. \A d \in Devs : Staged(d)' = Staged(d)
    BY DEF Staged
  <1>2. \A d \in Devs : NewestStaged(d)' = NewestStaged(d)
    BY <1>1 DEF NewestStaged
  <1> QED
    BY <1>1, <1>2 DEF Reconcile

\* What the last notification of an interface makes known of it fits.
LEMMA CalledBack ==
  ASSUME TypeOK, NotesInv, NEW d \in Devs, notes[d] # <<>>, Tail(notes[d]) = <<>>,
         NEW e \in EventOf(d, Head(notes[d]))
  PROVE  Fits(d, IF e[1] = "connected" THEN e[3] ELSE Absent)
  <1>1. Head(notes[d]) \in {"arrival", "removal"} /\ Head(notes[d]) = notes[d][Len(notes[d])]
    BY LastOfTail DEF TypeOK
  <1>2. Head(notes[d]) = "arrival" <=> istate[d] \in {"on", "vanishing"}
    BY <1>1 DEF NotesInv
  <1>3. Head(notes[d]) = "removal" => e[1] = "disconnected"
    BY <1>1, EventsOfNotes
  <1>4. Head(notes[d]) = "arrival" => e[1] = "connected" /\ e[3] \in Loads(d)
    BY <1>1, EventsOfNotes
  <1>5. \A i \in Loads(d) : i = PathOnly \/ (i = gen[d] /\ istate[d] \in {"appearing", "on"})
    BY DEF Loads, Attached
  <1> QED
    BY <1>1, <1>2, <1>3, <1>4, <1>5 DEF Fits, TypeOK

-----------------------------------------------------------------------------

\* Every step of Windows, the callbacks, Watch and Close keeps the types.
LEMMA TypeStep == IInv /\ [Next]_vars => TypeOK'
  <1> SUFFICES ASSUME TypeOK, StagedInv, [Next]_vars PROVE TypeOK'
    BY DEF IInv
  <1>1. ASSUME NEW d \in Devs, Appear(d) PROVE TypeOK'
    <2>1. gen' \in [Devs -> 0..MaxGen]
      BY <1>1, WindowsAssumption DEF Appear, TypeOK
    <2>2. istate' \in [Devs -> {"off", "appearing", "on", "vanishing"}]
      BY <1>1 DEF Appear, TypeOK
    <2> QED
      BY <1>1, <2>1, <2>2 DEF TypeOK, Appear, guarded, receiver, watchVars, closeVars, history
  <1>2. ASSUME NEW d \in Devs, Vanish(d) PROVE TypeOK'
    BY <1>2 DEF TypeOK, Vanish, windows, guarded, receiver, watchVars, closeVars, history, vars
  <1>3. ASSUME NEW d \in Devs, Notify(d) PROVE TypeOK'
    <2>1. \A x \in {"arrival", "removal"} : Append(notes[d], x) \in Seq({"arrival", "removal"})
      BY AppendProperties DEF TypeOK
    <2>2. notes' \in [Devs -> Seq({"arrival", "removal"})]
      BY <1>3, <2>1 DEF Notify, TypeOK
    <2>3. istate' \in [Devs -> {"off", "appearing", "on", "vanishing"}]
      BY <1>3 DEF Notify, TypeOK
    <2> QED
      BY <1>3, <2>2, <2>3 DEF TypeOK, Notify, guarded, receiver, watchVars, closeVars, history
  <1>4. ASSUME NEW d \in Devs, Callback(d) PROVE TypeOK'
    <2>1. /\ notes' \in [Devs -> Seq({"arrival", "removal"})]
          /\ Head(notes[d]) \in {"arrival", "removal"}
      <3>1. Tail(notes[d]) \in Seq({"arrival", "removal"})
        BY <1>4, LastOfTail DEF Callback, TypeOK
      <3> QED
        BY <1>4, <3>1, LastOfTail DEF Callback, TypeOK
    <2>2. \A e \in EventOf(d, Head(notes[d])) :
            e \in Event /\ e[3] \in MaybeInfos
      <3>1. \A e \in EventOf(d, Head(notes[d])) : e \in Event
        BY <2>1, EventsOfNotes
      <3>2. \A e \in Event : e[3] \in MaybeInfos
        BY Numbers DEF Event
      <3> QED
        BY <3>1, <3>2
    <2>a. \A e \in Event : Append(startupEvents, e) \in Seq(Event)
      BY AppendProperties DEF TypeOK
    <2>3. startupEvents' \in Seq(Event)
      BY <1>4, <2>2, <2>a, CallbackCases DEF TypeOK
    <2>b. \A e \in EventOf(d, Head(notes[d])) :
            /\ Apply(devices, <<d, "lower">>, e) \in [Keys -> MaybeInfos]
            /\ Apply(view, d, e) \in [Devs -> MaybeInfos]
      BY <2>2, Numbers, PathKeys DEF TypeOK, Apply
    <2>4. devices' \in [Keys -> MaybeInfos]
      BY <1>4, <2>b, CallbackCases DEF TypeOK
    <2>5. view' \in [Devs -> MaybeInfos]
      BY <1>4, <2>b, CallbackCases DEF TypeOK
    <2>6. last' \in Event \union {<<>>}
      BY <1>4, <2>2, CallbackCases DEF TypeOK
    <2> QED
      BY <1>4, <2>1, <2>3, <2>4, <2>5, <2>6 DEF TypeOK, Callback, guarded, watchVars, closeVars
  <1>5. ASSUME WatchRegister PROVE TypeOK'
    <2>1. steady' \in SUBSET Devs
      BY <1>5 DEF WatchRegister, TypeOK
    <2>2. registered' \in BOOLEAN
      BY <1>5 DEF WatchRegister, TypeOK
    <2> QED
      BY <1>5, <2>1, <2>2 DEF TypeOK, WatchRegister, guarded, receiver, closeVars
  <1>6. ASSUME WatchList PROVE TypeOK'
    <2>1. todo' \in SUBSET Devs
      BY <1>6 DEF WatchList, TypeOK
    <2> QED
      BY <1>6, <2>1 DEF TypeOK, WatchList, windows, guarded, receiver, closeVars, history
  <1>7. ASSUME NEW d \in Devs, WatchEnumerate(d) PROVE TypeOK'
    <2>1. found' \in [Devs -> MaybeInfos]
      BY <1>7, Numbers DEF WatchEnumerate, TypeOK
    <2>2. todo' \in SUBSET Devs
      BY <1>7 DEF WatchEnumerate, TypeOK
    <2> QED
      BY <1>7, <2>1, <2>2 DEF TypeOK, WatchEnumerate, windows, guarded, receiver, closeVars,
         history
  <1>8. ASSUME WatchEnumerated PROVE TypeOK'
    BY <1>8 DEF TypeOK, WatchEnumerated, windows, guarded, receiver, watchVars, closeVars,
       history, vars
  <1>9. ASSUME WatchPublishStartup PROVE TypeOK'
    <2>1. \A d \in Devs : Reconcile(d) \in MaybeInfos
      <3> TAKE d \in Devs
      <3> DEFINE m == CHOOSE k \in Staged(d) : \A j \in Staged(d) : j <= k
      <3>1. Staged(d) # {} => m \in Staged(d)
        BY DEF StagedInv
      <3>2. Staged(d) # {} => m \in 1..Len(startupEvents)
        BY <3>1, LenProperties DEF Staged, TypeOK
      <3>3. Staged(d) # {} => NewestStaged(d) \in Event
        BY <3>2, ElementOfSeq DEF NewestStaged, TypeOK
      <3>4. Staged(d) # {} => NewestStaged(d)[3] \in MaybeInfos
        BY <3>3, Numbers DEF Event
      <3> QED
        BY <3>4, Numbers DEF Reconcile, TypeOK
    <2>2. view' \in [Devs -> MaybeInfos]
      BY <1>9, <2>1 DEF WatchPublishStartup, TypeOK
    <2>3. devices' \in [Keys -> MaybeInfos]
      <3>1. \A k \in Keys : (\E d \in Devs : k = cmDevicePathKey(<<d, "setup">>))
                             => Reconcile(k[1]) \in MaybeInfos
        BY <2>1, PathKeys
      <3>2. [k \in Keys |-> IF \E d \in Devs : k = cmDevicePathKey(<<d, "setup">>)
                           THEN Reconcile(k[1]) ELSE Absent] \in [Keys -> MaybeInfos]
        BY <3>1, Numbers
      <3> QED
        BY <1>9, <3>2 DEF WatchPublishStartup, TypeOK
    <2>4. startupEvents' \in Seq(Event)
      BY <1>9, EmptySeq DEF WatchPublishStartup, TypeOK
    <2>5. found' \in [Devs -> MaybeInfos] /\ initializing' \in BOOLEAN
      BY <1>9, Numbers DEF WatchPublishStartup, TypeOK
    <2> QED
      BY <1>9, <2>2, <2>3, <2>4, <2>5 DEF TypeOK, WatchPublishStartup, windows, closeVars
  <1>10. ASSUME WatchFailed PROVE TypeOK'
    BY <1>10 DEF TypeOK, WatchFailed, windows, guarded, receiver, watchVars, closeVars, history,
       vars
  <1>11. ASSUME NEW c \in Callers, CloseCall(c) PROVE TypeOK'
    BY <1>11 DEF TypeOK, CloseCall, windows, guarded, receiver, watchVars, closeVars, history,
       vars
  <1>12. ASSUME NEW c \in Callers, CloseEnter(c) PROVE TypeOK'
    BY <1>12 DEF TypeOK, CloseEnter, windows, guarded, receiver, watchVars, closeVars, history,
       vars
  <1>13. ASSUME NEW c \in Callers, CloseLock(c) PROVE TypeOK'
    BY <1>13 DEF TypeOK, CloseLock, windows, guarded, receiver, watchVars, closeVars, history,
       vars
  <1>14. ASSUME NEW c \in Callers, CloseUnregister(c) PROVE TypeOK'
    <2>1. notes' \in [Devs -> Seq({"arrival", "removal"})]
      BY <1>14, EmptySeq DEF CloseUnregister, TypeOK
    <2>2. registered' \in BOOLEAN /\ closeErr' \in BOOLEAN
      BY <1>14 DEF CloseUnregister, TypeOK
    <2>3. closePc' \in [Callers -> {"idle", "called", "lock", "unregister", "closeQueue", "delete",
                                    "returned"}]
      BY <1>14 DEF CloseUnregister, TypeOK
    <2> QED
      BY <1>14, <2>1, <2>2, <2>3 DEF TypeOK, CloseUnregister, guarded, watchVars, history
  <1>15. ASSUME NEW c \in Callers, CloseQueue(c) PROVE TypeOK'
    BY <1>15 DEF TypeOK, CloseQueue, windows, guarded, receiver, watchVars, closeVars, history,
       vars
  <1>16. ASSUME NEW c \in Callers, CloseDelete(c) PROVE TypeOK'
    BY <1>16 DEF TypeOK, CloseDelete, windows, guarded, receiver, watchVars, closeVars, history,
       vars
  <1>17. ASSUME UNCHANGED vars PROVE TypeOK'
    BY <1>17 DEF TypeOK, windows, guarded, receiver, watchVars, closeVars, history, vars
  <1> QED
    BY <1>1, <1>2, <1>3, <1>4, <1>5, <1>6, <1>7, <1>8, <1>9, <1>10, <1>11, <1>12, <1>13, <1>14,
       <1>15, <1>16, <1>17 DEF Next, Windows, Watch, CloseBody

\* Watch goes on only while nobody closes, and leaves what is in force behind it.
LEMMA PhaseStep == IInv /\ [Next]_vars => PhaseInv'
  <1> SUFFICES ASSUME TypeOK, PhaseInv, CloseInv, NotesInv, [Next]_vars PROVE PhaseInv'
    BY DEF IInv
  <1>1. ASSUME NEW d \in Devs, Appear(d) \/ Vanish(d) \/ Notify(d) PROVE PhaseInv'
    BY <1>1, WindowsAssumption DEF TypeOK, PhaseInv, CloseInv, InBody, Starting, Callers,
       Appear, Vanish, Notify, windows, guarded, receiver, watchVars, closeVars, history, vars
  <1>2. ASSUME NEW d \in Devs, Callback(d) PROVE PhaseInv'
    <2>1. /\ UNCHANGED <<watchPc, registered, todo, closed, initializing, closePc>>
          /\ notes[d] # <<>>
      BY <1>2, CallbackCases DEF Callback, watchVars, closeVars
    <2>2. watchPc # "register"
      BY <2>1 DEF NotesInv, PhaseInv
    <2> QED
      BY <2>1, <2>2 DEF PhaseInv
  <1>3. ASSUME WatchRegister PROVE PhaseInv'
    BY <1>3, WindowsAssumption DEF TypeOK, PhaseInv, CloseInv, InBody, Starting, Callers,
       WatchRegister, windows, guarded, receiver, watchVars, closeVars, history, vars
  <1>4. ASSUME WatchList PROVE PhaseInv'
    BY <1>4, WindowsAssumption DEF TypeOK, PhaseInv, CloseInv, InBody, Starting, Callers,
       WatchList, windows, guarded, receiver, watchVars, closeVars, history, vars
  <1>5. ASSUME NEW d \in Devs, WatchEnumerate(d) PROVE PhaseInv'
    BY <1>5, WindowsAssumption DEF TypeOK, PhaseInv, CloseInv, InBody, Starting, Callers,
       WatchEnumerate, windows, guarded, receiver, watchVars, closeVars, history, vars
  <1>6. ASSUME WatchEnumerated PROVE PhaseInv'
    BY <1>6, WindowsAssumption DEF TypeOK, PhaseInv, CloseInv, InBody, Starting, Callers,
       WatchEnumerated, windows, guarded, receiver, watchVars, closeVars, history, vars
  <1>7. ASSUME WatchPublishStartup PROVE PhaseInv'
    BY <1>7, WindowsAssumption DEF TypeOK, PhaseInv, CloseInv, InBody, Starting, Callers,
       WatchPublishStartup, windows, guarded, receiver, watchVars, closeVars, history, vars
  <1>8. ASSUME WatchFailed PROVE PhaseInv'
    BY <1>8, WindowsAssumption DEF TypeOK, PhaseInv, CloseInv, InBody, Starting, Callers,
       WatchFailed, windows, guarded, receiver, watchVars, closeVars, history, vars
  <1>9. ASSUME NEW c \in Callers, CloseCall(c) PROVE PhaseInv'
    BY <1>9, WindowsAssumption DEF TypeOK, PhaseInv, CloseInv, InBody, Starting, Callers,
       CloseCall, windows, guarded, receiver, watchVars, closeVars, history, vars
  <1>10. ASSUME NEW c \in Callers, CloseEnter(c) PROVE PhaseInv'
    BY <1>10, WindowsAssumption DEF TypeOK, PhaseInv, CloseInv, InBody, Starting, Callers,
       CloseEnter, windows, guarded, receiver, watchVars, closeVars, history, vars
  <1>11. ASSUME NEW c \in Callers, CloseLock(c) PROVE PhaseInv'
    BY <1>11, WindowsAssumption DEF TypeOK, PhaseInv, CloseInv, InBody, Starting, Callers,
       CloseLock, windows, guarded, receiver, watchVars, closeVars, history, vars
  <1>12. ASSUME NEW c \in Callers, CloseUnregister(c) PROVE PhaseInv'
    BY <1>12, WindowsAssumption DEF TypeOK, PhaseInv, CloseInv, InBody, Starting, Callers,
       CloseUnregister, windows, guarded, receiver, watchVars, closeVars, history, vars
  <1>13. ASSUME NEW c \in Callers, CloseQueue(c) PROVE PhaseInv'
    BY <1>13, WindowsAssumption DEF TypeOK, PhaseInv, CloseInv, InBody, Starting, Callers,
       CloseQueue, windows, guarded, receiver, watchVars, closeVars, history, vars
  <1>14. ASSUME NEW c \in Callers, CloseDelete(c) PROVE PhaseInv'
    BY <1>14, WindowsAssumption DEF TypeOK, PhaseInv, CloseInv, InBody, Starting, Callers,
       CloseDelete, windows, guarded, receiver, watchVars, closeVars, history, vars
  <1>15. ASSUME UNCHANGED vars PROVE PhaseInv'
    BY <1>15, WindowsAssumption DEF TypeOK, PhaseInv, CloseInv, InBody, Starting, Callers,
       windows, guarded, receiver, watchVars, closeVars, history, vars
  <1> QED
    BY <1>1, <1>2, <1>3, <1>4, <1>5, <1>6, <1>7, <1>8, <1>9, <1>10, <1>11, <1>12, <1>13, <1>14,
       <1>15 DEF Next, Windows, Watch, CloseBody

\* The body of Close is run once, in its order.
LEMMA CloseStep == IInv /\ [Next]_vars => CloseInv'
  <1> SUFFICES ASSUME TypeOK, PhaseInv, CloseInv, [Next]_vars PROVE CloseInv'
    BY DEF IInv
  <1>1. ASSUME NEW d \in Devs, Appear(d) \/ Vanish(d) \/ Notify(d) PROVE CloseInv'
    BY <1>1, WindowsAssumption DEF TypeOK, PhaseInv, CloseInv, InBody, Starting, Callers,
       Appear, Vanish, Notify, windows, guarded, receiver, watchVars, closeVars, history, vars
  <1>2. ASSUME NEW d \in Devs, Callback(d) PROVE CloseInv'
    BY <1>2, WindowsAssumption DEF TypeOK, PhaseInv, CloseInv, InBody, Starting, Callers,
       Callback, windows, guarded, receiver, watchVars, closeVars, history, vars
  <1>3. ASSUME WatchRegister PROVE CloseInv'
    BY <1>3, WindowsAssumption DEF TypeOK, PhaseInv, CloseInv, InBody, Starting, Callers,
       WatchRegister, windows, guarded, receiver, watchVars, closeVars, history, vars
  <1>4. ASSUME WatchList PROVE CloseInv'
    BY <1>4, WindowsAssumption DEF TypeOK, PhaseInv, CloseInv, InBody, Starting, Callers,
       WatchList, windows, guarded, receiver, watchVars, closeVars, history, vars
  <1>5. ASSUME NEW d \in Devs, WatchEnumerate(d) PROVE CloseInv'
    BY <1>5, WindowsAssumption DEF TypeOK, PhaseInv, CloseInv, InBody, Starting, Callers,
       WatchEnumerate, windows, guarded, receiver, watchVars, closeVars, history, vars
  <1>6. ASSUME WatchEnumerated PROVE CloseInv'
    BY <1>6, WindowsAssumption DEF TypeOK, PhaseInv, CloseInv, InBody, Starting, Callers,
       WatchEnumerated, windows, guarded, receiver, watchVars, closeVars, history, vars
  <1>7. ASSUME WatchPublishStartup PROVE CloseInv'
    BY <1>7, WindowsAssumption DEF TypeOK, PhaseInv, CloseInv, InBody, Starting, Callers,
       WatchPublishStartup, windows, guarded, receiver, watchVars, closeVars, history, vars
  <1>8. ASSUME WatchFailed PROVE CloseInv'
    BY <1>8, WindowsAssumption DEF TypeOK, PhaseInv, CloseInv, InBody, Starting, Callers,
       WatchFailed, windows, guarded, receiver, watchVars, closeVars, history, vars
  <1>9. ASSUME NEW c \in Callers, CloseCall(c) PROVE CloseInv'
    BY <1>9, WindowsAssumption DEF TypeOK, PhaseInv, CloseInv, InBody, Starting, Callers,
       CloseCall, windows, guarded, receiver, watchVars, closeVars, history, vars
  <1>10. ASSUME NEW c \in Callers, CloseEnter(c) PROVE CloseInv'
    BY <1>10, WindowsAssumption DEF TypeOK, PhaseInv, CloseInv, InBody, Starting, Callers,
       CloseEnter, windows, guarded, receiver, watchVars, closeVars, history, vars
  <1>11. ASSUME NEW c \in Callers, CloseLock(c) PROVE CloseInv'
    BY <1>11, WindowsAssumption DEF TypeOK, PhaseInv, CloseInv, InBody, Starting, Callers,
       CloseLock, windows, guarded, receiver, watchVars, closeVars, history, vars
  <1>12. ASSUME NEW c \in Callers, CloseUnregister(c) PROVE CloseInv'
    BY <1>12, WindowsAssumption DEF TypeOK, PhaseInv, CloseInv, InBody, Starting, Callers,
       CloseUnregister, windows, guarded, receiver, watchVars, closeVars, history, vars
  <1>13. ASSUME NEW c \in Callers, CloseQueue(c) PROVE CloseInv'
    BY <1>13, WindowsAssumption DEF TypeOK, PhaseInv, CloseInv, InBody, Starting, Callers,
       CloseQueue, windows, guarded, receiver, watchVars, closeVars, history, vars
  <1>14. ASSUME NEW c \in Callers, CloseDelete(c) PROVE CloseInv'
    BY <1>14, WindowsAssumption DEF TypeOK, PhaseInv, CloseInv, InBody, Starting, Callers,
       CloseDelete, windows, guarded, receiver, watchVars, closeVars, history, vars
  <1>15. ASSUME UNCHANGED vars PROVE CloseInv'
    BY <1>15, WindowsAssumption DEF TypeOK, PhaseInv, CloseInv, InBody, Starting, Callers,
       windows, guarded, receiver, watchVars, closeVars, history, vars
  <1> QED
    BY <1>1, <1>2, <1>3, <1>4, <1>5, <1>6, <1>7, <1>8, <1>9, <1>10, <1>11, <1>12, <1>13, <1>14,
       <1>15 DEF Next, Windows, Watch, CloseBody

\* The last notification that waits tells where the interface is going.
LEMMA NotesStep == IInv /\ [Next]_vars => NotesInv'
  <1> SUFFICES ASSUME TypeOK, PhaseInv, NotesInv, [Next]_vars PROVE NotesInv'
    BY DEF IInv
  <1>1. ASSUME NEW d \in Devs, Appear(d) PROVE NotesInv'
    BY <1>1 DEF TypeOK, PhaseInv, NotesInv, Appear, windows, guarded, receiver, watchVars,
       closeVars, history, vars
  <1>2. ASSUME NEW d \in Devs, Vanish(d) PROVE NotesInv'
    BY <1>2 DEF TypeOK, PhaseInv, NotesInv, Vanish, windows, guarded, receiver, watchVars,
       closeVars, history, vars
  <1>3. ASSUME NEW d \in Devs, Notify(d) PROVE NotesInv'
    <2> DEFINE x == IF istate[d] = "appearing" THEN "arrival" ELSE "removal"
    <2>1. /\ Append(notes[d], x) # <<>>
          /\ Append(notes[d], x)[Len(Append(notes[d], x))] = x
      <3>1. notes[d] \in Seq({"arrival", "removal"}) /\ x \in {"arrival", "removal"}
        BY DEF TypeOK
      <3> HIDE DEF x
      <3>2. Append(notes[d], x) # <<>>
        BY <3>1, AppendProperties
      <3>3. Len(Append(notes[d], x)) = Len(notes[d]) + 1
        BY <3>1, AppendProperties
      <3>4. Append(notes[d], x)[Len(notes[d]) + 1] = x
        BY <3>1, AppendProperties
      <3> QED
        BY <3>2, <3>3, <3>4
    <2>2. registered => /\ notes'[d] = Append(notes[d], x)
                        /\ \A q \in Devs \ {d} : notes'[q] = notes[q]
      BY <1>3 DEF Notify, TypeOK
    <2>3. /\ istate'[d] = IF istate[d] = "appearing" THEN "on" ELSE "off"
          /\ \A q \in Devs \ {d} : istate'[q] = istate[q]
          /\ UNCHANGED registered
      BY <1>3 DEF Notify, TypeOK
    <2>4. CASE registered
      BY <2>1, <2>2, <2>3, <2>4 DEF NotesInv
    <2>5. CASE ~registered
      BY <1>3, <2>3, <2>5 DEF NotesInv, Notify
    <2> QED
      BY <2>4, <2>5
  <1>4. ASSUME NEW d \in Devs, Callback(d) PROVE NotesInv'
    <2>1. /\ notes[d] # <<>> /\ UNCHANGED <<istate, registered>>
          /\ notes'[d] = Tail(notes[d]) /\ \A q \in Devs \ {d} : notes'[q] = notes[q]
      BY <1>4 DEF Callback, TypeOK
    <2>2. registered
      BY <2>1 DEF NotesInv
    <2>3. Tail(notes[d]) # <<>> => Tail(notes[d])[Len(Tail(notes[d]))] = notes[d][Len(notes[d])]
      BY <2>1, LastOfTail DEF TypeOK
    <2> DEFINE Tells(s, x) == s[Len(s)] = "arrival" <=> x \in {"on", "vanishing"}
    <2>4. \A q \in Devs : notes[q] # <<>> => Tells(notes[q], istate[q])
      BY DEF NotesInv
    <2>5. Tail(notes[d]) # <<>> => Tells(Tail(notes[d]), istate[d])
      BY <2>1, <2>3, <2>4
    <2> HIDE DEF Tells
    <2>6. \A q \in Devs : notes'[q] # <<>> => Tells(notes'[q], istate'[q])
      BY <2>1, <2>4, <2>5
    <2> QED
      BY <2>1, <2>2, <2>6 DEF NotesInv, Tells
  <1>5. ASSUME WatchRegister PROVE NotesInv'
    BY <1>5 DEF TypeOK, PhaseInv, NotesInv, WatchRegister, windows, guarded, receiver,
       watchVars, closeVars, history, vars
  <1>6. ASSUME WatchList \/ WatchEnumerated \/ WatchPublishStartup \/ WatchFailed
         PROVE  NotesInv'
    BY <1>6 DEF TypeOK, PhaseInv, NotesInv, WatchList, WatchEnumerated, WatchPublishStartup,
       WatchFailed, windows, guarded, receiver, watchVars, closeVars, history, vars
  <1>7. ASSUME NEW d \in Devs, WatchEnumerate(d) PROVE NotesInv'
    BY <1>7 DEF TypeOK, PhaseInv, NotesInv, WatchEnumerate, windows, guarded, receiver,
       watchVars, closeVars, history, vars
  <1>8. ASSUME NEW c \in Callers, CloseUnregister(c) PROVE NotesInv'
    BY <1>8 DEF TypeOK, PhaseInv, NotesInv, CloseUnregister, windows, guarded, receiver,
       watchVars, closeVars, history, vars
  <1>9. ASSUME NEW c \in Callers, CloseCall(c) \/ CloseEnter(c) \/ CloseLock(c) \/
                CloseQueue(c) \/ CloseDelete(c)
         PROVE  NotesInv'
    BY <1>9 DEF TypeOK, PhaseInv, NotesInv, CloseCall, CloseEnter, CloseLock, CloseQueue,
       CloseDelete, windows, guarded, receiver, watchVars, closeVars, history, vars
  <1>10. ASSUME UNCHANGED vars PROVE NotesInv'
    BY <1>10 DEF TypeOK, PhaseInv, NotesInv, windows, guarded, receiver, watchVars, closeVars,
       history, vars
  <1> QED
    BY <1>1, <1>2, <1>3, <1>4, <1>5, <1>6, <1>7, <1>8, <1>9, <1>10
       DEF Next, Windows, Watch, CloseBody

\* A staged change is the newest of its interface when it is staged.
LEMMA StagedStep == IInv /\ [Next]_vars => StagedInv'
  <1> SUFFICES ASSUME TypeOK, StagedInv, [Next]_vars PROVE StagedInv'
    BY DEF IInv
  <1>1. ASSUME NEW d \in Devs, Appear(d) \/ Vanish(d) \/ Notify(d) PROVE StagedInv'
    BY <1>1, NothingStaged DEF StagedInv, Appear, Vanish, Notify, windows, guarded, receiver,
       watchVars, closeVars, history, vars
  <1>2. ASSUME NEW d \in Devs, Callback(d) PROVE StagedInv'
    <2>1. Head(notes[d]) \in {"arrival", "removal"} /\ UNCHANGED found
      BY <1>2, LastOfTail DEF Callback, TypeOK, watchVars
    <2>2. CASE UNCHANGED startupEvents
      BY <2>2, NothingStaged DEF StagedInv
    <2>3. ASSUME NEW e \in EventOf(d, Head(notes[d])), startupEvents' = Append(startupEvents, e)
          PROVE  StagedInv'
      <3>1. e \in Event /\ e[2] = <<d, "cm">>
        BY <2>1, EventsOfNotes
      <3> QED
        BY <2>1, <2>3, <3>1, StageOne
    <2> QED
      BY <1>2, <2>2, <2>3, CallbackCases
  <1>3. ASSUME WatchRegister \/ WatchList \/ WatchEnumerated \/ WatchFailed PROVE StagedInv'
    BY <1>3, NothingStaged DEF StagedInv, WatchRegister, WatchList, WatchEnumerated,
       WatchFailed, windows, guarded, receiver, watchVars, closeVars, history, vars
  <1>4. ASSUME NEW d \in Devs, WatchEnumerate(d) PROVE StagedInv'
    BY <1>4, NothingStaged DEF StagedInv, WatchEnumerate, windows, guarded, receiver, watchVars,
       closeVars, history, vars
  <1>5. ASSUME WatchPublishStartup PROVE StagedInv'
    <2>1. CASE UNCHANGED startupEvents
      BY <2>1, NothingStaged DEF StagedInv
    <2>2. CASE startupEvents' = <<>>
      BY <2>2 DEF StagedInv, Staged
    <2> QED
      BY <1>5, <2>1, <2>2 DEF WatchPublishStartup
  <1>6. ASSUME NEW c \in Callers, CloseCall(c) \/ CloseEnter(c) \/ CloseLock(c) \/
                CloseUnregister(c) \/ CloseQueue(c) \/ CloseDelete(c)
         PROVE  StagedInv'
    BY <1>6, NothingStaged DEF StagedInv, CloseCall, CloseEnter, CloseLock, CloseUnregister,
       CloseQueue, CloseDelete, windows, guarded, receiver, watchVars, closeVars, history, vars
  <1>7. ASSUME UNCHANGED vars PROVE StagedInv'
    BY <1>7, NothingStaged DEF StagedInv, windows, guarded, receiver, watchVars, closeVars,
       history, vars
  <1> QED
    BY <1>1, <1>2, <1>3, <1>4, <1>5, <1>6, <1>7 DEF Next, Windows, Watch, CloseBody

\* Neither Watch nor what happens meanwhile loses track of an interface.
LEMMA StartStep == IInv /\ [Next]_vars => StartInv'
  <1> SUFFICES ASSUME TypeOK, PhaseInv, CloseInv, NotesInv, StagedInv, StartInv,
                      [Next]_vars
               PROVE  StartInv'
    BY DEF IInv
  <1>1. ASSUME NEW d \in Devs, Appear(d) PROVE StartInv'
    BY <1>1, NothingStaged DEF TypeOK, PhaseInv, StartInv, Fits, Ahead, Starting, Appear,
       windows, guarded, receiver, watchVars, closeVars, history, vars
  <1>2. ASSUME NEW d \in Devs, Vanish(d) PROVE StartInv'
    BY <1>2, NothingStaged DEF TypeOK, PhaseInv, StartInv, Fits, Ahead, Starting, Vanish,
       windows, guarded, receiver, watchVars, closeVars, history, vars
  <1>3. ASSUME NEW d \in Devs, Notify(d) PROVE StartInv'
    <2>1. watchPc \in Starting => notes'[d] # <<>> /\ \A q \in Devs \ {d} : notes'[q] = notes[q]
      <3>1. \A x \in {"arrival", "removal"} : Append(notes[d], x) # <<>>
        BY AppendProperties DEF TypeOK
      <3> QED
        BY <1>3, <3>1 DEF Notify, TypeOK, PhaseInv
    <2>2. \A q \in Devs : Staged(q)' = Staged(q) /\ Reconcile(q)' = Reconcile(q)
      BY <1>3, NothingStaged DEF Notify, receiver, guarded, watchVars
    <2>3. /\ UNCHANGED <<watchPc, todo, found, gen>>
          /\ \A q \in Devs \ {d} : istate'[q] = istate[q]
      BY <1>3 DEF Notify, watchVars, TypeOK
    <2> QED
      BY <2>1, <2>2, <2>3 DEF StartInv, Fits, Ahead
  <1>4. ASSUME NEW d \in Devs, Callback(d) PROVE StartInv'
    <2> SUFFICES ASSUME watchPc' \in Starting
                 PROVE  \A q \in Devs :
                          /\ Ahead(q)' => found'[q] = Absent
                          /\ notes'[q] = <<>> /\ ~(Ahead(q)' /\ Staged(q)' = {}) =>
                               Fits(q, Reconcile(q))'
      BY DEF StartInv
    <2>1. /\ notes[d] # <<>> /\ UNCHANGED <<istate, gen, watchPc, todo, found, known>>
          /\ notes'[d] = Tail(notes[d]) /\ \A q \in Devs \ {d} : notes'[q] = notes[q]
      BY <1>4 DEF Callback, TypeOK, watchVars
    <2>2. initializing /\ known /\ ~closed
      BY <2>1 DEF PhaseInv, CloseInv
    <2>3. PICK e \in EventOf(d, Head(notes[d])) : startupEvents' = Append(startupEvents, e)
      BY <1>4, <2>2, CallbackCases
    <2>4. Head(notes[d]) \in {"arrival", "removal"}
      BY <2>1, LastOfTail DEF TypeOK
    <2>5. e \in Event /\ e[2] = <<d, "cm">>
      BY <2>4, EventsOfNotes
    <2>6. /\ Staged(d)' # {}
          /\ Reconcile(d)' = IF e[1] = "connected" THEN e[3] ELSE Absent
          /\ \A q \in Devs \ {d} : Staged(q)' = Staged(q) /\ Reconcile(q)' = Reconcile(q)
      BY <2>1, <2>3, <2>5, StageOne
    <2>7. notes'[d] = <<>> => Fits(d, Reconcile(d)')
      BY <2>1, <2>4, <2>6, CalledBack
    <2>8. Fits(d, Reconcile(d)') => Fits(d, Reconcile(d))'
      BY <2>1 DEF Fits
    <2>9. ASSUME NEW q \in Devs \ {d}
          PROVE  /\ Ahead(q)' => found'[q] = Absent
                 /\ notes'[q] = <<>> /\ ~(Ahead(q)' /\ Staged(q)' = {}) => Fits(q, Reconcile(q))'
      BY <2>1, <2>6 DEF StartInv, Fits, Ahead
    <2>10. Ahead(d)' => found'[d] = Absent
      BY <2>1 DEF StartInv, Ahead
    <2> QED
      BY <2>7, <2>8, <2>9, <2>10
  <1>5. ASSUME WatchRegister PROVE StartInv'
    <2>1. /\ UNCHANGED <<todo, found, startupEvents>> /\ watchPc = "register"
          /\ watchPc' \in {"list", "close"}
      BY <1>5 DEF WatchRegister, receiver, guarded
    <2>2. startupEvents = <<>> /\ \A d \in Devs : found[d] = Absent
      BY <2>1 DEF PhaseInv
    <2>3. \A d \in Devs : Staged(d)' = {}
      BY <2>1, <2>2 DEF Staged
    <2> QED
      BY <2>1, <2>2, <2>3 DEF StartInv, Ahead, Starting
  <1>6. ASSUME WatchList PROVE StartInv'
    <2> SUFFICES ASSUME watchPc' \in Starting, NEW d \in Devs
                 PROVE  /\ Ahead(d)' => found'[d] = Absent
                        /\ notes'[d] = <<>> /\ ~(Ahead(d)' /\ Staged(d)' = {}) =>
                             Fits(d, Reconcile(d))'
      BY DEF StartInv
    <2>1. /\ UNCHANGED <<found, startupEvents, istate, gen, notes>>
          /\ watchPc = "list" /\ watchPc' = "enumerate" /\ todo' = {q \in Devs : Attached(q)}
      BY <1>6 DEF WatchList, receiver, guarded, windows, Starting
    <2>2. Staged(d)' = Staged(d) /\ Reconcile(d)' = Reconcile(d)
      BY <2>1, NothingStaged
    <2>3. found[d] = Absent
      BY <2>1 DEF StartInv, Starting, Ahead
    <2>4. CASE Staged(d) = {}
      <3>1. Reconcile(d) = Absent
        BY <2>3, <2>4 DEF Reconcile
      <3>2. ~Ahead(d)' => istate[d] \notin {"appearing", "on"}
        BY <2>1 DEF Ahead, Attached
      <3> QED
        BY <2>1, <2>2, <2>3, <2>4, <3>1, <3>2 DEF Fits
    <2>5. CASE Staged(d) # {}
      BY <2>1, <2>2, <2>3, <2>5 DEF StartInv, Fits, Ahead, Starting
    <2> QED
      BY <2>4, <2>5
  <1>7. ASSUME NEW d \in Devs, WatchEnumerate(d) PROVE StartInv'
    <2> SUFFICES ASSUME watchPc' \in Starting, NEW q \in Devs
                 PROVE  /\ Ahead(q)' => found'[q] = Absent
                        /\ notes'[q] = <<>> /\ ~(Ahead(q)' /\ Staged(q)' = {}) =>
                             Fits(q, Reconcile(q))'
      BY DEF StartInv
    <2>1. /\ watchPc = "enumerate" /\ watchPc' = "enumerate" /\ d \in todo /\ todo' = todo \ {d}
          /\ UNCHANGED <<istate, gen, notes, startupEvents>>
      BY <1>7 DEF WatchEnumerate, windows, receiver, guarded, Starting
    <2>2. /\ \A r \in Devs \ {d} : found'[r] = found[r]
          /\ \/ istate[d] # "on" /\ found'[d] = found[d]
             \/ istate[d] \in {"appearing", "on"} /\ found'[d] = gen[d]
      BY <1>7 DEF WatchEnumerate, TypeOK, Attached, Starting
    <2>3. Staged(q)' = Staged(q) /\ (found'[q] = found[q] => Reconcile(q)' = Reconcile(q))
      BY <2>1, NothingStaged
    <2>4. CASE q # d
      BY <2>1, <2>2, <2>3, <2>4 DEF StartInv, Fits, Ahead, Starting
    <2>5. CASE q = d
      <3>1. ~Ahead(d)' /\ found[d] = Absent
        BY <2>1 DEF Ahead, StartInv, Starting
      <3>2. Staged(d) = {} => Reconcile(d)' = found'[d]
        BY <2>3, <2>5 DEF Reconcile
      <3>a. Staged(d)' = Staged(d)
        BY <2>1, NothingStaged
      <3>b. NewestStaged(d)' = NewestStaged(d)
        BY <2>1, <3>a DEF NewestStaged
      <3>3. Staged(d) # {} => Reconcile(d)' = Reconcile(d)
        BY <3>a, <3>b DEF Reconcile
      <3>4. CASE Staged(d) = {}
        BY <2>1, <2>2, <2>5, <3>1, <3>2, <3>4 DEF Fits
      <3>5. CASE Staged(d) # {}
        BY <2>1, <2>5, <3>1, <3>3, <3>5 DEF StartInv, Fits, Starting
      <3> QED
        BY <3>4, <3>5
    <2> QED
      BY <2>4, <2>5
  <1>8. ASSUME WatchEnumerated PROVE StartInv'
    BY <1>8, NothingStaged DEF TypeOK, PhaseInv, StartInv, Fits, Ahead, Starting,
       WatchEnumerated, windows, guarded, receiver, watchVars, closeVars, history, vars
  <1>9. ASSUME WatchPublishStartup PROVE StartInv'
    BY <1>9, NothingStaged DEF TypeOK, PhaseInv, StartInv, Fits, Ahead, Starting,
       WatchPublishStartup, windows, guarded, receiver, watchVars, closeVars, history, vars
  <1>10. ASSUME WatchFailed PROVE StartInv'
    BY <1>10, NothingStaged DEF TypeOK, PhaseInv, StartInv, Fits, Ahead, Starting, WatchFailed,
       windows, guarded, receiver, watchVars, closeVars, history, vars
  <1>11. ASSUME NEW c \in Callers, CloseCall(c) \/ CloseEnter(c) \/ CloseLock(c) \/
                CloseQueue(c) \/ CloseDelete(c)
         PROVE  StartInv'
    BY <1>11, NothingStaged DEF TypeOK, PhaseInv, StartInv, Fits, Ahead, Starting, CloseCall,
       CloseEnter, CloseLock, CloseQueue, CloseDelete, windows, guarded, receiver, watchVars,
       closeVars, history, vars
  <1>12. ASSUME NEW c \in Callers, CloseUnregister(c) PROVE StartInv'
    BY <1>12, NothingStaged DEF TypeOK, PhaseInv, StartInv, Fits, Ahead, Starting,
       CloseUnregister, windows, guarded, receiver, watchVars, closeVars, history, vars
  <1>13. ASSUME UNCHANGED vars PROVE StartInv'
    BY <1>13, NothingStaged DEF TypeOK, PhaseInv, StartInv, Fits, Ahead, Starting, windows,
       guarded, receiver, watchVars, closeVars, history, vars
  <1> QED
    BY <1>1, <1>2, <1>3, <1>4, <1>5, <1>6, <1>7, <1>8, <1>9, <1>10, <1>11, <1>12, <1>13
       DEF Next, Windows, Watch, CloseBody

\* Every published event keeps cache and view in line with the interface.
LEMMA LiveStep == IInv /\ [Next]_vars => LiveInv'
  <1> SUFFICES ASSUME TypeOK, PhaseInv, CloseInv, NotesInv, StartInv, LiveInv,
                      [Next]_vars
               PROVE  LiveInv'
    BY DEF IInv
  <1>1. ASSUME NEW d \in Devs, Appear(d) PROVE LiveInv'
    BY <1>1 DEF TypeOK, PhaseInv, CloseInv, LiveInv, Fits, Appear, windows, guarded, receiver,
       watchVars, closeVars, history, vars
  <1>2. ASSUME NEW d \in Devs, Vanish(d) PROVE LiveInv'
    BY <1>2 DEF TypeOK, PhaseInv, CloseInv, LiveInv, Fits, Vanish, windows, guarded, receiver,
       watchVars, closeVars, history, vars
  <1>3. ASSUME NEW d \in Devs, Notify(d) PROVE LiveInv'
    <2>1. ~initializing /\ ~closed =>
            notes'[d] # <<>> /\ \A q \in Devs \ {d} : notes'[q] = notes[q]
      <3>1. \A x \in {"arrival", "removal"} : Append(notes[d], x) # <<>>
        BY AppendProperties DEF TypeOK
      <3> QED
        BY <1>3, <3>1 DEF Notify, TypeOK, PhaseInv
    <2>2. /\ UNCHANGED <<initializing, closed, devices, view, gen>>
          /\ \A q \in Devs \ {d} : istate'[q] = istate[q]
      BY <1>3 DEF Notify, receiver, guarded, history, TypeOK
    <2> QED
      BY <2>1, <2>2 DEF LiveInv, Fits
  <1>4. ASSUME NEW d \in Devs, Callback(d) PROVE LiveInv'
    <2>1. /\ notes[d] # <<>> /\ UNCHANGED <<istate, gen>>
          /\ notes'[d] = Tail(notes[d]) /\ \A q \in Devs \ {d} : notes'[q] = notes[q]
          /\ UNCHANGED <<closed, initializing>>
      BY <1>4, CallbackCases DEF Callback, TypeOK
    <2>2. CASE (~known \/ closed) /\ UNCHANGED <<startupEvents, devices, view, last>>
      BY <2>1, <2>2 DEF LiveInv, Fits, CloseInv
    <2>3. CASE initializing
      BY <2>1, <2>3 DEF LiveInv
    <2>4. ASSUME NEW e \in EventOf(d, Head(notes[d])), ~initializing,
                 devices' = Apply(devices, <<d, "lower">>, e), view' = Apply(view, d, e)
          PROVE  LiveInv'
      <3>1. Head(notes[d]) \in {"arrival", "removal"}
        BY <2>1, LastOfTail DEF TypeOK
      <3>2. /\ view'[d] = IF e[1] = "connected" THEN e[3] ELSE Absent
            /\ devices'[<<d, "lower">>] = view'[d]
        BY <2>4, PathKeys DEF Apply, TypeOK
      <3>3. \A q \in Devs \ {d} : /\ view'[q] = view[q]
                                  /\ devices'[<<q, "lower">>] = devices[<<q, "lower">>]
        BY <2>4, PathKeys DEF Apply, TypeOK
      <3>4. notes'[d] = <<>> => Fits(d, view'[d])
        BY <2>1, <3>1, <3>2, CalledBack
      <3>5. Fits(d, view'[d]) => Fits(d, view[d])'
        BY <2>1 DEF Fits
      <3>6. \A q \in Devs \ {d} : Fits(q, view[q]) => Fits(q, view[q])'
        BY <2>1, <3>3 DEF Fits
      <3>7. \A q \in Devs : cmDevicePathKey(<<q, "cm">>) = <<q, "lower">>
        BY PathKeys
      <3>8. \A q \in Devs \ {d} : /\ devices[<<q, "lower">>] = view[q]
                                  /\ ~closed /\ notes[q] = <<>> => Fits(q, view[q])
        BY <2>4, <3>7 DEF LiveInv
      <3>9. \A q \in Devs : /\ devices'[<<q, "lower">>] = view'[q]
                            /\ ~closed /\ notes'[q] = <<>> => Fits(q, view[q])'
        BY <2>1, <3>2, <3>3, <3>4, <3>5, <3>6, <3>8
      <3> QED
        BY <2>1, <3>7, <3>9 DEF LiveInv
    <2> QED
      BY <1>4, <2>2, <2>3, <2>4, CallbackCases
  <1>5. ASSUME WatchRegister PROVE LiveInv'
    BY <1>5 DEF TypeOK, PhaseInv, CloseInv, LiveInv, Fits, WatchRegister, windows, guarded,
       receiver, watchVars, closeVars, history, vars
  <1>6. ASSUME WatchList PROVE LiveInv'
    BY <1>6 DEF TypeOK, PhaseInv, CloseInv, LiveInv, Fits, WatchList, windows, guarded,
       receiver, watchVars, closeVars, history, vars
  <1>7. ASSUME NEW d \in Devs, WatchEnumerate(d) PROVE LiveInv'
    BY <1>7 DEF TypeOK, PhaseInv, CloseInv, LiveInv, Fits, WatchEnumerate, windows, guarded,
       receiver, watchVars, closeVars, history, vars
  <1>8. ASSUME WatchEnumerated PROVE LiveInv'
    BY <1>8 DEF TypeOK, PhaseInv, CloseInv, LiveInv, Fits, WatchEnumerated, windows, guarded,
       receiver, watchVars, closeVars, history, vars
  <1>9. ASSUME WatchPublishStartup PROVE LiveInv'
    <2>1. ~closed /\ todo = {} /\ watchPc = "publish"
      BY <1>9 DEF WatchPublishStartup, PhaseInv, Starting
    <2>2. /\ \A d \in Devs : view'[d] = Reconcile(d)
          /\ UNCHANGED <<istate, gen, notes>>
      BY <1>9, <2>1 DEF WatchPublishStartup, windows
    <2>3. \A d \in Devs : devices'[<<d, "lower">>] = Reconcile(d)
      <3>1. \A d \in Devs : /\ <<d, "lower">> = cmDevicePathKey(<<d, "setup">>)
                            /\ <<d, "lower">> \in Keys /\ <<d, "lower">>[1] = d
        BY PathKeys
      <3>2. devices' = [k \in Keys |-> IF \E d \in Devs : k = cmDevicePathKey(<<d, "setup">>)
                                      THEN Reconcile(k[1]) ELSE Absent]
        BY <1>9, <2>1 DEF WatchPublishStartup
      <3> QED
        BY <3>1, <3>2
    <2>4. \A d \in Devs : notes[d] = <<>> => Fits(d, Reconcile(d))
      BY <2>1 DEF StartInv, Ahead, Starting
    <2>5. \A d \in Devs : Fits(d, Reconcile(d)) => Fits(d, view[d])'
      BY <2>2 DEF Fits
    <2> QED
      BY <2>2, <2>3, <2>4, <2>5, PathKeys DEF LiveInv
  <1>10. ASSUME WatchFailed PROVE LiveInv'
    BY <1>10 DEF TypeOK, PhaseInv, CloseInv, LiveInv, Fits, WatchFailed, windows, guarded,
       receiver, watchVars, closeVars, history, vars
  <1>11. ASSUME NEW c \in Callers, CloseCall(c) \/ CloseEnter(c) \/ CloseLock(c) \/
                CloseQueue(c) \/ CloseDelete(c)
         PROVE  LiveInv'
    BY <1>11 DEF TypeOK, PhaseInv, CloseInv, LiveInv, Fits, CloseCall, CloseEnter, CloseLock,
       CloseQueue, CloseDelete, windows, guarded, receiver, watchVars, closeVars, history, vars
  <1>12. ASSUME NEW c \in Callers, CloseUnregister(c) PROVE LiveInv'
    BY <1>12 DEF TypeOK, PhaseInv, CloseInv, LiveInv, Fits, CloseUnregister, windows, guarded,
       receiver, watchVars, closeVars, history, vars
  <1>13. ASSUME UNCHANGED vars PROVE LiveInv'
    BY <1>13 DEF TypeOK, PhaseInv, CloseInv, LiveInv, Fits, windows, guarded, receiver,
       watchVars, closeVars, history, vars
  <1> QED
    BY <1>1, <1>2, <1>3, <1>4, <1>5, <1>6, <1>7, <1>8, <1>9, <1>10, <1>11, <1>12, <1>13
       DEF Next, Windows, Watch, CloseBody

-----------------------------------------------------------------------------
\* The invariant is inductive.
LEMMA InvStep == IInv /\ [Next]_vars => IInv'
  BY TypeStep, PhaseStep, CloseStep, NotesStep, StagedStep, StartStep, LiveStep DEF IInv

\* It holds in every state of the receiver.
LEMMA Inductive == Spec => []IInv
  BY InitInv, InvStep, PTL DEF Spec

(***************************************************************************)
(* The cache holds what the client was told, under one key for both        *)
(* spellings of a path, and when no notification waits that is what is     *)
(* there (onPathAction, publishStartup, reconcileCMStartupEvents).         *)
(***************************************************************************)
THEOREM KnownCorrect == Spec => []KnownIsToldIsThere
  <1>1. IInv => KnownIsToldIsThere
    <2> SUFFICES ASSUME IInv PROVE KnownIsToldIsThere
      OBVIOUS
    <2>1. TypeOK /\ CacheIsWhatWasTold
      BY DEF IInv, LiveInv, CacheIsWhatWasTold
    <2>2. ASSUME ~initializing, ~closed, NEW d \in Devs, notes[d] = <<>>,
                 istate[d] \in {"on", "off"}
          PROVE  ViewIsRight(d)
      <3>1. Fits(d, view[d]) /\ gen[d] \in Infos
        BY <2>2, Numbers DEF IInv, LiveInv, TypeOK
      <3>2. PathOnly # Absent /\ gen[d] # Absent
        BY <3>1, Numbers
      <3> QED
        BY <2>2, <3>1, <3>2 DEF Fits, ViewIsRight, Attached, PathOnly
    <2> QED
      BY <2>1, <2>2 DEF KnownIsToldIsThere, ViewAccurateWhenQuiet
  <1> QED
    BY <1>1, Inductive, PTL

(***************************************************************************)
(* A Close that returned, and so a Watch that failed, has run the body to  *)
(* its end: the queue is closed, the receiver forgotten, and a             *)
(* registration that is still in force is reported (Close).                *)
(***************************************************************************)
THEOREM ReleaseCorrect == Spec => []CloseReleases
  <1>1. IInv => CloseReleases
    BY DEF IInv, CloseInv, CloseReleases, Callers
  <1> QED
    BY <1>1, Inductive, PTL

(***************************************************************************)
(* The receiver implements Watcher: publishStartup captures the snapshot,  *)
(* every callback after it sends a change to the client's view, a removal  *)
(* with what the client was told, and closing the queue is the end.        *)
(***************************************************************************)
THEOREM WatcherCorrect == Spec => ImplementsWatcher
  <1> DEFINE lastChange == IF last = <<>> THEN <<>> ELSE <<last[1], last[2][1], last[3]>>
  <1> USE DEF Client!vars
  <1>1. Init => Client!Init
    BY DEF Init, Client!Init, phase
  <1>2. IInv /\ [Next]_vars => [Client!Next]_(Client!vars)
    <2> SUFFICES ASSUME IInv, [Next]_vars PROVE [Client!Next]_(Client!vars)
      OBVIOUS
    <2>1. CASE WatchPublishStartup
      <3>1. phase = "starting" /\ phase' = "live" /\ UNCHANGED last
        BY <2>1 DEF WatchPublishStartup, IInv, PhaseInv, CloseInv, Starting, phase
      <3>2. view' \in [Devs -> Infos \union {Absent}]
        BY <2>1, TypeStep, Numbers DEF IInv, TypeOK
      <3> QED
        BY <3>1, <3>2 DEF Client!Next, Client!CaptureSnapshot
    <2>2. ASSUME NEW d \in Devs, Callback(d) PROVE [Client!Next]_(Client!vars)
      <3>1. UNCHANGED <<initializing, queueClosed, closed>>
        BY <2>2, CallbackCases DEF Callback
      <3>2. CASE UNCHANGED <<view, last>>
        BY <3>1, <3>2 DEF phase
      <3>3. ASSUME NEW e \in EventOf(d, Head(notes[d])), ~initializing, ~closed,
                   devices' = Apply(devices, <<d, "lower">>, e), view' = Apply(view, d, e),
                   last' = e
            PROVE  Client!Next
        <4>1. phase = "live" /\ UNCHANGED phase
          BY <3>1, <3>3 DEF phase, IInv, CloseInv
        <4>2. Head(notes[d]) \in {"arrival", "removal"}
          BY <2>2, LastOfTail DEF Callback, IInv, TypeOK
        <4>3. e \in Event /\ e[2] = <<d, "cm">>
          BY <4>2, EventsOfNotes DEF IInv
        <4>4. lastChange' = <<e[1], d, e[3]>> /\ e[3] \in Infos
          BY <3>3, <4>3 DEF Event
        <4>5. CASE Head(notes[d]) = "arrival"
          <5>1. e[1] = "connected"
            BY <4>2, <4>5, EventsOfNotes DEF IInv
          <5>2. view' = [view EXCEPT ![d] = e[3]]
            BY <3>3, <5>1 DEF Apply
          <5>3. Client!Connected(d)
            BY <4>1, <4>4, <5>1, <5>2 DEF Client!Connected
          <5> QED
            BY <5>3 DEF Client!Next
        <4>6. CASE Head(notes[d]) = "removal"
          <5>1. e[1] = "disconnected" /\ e[3] = IF view[d] = Absent THEN PathOnly ELSE view[d]
            <6>1. devices[<<d, "lower">>] = view[d]
              BY <3>3, PathKeys DEF IInv, LiveInv
            <6> QED
              BY <4>2, <4>6, <6>1, EventsOfNotes DEF IInv
          <5>2. view' = [view EXCEPT ![d] = Absent]
            BY <3>3, <5>1 DEF Apply
          <5>3. Client!Disconnected(d)
            BY <4>1, <4>4, <5>1, <5>2 DEF Client!Disconnected
          <5> QED
            BY <5>3 DEF Client!Next
        <4> QED
          BY <4>2, <4>5, <4>6
      <3> QED
        BY <2>2, <3>2, <3>3, CallbackCases
    <2>3. ASSUME NEW c \in Callers, CloseQueue(c) PROVE [Client!Next]_(Client!vars)
      <3>1. CASE queueClosed
        BY <2>3, <3>1 DEF CloseQueue, guarded, history, phase
      <3>2. CASE ~queueClosed
        <4>1. phase # "ended" /\ phase' = "ended" /\ UNCHANGED <<view, last>>
          BY <2>3, <3>2 DEF CloseQueue, history, phase
        <4> QED
          BY <4>1 DEF Client!Next, Client!End
      <3> QED
        BY <3>1, <3>2
    <2>4. CASE UNCHANGED <<initializing, queueClosed, view, last>>
      BY <2>4 DEF phase
    <2>5. \/ WatchPublishStartup \/ (\E d \in Devs : Callback(d))
          \/ (\E c \in Callers : CloseQueue(c))
          \/ UNCHANGED <<initializing, queueClosed, view, last>>
      BY DEF Next, Windows, Watch, CloseBody, Appear, Vanish, Notify, WatchRegister, WatchList,
         WatchEnumerate, WatchEnumerated, WatchFailed, CloseCall, CloseEnter, CloseLock,
         CloseUnregister, CloseDelete, receiver, guarded, history, vars
    <2> QED
      BY <2>1, <2>2, <2>3, <2>4, <2>5
  <1> QED
    BY <1>1, <1>2, Inductive, PTL DEF Spec, ImplementsWatcher, Client!Spec
=============================================================================
