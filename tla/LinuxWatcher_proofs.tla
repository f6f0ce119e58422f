------------------------- MODULE LinuxWatcher_proofs -------------------------
(***************************************************************************)
(* Proofs about LinuxWatcher for any names, closers, generations and sizes *)
(* of the socket buffer: failures are reported, the view becomes accurate, *)
(* the snapshot holds what stayed, and the receiver implements Watcher.    *)
(***************************************************************************)
EXTENDS LinuxWatcher, SequenceTheorems, TLAPS

Alive   == {"check", "poll", "drain", "receive", "handle", "loadUsage", "loadIds", "publish"}
Ended   == {"closeQueue", "closeStopped", "halted"}
Scanning == {"list", "scan", "loadIds", "publish"}

(***************************************************************************)
(* Where run and Watch are says what is open and recorded.  Before Watch   *)
(* has ended nobody closes, so that a receiver that is closed has failed.  *)
(***************************************************************************)
PhaseInv ==
  /\ runPc = "none" <=> watchPc = "open" \/ (watchPc = "failed" /\ closePc[Watching] = "idle")
  /\ runPc = "none" => ~fdsOpen /\ ~closed /\ ~queueClosed /\ ~stopped /\ ~failed /\ ~runErr
  /\ fdsOpen <=> runPc \in Alive \union {"stop"}
  /\ ~fdsOpen => sock = <<>> /\ ~overrun /\ ~wakeUp
  /\ wakeUp => closed
  /\ runPc = "stop" /\ ~failed => closed
  /\ runPc \in Alive => ~failed
  /\ runPc \in Ended => closed /\ runErr = failed
  /\ runErr => runPc \in Ended
  /\ queueClosed <=> runPc \in {"closeStopped", "halted"}
  /\ stopped <=> runPc = "halted"
  /\ cur # <<>> <=> runPc \in {"handle", "loadUsage", "loadIds", "publish"}
  /\ cur # <<"noise">>
  /\ runPc \in {"loadUsage", "loadIds", "publish"} => cur[1] = "add"

WatchInv ==
  /\ watchPc = "open" => startupEvents = <<>> /\ steady = {}
  /\ watchPc \in {"open", "list"} => todo = {} /\ \A n \in Names : found[n] = Absent
  /\ watchPc \in {"open"} \union Scanning => initializing
  /\ watchPc = "publish" => todo = {}
  /\ watchPc = "checkErr" /\ initializing => runErr
  /\ watchPc = "returned" => ~initializing
  /\ ~initializing => devices = view

PastLock(c) == closePc[c] \in {"await", "result", "returned"}

CloseInv ==
  /\ \A c \in Closers : closePc[c] # "idle" => watchPc = "returned"
  /\ closePc[Watching] # "idle" => watchPc \in {"close", "failed"}
  /\ watchPc = "failed" => closePc[Watching] \in {"idle", "returned"}
  /\ closed => runErr \/ \E c \in Callers : PastLock(c)
  /\ \A c \in Callers : /\ closePc[c] \in {"result", "returned"} => stopped
                        /\ result[c] = "nil" => stopped /\ ~failed
  /\ once = "finished" => stopped

(***************************************************************************)
(* The socket gives run all the messages it will get.                      *)
(***************************************************************************)
Listening == fdsOpen /\ ~overrun /\ ~closed

Add(n)    == <<"add", n>>
Remove(n) == <<"remove", n>>
In(s, m)  == \E k \in 1..Len(s) : s[k] = m

\* The kernel has announced the device last, not its removal.
There(n) == kstate[n] \in {"on", "vanishing"}

\* An add no remove follows announces a device that is there, and conversely.
Tells(s, n, there) ==
  \A k \in 1..Len(s) :
    /\ s[k] = Add(n) /\ (\A j \in (k + 1)..Len(s) : s[j] # Remove(n)) => there
    /\ s[k] = Remove(n) /\ (\A j \in (k + 1)..Len(s) : s[j] # Add(n)) => ~there

MessagesInv ==
  Listening =>
    \A n \in Names : /\ Tells(sock, n, There(n))
                     /\ cur = Add(n) /\ ~In(sock, Remove(n)) => There(n)
                     /\ cur = Remove(n) /\ ~In(sock, Add(n)) => ~There(n)

RemovalComes(n) == cur = Remove(n) \/ In(sock, Remove(n))
Unheard(n)      == RemovalComes(n) \/ cur = Add(n) \/ In(sock, Add(n))

(***************************************************************************)
(* What is known of a device was read from the present one unless its      *)
(* removal is on the way, and whether it is there is known unless a        *)
(* message about it is.                                                    *)
(***************************************************************************)
Current(n, i) == i # Absent => i[1] \in {0, gen[n]} /\ i[2] \in {0, gen[n]}

Fits(n, i) ==
  /\ ~RemovalComes(n) => Current(n, i)
  /\ ~Unheard(n) => /\ kstate[n] = "off" => i = Absent
                    /\ kstate[n] = "on" => i # Absent

\* The metadata run is loading.
InfoInv ==
  Listening /\ runPc \in {"loadIds", "publish"} =>
    \A n \in Names : cur = Add(n) /\ ~In(sock, Remove(n)) => Current(n, info)

StagedInv ==
  \A n \in Names : Hits(startupEvents, n) # {} =>
    \E k \in Hits(startupEvents, n) : \A j \in Hits(startupEvents, n) : j <= k

(***************************************************************************)
(* While Watch scans, what would be published at once fits, unless the     *)
(* name is still to be read and no change of it is staged.                 *)
(***************************************************************************)
Ahead(n) == (watchPc = "list" \/ n \in todo) /\ Hits(startupEvents, n) = {}

\* What would be published of a device if the scan had ended.
Pending(n) == Reconcile(found, startupEvents)[n]

Starts(n) ==
  IF Ahead(n)
  THEN ~RemovalComes(n) => Current(n, found[n]) /\ (n \in todo => kstate[n] # "off")
  ELSE Fits(n, Pending(n))

StartInv == Listening /\ watchPc \in Scanning => \A n \in Names : Starts(n)

LiveInv == Listening /\ ~initializing => \A n \in Names : Fits(n, view[n])

\* Nothing says of a device that it has gone, and the scan has found it or will.
Stays(n) ==
  /\ Attached(n) /\ ~RemovalComes(n)
  /\ \A k \in Hits(startupEvents, n) : startupEvents[k][1] = "connected"
  /\ watchPc \in Scanning \ {"list"} => n \in todo \/ found[n] # Absent

SteadyInv == \A n \in steady : Stays(n)

IInv == /\ TypeOK /\ PhaseInv /\ WatchInv /\ CloseInv /\ MessagesInv /\ InfoInv /\ StagedInv
        /\ StartInv /\ LiveInv /\ SteadyInv

-----------------------------------------------------------------------------
(* Messages and sequences of them                                          *)

\* The messages about hidraw names are told apart.
LEMMA MessageForms ==
  /\ \A n \in Names : /\ Add(n) \in Message /\ Remove(n) \in Message
                      /\ Add(n)[1] = "add" /\ Remove(n)[1] = "remove"
                      /\ Add(n)[2] = n /\ Remove(n)[2] = n
                      /\ Add(n) # <<>> /\ Remove(n) # <<>>
                      /\ Add(n) # <<"noise">> /\ Remove(n) # <<"noise">>
  /\ \A n \in Names, q \in Names : /\ Add(n) # Remove(q)
                                   /\ Add(n) = Add(q) <=> n = q
                                   /\ Remove(n) = Remove(q) <=> n = q
  /\ <<"noise">> \in Message /\ <<"noise">> # <<>>
  /\ \A m \in Message : m = <<"noise">> \/ \E n \in Names : m = Add(n) \/ m = Remove(n)
  BY DEF Add, Remove, Message

\* What is in a sequence after something was appended.
LEMMA InAppend ==
  ASSUME NEW s \in Seq(Message), NEW m \in Message, NEW x
  PROVE  In(Append(s, m), x) <=> In(s, x) \/ x = m
  <1>1. Len(Append(s, m)) = Len(s) + 1 /\ Len(s) \in Nat
    BY AppendProperties, LenProperties
  <1>2. \A i \in 1..Len(s) : Append(s, m)[i] = s[i]
    BY AppendProperties
  <1>3. Append(s, m)[Len(s) + 1] = m
    BY AppendProperties
  <1> QED
    BY <1>1, <1>2, <1>3 DEF In

\* The first element, and the place of the others when it is taken.
LEMMA HeadAndTail ==
  ASSUME NEW s \in Seq(Message), s # <<>>
  PROVE  /\ Head(s) = s[1] /\ Head(s) \in Message /\ Tail(s) \in Seq(Message)
         /\ Len(s) \in Nat \ {0} /\ Len(Tail(s)) = Len(s) - 1
         /\ \A i \in 1..(Len(s) - 1) : Tail(s)[i] = s[i + 1]
  <1>1. /\ Head(s) \in Message /\ Tail(s) \in Seq(Message) /\ Len(Tail(s)) = Len(s) - 1
    BY HeadTailProperties
  <1>2. Len(s) \in Nat \ {0}
    BY EmptySeq
  <1>3. \A i \in 1..Len(Tail(s)) : Tail(s)[i] = s[i + 1]
    BY HeadTailProperties
  <1>4. SubSeq(s, 1, Len(s)) = s
    BY SubSeqFull
  <1>5. Head(s) = s[1]
    BY <1>2, <1>4, HeadTailOfSubSeq
  <1> QED
    BY <1>1, <1>2, <1>3, <1>5

\* What is in a sequence is its first element or in the rest.
LEMMA InTail ==
  ASSUME NEW s \in Seq(Message), s # <<>>, NEW x
  PROVE  In(s, x) <=> x = Head(s) \/ In(Tail(s), x)
  <1>1. In(s, x) => x = Head(s) \/ In(Tail(s), x)
    <2> SUFFICES ASSUME NEW k \in 1..Len(s), s[k] = x, k # 1
                 PROVE  \E i \in 1..Len(Tail(s)) : Tail(s)[i] = x
      BY HeadAndTail DEF In
    <2>1. k - 1 \in 1..Len(Tail(s)) /\ Tail(s)[k - 1] = s[k - 1 + 1]
      BY HeadAndTail
    <2> QED
      BY <2>1
  <1>2. x = Head(s) => In(s, x)
    BY HeadAndTail DEF In
  <1>3. In(Tail(s), x) => In(s, x)
    BY HeadAndTail DEF In
  <1> QED
    BY <1>1, <1>2, <1>3

\* A message of another name, or of none, tells nothing of this one.
LEMMA TellsOther ==
  ASSUME NEW s \in Seq(Message), NEW n \in Names, NEW there \in BOOLEAN, Tells(s, n, there),
         NEW m \in Message, m # Add(n), m # Remove(n)
  PROVE  Tells(Append(s, m), n, there)
  <1>1. Len(Append(s, m)) = Len(s) + 1 /\ Len(s) \in Nat
    BY AppendProperties, LenProperties
  <1>2. \A i \in 1..Len(s) : Append(s, m)[i] = s[i]
    BY AppendProperties
  <1>3. Append(s, m)[Len(s) + 1] = m
    BY AppendProperties
  <1> SUFFICES ASSUME NEW k \in 1..(Len(s) + 1)
               PROVE  /\ Append(s, m)[k] = Add(n) /\ (\A j \in (k + 1)..(Len(s) + 1) :
                                                        Append(s, m)[j] # Remove(n)) => there
                      /\ Append(s, m)[k] = Remove(n) /\ (\A j \in (k + 1)..(Len(s) + 1) :
                                                           Append(s, m)[j] # Add(n)) => ~there
    BY <1>1 DEF Tells
  <1>4. CASE k = Len(s) + 1
    BY <1>3, <1>4
  <1>5. CASE k \in 1..Len(s)
    <2>1. \A j \in (k + 1)..Len(s) : j \in (k + 1)..(Len(s) + 1) /\ Append(s, m)[j] = s[j]
      BY <1>1, <1>2
    <2>2. Append(s, m)[k] = s[k]
      BY <1>2, <1>5
    <2> QED
      BY <1>5, <2>1, <2>2 DEF Tells
  <1> QED
    BY <1>1, <1>4, <1>5

\* The message appended last tells what there is.
LEMMA TellsLast ==
  ASSUME NEW s \in Seq(Message), NEW n \in Names
  PROVE  Tells(Append(s, Add(n)), n, TRUE) /\ Tells(Append(s, Remove(n)), n, FALSE)
  <1>1. ASSUME NEW m \in Message
        PROVE  /\ Len(Append(s, m)) = Len(s) + 1 /\ Len(s) \in Nat
               /\ Append(s, m)[Len(s) + 1] = m
    <2>1. Len(Append(s, m)) = Len(s) + 1 /\ Len(s) \in Nat
      BY AppendProperties, LenProperties
    <2>2. Append(s, m)[Len(s) + 1] = m
      BY AppendProperties
    <2> QED
      BY <2>1, <2>2
  <1>2. Add(n) \in Message /\ Remove(n) \in Message /\ Add(n) # Remove(n)
    BY MessageForms
  <1>3. \A k \in 1..(Len(s) + 1) : k = Len(s) + 1 \/ Len(s) + 1 \in (k + 1)..(Len(s) + 1)
    BY <1>1, <1>2
  <1>4. Tells(Append(s, Add(n)), n, TRUE)
    BY <1>1, <1>2, <1>3 DEF Tells
  <1>5. Tells(Append(s, Remove(n)), n, FALSE)
    BY <1>1, <1>2, <1>3 DEF Tells
  <1> QED
    BY <1>4, <1>5

\* What a sequence tells is told by the rest of it, or else by its first element.
LEMMA TellsTail ==
  ASSUME NEW s \in Seq(Message), s # <<>>, NEW n \in Names, NEW there \in BOOLEAN,
         Tells(s, n, there)
  PROVE  /\ Tells(Tail(s), n, there)
         /\ Head(s) = Add(n) /\ ~In(Tail(s), Remove(n)) => there
         /\ Head(s) = Remove(n) /\ ~In(Tail(s), Add(n)) => ~there
  <1> DEFINE t == Tail(s)
  <1>1. /\ Head(s) = s[1] /\ Len(s) \in Nat \ {0} /\ Len(t) = Len(s) - 1
        /\ \A i \in 1..(Len(s) - 1) : t[i] = s[i + 1]
    BY HeadAndTail
  <1> HIDE DEF t
  <1>2. \A k \in 1..Len(t) : k + 1 \in 1..Len(s) /\ s[k + 1] = t[k]
    BY <1>1
  <1>3. \A k \in 1..Len(t) : \A j \in (k + 1 + 1)..Len(s) :
          j - 1 \in (k + 1)..Len(t) /\ s[j] = t[j - 1]
    BY <1>1
  <1>4. Tells(t, n, there)
    BY <1>2, <1>3 DEF Tells
  <1>5. 1 \in 1..Len(s) /\ \A j \in (1 + 1)..Len(s) : j - 1 \in 1..Len(t) /\ s[j] = t[j - 1]
    BY <1>1
  <1>6. s[1] = Add(n) /\ ~In(t, Remove(n)) => there
    BY <1>5 DEF Tells, In
  <1>7. s[1] = Remove(n) /\ ~In(t, Add(n)) => ~there
    BY <1>5 DEF Tells, In
  <1> QED
    BY <1>1, <1>4, <1>6, <1>7 DEF t

\* Messages of one kind only tell what that kind does.
LEMMA TellsAll ==
  ASSUME NEW s \in Seq(Message), NEW n \in Names, NEW there \in BOOLEAN, Tells(s, n, there)
  PROVE  /\ In(s, Add(n)) /\ ~In(s, Remove(n)) => there
         /\ In(s, Remove(n)) /\ ~In(s, Add(n)) => ~there
  <1>1. Len(s) \in Nat
    BY LenProperties
  <1>2. \A k \in 1..Len(s) : \A j \in (k + 1)..Len(s) : j \in 1..Len(s)
    BY <1>1
  <1> QED
    BY <1>1, <1>2 DEF Tells, In

-----------------------------------------------------------------------------
(* Staged changes and metadata                                             *)

\* Metadata is a pair, and no metadata is the empty tuple.
LEMMA Metadata ==
  /\ Absent \in MaybeInfos /\ Infos \subseteq MaybeInfos /\ Absent \notin Infos
  /\ PathOnly \in Infos /\ PathOnly[1] = 0 /\ PathOnly[2] = 0
  /\ \A u \in 0..MaxGen, i \in 0..MaxGen :
       <<u, i>> \in Infos /\ <<u, i>>[1] = u /\ <<u, i>>[2] = i
  /\ \A i \in Infos : i[1] \in 0..MaxGen /\ i[2] \in 0..MaxGen
  BY WatcherAssumption DEF Absent, MaybeInfos, Infos, PathOnly

\* What an event says.
LEMMA EventForms ==
  \A n \in Names, i \in Infos :
    /\ Connected(n, i) \in Event /\ Disconnected(n, i) \in Event
    /\ Connected(n, i)[1] = "connected" /\ Disconnected(n, i)[1] = "disconnected"
    /\ Connected(n, i)[2] = n /\ Disconnected(n, i)[2] = n
    /\ Connected(n, i)[3] = i /\ Disconnected(n, i)[3] = i
  BY DEF Connected, Disconnected, Event

\* A file that is read is the present device's, and of a device that is there.
LEMMA ReadsForm ==
  ASSUME TypeOK, NEW n \in Names, NEW u \in Reads(n)
  PROVE  u \in 0..MaxGen /\ u \in {0, gen[n]}
  BY WatcherAssumption DEF Reads, TypeOK

\* The greatest of some numbers up to n and n + 1 is n + 1.
LEMMA LastIsNewest ==
  ASSUME NEW n \in Nat, NEW S \in SUBSET (1..n)
  PROVE  (CHOOSE k \in S \union {n + 1} : \A j \in S \union {n + 1} : j <= k) = n + 1
  <1> DEFINE T == S \union {n + 1}
             m == CHOOSE k \in T : \A j \in T : j <= k
  <1>1. n + 1 \in T /\ \A j \in T : j \in Nat /\ j <= n + 1
    OBVIOUS
  <1> HIDE DEF T
  <1>2. m \in T /\ \A j \in T : j <= m
    BY <1>1
  <1>3. m = n + 1
    BY <1>1, <1>2
  <1> QED
    BY <1>3 DEF T

(***************************************************************************)
(* A change that is staged for a name is the newest of it, and nothing     *)
(* about the others (publishOrStageLocked, reconcileLinuxStartupEvents).   *)
(***************************************************************************)
LEMMA StageOne ==
  ASSUME TypeOK, StagedInv, NEW e \in Event, startupEvents' = Append(startupEvents, e)
  PROVE  /\ Hits(startupEvents', e[2]) = Hits(startupEvents, e[2]) \union {Len(startupEvents) + 1}
         /\ \A k \in Hits(startupEvents, e[2]) : startupEvents'[k] = startupEvents[k]
         /\ startupEvents'[Len(startupEvents) + 1] = e
         /\ Newest(startupEvents', e[2]) = e
         /\ \A q \in Names \ {e[2]} :
              /\ Hits(startupEvents', q) = Hits(startupEvents, q)
              /\ Hits(startupEvents, q) # {} =>
                   Newest(startupEvents', q) = Newest(startupEvents, q)
              /\ \A k \in Hits(startupEvents, q) : startupEvents'[k] = startupEvents[k]
         /\ StagedInv'
  <1> DEFINE n == Len(startupEvents)
             d == e[2]
  <1>1. n \in Nat /\ Len(startupEvents') = n + 1 /\ d \in Names
    BY AppendProperties, LenProperties DEF TypeOK, Event
  <1>2. DOMAIN startupEvents = 1..n /\ DOMAIN startupEvents' = 1..(n + 1)
    <2>1. startupEvents' \in Seq(Event)
      BY AppendProperties DEF TypeOK
    <2> QED
      BY <1>1, <2>1, LenProperties DEF TypeOK
  <1>3. \A k \in 1..n : startupEvents'[k] = startupEvents[k]
    BY AppendProperties DEF TypeOK
  <1>4. startupEvents'[n + 1] = e
    BY AppendProperties DEF TypeOK
  <1> HIDE DEF n
  <1>5. /\ \A k \in 1..(n + 1) : k \in 1..n \/ k = n + 1
        /\ \A k \in 1..n : k \in 1..(n + 1)
        /\ n + 1 \in 1..(n + 1)
    BY <1>1
  <1>6. Hits(startupEvents', d) = Hits(startupEvents, d) \union {n + 1}
    BY <1>2, <1>3, <1>4, <1>5 DEF Hits
  <1>7. ASSUME NEW q \in Names \ {d}
        PROVE  Hits(startupEvents', q) = Hits(startupEvents, q)
    BY <1>2, <1>3, <1>4, <1>5 DEF Hits
  <1>8. \A q \in Names : \A k \in Hits(startupEvents, q) :
          k \in 1..n /\ startupEvents'[k] = startupEvents[k]
    BY <1>2, <1>3 DEF Hits
  <1>9. Newest(startupEvents', d) = e
    <2>1. Hits(startupEvents, d) \in SUBSET (1..n)
      BY <1>2 DEF Hits
    <2>2. (CHOOSE k \in Hits(startupEvents', d) : \A j \in Hits(startupEvents', d) : j <= k)
             = n + 1
      BY <1>1, <1>6, <2>1, LastIsNewest
    <2> QED
      BY <1>4, <2>2 DEF Newest
  <1>10. ASSUME NEW q \in Names \ {d}, Hits(startupEvents, q) # {}
         PROVE  Newest(startupEvents', q) = Newest(startupEvents, q)
    <2> DEFINE m == CHOOSE k \in Hits(startupEvents, q) : \A j \in Hits(startupEvents, q) : j <= k
    <2>1. m \in Hits(startupEvents, q)
      BY <1>10 DEF StagedInv
    <2>2. startupEvents'[m] = startupEvents[m]
      BY <1>8, <2>1
    <2> QED
      BY <1>7, <2>2 DEF Newest
  <1>11. StagedInv'
    <2>1. \A q \in Names \ {d} : Hits(startupEvents', q) # {} =>
            \E k \in Hits(startupEvents', q) : \A j \in Hits(startupEvents', q) : j <= k
      BY <1>7 DEF StagedInv
    <2>2. n + 1 \in Hits(startupEvents', d) /\ \A j \in Hits(startupEvents', d) : j <= n + 1
      <3>1. \A j \in Hits(startupEvents, d) : j <= n + 1
        BY <1>1, <1>8
      <3> QED
        BY <1>1, <1>6, <3>1
    <2> QED
      BY <2>1, <2>2 DEF StagedInv
  <1> QED
    BY <1>1, <1>4, <1>6, <1>7, <1>8, <1>9, <1>10, <1>11 DEF n

\* What is applied of the staged changes is an event.
LEMMA NewestForm ==
  ASSUME TypeOK, StagedInv, NEW n \in Names, Hits(startupEvents, n) # {}
  PROVE  /\ Newest(startupEvents, n) \in Event
         /\ \E k \in Hits(startupEvents, n) : Newest(startupEvents, n) = startupEvents[k]
  <1> DEFINE m == CHOOSE k \in Hits(startupEvents, n) : \A j \in Hits(startupEvents, n) : j <= k
  <1>1. m \in Hits(startupEvents, n)
    BY DEF StagedInv
  <1>2. m \in 1..Len(startupEvents)
    BY <1>1, LenProperties DEF TypeOK, Hits
  <1>3. startupEvents[m] \in Event
    BY <1>2, ElementOfSeq DEF TypeOK
  <1> QED
    BY <1>1, <1>3 DEF Newest

-----------------------------------------------------------------------------
\* The initial states satisfy the invariant.
LEMMA InitInv == Init => IInv
  <1> SUFFICES ASSUME Init PROVE IInv
    OBVIOUS
  <1>1. gen \in [Names -> 0..MaxGen]
    BY WatcherAssumption DEF Init
  <1>a. <<>> \in Seq(Message) /\ <<>> \in Seq(Event) /\ Len(sock) = 0
    BY EmptySeq DEF Init
  <1>b. 0 \in 0..MaxNoise /\ 0 \in 0..BatchSize /\ 0 <= SockCap
    BY WatcherAssumption
  <1>c. /\ devices \in [Names -> MaybeInfos] /\ found \in [Names -> MaybeInfos]
        /\ view \in [Names -> MaybeInfos] /\ info \in Infos
    BY Metadata DEF Init
  <1>2. TypeOK
    BY <1>1, <1>a, <1>b, <1>c DEF Init, TypeOK
  <1>3. PhaseInv /\ WatchInv /\ CloseInv
    BY MessageForms DEF Init, PhaseInv, WatchInv, CloseInv, PastLock, Scanning, Callers,
       Alive, Ended
  <1>4. MessagesInv /\ InfoInv /\ StartInv /\ LiveInv /\ SteadyInv
    BY DEF Init, MessagesInv, InfoInv, StartInv, LiveInv, SteadyInv, Listening
  <1>5. StagedInv
    BY DEF Init, StagedInv, Hits
  <1> QED
    BY <1>2, <1>3, <1>4, <1>5 DEF IInv

\* The message in hand is about a hidraw name.
LEMMA InHand ==
  ASSUME TypeOK, PhaseInv, cur # <<>>
  PROVE  \E n \in Names : cur[2] = n /\ (cur = Add(n) \/ cur = Remove(n))
  <1>1. cur \in Message /\ cur # <<"noise">>
    BY DEF TypeOK, PhaseInv
  <1>2. PICK n \in Names : cur = Add(n) \/ cur = Remove(n)
    BY <1>1, MessageForms
  <1>3. Add(n)[2] = n /\ Remove(n)[2] = n
    BY MessageForms
  <1> QED
    BY <1>2, <1>3

\* The first critical section of onUevent, case by case.
LEMMA HandleCases ==
  ASSUME TypeOK, PhaseInv, NEW n \in Names, RunHandle(n)
  PROVE  \/ closed /\ cur' = <<>> /\ UNCHANGED <<devices, startupEvents, view, last>>
         \/ /\ ~closed /\ cur = Remove(n) /\ cur' = <<>>
            /\ PublishOrStage(Disconnected(n, IF devices[n] = Absent THEN PathOnly
                                              ELSE devices[n]))
         \/ /\ ~closed /\ cur = Add(n) /\ ~initializing /\ devices[n] # Absent /\ cur' = <<>>
            /\ UNCHANGED <<devices, startupEvents, view, last>>
         \/ /\ ~closed /\ cur = Add(n) /\ runPc' = "loadUsage"
            /\ UNCHANGED <<cur, devices, startupEvents, view, last>>
  <1>1. runPc = "handle" /\ cur[2] = n /\ cur # <<>>
    BY DEF RunHandle, PhaseInv
  <1>2. cur = Add(n) \/ cur = Remove(n)
    BY <1>1, InHand
  <1>3. cur[1] = "remove" <=> cur = Remove(n)
    BY <1>2, MessageForms
  <1>4. cur[1] = "add" <=> cur = Add(n)
    BY <1>2, MessageForms
  <1> QED
    BY <1>1, <1>3, <1>4 DEF RunHandle

\* The second critical section of onUevent, case by case.
LEMMA PublishCases ==
  ASSUME TypeOK, PhaseInv, RunPublish
  PROVE  \E n \in Names :
           /\ cur = Add(n) /\ cur' = <<>>
           /\ \/ /\ closed \/ (~initializing /\ devices[n] # Absent)
                 /\ UNCHANGED <<devices, startupEvents, view, last>>
              \/ /\ ~closed /\ (~initializing => devices[n] = Absent)
                 /\ PublishOrStage(Connected(n, info))
  <1>1. runPc = "publish" /\ cur # <<>> /\ cur[1] = "add"
    BY DEF RunPublish, PhaseInv
  <1>2. PICK n \in Names : cur[2] = n /\ cur = Add(n)
    BY <1>1, InHand, MessageForms
  <1> QED
    BY <1>2 DEF RunPublish

\* What publishing or staging does to the variables it may change.
LEMMA PublishOrStageCases ==
  ASSUME TypeOK, NEW e \in Event, PublishOrStage(e)
  PROVE  \/ /\ initializing /\ startupEvents' = Append(startupEvents, e)
            /\ UNCHANGED <<devices, view, last>>
         \/ /\ ~initializing /\ UNCHANGED startupEvents /\ last' = e
            /\ view' = Apply(view, e) /\ devices' = Apply(devices, e)
  BY DEF PublishOrStage

\* Publishing or staging an event keeps the types.
LEMMA PublishType ==
  ASSUME TypeOK, NEW e \in Event, PublishOrStage(e)
  PROVE  /\ startupEvents' \in Seq(Event) /\ last' \in Event \union {<<>>}
         /\ devices' \in [Names -> MaybeInfos] /\ view' \in [Names -> MaybeInfos]
  <1>1. e[2] \in Names /\ e[3] \in MaybeInfos
    BY Metadata DEF Event
  <1>2. Append(startupEvents, e) \in Seq(Event)
    BY AppendProperties DEF TypeOK
  <1>3. /\ Apply(devices, e) \in [Names -> MaybeInfos]
        /\ Apply(view, e) \in [Names -> MaybeInfos]
    BY <1>1, Metadata DEF Apply, TypeOK
  <1> QED
    BY <1>2, <1>3, PublishOrStageCases DEF TypeOK

\* Depositing a message keeps the type of the receive buffer.
LEMMA DepositType ==
  ASSUME TypeOK, NEW m \in Message, Deposit(m)
  PROVE  sock' \in Seq(Message) /\ Len(sock') <= SockCap /\ overrun' \in BOOLEAN
  <1>1. Append(sock, m) \in Seq(Message)
    BY AppendProperties DEF TypeOK
  <1>2. Len(Append(sock, m)) = Len(sock) + 1 /\ Len(sock) \in Nat
    BY AppendProperties, LenProperties DEF TypeOK
  <1>3. Len(sock) < SockCap => Len(Append(sock, m)) <= SockCap
    BY <1>2, WatcherAssumption
  <1> QED
    BY <1>1, <1>3 DEF Deposit, TypeOK

-----------------------------------------------------------------------------
(* Steps that touch messages                                               *)

\* Depositing a message adds it, unless nobody listens or the buffer is full.
LEMMA DepositCases ==
  ASSUME TypeOK, NEW m \in Message, Deposit(m)
  PROVE  /\ \A x : In(sock, x) => In(sock', x)
         /\ \A x : In(sock', x) => In(sock, x) \/ x = m
         /\ fdsOpen /\ ~overrun' => ~overrun /\ sock' = Append(sock, m)
  <1>1. sock' = sock \/ sock' = Append(sock, m)
    BY DEF Deposit
  <1>2. \A x : In(Append(sock, m), x) <=> In(sock, x) \/ x = m
    BY InAppend DEF TypeOK
  <1> QED
    BY <1>1, <1>2 DEF Deposit

\* The kernel announces an arrival or a removal.
LEMMA AnnounceCases ==
  ASSUME TypeOK, NEW n \in Names, Announce(n)
  PROVE  /\ \A q \in Names \ {n} : kstate'[q] = kstate[q]
         /\ \/ kstate[n] = "appearing" /\ kstate'[n] = "on" /\ Deposit(Add(n))
            \/ kstate[n] = "vanishing" /\ kstate'[n] = "off" /\ Deposit(Remove(n))
  BY DEF Announce, TypeOK, Add, Remove

\* A receive fails, finds nothing, drops a message or takes it in hand.
LEMMA ReceiveCases ==
  ASSUME TypeOK, PhaseInv, RunReceive
  PROVE  /\ cur = <<>>
         /\ \/ UNCHANGED <<cur, sock>>
            \/ /\ sock # <<>> /\ sock' = Tail(sock)
               /\ IF Head(sock) = <<"noise">> THEN cur' = <<>> ELSE cur' = Head(sock)
  BY DEF RunReceive, PhaseInv

\* A message taken in hand still is on its way to onUevent.
LEMMA ReceiveHeard ==
  ASSUME TypeOK, PhaseInv, RunReceive, NEW n \in Names
  PROVE  /\ RemovalComes(n)' <=> RemovalComes(n)
         /\ Unheard(n)' <=> Unheard(n)
  <1>1. /\ Add(n) # <<>> /\ Remove(n) # <<>>
        /\ Add(n) # <<"noise">> /\ Remove(n) # <<"noise">>
    BY MessageForms
  <1>2. CASE UNCHANGED <<cur, sock>>
    BY <1>2 DEF RemovalComes, Unheard
  <1>3. CASE /\ sock # <<>> /\ sock' = Tail(sock)
             /\ IF Head(sock) = <<"noise">> THEN cur' = <<>> ELSE cur' = Head(sock)
    <2>1. \A x : In(sock, x) <=> x = Head(sock) \/ In(sock', x)
      BY <1>3, InTail DEF TypeOK
    <2>2. cur = <<>>
      BY ReceiveCases
    <2> HIDE DEF In
    <2>3. RemovalComes(n)' <=> RemovalComes(n)
      BY <1>1, <1>3, <2>1, <2>2 DEF RemovalComes
    <2>4. (cur' = Add(n) \/ In(sock', Add(n))) <=> (cur = Add(n) \/ In(sock, Add(n)))
      BY <1>1, <1>3, <2>1, <2>2
    <2> QED
      BY <2>3, <2>4 DEF Unheard
  <1> QED
    BY <1>2, <1>3, ReceiveCases

\* Of a device that is not announced a removal or nothing is on its way.
LEMMA OffIsHeard ==
  ASSUME TypeOK, MessagesInv, Listening, NEW n \in Names, ~There(n), ~RemovalComes(n)
  PROVE  ~Unheard(n)
  <1>1. Tells(sock, n, There(n)) /\ There(n) \in BOOLEAN
    BY DEF MessagesInv, There
  <1>2. ~In(sock, Add(n))
    BY <1>1, TellsAll DEF TypeOK, RemovalComes
  <1>3. cur # Add(n)
    BY DEF MessagesInv, RemovalComes
  <1> QED
    BY <1>2, <1>3 DEF Unheard

-----------------------------------------------------------------------------
(* What is known of a device                                               *)

\* Metadata that fits goes on to fit while only messages are added.
LEMMA FitsSame ==
  ASSUME NEW n \in Names, NEW i, Fits(n, i),
         RemovalComes(n) => RemovalComes(n)', Unheard(n) => Unheard(n)',
         gen'[n] = gen[n], kstate'[n] = kstate[n]
  PROVE  Fits(n, i)'
  BY DEF Fits, Current

\* When an arrival, a removal or another message is announced, the message comes.
LEMMA Announced ==
  ASSUME TypeOK, Listening', NEW n \in Names, Announce(n)
  PROVE  /\ Listening /\ UNCHANGED <<cur, gen>>
         /\ \A q \in Names : /\ RemovalComes(q) => RemovalComes(q)'
                             /\ Unheard(q) => Unheard(q)'
         /\ \A q \in Names \ {n} : kstate'[q] = kstate[q]
         /\ Unheard(n)'
         /\ kstate'[n] \in {"on", "off"} /\ (kstate'[n] = "off" => RemovalComes(n)')
  <1>1. UNCHANGED <<cur, gen, fdsOpen, closed>> /\ fdsOpen /\ ~closed /\ ~overrun'
    BY DEF Announce, Listening, guarded, runVars
  <1>2. PICK m \in {Add(n), Remove(n)} :
             /\ Deposit(m) /\ kstate'[n] \in {"on", "off"}
             /\ kstate'[n] = "off" => m = Remove(n)
             /\ \A q \in Names \ {n} : kstate'[q] = kstate[q]
    BY AnnounceCases, MessageForms
  <1>3. m \in Message
    BY MessageForms
  <1>4. Listening /\ sock' = Append(sock, m) /\ \A x : In(sock, x) => In(sock', x)
    BY <1>1, <1>2, <1>3, DepositCases DEF Listening
  <1>5. In(sock', m)
    BY <1>3, <1>4, InAppend DEF TypeOK
  <1> HIDE DEF In
  <1>6. \A q \in Names : RemovalComes(q) => RemovalComes(q)'
    BY <1>1, <1>4 DEF RemovalComes
  <1>7. \A q \in Names : Unheard(q) => Unheard(q)'
    BY <1>1, <1>4, <1>6 DEF Unheard
  <1>8. m = Remove(n) => RemovalComes(n)'
    BY <1>5 DEF RemovalComes
  <1>9. Unheard(n)'
    BY <1>2, <1>5, <1>8 DEF Unheard
  <1> QED
    BY <1>1, <1>2, <1>4, <1>6, <1>7, <1>8, <1>9

\* A message about nothing leaves what is on its way as it is.
LEMMA OtherHeard ==
  ASSUME TypeOK, Listening', OtherMessage
  PROVE  /\ Listening /\ UNCHANGED <<cur, gen, kstate>>
         /\ \A q \in Names : /\ RemovalComes(q) => RemovalComes(q)'
                             /\ Unheard(q) => Unheard(q)'
  <1> DEFINE m == <<"noise">>
  <1>1. /\ UNCHANGED <<cur, gen, kstate, fdsOpen, closed>> /\ fdsOpen /\ ~closed /\ ~overrun'
        /\ Deposit(m)
    BY DEF OtherMessage, Listening, guarded, runVars
  <1>2. m \in Message
    BY MessageForms
  <1> HIDE DEF m
  <1>3. Listening /\ \A x : In(sock, x) => In(sock', x)
    BY <1>1, <1>2, DepositCases DEF Listening
  <1> HIDE DEF In
  <1>4. \A q \in Names : RemovalComes(q) => RemovalComes(q)'
    BY <1>1, <1>3 DEF RemovalComes
  <1>5. \A q \in Names : Unheard(q) => Unheard(q)'
    BY <1>1, <1>3, <1>4 DEF Unheard
  <1> QED
    BY <1>1, <1>3, <1>4, <1>5

\* No message means a removal that did not mean one before.
LEMMA NoRemovalComes ==
  ASSUME NEW q \in Names, cur' \in {cur, <<>>}, sock' \in {sock, <<>>}, ~RemovalComes(q)
  PROVE  ~RemovalComes(q)'
  <1>1. <<>> # Remove(q)
    BY MessageForms
  <1>2. sock' = <<>> => ~In(sock', Remove(q))
    BY DEF In
  <1> QED
    BY <1>1, <1>2 DEF RemovalComes

(***************************************************************************)
(* What fits goes on to fit when a device comes or goes: of a device that  *)
(* appears nothing was known, as no message about it was on its way.       *)
(***************************************************************************)
LEMMA FitsKernel ==
  ASSUME TypeOK, MessagesInv, Listening', NEW n \in Names, NEW q \in Names, NEW i, Fits(q, i),
         Appear(n) \/ Vanish(n) \/ Announce(n)
  PROVE  Fits(q, i)'
  <1>1. CASE Appear(n)
    <2>1. /\ UNCHANGED <<cur, sock>> /\ Listening /\ kstate[n] = "off"
          /\ kstate' = [kstate EXCEPT ![n] = "appearing"]
          /\ gen' = [gen EXCEPT ![n] = @ + 1]
      BY <1>1 DEF Appear, Listening, fds, guarded, runVars
    <2>2. (RemovalComes(q)' <=> RemovalComes(q)) /\ (Unheard(q)' <=> Unheard(q))
      BY <2>1 DEF RemovalComes, Unheard
    <2>3. q = n => RemovalComes(q) \/ ~Unheard(q)
      BY <2>1, OffIsHeard DEF There
    <2>4. q # n => gen'[q] = gen[q] /\ kstate'[q] = kstate[q]
      BY <2>1 DEF TypeOK
    <2>5. q = n => kstate'[q] = "appearing"
      BY <2>1 DEF TypeOK
    <2>6. Unheard(q) \/ ~RemovalComes(q)
      BY DEF Unheard
    <2> QED
      BY <2>1, <2>2, <2>3, <2>4, <2>5, <2>6 DEF Fits, Current
  <1>2. CASE Vanish(n)
    <2>1. UNCHANGED <<cur, sock, gen>> /\ kstate' = [kstate EXCEPT ![n] = "vanishing"]
      BY <1>2 DEF Vanish, fds, runVars
    <2>2. (RemovalComes(q)' <=> RemovalComes(q)) /\ (Unheard(q)' <=> Unheard(q))
      BY <2>1 DEF RemovalComes, Unheard
    <2>3. kstate'[q] = kstate[q] \/ kstate'[q] = "vanishing"
      BY <2>1 DEF TypeOK
    <2> QED
      BY <2>1, <2>2, <2>3 DEF Fits, Current
  <1>3. CASE Announce(n)
    BY <1>3, Announced DEF Fits, Current
  <1> QED
    BY <1>1, <1>2, <1>3

\* That a device has gone fits when its removal has been heard.
LEMMA FitsRemoved ==
  ASSUME TypeOK, MessagesInv, Listening, NEW n \in Names, cur = Remove(n),
         cur' = <<>>, UNCHANGED <<sock, kstate>>
  PROVE  Fits(n, Absent)'
  <1>1. ~In(sock, Add(n)) => kstate[n] # "on"
    BY DEF MessagesInv, There
  <1>2. In(sock', Add(n)) <=> In(sock, Add(n))
    OBVIOUS
  <1> QED
    BY <1>1, <1>2 DEF Fits, Current, Unheard

\* What is known of a device fits when its arrival has been heard.
LEMMA FitsAdded ==
  ASSUME TypeOK, MessagesInv, Listening, NEW n \in Names, cur = Add(n), NEW i, i # Absent,
         ~In(sock, Remove(n)) => Current(n, i), cur' = <<>>, UNCHANGED <<sock, kstate, gen>>
  PROVE  Fits(n, i)'
  <1>1. ~In(sock, Remove(n)) => kstate[n] # "off"
    BY DEF MessagesInv, There
  <1>2. In(sock', Remove(n)) <=> In(sock, Remove(n))
    OBVIOUS
  <1>3. ~RemovalComes(n)' => ~In(sock, Remove(n))
    BY <1>2 DEF RemovalComes
  <1>4. ~Unheard(n)' => ~RemovalComes(n)'
    BY DEF Unheard
  <1> QED
    BY <1>1, <1>3, <1>4 DEF Fits, Current

\* The message in hand says nothing of the other devices.
LEMMA OthersHeard ==
  ASSUME NEW n \in Names, NEW q \in Names \ {n}, cur \in {Add(n), Remove(n)},
         cur' \in {cur, <<>>}, UNCHANGED sock
  PROVE  (RemovalComes(q)' <=> RemovalComes(q)) /\ (Unheard(q)' <=> Unheard(q))
  <1>1. /\ cur # Add(q) /\ cur # Remove(q) /\ cur' # Add(q) /\ cur' # Remove(q)
    BY MessageForms
  <1> QED
    BY <1>1 DEF RemovalComes, Unheard

\* What would be published of a device.
LEMMA PendingForm ==
  \A n \in Names : Pending(n) = IF Hits(startupEvents, n) = {} THEN found[n]
                                ELSE IF Newest(startupEvents, n)[1] = "connected"
                                THEN Newest(startupEvents, n)[3] ELSE Absent
  BY DEF Pending, Reconcile

-----------------------------------------------------------------------------
(* Types                                                                   *)

\* Every step of the kernel, run, Watch and Close keeps the types.
LEMMA TypeStep == IInv /\ [Next]_vars => TypeOK'
  <1> SUFFICES ASSUME TypeOK, PhaseInv, StagedInv, [Next]_vars PROVE TypeOK'
    BY DEF IInv
  <1>1. ASSUME NEW n \in Names, Appear(n) PROVE TypeOK'
    <2>1. gen' \in [Names -> 0..MaxGen]
      BY <1>1, WatcherAssumption DEF Appear, TypeOK
    <2>2. kstate' \in [Names -> {"off", "appearing", "on", "vanishing"}]
      BY <1>1 DEF Appear, TypeOK
    <2> QED
      BY <1>1, <2>1, <2>2 DEF TypeOK, Appear, kernel, fds, guarded, ends, runVars, watchVars,
         closeVars, history
  <1>2. ASSUME NEW n \in Names, Vanish(n) PROVE TypeOK'
    <2>1. /\ kstate' \in [Names -> {"off", "appearing", "on", "vanishing"}]
          /\ steady' \in SUBSET Names
      BY <1>2 DEF Vanish, TypeOK
    <2> QED
      BY <1>2, <2>1 DEF TypeOK, Vanish, kernel, fds, guarded, ends, runVars, watchVars, closeVars,
         history
  <1>3. ASSUME NEW n \in Names, Announce(n) PROVE TypeOK'
    <2>1. sock' \in Seq(Message) /\ Len(sock') <= SockCap /\ overrun' \in BOOLEAN
      BY <1>3, MessageForms, DepositType DEF Announce, Add, Remove
    <2>2. kstate' \in [Names -> {"off", "appearing", "on", "vanishing"}]
      BY <1>3 DEF Announce, TypeOK
    <2> QED
      BY <1>3, <2>1, <2>2 DEF TypeOK, Announce, kernel, fds, guarded, ends, runVars, watchVars,
         closeVars, history
  <1>4. ASSUME OtherMessage PROVE TypeOK'
    <2>1. sock' \in Seq(Message) /\ Len(sock') <= SockCap /\ overrun' \in BOOLEAN
      BY <1>4, MessageForms, DepositType DEF OtherMessage
    <2>2. noise' \in 0..MaxNoise
      BY <1>4, WatcherAssumption DEF OtherMessage, TypeOK
    <2> QED
      BY <1>4, <2>1, <2>2 DEF TypeOK, OtherMessage, kernel, fds, guarded, ends, runVars, watchVars,
         closeVars, history
  <1>5. ASSUME RunCheck PROVE TypeOK'
    BY <1>5 DEF TypeOK, RunCheck, kernel, fds, guarded, ends, runVars, watchVars, closeVars,
       history, vars
  <1>6. ASSUME RunPoll PROVE TypeOK'
    <2>1. batch' \in 0..BatchSize
      BY <1>6, WatcherAssumption DEF RunPoll, TypeOK
    <2> QED
      BY <1>6, <2>1 DEF TypeOK, RunPoll, kernel, fds, guarded, ends, runVars, watchVars, closeVars,
         history
  <1>7. ASSUME RunDrain PROVE TypeOK'
    <2>1. batch' \in 0..BatchSize
      BY <1>7, WatcherAssumption DEF RunDrain, TypeOK
    <2> QED
      BY <1>7, <2>1 DEF TypeOK, RunDrain, kernel, fds, guarded, ends, runVars, watchVars,
         closeVars, history
  <1>8. ASSUME RunReceive PROVE TypeOK'
    <2>a. /\ sock' = sock \/ (sock # <<>> /\ sock' = Tail(sock))
          /\ cur' = cur \/ (sock # <<>> /\ cur' = Head(sock))
          /\ batch' = batch \/ batch' = 0
          /\ failed' = TRUE \/ failed' = failed
      BY <1>8 DEF RunReceive, Fail
    <2>b. sock # <<>> => Head(sock) \in Message /\ Tail(sock) \in Seq(Message)
                         /\ Len(Tail(sock)) <= SockCap
      BY HeadAndTail, WatcherAssumption DEF TypeOK
    <2>1. sock' \in Seq(Message) /\ Len(sock') <= SockCap /\ cur' \in Message \union {<<>>}
      BY <2>a, <2>b DEF TypeOK
    <2>2. batch' \in 0..BatchSize
      BY <2>a, WatcherAssumption DEF TypeOK
    <2>3. failed' \in BOOLEAN
      BY <2>a DEF TypeOK
    <2> QED
      BY <1>8, <2>1, <2>2, <2>3 DEF TypeOK, RunReceive, Fail, kernel, fds, guarded, ends, runVars,
         watchVars, closeVars, history
  <1>9. ASSUME NEW n \in Names, RunHandle(n) PROVE TypeOK'
    <2>1. Disconnected(n, IF devices[n] = Absent THEN PathOnly ELSE devices[n]) \in Event
      BY Metadata, EventForms DEF TypeOK, MaybeInfos
    <2>2. /\ startupEvents' \in Seq(Event) /\ last' \in Event \union {<<>>}
          /\ devices' \in [Names -> MaybeInfos] /\ view' \in [Names -> MaybeInfos]
      BY <1>9, <2>1, HandleCases, PublishType DEF TypeOK
    <2>3. cur' \in Message \union {<<>>}
      BY <1>9 DEF RunHandle, TypeOK
    <2> QED
      BY <1>9, <2>2, <2>3 DEF TypeOK, RunHandle, kernel, fds, guarded, ends, runVars, watchVars,
         closeVars, history
  <1>10. ASSUME RunLoadUsage PROVE TypeOK'
    <2>1. info' \in Infos
      <3>1. cur[2] \in Names
        BY <1>10, InHand DEF RunLoadUsage, PhaseInv
      <3> QED
        BY <1>10, <3>1, ReadsForm, Metadata DEF RunLoadUsage
    <2> QED
      BY <1>10, <2>1 DEF TypeOK, RunLoadUsage, kernel, fds, guarded, ends, runVars, watchVars,
         closeVars, history
  <1>11. ASSUME RunLoadIds PROVE TypeOK'
    <2>1. info' \in Infos
      <3>1. cur[2] \in Names /\ info[1] \in 0..MaxGen
        BY <1>11, InHand, Metadata DEF RunLoadIds, PhaseInv, TypeOK
      <3> QED
        BY <1>11, <3>1, ReadsForm, Metadata DEF RunLoadIds
    <2> QED
      BY <1>11, <2>1 DEF TypeOK, RunLoadIds, kernel, fds, guarded, ends, runVars, watchVars,
         closeVars, history
  <1>12. ASSUME RunPublish PROVE TypeOK'
    <2>1. \A n \in Names : Connected(n, info) \in Event
      BY EventForms DEF TypeOK
    <2>2. /\ startupEvents' \in Seq(Event) /\ last' \in Event \union {<<>>}
          /\ devices' \in [Names -> MaybeInfos] /\ view' \in [Names -> MaybeInfos]
      BY <1>12, <2>1, PublishCases, PublishType DEF TypeOK
    <2>3. cur' \in Message \union {<<>>} /\ info' \in Infos
      BY <1>12, Metadata DEF RunPublish
    <2> QED
      BY <1>12, <2>2, <2>3 DEF TypeOK, RunPublish, kernel, fds, guarded, ends, runVars, watchVars,
         closeVars, history
  <1>13. ASSUME RunStop PROVE TypeOK'
    <2>1. sock' \in Seq(Message) /\ Len(sock') <= SockCap
      BY <1>13, EmptySeq, WatcherAssumption DEF RunStop
    <2>2. runErr' \in BOOLEAN
      BY <1>13 DEF RunStop, TypeOK
    <2>3. /\ closed' \in BOOLEAN /\ fdsOpen' \in BOOLEAN /\ overrun' \in BOOLEAN
          /\ wakeUp' \in BOOLEAN /\ runPc' = "closeQueue"
      BY <1>13 DEF RunStop
    <2>4. UNCHANGED <<kstate, gen, noise, initializing, startupEvents, devices, closeErr, stopped,
                      queueClosed, cur, info, batch, failed, watchPc, todo, found, once, closePc,
                      result, view, last, steady>>
      BY <1>13 DEF RunStop, kernel, ends, watchVars, closeVars, history
    <2> QED
      BY <2>1, <2>2, <2>3, <2>4 DEF TypeOK
  <1>14. ASSUME RunCloseQueue PROVE TypeOK'
    BY <1>14 DEF TypeOK, RunCloseQueue, kernel, fds, guarded, ends, runVars, watchVars,
       closeVars, history, vars
  <1>15. ASSUME RunCloseStopped PROVE TypeOK'
    BY <1>15 DEF TypeOK, RunCloseStopped, kernel, fds, guarded, ends, runVars, watchVars,
       closeVars, history, vars
  <1>16. ASSUME RunReadFails PROVE TypeOK'
    BY <1>16 DEF TypeOK, RunReadFails, Fail, kernel, fds, guarded, ends, runVars, watchVars,
       closeVars, history, vars
  <1>17. ASSUME WatchOpen PROVE TypeOK'
    <2>1. steady' \in SUBSET Names /\ fdsOpen' \in BOOLEAN
      BY <1>17 DEF WatchOpen, TypeOK
    <2> QED
      BY <1>17, <2>1 DEF TypeOK, WatchOpen, kernel, fds, guarded, ends, runVars, watchVars,
         closeVars, history
  <1>18. ASSUME WatchList PROVE TypeOK'
    <2>1. todo' \in SUBSET Names
      BY <1>18 DEF WatchList, TypeOK
    <2> QED
      BY <1>18, <2>1 DEF TypeOK, WatchList, kernel, fds, guarded, ends, runVars, watchVars,
         closeVars, history
  <1>19. ASSUME WatchScanned PROVE TypeOK'
    BY <1>19 DEF TypeOK, WatchScanned, kernel, fds, guarded, ends, runVars, watchVars,
       closeVars, history, vars
  <1>20. ASSUME NEW n \in Names, WatchLoadUsage(n) PROVE TypeOK'
    <2>1. found' \in [Names -> MaybeInfos]
      BY <1>20, ReadsForm, Metadata DEF WatchLoadUsage, TypeOK
    <2>2. todo' \in SUBSET Names
      BY <1>20 DEF WatchLoadUsage, TypeOK
    <2> QED
      BY <1>20, <2>1, <2>2 DEF TypeOK, WatchLoadUsage, kernel, fds, guarded, ends, runVars,
         watchVars, closeVars, history
  <1>21. ASSUME NEW n \in Names, WatchLoadIds(n) PROVE TypeOK'
    <2>1. found' \in [Names -> MaybeInfos]
      <3>1. found[n] \in Infos
        BY <1>21 DEF WatchLoadIds, TypeOK, MaybeInfos
      <3>2. \A i \in Reads(n) : <<found[n][1], i>> \in MaybeInfos
        BY <3>1, ReadsForm, Metadata
      <3> QED
        BY <1>21, <3>2 DEF WatchLoadIds, TypeOK
    <2>2. todo' \in SUBSET Names
      BY <1>21 DEF WatchLoadIds, TypeOK
    <2> QED
      BY <1>21, <2>1, <2>2 DEF TypeOK, WatchLoadIds, kernel, fds, guarded, ends, runVars, watchVars,
         closeVars, history
  <1>22. ASSUME WatchPublishStartup PROVE TypeOK'
    <2>1. \A n \in Names : Reconcile(found, startupEvents)[n] \in MaybeInfos
      <3>1. \A e \in Event : e[3] \in MaybeInfos
        BY Metadata DEF Event
      <3> QED
        BY <3>1, NewestForm, Metadata DEF Reconcile, TypeOK
    <2>2. Reconcile(found, startupEvents) \in [Names -> MaybeInfos]
      BY <2>1 DEF Reconcile
    <2>3. /\ devices' \in [Names -> MaybeInfos] /\ view' \in [Names -> MaybeInfos]
          /\ startupEvents' \in Seq(Event) /\ initializing' \in BOOLEAN
      BY <1>22, <2>2, EmptySeq DEF WatchPublishStartup, TypeOK, guarded
    <2>4. found' \in [Names -> MaybeInfos]
      BY <1>22, Metadata DEF WatchPublishStartup
    <2> QED
      BY <1>22, <2>3, <2>4 DEF TypeOK, WatchPublishStartup, kernel, fds, guarded, ends, runVars,
         watchVars, closeVars, history
  <1>23. ASSUME WatchCheckErr PROVE TypeOK'
    BY <1>23 DEF TypeOK, WatchCheckErr, kernel, fds, guarded, ends, runVars, watchVars,
       closeVars, history, vars
  <1>24. ASSUME WatchFailed PROVE TypeOK'
    BY <1>24 DEF TypeOK, WatchFailed, kernel, fds, guarded, ends, runVars, watchVars, closeVars,
       history, vars
  <1>25. ASSUME NEW c \in Callers, CloseCall(c) PROVE TypeOK'
    BY <1>25 DEF TypeOK, CloseCall, kernel, fds, guarded, ends, runVars, watchVars, closeVars,
       history, vars
  <1>26. ASSUME NEW c \in Callers, CloseEnter(c) PROVE TypeOK'
    <2>1. closePc' \in [Callers -> {"idle", "called", "lock", "await", "result", "returned"}]
      BY <1>26 DEF CloseEnter, TypeOK
    <2>2. once' \in {"fresh", "running", "finished"}
      BY <1>26 DEF CloseEnter, TypeOK
    <2> QED
      BY <1>26, <2>1, <2>2 DEF TypeOK, CloseEnter, kernel, fds, guarded, ends, runVars, watchVars,
         closeVars, history
  <1>27. ASSUME NEW c \in Callers, CloseLock(c) PROVE TypeOK'
    <2>1. wakeUp' \in BOOLEAN /\ closeErr' \in BOOLEAN
      BY <1>27 DEF CloseLock, TypeOK
    <2>2. closePc' \in [Callers -> {"idle", "called", "lock", "await", "result", "returned"}]
      BY <1>27 DEF CloseLock, TypeOK
    <2> QED
      BY <1>27, <2>1, <2>2 DEF TypeOK, CloseLock, kernel, fds, guarded, ends, runVars, watchVars,
         closeVars, history
  <1>28. ASSUME NEW c \in Callers, CloseAwait(c) PROVE TypeOK'
    BY <1>28 DEF TypeOK, CloseAwait, kernel, fds, guarded, ends, runVars, watchVars, closeVars,
       history, vars
  <1>29. ASSUME NEW c \in Callers, CloseResult(c) PROVE TypeOK'
    BY <1>29 DEF TypeOK, CloseResult, kernel, fds, guarded, ends, runVars, watchVars, closeVars,
       history, vars
  <1>30. ASSUME UNCHANGED vars PROVE TypeOK'
    BY <1>30 DEF TypeOK, kernel, fds, guarded, ends, runVars, watchVars, closeVars, history,
       vars
  <1> QED
    BY <1>1, <1>2, <1>3, <1>4, <1>5, <1>6, <1>7, <1>8, <1>9, <1>10, <1>11, <1>12, <1>13, <1>14,
       <1>15, <1>16, <1>17, <1>18, <1>19, <1>20, <1>21, <1>22, <1>23, <1>24, <1>25, <1>26,
       <1>27, <1>28, <1>29, <1>30 DEF Next, Kernel, Run, OnUevent, Watch, CloseBody

-----------------------------------------------------------------------------
(* Control                                                                 *)

\* Where run and Watch are says what is open, and why.
LEMMA PhaseStep == IInv /\ [Next]_vars => PhaseInv'
  <1> SUFFICES ASSUME TypeOK, PhaseInv, WatchInv, CloseInv, [Next]_vars PROVE PhaseInv'
    BY DEF IInv
  <1>1. ASSUME NEW n \in Names, Appear(n) \/ Vanish(n) PROVE PhaseInv'
    BY <1>1, WatcherAssumption DEF TypeOK, PhaseInv, WatchInv, CloseInv, PastLock, Scanning,
       Alive, Ended, Callers, Appear, Vanish, kernel, fds, guarded, ends, runVars, watchVars,
       closeVars, history, vars
  <1>2. ASSUME NEW n \in Names, Announce(n) PROVE PhaseInv'
    <2>1. /\ UNCHANGED <<fdsOpen, wakeUp, closed, queueClosed, stopped, runErr, runPc, cur, failed,
                         watchPc, closePc>>
          /\ ~fdsOpen => UNCHANGED <<sock, overrun>>
      BY <1>2 DEF Announce, Deposit, guarded, ends, runVars, watchVars, closeVars
    <2> QED
      BY <2>1 DEF PhaseInv
  <1>3. ASSUME OtherMessage PROVE PhaseInv'
    <2>1. /\ UNCHANGED <<fdsOpen, wakeUp, closed, queueClosed, stopped, runErr, runPc, cur, failed,
                         watchPc, closePc>>
          /\ ~fdsOpen => UNCHANGED <<sock, overrun>>
      BY <1>3 DEF OtherMessage, Deposit, guarded, ends, runVars, watchVars, closeVars
    <2> QED
      BY <2>1 DEF PhaseInv
  <1>4. ASSUME RunCheck \/ RunPoll \/ RunDrain PROVE PhaseInv'
    BY <1>4, WatcherAssumption DEF TypeOK, PhaseInv, WatchInv, CloseInv, PastLock, Scanning,
       Alive, Ended, Callers, RunCheck, RunPoll, RunDrain, kernel, fds, guarded, ends, runVars,
       watchVars, closeVars, history, vars
  <1>5. ASSUME RunReceive PROVE PhaseInv'
    <2>1. /\ UNCHANGED <<fdsOpen, wakeUp, closed, queueClosed, stopped, runErr, overrun,
                         watchPc, closePc>>
          /\ runPc = "receive" /\ fdsOpen
      BY <1>5 DEF RunReceive, guarded, ends, watchVars, closeVars, PhaseInv, Alive
    <2>2. CASE Fail /\ UNCHANGED cur
      BY <2>1, <2>2 DEF PhaseInv, Fail, Alive, Ended
    <2>3. CASE UNCHANGED <<cur, failed>> /\ runPc' \in {"check", "drain"}
      BY <2>1, <2>3 DEF PhaseInv, Alive, Ended
    <2>4. CASE sock # <<>> /\ Head(sock) # <<"noise">> /\ cur' = Head(sock) /\ runPc' = "handle"
               /\ UNCHANGED failed
      <3>1. Head(sock) \in Message /\ Head(sock) # <<>>
        BY <2>4, HeadAndTail, MessageForms DEF TypeOK
      <3> QED
        BY <2>1, <2>4, <3>1 DEF PhaseInv, Alive, Ended
    <2> QED
      BY <1>5, <2>2, <2>3, <2>4 DEF RunReceive
  <1>6. ASSUME NEW n \in Names, RunHandle(n) PROVE PhaseInv'
    <2>1. /\ UNCHANGED <<fds, closed, queueClosed, stopped, runErr, failed, watchPc, closePc>>
          /\ runPc = "handle" /\ runPc' \in {"drain", "loadUsage"}
          /\ cur' = IF runPc' = "drain" THEN <<>> ELSE cur
      BY <1>6 DEF RunHandle, ends, watchVars, closeVars
    <2>2. runPc' = "loadUsage" => cur[1] = "add"
      BY <1>6 DEF RunHandle
    <2> QED
      BY <2>1, <2>2 DEF PhaseInv, fds, Alive, Ended
  <1>7. ASSUME RunLoadUsage \/ RunLoadIds PROVE PhaseInv'
    BY <1>7, WatcherAssumption DEF TypeOK, PhaseInv, WatchInv, CloseInv, PastLock, Scanning,
       Alive, Ended, Callers, RunLoadUsage, RunLoadIds, kernel, fds, guarded, ends, runVars,
       watchVars, closeVars, history, vars
  <1>8. ASSUME RunPublish PROVE PhaseInv'
    <2>1. /\ UNCHANGED <<fds, closed, queueClosed, stopped, runErr, failed, watchPc, closePc>>
          /\ runPc = "publish" /\ runPc' = "drain" /\ cur' = <<>>
      BY <1>8 DEF RunPublish, ends, watchVars, closeVars
    <2> QED
      BY <2>1 DEF PhaseInv, fds, Alive, Ended
  <1>9. ASSUME RunStop PROVE PhaseInv'
    BY <1>9, WatcherAssumption DEF TypeOK, PhaseInv, WatchInv, CloseInv, PastLock, Scanning,
       Alive, Ended, Callers, RunStop, kernel, fds, guarded, ends, runVars, watchVars,
       closeVars, history, vars
  <1>10. ASSUME RunCloseQueue \/ RunCloseStopped PROVE PhaseInv'
    BY <1>10, WatcherAssumption DEF TypeOK, PhaseInv, WatchInv, CloseInv, PastLock, Scanning,
       Alive, Ended, Callers, RunCloseQueue, RunCloseStopped, kernel, fds, guarded, ends,
       runVars, watchVars, closeVars, history, vars
  <1>11. ASSUME RunReadFails PROVE PhaseInv'
    BY <1>11, WatcherAssumption DEF TypeOK, PhaseInv, WatchInv, CloseInv, PastLock, Scanning,
       Alive, Ended, Callers, RunReadFails, Fail, kernel, fds, guarded, ends, runVars, watchVars,
       closeVars, history, vars
  <1>12. ASSUME WatchOpen PROVE PhaseInv'
    BY <1>12, WatcherAssumption DEF TypeOK, PhaseInv, WatchInv, CloseInv, PastLock, Scanning,
       Alive, Ended, Callers, WatchOpen, kernel, fds, guarded, ends, runVars, watchVars,
       closeVars, history, vars
  <1>13. ASSUME WatchList \/ WatchScanned \/ WatchPublishStartup \/ WatchCheckErr \/ WatchFailed
         PROVE  PhaseInv'
    BY <1>13, WatcherAssumption DEF TypeOK, PhaseInv, WatchInv, CloseInv, PastLock, Scanning,
       Alive, Ended, Callers, WatchList, WatchScanned, WatchPublishStartup, WatchCheckErr,
       WatchFailed, kernel, fds, guarded, ends, runVars, watchVars, closeVars, history, vars
  <1>14. ASSUME NEW n \in Names, WatchLoadUsage(n) \/ WatchLoadIds(n) PROVE PhaseInv'
    BY <1>14, WatcherAssumption DEF TypeOK, PhaseInv, WatchInv, CloseInv, PastLock, Scanning,
       Alive, Ended, Callers, WatchLoadUsage, WatchLoadIds, kernel, fds, guarded, ends, runVars,
       watchVars, closeVars, history, vars
  <1>15. ASSUME NEW c \in Callers, CloseCall(c) PROVE PhaseInv'
    BY <1>15, WatcherAssumption DEF TypeOK, PhaseInv, WatchInv, CloseInv, PastLock, Scanning,
       Alive, Ended, Callers, CloseCall, kernel, fds, guarded, ends, runVars, watchVars,
       closeVars, history, vars
  <1>16. ASSUME NEW c \in Callers, CloseEnter(c) PROVE PhaseInv'
    BY <1>16, WatcherAssumption DEF TypeOK, PhaseInv, WatchInv, CloseInv, PastLock, Scanning,
       Alive, Ended, Callers, CloseEnter, kernel, fds, guarded, ends, runVars, watchVars,
       closeVars, history, vars
  <1>17. ASSUME NEW c \in Callers, CloseLock(c) PROVE PhaseInv'
    BY <1>17, WatcherAssumption DEF TypeOK, PhaseInv, WatchInv, CloseInv, PastLock, Scanning,
       Alive, Ended, Callers, CloseLock, kernel, fds, guarded, ends, runVars, watchVars,
       closeVars, history, vars
  <1>18. ASSUME NEW c \in Callers, CloseAwait(c) PROVE PhaseInv'
    BY <1>18, WatcherAssumption DEF TypeOK, PhaseInv, WatchInv, CloseInv, PastLock, Scanning,
       Alive, Ended, Callers, CloseAwait, kernel, fds, guarded, ends, runVars, watchVars,
       closeVars, history, vars
  <1>19. ASSUME NEW c \in Callers, CloseResult(c) PROVE PhaseInv'
    BY <1>19, WatcherAssumption DEF TypeOK, PhaseInv, WatchInv, CloseInv, PastLock, Scanning,
       Alive, Ended, Callers, CloseResult, kernel, fds, guarded, ends, runVars, watchVars,
       closeVars, history, vars
  <1>20. ASSUME UNCHANGED vars PROVE PhaseInv'
    BY <1>20, WatcherAssumption DEF TypeOK, PhaseInv, WatchInv, CloseInv, PastLock, Scanning,
       Alive, Ended, Callers, kernel, fds, guarded, ends, runVars, watchVars, closeVars,
       history, vars
  <1> QED
    BY <1>1, <1>2, <1>3, <1>4, <1>5, <1>6, <1>7, <1>8, <1>9, <1>10, <1>11, <1>12, <1>13, <1>14,
       <1>15, <1>16, <1>17, <1>18, <1>19, <1>20 DEF Next, Kernel, Run, OnUevent, Watch,
       CloseBody

\* Watch goes on from a snapshot that is live, or to its own Close.
LEMMA WatchStep == IInv /\ [Next]_vars => WatchInv'
  <1> SUFFICES ASSUME TypeOK, PhaseInv, WatchInv, CloseInv, [Next]_vars PROVE WatchInv'
    BY DEF IInv
  <1>1. ASSUME NEW n \in Names, Appear(n) \/ Vanish(n) PROVE WatchInv'
    BY <1>1, WatcherAssumption DEF TypeOK, PhaseInv, WatchInv, CloseInv, PastLock, Scanning,
       Alive, Ended, Callers, Appear, Vanish, kernel, fds, guarded, ends, runVars, watchVars,
       closeVars, history, vars
  <1>2. ASSUME NEW n \in Names, Announce(n) PROVE WatchInv'
    BY <1>2, WatcherAssumption DEF TypeOK, PhaseInv, WatchInv, CloseInv, PastLock, Scanning,
       Alive, Ended, Callers, Announce, kernel, fds, guarded, ends, runVars, watchVars,
       closeVars, history, vars
  <1>3. ASSUME OtherMessage PROVE WatchInv'
    BY <1>3, WatcherAssumption DEF TypeOK, PhaseInv, WatchInv, CloseInv, PastLock, Scanning,
       Alive, Ended, Callers, OtherMessage, kernel, fds, guarded, ends, runVars, watchVars,
       closeVars, history, vars
  <1>4. ASSUME RunCheck \/ RunPoll \/ RunDrain PROVE WatchInv'
    BY <1>4, WatcherAssumption DEF TypeOK, PhaseInv, WatchInv, CloseInv, PastLock, Scanning,
       Alive, Ended, Callers, RunCheck, RunPoll, RunDrain, kernel, fds, guarded, ends, runVars,
       watchVars, closeVars, history, vars
  <1>5. ASSUME RunReceive PROVE WatchInv'
    BY <1>5, WatcherAssumption DEF TypeOK, PhaseInv, WatchInv, CloseInv, PastLock, Scanning,
       Alive, Ended, Callers, RunReceive, kernel, fds, guarded, ends, runVars, watchVars,
       closeVars, history, vars
  <1>6. ASSUME NEW n \in Names, RunHandle(n) PROVE WatchInv'
    <2>1. /\ UNCHANGED <<todo, found, initializing, runErr, watchPc, steady>>
          /\ watchPc # "open"
      BY <1>6 DEF RunHandle, watchVars, PhaseInv
    <2>2. ~initializing => devices' = view'
      <3>1. Disconnected(n, IF devices[n] = Absent THEN PathOnly ELSE devices[n]) \in Event
        BY Metadata, EventForms DEF TypeOK, MaybeInfos
      <3>2. ~initializing => \/ UNCHANGED <<devices, view>>
                             \/ \E e \in Event : /\ devices' = Apply(devices, e)
                                                 /\ view' = Apply(view, e)
        BY <1>6, <3>1, HandleCases, PublishOrStageCases
      <3> QED
        BY <3>2 DEF WatchInv, Apply
    <2> QED
      BY <2>1, <2>2 DEF WatchInv
  <1>7. ASSUME RunLoadUsage \/ RunLoadIds PROVE WatchInv'
    BY <1>7, WatcherAssumption DEF TypeOK, PhaseInv, WatchInv, CloseInv, PastLock, Scanning,
       Alive, Ended, Callers, RunLoadUsage, RunLoadIds, kernel, fds, guarded, ends, runVars,
       watchVars, closeVars, history, vars
  <1>8. ASSUME RunPublish PROVE WatchInv'
    <2>1. /\ UNCHANGED <<todo, found, initializing, runErr, watchPc, steady>>
          /\ watchPc # "open"
      BY <1>8 DEF RunPublish, watchVars, PhaseInv
    <2>2. ~initializing => devices' = view'
      <3>1. \A n \in Names : Connected(n, info) \in Event
        BY EventForms DEF TypeOK
      <3>2. ~initializing => \/ UNCHANGED <<devices, view>>
                             \/ \E e \in Event : /\ devices' = Apply(devices, e)
                                                 /\ view' = Apply(view, e)
        BY <1>8, <3>1, PublishCases, PublishOrStageCases
      <3> QED
        BY <3>2 DEF WatchInv, Apply
    <2> QED
      BY <2>1, <2>2 DEF WatchInv
  <1>9. ASSUME RunStop PROVE WatchInv'
    <2>1. /\ UNCHANGED <<startupEvents, steady, todo, found, initializing, devices, view, watchPc>>
          /\ runPc = "stop" /\ runErr' = failed
      BY <1>9 DEF RunStop, watchVars, history
    <2>2. ~runErr
      BY <2>1 DEF PhaseInv, Ended
    <2> QED
      BY <2>1, <2>2 DEF WatchInv
  <1>10. ASSUME RunCloseQueue \/ RunCloseStopped PROVE WatchInv'
    BY <1>10, WatcherAssumption DEF TypeOK, PhaseInv, WatchInv, CloseInv, PastLock, Scanning,
       Alive, Ended, Callers, RunCloseQueue, RunCloseStopped, kernel, fds, guarded, ends,
       runVars, watchVars, closeVars, history, vars
  <1>11. ASSUME RunReadFails PROVE WatchInv'
    BY <1>11, WatcherAssumption DEF TypeOK, PhaseInv, WatchInv, CloseInv, PastLock, Scanning,
       Alive, Ended, Callers, RunReadFails, Fail, kernel, fds, guarded, ends, runVars, watchVars,
       closeVars, history, vars
  <1>12. ASSUME NEW c \in Callers, CloseCall(c) PROVE WatchInv'
    BY <1>12, WatcherAssumption DEF TypeOK, PhaseInv, WatchInv, CloseInv, PastLock, Scanning,
       Alive, Ended, Callers, CloseCall, kernel, fds, guarded, ends, runVars, watchVars,
       closeVars, history, vars
  <1>13. ASSUME NEW c \in Callers, CloseEnter(c) PROVE WatchInv'
    BY <1>13, WatcherAssumption DEF TypeOK, PhaseInv, WatchInv, CloseInv, PastLock, Scanning,
       Alive, Ended, Callers, CloseEnter, kernel, fds, guarded, ends, runVars, watchVars,
       closeVars, history, vars
  <1>14. ASSUME NEW c \in Callers, CloseLock(c) PROVE WatchInv'
    BY <1>14, WatcherAssumption DEF TypeOK, PhaseInv, WatchInv, CloseInv, PastLock, Scanning,
       Alive, Ended, Callers, CloseLock, kernel, fds, guarded, ends, runVars, watchVars,
       closeVars, history, vars
  <1>15. ASSUME NEW c \in Callers, CloseAwait(c) PROVE WatchInv'
    BY <1>15, WatcherAssumption DEF TypeOK, PhaseInv, WatchInv, CloseInv, PastLock, Scanning,
       Alive, Ended, Callers, CloseAwait, kernel, fds, guarded, ends, runVars, watchVars,
       closeVars, history, vars
  <1>16. ASSUME NEW c \in Callers, CloseResult(c) PROVE WatchInv'
    BY <1>16, WatcherAssumption DEF TypeOK, PhaseInv, WatchInv, CloseInv, PastLock, Scanning,
       Alive, Ended, Callers, CloseResult, kernel, fds, guarded, ends, runVars, watchVars,
       closeVars, history, vars
  <1>17. ASSUME WatchOpen PROVE WatchInv'
    BY <1>17, WatcherAssumption DEF TypeOK, PhaseInv, WatchInv, CloseInv, PastLock, Scanning,
       Alive, Ended, Callers, WatchOpen, kernel, fds, guarded, ends, runVars, watchVars,
       closeVars, history, vars
  <1>18. ASSUME WatchList PROVE WatchInv'
    BY <1>18, WatcherAssumption DEF TypeOK, PhaseInv, WatchInv, CloseInv, PastLock, Scanning,
       Alive, Ended, Callers, WatchList, kernel, fds, guarded, ends, runVars, watchVars,
       closeVars, history, vars
  <1>19. ASSUME WatchScanned PROVE WatchInv'
    BY <1>19, WatcherAssumption DEF TypeOK, PhaseInv, WatchInv, CloseInv, PastLock, Scanning,
       Alive, Ended, Callers, WatchScanned, kernel, fds, guarded, ends, runVars, watchVars,
       closeVars, history, vars
  <1>20. ASSUME WatchPublishStartup PROVE WatchInv'
    BY <1>20, WatcherAssumption DEF TypeOK, PhaseInv, WatchInv, CloseInv, PastLock, Scanning,
       Alive, Ended, Callers, WatchPublishStartup, kernel, fds, guarded, ends, runVars,
       watchVars, closeVars, history, vars
  <1>21. ASSUME WatchCheckErr PROVE WatchInv'
    BY <1>21, WatcherAssumption DEF TypeOK, PhaseInv, WatchInv, CloseInv, PastLock, Scanning,
       Alive, Ended, Callers, WatchCheckErr, kernel, fds, guarded, ends, runVars, watchVars,
       closeVars, history, vars
  <1>22. ASSUME WatchFailed PROVE WatchInv'
    BY <1>22, WatcherAssumption DEF TypeOK, PhaseInv, WatchInv, CloseInv, PastLock, Scanning,
       Alive, Ended, Callers, WatchFailed, kernel, fds, guarded, ends, runVars, watchVars,
       closeVars, history, vars
  <1>23. ASSUME NEW n \in Names, WatchLoadUsage(n) PROVE WatchInv'
    BY <1>23, WatcherAssumption DEF TypeOK, PhaseInv, WatchInv, CloseInv, PastLock, Scanning,
       Alive, Ended, Callers, WatchLoadUsage, kernel, fds, guarded, ends, runVars, watchVars,
       closeVars, history, vars
  <1>24. ASSUME NEW n \in Names, WatchLoadIds(n) PROVE WatchInv'
    BY <1>24, WatcherAssumption DEF TypeOK, PhaseInv, WatchInv, CloseInv, PastLock, Scanning,
       Alive, Ended, Callers, WatchLoadIds, kernel, fds, guarded, ends, runVars, watchVars,
       closeVars, history, vars
  <1>25. ASSUME UNCHANGED vars PROVE WatchInv'
    BY <1>25, WatcherAssumption DEF TypeOK, PhaseInv, WatchInv, CloseInv, PastLock, Scanning,
       Alive, Ended, Callers, kernel, fds, guarded, ends, runVars, watchVars, closeVars,
       history, vars
  <1> QED
    BY <1>1, <1>2, <1>3, <1>4, <1>5, <1>6, <1>7, <1>8, <1>9, <1>10, <1>11, <1>12, <1>13, <1>14,
       <1>15, <1>16, <1>17, <1>18, <1>19, <1>20, <1>21, <1>22, <1>23, <1>24, <1>25
       DEF Next, Kernel, Run, OnUevent, Watch, CloseBody

\* A Close that went on from waiting found run halted.
LEMMA CloseStep == IInv /\ [Next]_vars => CloseInv'
  <1> SUFFICES ASSUME TypeOK, PhaseInv, WatchInv, CloseInv, [Next]_vars PROVE CloseInv'
    BY DEF IInv
  <1>1. ASSUME NEW n \in Names, Appear(n) \/ Vanish(n) PROVE CloseInv'
    BY <1>1, WatcherAssumption DEF TypeOK, PhaseInv, WatchInv, CloseInv, PastLock, Scanning,
       Alive, Ended, Callers, Appear, Vanish, kernel, fds, guarded, ends, runVars, watchVars,
       closeVars, history, vars
  <1>2. ASSUME NEW n \in Names, Announce(n) PROVE CloseInv'
    BY <1>2, WatcherAssumption DEF TypeOK, PhaseInv, WatchInv, CloseInv, PastLock, Scanning,
       Alive, Ended, Callers, Announce, kernel, fds, guarded, ends, runVars, watchVars,
       closeVars, history, vars
  <1>3. ASSUME OtherMessage PROVE CloseInv'
    BY <1>3, WatcherAssumption DEF TypeOK, PhaseInv, WatchInv, CloseInv, PastLock, Scanning,
       Alive, Ended, Callers, OtherMessage, kernel, fds, guarded, ends, runVars, watchVars,
       closeVars, history, vars
  <1>4. ASSUME RunCheck \/ RunPoll \/ RunDrain PROVE CloseInv'
    BY <1>4, WatcherAssumption DEF TypeOK, PhaseInv, WatchInv, CloseInv, PastLock, Scanning,
       Alive, Ended, Callers, RunCheck, RunPoll, RunDrain, kernel, fds, guarded, ends, runVars,
       watchVars, closeVars, history, vars
  <1>5. ASSUME RunReceive PROVE CloseInv'
    BY <1>5, WatcherAssumption DEF TypeOK, PhaseInv, WatchInv, CloseInv, PastLock, Scanning,
       Alive, Ended, Callers, RunReceive, kernel, fds, guarded, ends, runVars, watchVars,
       closeVars, history, vars
  <1>6. ASSUME NEW n \in Names, RunHandle(n) PROVE CloseInv'
    BY <1>6, WatcherAssumption DEF TypeOK, PhaseInv, WatchInv, CloseInv, PastLock, Scanning,
       Alive, Ended, Callers, RunHandle, kernel, fds, guarded, ends, runVars, watchVars,
       closeVars, history, vars
  <1>7. ASSUME RunLoadUsage \/ RunLoadIds PROVE CloseInv'
    BY <1>7, WatcherAssumption DEF TypeOK, PhaseInv, WatchInv, CloseInv, PastLock, Scanning,
       Alive, Ended, Callers, RunLoadUsage, RunLoadIds, kernel, fds, guarded, ends, runVars,
       watchVars, closeVars, history, vars
  <1>8. ASSUME RunPublish PROVE CloseInv'
    BY <1>8, WatcherAssumption DEF TypeOK, PhaseInv, WatchInv, CloseInv, PastLock, Scanning,
       Alive, Ended, Callers, RunPublish, kernel, fds, guarded, ends, runVars, watchVars,
       closeVars, history, vars
  <1>9. ASSUME RunStop PROVE CloseInv'
    BY <1>9, WatcherAssumption DEF TypeOK, PhaseInv, WatchInv, CloseInv, PastLock, Scanning,
       Alive, Ended, Callers, RunStop, kernel, fds, guarded, ends, runVars, watchVars,
       closeVars, history, vars
  <1>10. ASSUME RunCloseQueue \/ RunCloseStopped PROVE CloseInv'
    BY <1>10, WatcherAssumption DEF TypeOK, PhaseInv, WatchInv, CloseInv, PastLock, Scanning,
       Alive, Ended, Callers, RunCloseQueue, RunCloseStopped, kernel, fds, guarded, ends,
       runVars, watchVars, closeVars, history, vars
  <1>11. ASSUME RunReadFails PROVE CloseInv'
    BY <1>11, WatcherAssumption DEF TypeOK, PhaseInv, WatchInv, CloseInv, PastLock, Scanning,
       Alive, Ended, Callers, RunReadFails, Fail, kernel, fds, guarded, ends, runVars, watchVars,
       closeVars, history, vars
  <1>12. ASSUME NEW c \in Callers, CloseCall(c) PROVE CloseInv'
    BY <1>12, WatcherAssumption DEF TypeOK, PhaseInv, WatchInv, CloseInv, PastLock, Scanning,
       Alive, Ended, Callers, CloseCall, kernel, fds, guarded, ends, runVars, watchVars,
       closeVars, history, vars
  <1>13. ASSUME NEW c \in Callers, CloseEnter(c) PROVE CloseInv'
    BY <1>13, WatcherAssumption DEF TypeOK, PhaseInv, WatchInv, CloseInv, PastLock, Scanning,
       Alive, Ended, Callers, CloseEnter, kernel, fds, guarded, ends, runVars, watchVars,
       closeVars, history, vars
  <1>14. ASSUME NEW c \in Callers, CloseLock(c) PROVE CloseInv'
    BY <1>14, WatcherAssumption DEF TypeOK, PhaseInv, WatchInv, CloseInv, PastLock, Scanning,
       Alive, Ended, Callers, CloseLock, kernel, fds, guarded, ends, runVars, watchVars,
       closeVars, history, vars
  <1>15. ASSUME NEW c \in Callers, CloseAwait(c) PROVE CloseInv'
    BY <1>15, WatcherAssumption DEF TypeOK, PhaseInv, WatchInv, CloseInv, PastLock, Scanning,
       Alive, Ended, Callers, CloseAwait, kernel, fds, guarded, ends, runVars, watchVars,
       closeVars, history, vars
  <1>16. ASSUME NEW c \in Callers, CloseResult(c) PROVE CloseInv'
    BY <1>16, WatcherAssumption DEF TypeOK, PhaseInv, WatchInv, CloseInv, PastLock, Scanning,
       Alive, Ended, Callers, CloseResult, kernel, fds, guarded, ends, runVars, watchVars,
       closeVars, history, vars
  <1>17. ASSUME WatchOpen PROVE CloseInv'
    BY <1>17, WatcherAssumption DEF TypeOK, PhaseInv, WatchInv, CloseInv, PastLock, Scanning,
       Alive, Ended, Callers, WatchOpen, kernel, fds, guarded, ends, runVars, watchVars,
       closeVars, history, vars
  <1>18. ASSUME WatchList PROVE CloseInv'
    BY <1>18, WatcherAssumption DEF TypeOK, PhaseInv, WatchInv, CloseInv, PastLock, Scanning,
       Alive, Ended, Callers, WatchList, kernel, fds, guarded, ends, runVars, watchVars,
       closeVars, history, vars
  <1>19. ASSUME WatchScanned PROVE CloseInv'
    BY <1>19, WatcherAssumption DEF TypeOK, PhaseInv, WatchInv, CloseInv, PastLock, Scanning,
       Alive, Ended, Callers, WatchScanned, kernel, fds, guarded, ends, runVars, watchVars,
       closeVars, history, vars
  <1>20. ASSUME WatchPublishStartup PROVE CloseInv'
    BY <1>20, WatcherAssumption DEF TypeOK, PhaseInv, WatchInv, CloseInv, PastLock, Scanning,
       Alive, Ended, Callers, WatchPublishStartup, kernel, fds, guarded, ends, runVars,
       watchVars, closeVars, history, vars
  <1>21. ASSUME WatchCheckErr PROVE CloseInv'
    BY <1>21, WatcherAssumption DEF TypeOK, PhaseInv, WatchInv, CloseInv, PastLock, Scanning,
       Alive, Ended, Callers, WatchCheckErr, kernel, fds, guarded, ends, runVars, watchVars,
       closeVars, history, vars
  <1>22. ASSUME WatchFailed PROVE CloseInv'
    BY <1>22, WatcherAssumption DEF TypeOK, PhaseInv, WatchInv, CloseInv, PastLock, Scanning,
       Alive, Ended, Callers, WatchFailed, kernel, fds, guarded, ends, runVars, watchVars,
       closeVars, history, vars
  <1>23. ASSUME NEW n \in Names, WatchLoadUsage(n) PROVE CloseInv'
    BY <1>23, WatcherAssumption DEF TypeOK, PhaseInv, WatchInv, CloseInv, PastLock, Scanning,
       Alive, Ended, Callers, WatchLoadUsage, kernel, fds, guarded, ends, runVars, watchVars,
       closeVars, history, vars
  <1>24. ASSUME NEW n \in Names, WatchLoadIds(n) PROVE CloseInv'
    BY <1>24, WatcherAssumption DEF TypeOK, PhaseInv, WatchInv, CloseInv, PastLock, Scanning,
       Alive, Ended, Callers, WatchLoadIds, kernel, fds, guarded, ends, runVars, watchVars,
       closeVars, history, vars
  <1>25. ASSUME UNCHANGED vars PROVE CloseInv'
    BY <1>25, WatcherAssumption DEF TypeOK, PhaseInv, WatchInv, CloseInv, PastLock, Scanning,
       Alive, Ended, Callers, kernel, fds, guarded, ends, runVars, watchVars, closeVars,
       history, vars
  <1> QED
    BY <1>1, <1>2, <1>3, <1>4, <1>5, <1>6, <1>7, <1>8, <1>9, <1>10, <1>11, <1>12, <1>13, <1>14,
       <1>15, <1>16, <1>17, <1>18, <1>19, <1>20, <1>21, <1>22, <1>23, <1>24, <1>25
       DEF Next, Kernel, Run, OnUevent, Watch, CloseBody

-----------------------------------------------------------------------------
(* Messages                                                                *)

\* A staged change is the newest of its name when it is staged.
LEMMA StagedStep == IInv /\ [Next]_vars => StagedInv'
  <1> SUFFICES ASSUME TypeOK, PhaseInv, StagedInv, [Next]_vars PROVE StagedInv'
    BY DEF IInv
  <1>1. ASSUME NEW n \in Names, Appear(n) \/ Vanish(n) \/ Announce(n) PROVE StagedInv'
    BY <1>1 DEF StagedInv, Appear, Vanish, Announce, kernel, fds, guarded, ends, runVars,
       watchVars, closeVars, history, vars
  <1>2. ASSUME OtherMessage PROVE StagedInv'
    BY <1>2 DEF StagedInv, OtherMessage, kernel, fds, guarded, ends, runVars, watchVars,
       closeVars, history, vars
  <1>3. ASSUME NEW n \in Names, RunHandle(n) PROVE StagedInv'
    <2>1. Disconnected(n, IF devices[n] = Absent THEN PathOnly ELSE devices[n]) \in Event
      BY Metadata, EventForms DEF TypeOK, MaybeInfos
    <2>2. CASE UNCHANGED startupEvents
      BY <2>2 DEF StagedInv
    <2>3. ASSUME NEW e \in Event, startupEvents' = Append(startupEvents, e) PROVE StagedInv'
      BY <2>3, StageOne
    <2> QED
      BY <1>3, <2>1, <2>2, <2>3, HandleCases, PublishOrStageCases
  <1>4. ASSUME RunPublish PROVE StagedInv'
    <2>1. \A n \in Names : Connected(n, info) \in Event
      BY EventForms DEF TypeOK
    <2>2. CASE UNCHANGED startupEvents
      BY <2>2 DEF StagedInv
    <2>3. ASSUME NEW e \in Event, startupEvents' = Append(startupEvents, e) PROVE StagedInv'
      BY <2>3, StageOne
    <2> QED
      BY <1>4, <2>1, <2>2, <2>3, PublishCases, PublishOrStageCases
  <1>5. ASSUME RunCheck \/ RunPoll \/ RunDrain \/ RunReceive \/ RunLoadUsage \/ RunLoadIds \/
                RunStop \/ RunCloseQueue \/ RunCloseStopped \/ RunReadFails
         PROVE  StagedInv'
    BY <1>5 DEF StagedInv, RunCheck, RunPoll, RunDrain, RunReceive, RunLoadUsage, RunLoadIds,
       RunStop, RunCloseQueue, RunCloseStopped, RunReadFails, Fail, kernel, fds, guarded, ends,
       runVars, watchVars, closeVars, history, vars
  <1>6. ASSUME WatchOpen \/ WatchList \/ WatchScanned \/ WatchCheckErr \/ WatchFailed
         PROVE  StagedInv'
    BY <1>6 DEF StagedInv, WatchOpen, WatchList, WatchScanned, WatchCheckErr, WatchFailed,
       kernel, fds, guarded, ends, runVars, watchVars, closeVars, history, vars
  <1>7. ASSUME NEW n \in Names, WatchLoadUsage(n) \/ WatchLoadIds(n) PROVE StagedInv'
    BY <1>7 DEF StagedInv, WatchLoadUsage, WatchLoadIds, kernel, fds, guarded, ends, runVars,
       watchVars, closeVars, history, vars
  <1>8. ASSUME WatchPublishStartup PROVE StagedInv'
    <2>1. CASE UNCHANGED startupEvents
      BY <2>1 DEF StagedInv
    <2>2. CASE startupEvents' = <<>>
      BY <2>2 DEF StagedInv, Hits
    <2> QED
      BY <1>8, <2>1, <2>2 DEF WatchPublishStartup, guarded
  <1>9. ASSUME NEW c \in Callers, CloseCall(c) \/ CloseEnter(c) \/ CloseLock(c) \/
                CloseAwait(c) \/ CloseResult(c)
         PROVE  StagedInv'
    BY <1>9 DEF StagedInv, CloseCall, CloseEnter, CloseLock, CloseAwait, CloseResult, kernel,
       fds, guarded, ends, runVars, watchVars, closeVars, history, vars
  <1>10. ASSUME UNCHANGED vars PROVE StagedInv'
    BY <1>10 DEF StagedInv, kernel, fds, guarded, ends, runVars, watchVars, closeVars, history,
       vars
  <1> QED
    BY <1>1, <1>2, <1>3, <1>4, <1>5, <1>6, <1>7, <1>8, <1>9, <1>10
       DEF Next, Kernel, Run, OnUevent, Watch, CloseBody

\* What is on its way to onUevent tells what the kernel has announced.
LEMMA MessagesStep == IInv /\ [Next]_vars => MessagesInv'
  <1> SUFFICES ASSUME TypeOK, PhaseInv, MessagesInv, [Next]_vars PROVE MessagesInv'
    BY DEF IInv
  <1>1. ASSUME NEW n \in Names, Appear(n) \/ Vanish(n) PROVE MessagesInv'
    <2>1. /\ UNCHANGED <<sock, cur>> /\ (Listening' => Listening)
          /\ \A q \in Names : There(q)' = There(q)
      BY <1>1 DEF TypeOK, Appear, Vanish, There, Listening, fds, guarded, runVars
    <2> QED
      BY <2>1 DEF MessagesInv
  <1>2. ASSUME NEW n \in Names, Announce(n) PROVE MessagesInv'
    <2> SUFFICES ASSUME Listening' PROVE MessagesInv'
      BY DEF MessagesInv
    <2>1. UNCHANGED <<cur, fdsOpen, closed>> /\ fdsOpen /\ ~closed /\ ~overrun'
      BY <1>2 DEF Announce, Listening, guarded, runVars
    <2>2. PICK m \in {Add(n), Remove(n)} :
               /\ Deposit(m) /\ (m = Add(n) <=> There(n)')
               /\ \A q \in Names \ {n} : There(q)' = There(q)
      BY <1>2, AnnounceCases, MessageForms DEF There
    <2>3. m \in Message
      BY MessageForms
    <2>4. Listening /\ sock' = Append(sock, m)
      BY <2>1, <2>2, <2>3, DepositCases DEF Listening
    <2>5. \A x : In(sock', x) <=> In(sock, x) \/ x = m
      BY <2>3, <2>4, InAppend DEF TypeOK
    <2>6. ASSUME NEW q \in Names \ {n}
          PROVE  /\ Tells(sock', q, There(q)')
                 /\ cur' = Add(q) /\ ~In(sock', Remove(q)) => There(q)'
                 /\ cur' = Remove(q) /\ ~In(sock', Add(q)) => ~There(q)'
      <3>1. m # Add(q) /\ m # Remove(q)
        BY MessageForms
      <3>2. Tells(sock, q, There(q)) /\ There(q) \in BOOLEAN
        BY <2>4 DEF MessagesInv, There
      <3>3. Tells(sock', q, There(q))
        BY <2>3, <2>4, <3>1, <3>2, TellsOther DEF TypeOK
      <3> QED
        BY <2>1, <2>2, <2>4, <2>5, <3>1, <3>3 DEF MessagesInv
    <2>7. /\ Tells(sock', n, There(n)')
          /\ cur' = Add(n) /\ ~In(sock', Remove(n)) => There(n)'
          /\ cur' = Remove(n) /\ ~In(sock', Add(n)) => ~There(n)'
      <3>1. There(n)' \in BOOLEAN /\ Add(n) # Remove(n)
        BY MessageForms DEF There
      <3>2. CASE m = Add(n)
        <4>1. Tells(sock', n, TRUE)
          BY <2>4, <3>2, TellsLast DEF TypeOK
        <4>2. There(n)' = TRUE
          BY <2>2, <3>1, <3>2
        <4> QED
          BY <2>5, <3>2, <4>1, <4>2
      <3>3. CASE m = Remove(n)
        <4>1. Tells(sock', n, FALSE)
          BY <2>4, <3>3, TellsLast DEF TypeOK
        <4>2. There(n)' = FALSE
          BY <2>2, <3>1, <3>3
        <4> QED
          BY <2>5, <3>3, <4>1, <4>2
      <3> QED
        BY <3>2, <3>3
    <2> QED
      BY <2>6, <2>7 DEF MessagesInv
  <1>3. ASSUME OtherMessage PROVE MessagesInv'
    <2> SUFFICES ASSUME Listening' PROVE MessagesInv'
      BY DEF MessagesInv
    <2> DEFINE m == <<"noise">>
    <2>1. /\ UNCHANGED <<cur, fdsOpen, closed, kstate>> /\ fdsOpen /\ ~closed /\ ~overrun'
          /\ Deposit(m)
      BY <1>3 DEF OtherMessage, Listening, guarded, runVars
    <2>2. m \in Message /\ \A q \in Names : m # Add(q) /\ m # Remove(q)
      BY MessageForms
    <2> HIDE DEF m
    <2>3. Listening /\ sock' = Append(sock, m)
      BY <2>1, <2>2, DepositCases DEF Listening
    <2>4. \A x : In(sock', x) <=> In(sock, x) \/ x = m
      BY <2>2, <2>3, InAppend DEF TypeOK
    <2>5. \A q \in Names : There(q) \in BOOLEAN /\ There(q)' = There(q)
      BY <2>1 DEF There
    <2>6. \A q \in Names : Tells(sock', q, There(q))
      BY <2>2, <2>3, <2>5, TellsOther DEF TypeOK, MessagesInv
    <2> QED
      BY <2>1, <2>2, <2>3, <2>4, <2>5, <2>6 DEF MessagesInv
  <1>4. ASSUME RunReceive PROVE MessagesInv'
    <2>1. UNCHANGED <<fdsOpen, overrun, closed, kstate>> /\ (Listening' => Listening)
      BY <1>4 DEF RunReceive, Listening, guarded, kernel
    <2>2. \A q \in Names : There(q) \in BOOLEAN /\ There(q)' = There(q)
      BY <2>1 DEF There
    <2>3. CASE UNCHANGED <<cur, sock>>
      BY <2>1, <2>2, <2>3 DEF MessagesInv
    <2>4. CASE /\ sock # <<>> /\ sock' = Tail(sock)
               /\ IF Head(sock) = <<"noise">> THEN cur' = <<>> ELSE cur' = Head(sock)
      <3> SUFFICES ASSUME Listening, NEW q \in Names
                   PROVE  /\ Tells(sock', q, There(q)')
                          /\ cur' = Add(q) /\ ~In(sock', Remove(q)) => There(q)'
                          /\ cur' = Remove(q) /\ ~In(sock', Add(q)) => ~There(q)'
        BY <2>1 DEF MessagesInv
      <3>1. Tells(sock, q, There(q))
        BY DEF MessagesInv
      <3>2. /\ Tells(Tail(sock), q, There(q))
            /\ Head(sock) = Add(q) /\ ~In(Tail(sock), Remove(q)) => There(q)
            /\ Head(sock) = Remove(q) /\ ~In(Tail(sock), Add(q)) => ~There(q)
        BY <2>2, <2>4, <3>1, TellsTail DEF TypeOK
      <3>3. <<>> # Add(q) /\ <<>> # Remove(q)
        BY MessageForms
      <3> QED
        BY <2>2, <2>4, <3>2, <3>3
    <2> QED
      BY <1>4, <2>3, <2>4, ReceiveCases
  <1>5. ASSUME NEW n \in Names, RunHandle(n) PROVE MessagesInv'
    <2>1. /\ UNCHANGED <<sock, kstate>> /\ cur' \in {cur, <<>>} /\ (Listening' => Listening)
      BY <1>5 DEF RunHandle, Listening, fds, kernel
    <2>2. \A q \in Names : <<>> # Add(q) /\ <<>> # Remove(q) /\ There(q)' = There(q)
      BY <2>1, MessageForms DEF There
    <2> QED
      BY <2>1, <2>2 DEF MessagesInv
  <1>6. ASSUME RunPublish PROVE MessagesInv'
    <2>1. /\ UNCHANGED <<sock, kstate>> /\ cur' \in {cur, <<>>} /\ (Listening' => Listening)
      BY <1>6 DEF RunPublish, Listening, fds, kernel
    <2>2. \A q \in Names : <<>> # Add(q) /\ <<>> # Remove(q) /\ There(q)' = There(q)
      BY <2>1, MessageForms DEF There
    <2> QED
      BY <2>1, <2>2 DEF MessagesInv
  <1>7. ASSUME RunCheck \/ RunPoll \/ RunDrain \/ RunLoadUsage \/ RunLoadIds \/ RunCloseQueue \/
                RunCloseStopped \/ RunReadFails
         PROVE  MessagesInv'
    <2>1. UNCHANGED <<sock, cur, kstate>> /\ (Listening' => Listening)
      BY <1>7 DEF Listening, RunCheck, RunPoll, RunDrain, RunLoadUsage, RunLoadIds,
         RunCloseQueue, RunCloseStopped, RunReadFails, Fail, kernel, fds, guarded, ends,
         runVars, watchVars, closeVars, history, vars
    <2> QED
      BY <2>1 DEF MessagesInv, There
  <1>8. ASSUME RunStop PROVE MessagesInv'
    <2>1. ~Listening'
      BY <1>8 DEF RunStop, Listening
    <2> QED
      BY <2>1 DEF MessagesInv
  <1>9. ASSUME WatchOpen PROVE MessagesInv'
    <2>1. UNCHANGED <<sock, cur, kstate>> /\ (Listening' => Listening \/ sock = <<>>)
          /\ cur = <<>>
      BY <1>9 DEF WatchOpen, Listening, guarded, kernel, PhaseInv
    <2>2. \A q \in Names : <<>> # Add(q) /\ <<>> # Remove(q)
      BY MessageForms
    <2>3. sock = <<>> => \A q \in Names : Tells(sock', q, There(q)')
      BY <2>1 DEF Tells
    <2>4. \A q \in Names : There(q)' = There(q)
      BY <2>1 DEF There
    <2> QED
      BY <2>1, <2>2, <2>3, <2>4 DEF MessagesInv
  <1>10. ASSUME WatchList \/ WatchScanned \/ WatchPublishStartup \/ WatchCheckErr \/ WatchFailed
         PROVE  MessagesInv'
    <2>1. UNCHANGED <<sock, cur, kstate>> /\ (Listening' => Listening)
      BY <1>10 DEF Listening, WatchList, WatchScanned, WatchPublishStartup, WatchCheckErr,
         WatchFailed, kernel, fds, guarded, ends, runVars, watchVars, closeVars, history, vars
    <2> QED
      BY <2>1 DEF MessagesInv, There
  <1>11. ASSUME NEW n \in Names, WatchLoadUsage(n) \/ WatchLoadIds(n) PROVE MessagesInv'
    <2>1. UNCHANGED <<sock, cur, kstate>> /\ (Listening' => Listening)
      BY <1>11 DEF Listening, WatchLoadUsage, WatchLoadIds, kernel, fds, guarded, ends, runVars,
         watchVars, closeVars, history, vars
    <2> QED
      BY <2>1 DEF MessagesInv, There
  <1>12. ASSUME NEW c \in Callers, CloseCall(c) \/ CloseEnter(c) \/ CloseLock(c) \/
                CloseAwait(c) \/ CloseResult(c)
         PROVE  MessagesInv'
    <2>1. UNCHANGED <<sock, cur, kstate>> /\ (Listening' => Listening)
      BY <1>12 DEF Listening, CloseCall, CloseEnter, CloseLock, CloseAwait, CloseResult, kernel,
         fds, guarded, ends, runVars, watchVars, closeVars, history, vars
    <2> QED
      BY <2>1 DEF MessagesInv, There
  <1>13. ASSUME UNCHANGED vars PROVE MessagesInv'
    <2>1. UNCHANGED <<sock, cur, kstate>> /\ (Listening' => Listening)
      BY <1>13 DEF Listening, kernel, fds, guarded, ends, runVars, watchVars, closeVars,
         history, vars
    <2> QED
      BY <2>1 DEF MessagesInv, There
  <1> QED
    BY <1>1, <1>2, <1>3, <1>4, <1>5, <1>6, <1>7, <1>8, <1>9, <1>10, <1>11, <1>12, <1>13
       DEF Next, Kernel, Run, OnUevent, Watch, CloseBody

-----------------------------------------------------------------------------
(* Metadata                                                                *)

\* What run loads for an add stays current until the device is removed.
LEMMA InfoStep == IInv /\ [Next]_vars => InfoInv'
  <1> SUFFICES ASSUME TypeOK, PhaseInv, MessagesInv, InfoInv, [Next]_vars PROVE InfoInv'
    BY DEF IInv
  <1>1. ASSUME NEW n \in Names, Appear(n) PROVE InfoInv'
    <2>1. /\ UNCHANGED <<sock, cur, info, runPc>> /\ (Listening' => Listening)
          /\ kstate[n] = "off" /\ gen' = [gen EXCEPT ![n] = gen[n] + 1]
      BY <1>1 DEF Appear, Listening, fds, guarded, runVars
    <2>2. Listening => ~(cur = Add(n) /\ ~In(sock, Remove(n)))
      BY <2>1 DEF MessagesInv, There
    <2>3. \A q \in Names : q # n => gen'[q] = gen[q]
      BY <2>1 DEF TypeOK
    <2> QED
      BY <2>1, <2>2, <2>3 DEF InfoInv, Current
  <1>2. ASSUME NEW n \in Names, Vanish(n) PROVE InfoInv'
    <2>1. UNCHANGED <<sock, cur, info, runPc, gen>> /\ (Listening' => Listening)
      BY <1>2 DEF Vanish, Listening, fds, guarded, runVars
    <2> QED
      BY <2>1 DEF InfoInv, Current
  <1>3. ASSUME NEW n \in Names, Announce(n) PROVE InfoInv'
    <2> SUFFICES ASSUME Listening', runPc' \in {"loadIds", "publish"}, NEW q \in Names,
                        cur' = Add(q), ~In(sock', Remove(q))
                 PROVE  Current(q, info)'
      BY DEF InfoInv
    <2>1. UNCHANGED <<info, runPc>>
      BY <1>3 DEF Announce, runVars
    <2>2. Listening /\ UNCHANGED <<cur, gen>> /\ (RemovalComes(q) => RemovalComes(q)')
      BY <1>3, Announced
    <2>3. ~In(sock, Remove(q))
      BY <2>2, MessageForms DEF RemovalComes
    <2> QED
      BY <2>1, <2>2, <2>3 DEF InfoInv, Current
  <1>4. ASSUME OtherMessage PROVE InfoInv'
    <2> SUFFICES ASSUME Listening', runPc' \in {"loadIds", "publish"}, NEW q \in Names,
                        cur' = Add(q), ~In(sock', Remove(q))
                 PROVE  Current(q, info)'
      BY DEF InfoInv
    <2>1. UNCHANGED <<info, runPc>>
      BY <1>4 DEF OtherMessage, runVars
    <2>2. Listening /\ UNCHANGED <<cur, gen>> /\ (RemovalComes(q) => RemovalComes(q)')
      BY <1>4, OtherHeard
    <2>3. ~In(sock, Remove(q))
      BY <2>2, MessageForms DEF RemovalComes
    <2> QED
      BY <2>1, <2>2, <2>3 DEF InfoInv, Current
  <1>5. ASSUME RunCheck \/ RunPoll \/ RunDrain \/ RunReceive \/ RunPublish \/ RunStop \/
                RunCloseQueue \/ RunCloseStopped \/ RunReadFails
         PROVE  InfoInv'
    <2>1. runPc' \notin {"loadIds", "publish"}
      BY <1>5 DEF RunCheck, RunPoll, RunDrain, RunReceive, RunPublish, RunStop, RunCloseQueue,
         RunCloseStopped, RunReadFails, Fail
    <2> QED
      BY <2>1 DEF InfoInv
  <1>6. ASSUME NEW n \in Names, RunHandle(n) PROVE InfoInv'
    <2>1. runPc' \notin {"loadIds", "publish"}
      BY <1>6 DEF RunHandle
    <2> QED
      BY <2>1 DEF InfoInv
  <1>7. ASSUME RunLoadUsage PROVE InfoInv'
    <2>1. PICK q \in Names : cur[2] = q /\ (cur = Add(q) \/ cur = Remove(q))
      BY <1>7, InHand DEF RunLoadUsage, PhaseInv
    <2>2. UNCHANGED <<sock, cur, gen>> /\ \E u \in Reads(q) : info' = <<u, 0>>
      BY <1>7, <2>1 DEF RunLoadUsage, fds, kernel
    <2>3. \A m \in Names : cur = Add(m) => m = q
      BY <2>1, MessageForms
    <2>4. Current(q, info)'
      BY <2>2, ReadsForm, Metadata DEF Current
    <2> QED
      BY <2>2, <2>3, <2>4 DEF InfoInv
  <1>8. ASSUME RunLoadIds PROVE InfoInv'
    <2>1. PICK q \in Names : cur[2] = q /\ (cur = Add(q) \/ cur = Remove(q))
      BY <1>8, InHand DEF RunLoadIds, PhaseInv
    <2>2. /\ UNCHANGED <<sock, cur, gen>> /\ (Listening' => Listening) /\ runPc = "loadIds"
          /\ \E i \in Reads(q) : info' = <<info[1], i>>
      BY <1>8, <2>1 DEF RunLoadIds, fds, kernel, guarded, Listening
    <2>3. \A m \in Names : cur = Add(m) => m = q
      BY <2>1, MessageForms
    <2>4. info \in Infos /\ info[1] \in 0..MaxGen /\ info # Absent
      BY Metadata DEF TypeOK
    <2>5. info'[1] = info[1] /\ info'[2] \in {0, gen[q]}
      BY <2>2, <2>4, ReadsForm, Metadata
    <2>6. Current(q, info) => Current(q, info)'
      BY <2>2, <2>4, <2>5 DEF Current
    <2> QED
      BY <2>2, <2>3, <2>6 DEF InfoInv
  <1>9. ASSUME WatchOpen PROVE InfoInv'
    <2>1. /\ runPc' = "check" \/ (UNCHANGED runPc /\ runPc = "none")
      BY <1>9 DEF WatchOpen, PhaseInv
    <2> QED
      BY <2>1 DEF InfoInv
  <1>10. ASSUME WatchList \/ WatchScanned \/ WatchPublishStartup \/ WatchCheckErr \/ WatchFailed
         PROVE  InfoInv'
    <2>1. UNCHANGED <<sock, cur, info, runPc, gen>> /\ (Listening' => Listening)
      BY <1>10 DEF Listening, WatchList, WatchScanned, WatchPublishStartup, WatchCheckErr,
         WatchFailed, kernel, fds, guarded, ends, runVars, watchVars, closeVars, history, vars
    <2> QED
      BY <2>1 DEF InfoInv, Current
  <1>11. ASSUME NEW n \in Names, WatchLoadUsage(n) \/ WatchLoadIds(n) PROVE InfoInv'
    <2>1. UNCHANGED <<sock, cur, info, runPc, gen>> /\ (Listening' => Listening)
      BY <1>11 DEF Listening, WatchLoadUsage, WatchLoadIds, kernel, fds, guarded, ends, runVars,
         watchVars, closeVars, history, vars
    <2> QED
      BY <2>1 DEF InfoInv, Current
  <1>12. ASSUME NEW c \in Callers, CloseCall(c) \/ CloseEnter(c) \/ CloseLock(c) \/
                CloseAwait(c) \/ CloseResult(c)
         PROVE  InfoInv'
    <2>1. UNCHANGED <<sock, cur, info, runPc, gen>> /\ (Listening' => Listening)
      BY <1>12 DEF Listening, CloseCall, CloseEnter, CloseLock, CloseAwait, CloseResult, kernel,
         fds, guarded, ends, runVars, watchVars, closeVars, history, vars
    <2> QED
      BY <2>1 DEF InfoInv, Current
  <1>13. ASSUME UNCHANGED vars PROVE InfoInv'
    <2>1. UNCHANGED <<sock, cur, info, runPc, gen>> /\ (Listening' => Listening)
      BY <1>13 DEF Listening, kernel, fds, guarded, ends, runVars, watchVars, closeVars,
         history, vars
    <2> QED
      BY <2>1 DEF InfoInv, Current
  <1> QED
    BY <1>1, <1>2, <1>3, <1>4, <1>5, <1>6, <1>7, <1>8, <1>9, <1>10, <1>11, <1>12, <1>13
       DEF Next, Kernel, Run, OnUevent, Watch, CloseBody

\* What would be published fits while Watch scans.
LEMMA StartStep == IInv /\ [Next]_vars => StartInv'
  <1> SUFFICES ASSUME TypeOK, PhaseInv, WatchInv, MessagesInv, InfoInv, StagedInv, StartInv,
                      [Next]_vars
               PROVE  StartInv'
    BY DEF IInv
  <1>1. ASSUME NEW n \in Names, Appear(n) \/ Vanish(n) \/ Announce(n) PROVE StartInv'
    <2> SUFFICES ASSUME Listening', watchPc' \in Scanning, NEW q \in Names PROVE Starts(q)'
      BY DEF StartInv

    <2>1. UNCHANGED <<watchPc, todo, found, startupEvents>>
      BY <1>1 DEF Appear, Vanish, Announce, watchVars, guarded
    <2>2. /\ Ahead(q)' <=> Ahead(q)
          /\ Pending(q)' = Pending(q)
      BY <2>1 DEF Ahead, Pending, Hits, Reconcile, Newest
    <2>3. /\ Listening /\ (RemovalComes(q) => RemovalComes(q)')
          /\ q \in todo => kstate[q] = "off" \/ kstate'[q] # "off" \/ RemovalComes(q)'
      <3>1. CASE Appear(n) \/ Vanish(n)
        <4>1. UNCHANGED <<sock, cur, fdsOpen, overrun, closed>>
          BY <3>1 DEF Appear, Vanish, fds, guarded, runVars
        <4>2. kstate'[q] = "off" => kstate[q] = "off"
          BY <3>1 DEF Appear, Vanish, TypeOK
        <4> QED
          BY <4>1, <4>2 DEF Listening, RemovalComes
      <3>2. CASE Announce(n)
        BY <3>2, Announced
      <3> QED
        BY <1>1, <3>1, <3>2
    <2>4. Starts(q)
      BY <2>1, <2>3 DEF StartInv
    <2>5. CASE ~Ahead(q)
      <3>1. Fits(q, Pending(q))
        BY <2>4, <2>5 DEF Starts
      <3> DEFINE i == Pending(q)
      <3>2. \A j : Fits(q, j) => Fits(q, j)'
        BY <1>1, FitsKernel
      <3> QED
        BY <2>2, <2>5, <3>1, <3>2 DEF Starts, Fits, Current
    <2>6. CASE Ahead(q)
      <3>1. ~RemovalComes(q) => Current(q, found[q]) /\ (q \in todo => kstate[q] # "off")
        BY <2>4, <2>6 DEF Starts
      <3>2. gen'[q] = gen[q] \/ kstate[q] = "off"
        BY <1>1 DEF Appear, Vanish, Announce, TypeOK
      <3>3. q \notin todo => found[q] = Absent
        BY <2>6 DEF Ahead, WatchInv
      <3> QED
        BY <2>1, <2>2, <2>3, <2>6, <3>1, <3>2, <3>3 DEF Starts, Current
    <2> QED
      BY <2>5, <2>6
  <1>2. ASSUME OtherMessage PROVE StartInv'
    <2> SUFFICES ASSUME Listening', watchPc' \in Scanning, NEW q \in Names PROVE Starts(q)'
      BY DEF StartInv

    <2>1. UNCHANGED <<watchPc, todo, found, startupEvents>>
      BY <1>2 DEF OtherMessage, watchVars, guarded
    <2>2. /\ Ahead(q)' <=> Ahead(q)
          /\ Pending(q)' = Pending(q)
      BY <2>1 DEF Ahead, Pending, Hits, Reconcile, Newest
    <2>3. /\ Listening /\ UNCHANGED <<gen, kstate>>
          /\ RemovalComes(q) => RemovalComes(q)'
          /\ Unheard(q) => Unheard(q)'
      BY <1>2, OtherHeard
    <2>4. Starts(q)
      BY <2>1, <2>3 DEF StartInv
    <2> QED
      BY <2>1, <2>2, <2>3, <2>4 DEF Starts, Fits, Current
  <1>3. ASSUME RunReceive PROVE StartInv'
    <2> SUFFICES ASSUME Listening', watchPc' \in Scanning, NEW q \in Names PROVE Starts(q)'
      BY DEF StartInv

    <2>1. UNCHANGED <<watchPc, todo, found, startupEvents>>
      BY <1>3 DEF RunReceive, watchVars, guarded
    <2>2. /\ Ahead(q)' <=> Ahead(q)
          /\ Pending(q)' = Pending(q)
      BY <2>1 DEF Ahead, Pending, Hits, Reconcile, Newest
    <2>3. /\ Listening /\ UNCHANGED <<gen, kstate>>
          /\ RemovalComes(q) => RemovalComes(q)'
          /\ Unheard(q) => Unheard(q)'
      BY <1>3, ReceiveHeard DEF RunReceive, kernel, guarded, Listening
    <2>4. Starts(q)
      BY <2>1, <2>3 DEF StartInv
    <2> QED
      BY <2>1, <2>2, <2>3, <2>4 DEF Starts, Fits, Current
  <1>4. ASSUME NEW n \in Names, RunHandle(n) PROVE StartInv'
    <2> SUFFICES ASSUME Listening', watchPc' \in Scanning, NEW q \in Names PROVE Starts(q)'
      BY DEF StartInv

    <2>1. UNCHANGED <<watchPc, todo, found, kstate, gen, sock>>
      BY <1>4 DEF RunHandle, watchVars, kernel, fds
    <2>2. Listening /\ initializing /\ ~closed
      BY <1>4, <2>1 DEF RunHandle, Listening, fds, WatchInv

    <2>3. CASE UNCHANGED <<cur, startupEvents>>
      <3>1. /\ Ahead(q)' <=> Ahead(q)
            /\ Pending(q)' = Pending(q)
        BY <2>1, <2>3 DEF Ahead, Pending, Hits, Reconcile, Newest
      <3>2. (RemovalComes(q)' <=> RemovalComes(q)) /\ (Unheard(q)' <=> Unheard(q))
        BY <2>1, <2>3 DEF RemovalComes, Unheard
      <3>3. Starts(q)
        BY <2>1, <2>2 DEF StartInv
      <3> QED
        BY <2>1, <3>1, <3>2, <3>3 DEF Starts, Fits, Current
    <2> DEFINE e == Disconnected(n, IF devices[n] = Absent THEN PathOnly ELSE devices[n])
    <2>4. e \in Event /\ e[2] = n /\ e[1] = "disconnected"
      BY Metadata, EventForms DEF TypeOK, MaybeInfos
    <2> HIDE DEF e
    <2>5. CASE cur = Remove(n) /\ cur' = <<>> /\ PublishOrStage(e)

      <3>1. startupEvents' = Append(startupEvents, e)
        BY <2>2, <2>4, <2>5, PublishOrStageCases
      <3>2. /\ Hits(startupEvents', n) # {} /\ Newest(startupEvents', n) = e
            /\ \A p \in Names \ {n} :
                 /\ Hits(startupEvents', p) = Hits(startupEvents, p)
                 /\ Hits(startupEvents, p) # {} =>
                      Newest(startupEvents', p) = Newest(startupEvents, p)
        BY <2>4, <3>1, StageOne
      <3>3. CASE q # n
        <4>1. (RemovalComes(q)' <=> RemovalComes(q)) /\ (Unheard(q)' <=> Unheard(q))
          BY <2>1, <2>5, <3>3, OthersHeard
        <4>2. Hits(startupEvents', q) = Hits(startupEvents, q)
          BY <3>2, <3>3
        <4>3. /\ Ahead(q)' <=> Ahead(q)
              /\ Pending(q)' = Pending(q)
          <5>1. Pending(q) = IF Hits(startupEvents, q) = {} THEN found[q]
                             ELSE IF Newest(startupEvents, q)[1] = "connected"
                             THEN Newest(startupEvents, q)[3] ELSE Absent
            BY DEF Pending, Reconcile
          <5>2. Pending(q)' = IF Hits(startupEvents', q) = {} THEN found'[q]
                              ELSE IF Newest(startupEvents', q)[1] = "connected"
                              THEN Newest(startupEvents', q)[3] ELSE Absent
            BY DEF Pending, Reconcile
          <5> QED
            BY <2>1, <3>2, <3>3, <4>2, <5>1, <5>2 DEF Ahead
        <4>4. Starts(q)
          BY <2>1, <2>2 DEF StartInv
        <4> QED
          BY <2>1, <4>1, <4>3, <4>4 DEF Starts, Fits, Current

      <3>4. CASE q = n
        <4>1. ~Ahead(q)'
          BY <3>2, <3>4 DEF Ahead
        <4>2. Pending(q)' = Absent
          <5>1. Pending(q)' = IF Hits(startupEvents', q) = {} THEN found'[q]
                              ELSE IF Newest(startupEvents', q)[1] = "connected"
                              THEN Newest(startupEvents', q)[3] ELSE Absent
            BY DEF Pending, Reconcile
          <5> QED
            BY <2>4, <3>2, <3>4, <5>1
        <4>3. Fits(n, Absent)'
          BY <2>1, <2>2, <2>5, FitsRemoved
        <4> QED
          BY <3>4, <4>1, <4>2, <4>3 DEF Starts, Fits, Current
      <3> QED
        BY <3>3, <3>4
    <2> QED
      BY <1>4, <2>2, <2>3, <2>5, HandleCases DEF e
  <1>5. ASSUME RunPublish PROVE StartInv'
    <2> SUFFICES ASSUME Listening', watchPc' \in Scanning, NEW q \in Names PROVE Starts(q)'
      BY DEF StartInv

    <2>1. UNCHANGED <<watchPc, todo, found, kstate, gen, sock>>
      BY <1>5 DEF RunPublish, watchVars, kernel, fds
    <2>2. Listening /\ initializing /\ ~closed
      BY <1>5, <2>1 DEF RunPublish, Listening, fds, WatchInv

    <2>3. PICK n \in Names : cur = Add(n) /\ cur' = <<>> /\ PublishOrStage(Connected(n, info))
      BY <1>5, <2>2, PublishCases
    <2> DEFINE e == Connected(n, info)
    <2>4. e \in Event /\ e[2] = n /\ e[1] = "connected" /\ e[3] = info
      BY EventForms DEF TypeOK
    <2>5. PublishOrStage(e)
      BY <2>3
    <2> HIDE DEF e
    <2>6. Starts(q)'

      <3>1. startupEvents' = Append(startupEvents, e)
        BY <2>2, <2>4, <2>5, PublishOrStageCases
      <3>2. /\ Hits(startupEvents', n) # {} /\ Newest(startupEvents', n) = e
            /\ \A p \in Names \ {n} :
                 /\ Hits(startupEvents', p) = Hits(startupEvents, p)
                 /\ Hits(startupEvents, p) # {} =>
                      Newest(startupEvents', p) = Newest(startupEvents, p)
        BY <2>4, <3>1, StageOne
      <3>3. CASE q # n
        <4>1. (RemovalComes(q)' <=> RemovalComes(q)) /\ (Unheard(q)' <=> Unheard(q))
          BY <2>1, <2>3, <3>3, OthersHeard
        <4>2. Hits(startupEvents', q) = Hits(startupEvents, q)
          BY <3>2, <3>3
        <4>3. /\ Ahead(q)' <=> Ahead(q)
              /\ Pending(q)' = Pending(q)
          <5>1. Pending(q) = IF Hits(startupEvents, q) = {} THEN found[q]
                             ELSE IF Newest(startupEvents, q)[1] = "connected"
                             THEN Newest(startupEvents, q)[3] ELSE Absent
            BY DEF Pending, Reconcile
          <5>2. Pending(q)' = IF Hits(startupEvents', q) = {} THEN found'[q]
                              ELSE IF Newest(startupEvents', q)[1] = "connected"
                              THEN Newest(startupEvents', q)[3] ELSE Absent
            BY DEF Pending, Reconcile
          <5> QED
            BY <2>1, <3>2, <3>3, <4>2, <5>1, <5>2 DEF Ahead
        <4>4. Starts(q)
          BY <2>1, <2>2 DEF StartInv
        <4> QED
          BY <2>1, <4>1, <4>3, <4>4 DEF Starts, Fits, Current

      <3>4. CASE q = n
        <4>1. ~Ahead(q)'
          BY <3>2, <3>4 DEF Ahead
        <4>2. Pending(q)' = info
          <5>1. Pending(q)' = IF Hits(startupEvents', q) = {} THEN found'[q]
                              ELSE IF Newest(startupEvents', q)[1] = "connected"
                              THEN Newest(startupEvents', q)[3] ELSE Absent
            BY DEF Pending, Reconcile
          <5> QED
            BY <2>4, <3>2, <3>4, <5>1
        <4>3. ~In(sock, Remove(n)) => Current(n, info)
          BY <1>5, <2>2, <2>3 DEF InfoInv, RunPublish
        <4>4. info # Absent
          BY Metadata DEF TypeOK
        <4>5. \A j : j = info => Fits(n, j)'
          BY <2>1, <2>2, <2>3, <4>3, <4>4, FitsAdded
        <4> QED
          BY <3>4, <4>1, <4>2, <4>5 DEF Starts, Fits, Current
      <3> QED
        BY <3>3, <3>4
    <2> QED
      BY <2>6
  <1>6. ASSUME RunCheck \/ RunPoll \/ RunDrain \/ RunLoadUsage \/ RunLoadIds \/ RunCloseQueue \/
                RunCloseStopped \/ RunReadFails
         PROVE  StartInv'
    <2>1. /\ UNCHANGED <<kstate, gen, sock, cur, watchPc, todo, found, startupEvents>>
          /\ Listening' => Listening
      BY <1>6 DEF Listening, RunCheck, RunPoll, RunDrain, RunLoadUsage, RunLoadIds,
         RunCloseQueue, RunCloseStopped, RunReadFails, Fail, kernel, fds, guarded, ends,
         runVars, watchVars, closeVars, history, vars
    <2> QED
      BY <2>1 DEF StartInv, Starts, Ahead, Pending, Reconcile, Hits, Newest, Fits, Current,
         RemovalComes, Unheard
  <1>7. ASSUME RunStop PROVE StartInv'
    <2>1. ~Listening'
      BY <1>7 DEF RunStop, Listening
    <2> QED
      BY <2>1 DEF StartInv
  <1>8. ASSUME WatchOpen PROVE StartInv'
    <2> SUFFICES ASSUME Listening', watchPc' \in Scanning, NEW q \in Names PROVE Starts(q)'
      BY DEF StartInv

    <2>1. /\ watchPc = "open" /\ watchPc' = "list" /\ UNCHANGED <<todo, found, startupEvents>>
      BY <1>8 DEF WatchOpen, guarded, Scanning
    <2>2. startupEvents' = <<>> /\ todo' = {} /\ found'[q] = Absent
      BY <2>1 DEF WatchInv
    <2>3. Ahead(q)'
      BY <2>1, <2>2 DEF Ahead, Hits
    <2> QED
      BY <2>2, <2>3 DEF Starts, Current
  <1>9. ASSUME WatchList PROVE StartInv'
    <2> SUFFICES ASSUME Listening', watchPc' \in Scanning, NEW q \in Names PROVE Starts(q)'
      BY DEF StartInv

    <2>1. /\ watchPc = "list" /\ watchPc' = "scan" /\ todo' = {p \in Names : Attached(p)}
          /\ UNCHANGED <<kstate, gen, sock, cur, found, startupEvents>> /\ Listening
      BY <1>9 DEF WatchList, kernel, fds, guarded, runVars, Scanning, Listening
    <2>2. found[q] = Absent /\ Starts(q)
      BY <2>1 DEF WatchInv, StartInv, Scanning
    <2>3. (RemovalComes(q)' <=> RemovalComes(q)) /\ (Unheard(q)' <=> Unheard(q))
      BY <2>1 DEF RemovalComes, Unheard
    <2>4. Pending(q)' = Pending(q) /\ Hits(startupEvents', q) = Hits(startupEvents, q)
      BY <2>1 DEF Pending, Hits, Reconcile, Newest
    <2>5. CASE Hits(startupEvents, q) # {}
      <3>1. ~Ahead(q) /\ ~Ahead(q)'
        BY <2>4, <2>5 DEF Ahead
      <3> QED
        BY <2>1, <2>2, <2>3, <2>4, <3>1 DEF Starts, Fits, Current
    <2>6. CASE Hits(startupEvents, q) = {} /\ Attached(q)
      <3>1. Ahead(q)' /\ kstate'[q] # "off"
        BY <2>1, <2>4, <2>6 DEF Ahead, Attached
      <3> QED
        BY <2>1, <2>2, <3>1 DEF Starts, Current
    <2>7. CASE Hits(startupEvents, q) = {} /\ ~Attached(q)
      <3>1. ~Ahead(q)' /\ kstate'[q] # "on"
        BY <2>1, <2>7 DEF Ahead, Attached
      <3>2. Pending(q)' = Absent
        BY <2>2, <2>4, <2>7, PendingForm
      <3> QED
        BY <3>1, <3>2 DEF Starts, Fits, Current
    <2> QED
      BY <2>5, <2>6, <2>7
  <1>10. ASSUME WatchScanned PROVE StartInv'
    <2> SUFFICES ASSUME Listening', watchPc' \in Scanning, NEW q \in Names PROVE Starts(q)'
      BY DEF StartInv

    <2>1. /\ UNCHANGED <<kstate, gen, sock, cur, todo, found, startupEvents>> /\ Listening
          /\ watchPc = "scan" /\ watchPc' = "publish"
      BY <1>10 DEF WatchScanned, kernel, fds, guarded, runVars, Listening
    <2>2. (RemovalComes(q)' <=> RemovalComes(q)) /\ (Unheard(q)' <=> Unheard(q))
      BY <2>1 DEF RemovalComes, Unheard
    <2>3. /\ Ahead(q)' <=> Ahead(q)
          /\ Pending(q)' = Pending(q)
      BY <2>1 DEF Ahead, Pending, Hits, Reconcile, Newest
    <2>4. Starts(q)
      BY <2>1 DEF StartInv, Scanning
    <2> QED
      BY <2>1, <2>2, <2>3, <2>4 DEF Starts, Fits, Current
  <1>11. ASSUME NEW n \in Names, WatchLoadUsage(n) PROVE StartInv'
    <2> SUFFICES ASSUME Listening', watchPc' \in Scanning, NEW q \in Names PROVE Starts(q)'
      BY DEF StartInv

    <2>1. /\ UNCHANGED <<kstate, gen, sock, cur, startupEvents>> /\ Listening
          /\ watchPc \in Scanning \ {"list"} /\ watchPc' \in Scanning \ {"list"} /\ n \in todo
      BY <1>11 DEF WatchLoadUsage, kernel, fds, guarded, runVars, Listening, Scanning
    <2>2. PICK u \in Reads(n) : /\ found' = [found EXCEPT ![n] = <<u, 0>>]
                                /\ todo' = todo \ {n} \/ todo' = {n} \union todo
      BY <1>11 DEF WatchLoadUsage
    <2>3. (RemovalComes(q)' <=> RemovalComes(q)) /\ (Unheard(q)' <=> Unheard(q))
      BY <2>1 DEF RemovalComes, Unheard
    <2>4. Starts(q) /\ Starts(n)
      BY <2>1 DEF StartInv, Scanning
    <2>5. /\ Hits(startupEvents', q) = Hits(startupEvents, q)
          /\ Newest(startupEvents', q) = Newest(startupEvents, q)
      BY <2>1 DEF Hits, Newest
    <2>6. CASE Hits(startupEvents, q) # {} \/ q # n
      <3>1. /\ Ahead(q)' <=> Ahead(q)
            /\ Pending(q)' = Pending(q)
        <4>1. q # n => found'[q] = found[q]
          BY <2>2 DEF TypeOK
        <4>2. Pending(q)' = IF Hits(startupEvents', q) = {} THEN found'[q]
                            ELSE IF Newest(startupEvents', q)[1] = "connected"
                            THEN Newest(startupEvents', q)[3] ELSE Absent
          BY DEF Pending, Reconcile
        <4> QED
          BY <2>1, <2>2, <2>5, <2>6, <4>1, <4>2, PendingForm DEF Ahead
      <3>2. q = n \/ found'[q] = found[q]
        BY <2>2 DEF TypeOK
      <3>3. q \in todo' => q \in todo
        BY <2>1, <2>2
      <3> QED
        BY <2>1, <2>3, <2>4, <2>6, <3>1, <3>2, <3>3 DEF Starts, Fits, Current, Ahead
    <2>7. CASE Hits(startupEvents, n) = {} /\ q = n
      <3>1. ~RemovalComes(n) => Current(n, found[n]) /\ kstate[n] # "off"
        BY <2>1, <2>4, <2>7 DEF Starts, Ahead

      <3>2. found'[n] = <<u, 0>>
        BY <2>2 DEF TypeOK
      <3>3. found'[n] # Absent /\ found'[n][1] \in {0, gen[n]} /\ found'[n][2] \in {0, gen[n]}
        BY <3>2, ReadsForm, Metadata

      <3>4. Pending(q)' = IF Hits(startupEvents', q) = {} THEN found'[q]
                          ELSE IF Newest(startupEvents', q)[1] = "connected"
                          THEN Newest(startupEvents', q)[3] ELSE Absent
        BY DEF Pending, Reconcile
      <3>5. Pending(q)' = found'[n]
        BY <2>5, <2>7, <3>4
      <3>6. (Ahead(q)' <=> q \in todo') /\ (q \in todo' => q \in todo)
        BY <2>1, <2>2, <2>5, <2>7 DEF Ahead
      <3>7. ~RemovalComes(q)' => Current(q, found[q])'
        BY <2>1, <2>3, <2>7, <3>1, <3>3 DEF Current
      <3>8. ~RemovalComes(q)' => kstate'[q] # "off"
        BY <2>1, <2>3, <2>7, <3>1
      <3>9. ~Unheard(q)' => ~RemovalComes(q)'
        BY DEF Unheard
      <3>10. Fits(q, found[q])'
        BY <2>7, <3>3, <3>7, <3>8, <3>9 DEF Fits
      <3> QED
        BY <2>7, <3>5, <3>7, <3>8, <3>10 DEF Starts, Fits, Current
    <2> QED
      BY <2>6, <2>7
  <1>12. ASSUME NEW n \in Names, WatchLoadIds(n) PROVE StartInv'
    <2> SUFFICES ASSUME Listening', watchPc' \in Scanning, NEW q \in Names PROVE Starts(q)'
      BY DEF StartInv

    <2>1. /\ UNCHANGED <<kstate, gen, sock, cur, startupEvents>> /\ Listening
          /\ watchPc \in Scanning \ {"list"} /\ watchPc' \in Scanning \ {"list"} /\ n \in todo
      BY <1>12 DEF WatchLoadIds, kernel, fds, guarded, runVars, Listening, Scanning
    <2>2. PICK u \in Reads(n) : /\ found' = [found EXCEPT ![n] = <<found[n][1], u>>]
                                /\ todo' = todo \ {n} \/ todo' = {n} \union todo
      BY <1>12 DEF WatchLoadIds
    <2>3. (RemovalComes(q)' <=> RemovalComes(q)) /\ (Unheard(q)' <=> Unheard(q))
      BY <2>1 DEF RemovalComes, Unheard
    <2>4. Starts(q) /\ Starts(n)
      BY <2>1 DEF StartInv, Scanning
    <2>5. /\ Hits(startupEvents', q) = Hits(startupEvents, q)
          /\ Newest(startupEvents', q) = Newest(startupEvents, q)
      BY <2>1 DEF Hits, Newest
    <2>6. CASE Hits(startupEvents, q) # {} \/ q # n
      <3>1. /\ Ahead(q)' <=> Ahead(q)
            /\ Pending(q)' = Pending(q)
        <4>1. q # n => found'[q] = found[q]
          BY <2>2 DEF TypeOK
        <4>2. Pending(q)' = IF Hits(startupEvents', q) = {} THEN found'[q]
                            ELSE IF Newest(startupEvents', q)[1] = "connected"
                            THEN Newest(startupEvents', q)[3] ELSE Absent
          BY DEF Pending, Reconcile
        <4> QED
          BY <2>1, <2>2, <2>5, <2>6, <4>1, <4>2, PendingForm DEF Ahead
      <3>2. q = n \/ found'[q] = found[q]
        BY <2>2 DEF TypeOK
      <3>3. q \in todo' => q \in todo
        BY <2>1, <2>2
      <3> QED
        BY <2>1, <2>3, <2>4, <2>6, <3>1, <3>2, <3>3 DEF Starts, Fits, Current, Ahead
    <2>7. CASE Hits(startupEvents, n) = {} /\ q = n
      <3>1. ~RemovalComes(n) => Current(n, found[n]) /\ kstate[n] # "off"
        BY <2>1, <2>4, <2>7 DEF Starts, Ahead

      <3>2. found'[n] = <<found[n][1], u>> /\ found[n] # Absent
        BY <1>12, <2>2 DEF TypeOK, WatchLoadIds
      <3>a. found[n][1] \in 0..MaxGen
        BY <3>2, Metadata DEF TypeOK, MaybeInfos
      <3>b. found'[n] # Absent /\ found'[n][1] = found[n][1] /\ found'[n][2] \in {0, gen[n]}
        BY <3>2, <3>a, ReadsForm, Metadata
      <3>3. /\ found'[n] # Absent /\ found'[n][2] \in {0, gen[n]}
            /\ ~RemovalComes(n) => found'[n][1] \in {0, gen[n]}
        BY <3>1, <3>2, <3>b DEF Current

      <3>4. Pending(q)' = IF Hits(startupEvents', q) = {} THEN found'[q]
                          ELSE IF Newest(startupEvents', q)[1] = "connected"
                          THEN Newest(startupEvents', q)[3] ELSE Absent
        BY DEF Pending, Reconcile
      <3>5. Pending(q)' = found'[n]
        BY <2>5, <2>7, <3>4
      <3>6. (Ahead(q)' <=> q \in todo') /\ (q \in todo' => q \in todo)
        BY <2>1, <2>2, <2>5, <2>7 DEF Ahead
      <3>7. ~RemovalComes(q)' => Current(q, found[q])'
        BY <2>1, <2>3, <2>7, <3>1, <3>3 DEF Current
      <3>8. ~RemovalComes(q)' => kstate'[q] # "off"
        BY <2>1, <2>3, <2>7, <3>1
      <3>9. ~Unheard(q)' => ~RemovalComes(q)'
        BY DEF Unheard
      <3>10. Fits(q, found[q])'
        BY <2>7, <3>3, <3>7, <3>8, <3>9 DEF Fits
      <3> QED
        BY <2>7, <3>5, <3>7, <3>8, <3>10 DEF Starts, Fits, Current
    <2> QED
      BY <2>6, <2>7
  <1>13. ASSUME WatchPublishStartup \/ WatchCheckErr \/ WatchFailed PROVE StartInv'
    <2>1. watchPc' \notin Scanning
      BY <1>13 DEF WatchPublishStartup, WatchCheckErr, WatchFailed, Scanning
    <2> QED
      BY <2>1 DEF StartInv
  <1>14. ASSUME NEW c \in Callers, CloseCall(c) \/ CloseEnter(c) \/ CloseLock(c) \/
                CloseAwait(c) \/ CloseResult(c)
         PROVE  StartInv'
    <2>1. /\ UNCHANGED <<kstate, gen, sock, cur, watchPc, todo, found, startupEvents>>
          /\ Listening' => Listening
      BY <1>14 DEF Listening, CloseCall, CloseEnter, CloseLock, CloseAwait, CloseResult, kernel,
         fds, guarded, ends, runVars, watchVars, closeVars, history, vars
    <2> QED
      BY <2>1 DEF StartInv, Starts, Ahead, Pending, Reconcile, Hits, Newest, Fits, Current,
         RemovalComes, Unheard
  <1>15. ASSUME UNCHANGED vars PROVE StartInv'
    <2>1. /\ UNCHANGED <<kstate, gen, sock, cur, watchPc, todo, found, startupEvents>>
          /\ Listening' => Listening
      BY <1>15 DEF Listening, kernel, fds, guarded, ends, runVars, watchVars, closeVars,
         history, vars
    <2> QED
      BY <2>1 DEF StartInv, Starts, Ahead, Pending, Reconcile, Hits, Newest, Fits, Current,
         RemovalComes, Unheard
  <1> QED
    BY <1>1, <1>2, <1>3, <1>4, <1>5, <1>6, <1>7, <1>8, <1>9, <1>10, <1>11, <1>12, <1>13, <1>14,
       <1>15 DEF Next, Kernel, Run, OnUevent, Watch, CloseBody

\* What the client has been told fits.
LEMMA LiveStep == IInv /\ [Next]_vars => LiveInv'
  <1> SUFFICES ASSUME TypeOK, PhaseInv, WatchInv, MessagesInv, InfoInv, StartInv, LiveInv,
                      [Next]_vars
               PROVE  LiveInv'
    BY DEF IInv
  <1>1. ASSUME NEW n \in Names, Appear(n) \/ Vanish(n) \/ Announce(n) PROVE LiveInv'
    <2> SUFFICES ASSUME Listening', ~initializing', NEW q \in Names PROVE Fits(q, view[q])'
      BY DEF LiveInv

    <2>1. UNCHANGED <<view, initializing>>
      BY <1>1 DEF Appear, Vanish, Announce, guarded, history
    <2>2. Listening
      <3>1. CASE Appear(n) \/ Vanish(n)
        <4>1. UNCHANGED <<fdsOpen, overrun, closed>>
          BY <3>1 DEF Appear, Vanish, fds, guarded
        <4> QED
          BY <4>1 DEF Listening
      <3>2. CASE Announce(n)
        BY <3>2, Announced
      <3> QED
        BY <1>1, <3>1, <3>2
    <2>3. Fits(q, view[q])
      BY <2>1, <2>2 DEF LiveInv
    <2>4. \A j : Fits(q, j) => Fits(q, j)'
      BY <1>1, FitsKernel
    <2> QED
      BY <2>1, <2>3, <2>4 DEF Fits, Current
  <1>2. ASSUME OtherMessage PROVE LiveInv'
    <2> SUFFICES ASSUME Listening', ~initializing', NEW q \in Names PROVE Fits(q, view[q])'
      BY DEF LiveInv

    <2>1. UNCHANGED <<view, initializing>>
      BY <1>2 DEF OtherMessage, guarded, history
    <2>2. /\ Listening /\ UNCHANGED <<gen, kstate>>
          /\ RemovalComes(q) => RemovalComes(q)'
          /\ Unheard(q) => Unheard(q)'
      BY <1>2, OtherHeard
    <2> QED
      BY <2>1, <2>2 DEF LiveInv, Fits, Current
  <1>3. ASSUME RunReceive PROVE LiveInv'
    <2> SUFFICES ASSUME Listening', ~initializing', NEW q \in Names PROVE Fits(q, view[q])'
      BY DEF LiveInv

    <2>1. UNCHANGED <<view, initializing>>
      BY <1>3 DEF RunReceive, guarded, history
    <2>2. /\ Listening /\ UNCHANGED <<gen, kstate>>
          /\ RemovalComes(q) => RemovalComes(q)'
          /\ Unheard(q) => Unheard(q)'
      BY <1>3, ReceiveHeard DEF RunReceive, kernel, guarded, Listening
    <2> QED
      BY <2>1, <2>2 DEF LiveInv, Fits, Current
  <1>4. ASSUME NEW n \in Names, RunHandle(n) PROVE LiveInv'
    <2> SUFFICES ASSUME Listening', ~initializing', NEW q \in Names PROVE Fits(q, view[q])'
      BY DEF LiveInv

    <2>1. UNCHANGED <<kstate, gen, sock>> /\ Listening /\ ~initializing /\ ~closed
      BY <1>4 DEF RunHandle, kernel, fds, Listening
    <2>2. devices = view /\ Fits(q, view[q])
      BY <2>1 DEF WatchInv, LiveInv

    <2>3. CASE UNCHANGED <<cur, view>>
      BY <2>1, <2>2, <2>3 DEF Fits, Current, RemovalComes, Unheard
    <2> DEFINE e == Disconnected(n, IF devices[n] = Absent THEN PathOnly ELSE devices[n])
    <2>4. e \in Event /\ e[2] = n /\ e[1] = "disconnected"
      BY Metadata, EventForms DEF TypeOK, MaybeInfos
    <2> HIDE DEF e
    <2>5. CASE cur = Remove(n) /\ cur' = <<>> /\ PublishOrStage(e)
      <3>1. view' = Apply(view, e)
        BY <2>1, <2>4, <2>5, PublishOrStageCases

      <3>2. CASE q # n
        <4>1. (RemovalComes(q)' <=> RemovalComes(q)) /\ (Unheard(q)' <=> Unheard(q))
          BY <2>1, <2>5, <3>2, OthersHeard
        <4>2. view'[q] = view[q]
          BY <2>4, <3>1, <3>2 DEF Apply, TypeOK
        <4> QED
          BY <2>1, <2>2, <4>1, <4>2 DEF Fits, Current

      <3>3. CASE q = n
        <4>1. view'[q] = Absent
          BY <2>4, <3>1, <3>3 DEF Apply, TypeOK
        <4>2. Fits(n, Absent)'
          BY <2>1, <2>5, FitsRemoved
        <4> QED
          BY <3>3, <4>1, <4>2 DEF Fits, Current
      <3> QED
        BY <3>2, <3>3
    <2>6. CASE cur = Add(n) /\ cur' = <<>> /\ devices[n] # Absent /\ UNCHANGED view

      <3>1. CASE q # n
        <4>1. (RemovalComes(q)' <=> RemovalComes(q)) /\ (Unheard(q)' <=> Unheard(q))
          BY <2>1, <2>6, <3>1, OthersHeard
        <4> QED
          BY <2>1, <2>2, <2>6, <4>1 DEF Fits, Current
      <3>2. CASE q = n
        <4>1. ~In(sock, Remove(n)) => ~RemovalComes(n)
          BY <2>6, MessageForms DEF RemovalComes
        <4>2. /\ view[n] # Absent
              /\ ~In(sock, Remove(n)) => Current(n, view[n])
          BY <2>2, <2>6, <3>2, <4>1 DEF Fits
        <4>3. \A j : j = view[n] => Fits(n, j)'
          BY <2>1, <2>6, <4>2, FitsAdded
        <4> QED
          BY <2>6, <3>2, <4>3 DEF Fits, Current
      <3> QED
        BY <3>1, <3>2

    <2> QED
      BY <1>4, <2>1, <2>3, <2>5, <2>6, HandleCases DEF e
  <1>5. ASSUME RunPublish PROVE LiveInv'
    <2> SUFFICES ASSUME Listening', ~initializing', NEW q \in Names PROVE Fits(q, view[q])'
      BY DEF LiveInv

    <2>1. UNCHANGED <<kstate, gen, sock>> /\ Listening /\ ~initializing /\ ~closed
      BY <1>5 DEF RunPublish, kernel, fds, Listening
    <2>2. devices = view /\ Fits(q, view[q])
      BY <2>1 DEF WatchInv, LiveInv

    <2>3. PICK n \in Names :
               /\ cur = Add(n) /\ cur' = <<>>
               /\ \/ devices[n] # Absent /\ UNCHANGED view
                  \/ PublishOrStage(Connected(n, info))
      BY <1>5, <2>1, PublishCases
    <2> DEFINE e == Connected(n, info)
    <2>4. e \in Event /\ e[2] = n /\ e[1] = "connected" /\ e[3] = info
      BY EventForms DEF TypeOK
    <2> HIDE DEF e
    <2>5. CASE PublishOrStage(e)
      <3>1. view' = Apply(view, e)
        BY <2>1, <2>4, <2>5, PublishOrStageCases

      <3>2. CASE q # n
        <4>1. (RemovalComes(q)' <=> RemovalComes(q)) /\ (Unheard(q)' <=> Unheard(q))
          BY <2>1, <2>3, <3>2, OthersHeard
        <4>2. view'[q] = view[q]
          BY <2>4, <3>1, <3>2 DEF Apply, TypeOK
        <4> QED
          BY <2>1, <2>2, <4>1, <4>2 DEF Fits, Current

      <3>3. CASE q = n
        <4>1. view'[q] = info
          BY <2>4, <3>1, <3>3 DEF Apply, TypeOK
        <4>2. ~In(sock, Remove(n)) => Current(n, info)
          BY <1>5, <2>1, <2>3 DEF InfoInv, RunPublish
        <4>3. info # Absent
          BY Metadata DEF TypeOK
        <4>4. \A j : j = info => Fits(n, j)'
          BY <2>1, <2>3, <4>2, <4>3, FitsAdded
        <4> QED
          BY <3>3, <4>1, <4>4 DEF Fits, Current
      <3> QED
        BY <3>2, <3>3
    <2>6. CASE devices[n] # Absent /\ UNCHANGED view

      <3>1. CASE q # n
        <4>1. (RemovalComes(q)' <=> RemovalComes(q)) /\ (Unheard(q)' <=> Unheard(q))
          BY <2>1, <2>3, <3>1, OthersHeard
        <4> QED
          BY <2>1, <2>2, <2>6, <4>1 DEF Fits, Current
      <3>2. CASE q = n
        <4>1. ~In(sock, Remove(n)) => ~RemovalComes(n)
          BY <2>3, MessageForms DEF RemovalComes
        <4>2. /\ view[n] # Absent
              /\ ~In(sock, Remove(n)) => Current(n, view[n])
          BY <2>2, <2>6, <3>2, <4>1 DEF Fits
        <4>3. \A j : j = view[n] => Fits(n, j)'
          BY <2>1, <2>3, <4>2, FitsAdded
        <4> QED
          BY <2>6, <3>2, <4>3 DEF Fits, Current
      <3> QED
        BY <3>1, <3>2

    <2> QED
      BY <2>3, <2>5, <2>6 DEF e
  <1>6. ASSUME RunCheck \/ RunPoll \/ RunDrain \/ RunLoadUsage \/ RunLoadIds \/ RunCloseQueue \/
                RunCloseStopped \/ RunReadFails
         PROVE  LiveInv'
    <2>1. /\ UNCHANGED <<kstate, gen, sock, cur, view, initializing>>
          /\ Listening' => Listening
      BY <1>6 DEF Listening, RunCheck, RunPoll, RunDrain, RunLoadUsage, RunLoadIds,
         RunCloseQueue, RunCloseStopped, RunReadFails, Fail, kernel, fds, guarded, ends,
         runVars, watchVars, closeVars, history, vars
    <2> QED
      BY <2>1 DEF LiveInv, Fits, Current, RemovalComes, Unheard
  <1>7. ASSUME RunStop PROVE LiveInv'
    <2>1. ~Listening'
      BY <1>7 DEF RunStop, Listening
    <2> QED
      BY <2>1 DEF LiveInv
  <1>8. ASSUME WatchOpen PROVE LiveInv'
    <2>1. initializing'
      BY <1>8 DEF WatchOpen, guarded, WatchInv
    <2> QED
      BY <2>1 DEF LiveInv
  <1>9. ASSUME WatchList \/ WatchScanned \/ WatchCheckErr \/ WatchFailed PROVE LiveInv'
    <2>1. /\ UNCHANGED <<kstate, gen, sock, cur, view, initializing>>
          /\ Listening' => Listening
      BY <1>9 DEF Listening, WatchList, WatchScanned, WatchCheckErr, WatchFailed, kernel, fds,
         guarded, ends, runVars, watchVars, closeVars, history, vars
    <2> QED
      BY <2>1 DEF LiveInv, Fits, Current, RemovalComes, Unheard
  <1>10. ASSUME NEW n \in Names, WatchLoadUsage(n) \/ WatchLoadIds(n) PROVE LiveInv'
    <2>1. /\ UNCHANGED <<kstate, gen, sock, cur, view, initializing>>
          /\ Listening' => Listening
      BY <1>10 DEF Listening, WatchLoadUsage, WatchLoadIds, kernel, fds, guarded, ends, runVars,
         watchVars, closeVars, history, vars
    <2> QED
      BY <2>1 DEF LiveInv, Fits, Current, RemovalComes, Unheard
  <1>11. ASSUME WatchPublishStartup PROVE LiveInv'
    <2> SUFFICES ASSUME Listening', ~initializing', NEW q \in Names PROVE Fits(q, view[q])'
      BY DEF LiveInv

    <2>1. /\ UNCHANGED <<kstate, gen, sock, cur>> /\ Listening /\ watchPc = "publish"
          /\ view' = Reconcile(found, startupEvents)
      BY <1>11 DEF WatchPublishStartup, kernel, fds, runVars, guarded, Listening
    <2>2. todo = {} /\ Starts(q)
      BY <2>1 DEF WatchInv, StartInv, Scanning
    <2>3. Fits(q, Pending(q))
      BY <2>1, <2>2 DEF Starts, Ahead
    <2>4. (RemovalComes(q)' <=> RemovalComes(q)) /\ (Unheard(q)' <=> Unheard(q))
      BY <2>1 DEF RemovalComes, Unheard
    <2>5. view'[q] = Pending(q)
      BY <2>1 DEF Pending
    <2> QED
      BY <2>1, <2>3, <2>4, <2>5 DEF Fits, Current
  <1>12. ASSUME NEW c \in Callers, CloseCall(c) \/ CloseEnter(c) \/ CloseLock(c) \/
                CloseAwait(c) \/ CloseResult(c)
         PROVE  LiveInv'
    <2>1. /\ UNCHANGED <<kstate, gen, sock, cur, view, initializing>>
          /\ Listening' => Listening
      BY <1>12 DEF Listening, CloseCall, CloseEnter, CloseLock, CloseAwait, CloseResult, kernel,
         fds, guarded, ends, runVars, watchVars, closeVars, history, vars
    <2> QED
      BY <2>1 DEF LiveInv, Fits, Current, RemovalComes, Unheard
  <1>13. ASSUME UNCHANGED vars PROVE LiveInv'
    <2>1. /\ UNCHANGED <<kstate, gen, sock, cur, view, initializing>>
          /\ Listening' => Listening
      BY <1>13 DEF Listening, kernel, fds, guarded, ends, runVars, watchVars, closeVars,
         history, vars
    <2> QED
      BY <2>1 DEF LiveInv, Fits, Current, RemovalComes, Unheard
  <1> QED
    BY <1>1, <1>2, <1>3, <1>4, <1>5, <1>6, <1>7, <1>8, <1>9, <1>10, <1>11, <1>12, <1>13
       DEF Next, Kernel, Run, OnUevent, Watch, CloseBody

\* Nothing comes to say that a device that stays has gone.
LEMMA SteadyStep == IInv /\ [Next]_vars => SteadyInv'
  <1> SUFFICES ASSUME TypeOK, PhaseInv, WatchInv, StagedInv, SteadyInv, [Next]_vars
               PROVE  SteadyInv'
    BY DEF IInv
  <1>1. ASSUME NEW n \in Names, Appear(n) \/ Vanish(n) PROVE SteadyInv'
    <2> SUFFICES ASSUME NEW q \in steady' PROVE Stays(q)'
      BY DEF SteadyInv

    <2>1. UNCHANGED <<sock, cur, watchPc, todo, found, startupEvents>> /\ q \in steady
      BY <1>1 DEF Appear, Vanish, fds, runVars, watchVars, guarded, history
    <2>2. Stays(q) /\ q \in Names
      BY <2>1 DEF SteadyInv, TypeOK
    <2>3. Attached(q)'
      BY <1>1, <2>2 DEF Appear, Vanish, Attached, Stays, TypeOK
    <2> QED
      BY <2>1, <2>2, <2>3 DEF Stays, RemovalComes, Hits
  <1>2. ASSUME NEW n \in Names, Announce(n) PROVE SteadyInv'
    <2> SUFFICES ASSUME NEW q \in steady' PROVE Stays(q)'
      BY DEF SteadyInv

    <2>1. UNCHANGED <<cur, watchPc, todo, found, startupEvents, steady>>
      BY <1>2 DEF Announce, runVars, watchVars, guarded, history
    <2>2. Stays(q) /\ q \in Names /\ Attached(q)
      BY <2>1 DEF SteadyInv, TypeOK, Stays

    <2>3. PICK m \in {Add(n), Remove(n)} : Deposit(m) /\ Attached(q)' /\ m # Remove(q)
      <3>1. CASE q = n
        BY <1>2, <2>2, <3>1, AnnounceCases, MessageForms DEF Attached
      <3>2. CASE q # n
        BY <1>2, <2>2, <3>2, AnnounceCases, MessageForms DEF Attached
      <3> QED
        BY <3>1, <3>2

    <2>4. \A x : In(sock', x) => In(sock, x) \/ x = m
      BY <2>3, MessageForms, DepositCases
    <2> HIDE DEF In
    <2>5. ~RemovalComes(q)'
      BY <2>1, <2>2, <2>3, <2>4 DEF Stays, RemovalComes
    <2> QED
      BY <2>1, <2>2, <2>3, <2>5 DEF Stays, Hits
  <1>3. ASSUME OtherMessage PROVE SteadyInv'
    <2> SUFFICES ASSUME NEW q \in steady' PROVE Stays(q)'
      BY DEF SteadyInv

    <2>1. UNCHANGED <<cur, watchPc, todo, found, startupEvents, steady>>
      BY <1>3 DEF OtherMessage, runVars, watchVars, guarded, history
    <2>2. Stays(q) /\ q \in Names /\ Attached(q)
      BY <2>1 DEF SteadyInv, TypeOK, Stays

    <2> DEFINE m == <<"noise">>
    <2>3. Deposit(m) /\ Attached(q)' /\ m # Remove(q) /\ m \in Message
      BY <1>3, <2>2, MessageForms DEF OtherMessage, Attached
    <2> HIDE DEF m

    <2>4. \A x : In(sock', x) => In(sock, x) \/ x = m
      BY <2>3, MessageForms, DepositCases
    <2> HIDE DEF In
    <2>5. ~RemovalComes(q)'
      BY <2>1, <2>2, <2>3, <2>4 DEF Stays, RemovalComes
    <2> QED
      BY <2>1, <2>2, <2>3, <2>5 DEF Stays, Hits
  <1>4. ASSUME RunReceive PROVE SteadyInv'
    <2> SUFFICES ASSUME NEW q \in steady' PROVE Stays(q)'
      BY DEF SteadyInv

    <2>1. UNCHANGED <<kstate, watchPc, todo, found, startupEvents, steady>>
      BY <1>4 DEF RunReceive, kernel, watchVars, guarded, history
    <2>2. Stays(q) /\ q \in Names
      BY <2>1 DEF SteadyInv, TypeOK
    <2>3. RemovalComes(q)' <=> RemovalComes(q)
      BY <1>4, <2>2, ReceiveHeard
    <2> QED
      BY <2>1, <2>2, <2>3 DEF Stays, Attached, Hits
  <1>5. ASSUME NEW n \in Names, RunHandle(n) PROVE SteadyInv'
    <2> SUFFICES ASSUME NEW q \in steady' PROVE Stays(q)'
      BY DEF SteadyInv

    <2>1. UNCHANGED <<kstate, sock, watchPc, todo, found, steady>> /\ cur' \in {cur, <<>>}
      BY <1>5 DEF RunHandle, kernel, fds, watchVars
    <2>2. Stays(q) /\ q \in Names
      BY <2>1 DEF SteadyInv, TypeOK
    <2>3. ~RemovalComes(q)'
      BY <2>1, <2>2, NoRemovalComes DEF Stays
    <2>4. (\A k \in Hits(startupEvents', q) : startupEvents'[k][1] = "connected") => Stays(q)'
      BY <2>1, <2>2, <2>3 DEF Stays, Attached
    <2>5. CASE UNCHANGED startupEvents
      BY <2>2, <2>4, <2>5 DEF Stays, Hits

    <2> DEFINE e == Disconnected(n, IF devices[n] = Absent THEN PathOnly ELSE devices[n])
    <2>6. e \in Event /\ e[2] = n
      BY Metadata, EventForms DEF TypeOK, MaybeInfos
    <2> HIDE DEF e
    <2>7. CASE cur = Remove(n) /\ startupEvents' = Append(startupEvents, e)
      <3>1. q # n
        BY <2>2, <2>7 DEF Stays, RemovalComes
      <3>2. /\ Hits(startupEvents', q) = Hits(startupEvents, q)
            /\ \A k \in Hits(startupEvents, q) : startupEvents'[k] = startupEvents[k]
        BY <2>2, <2>6, <2>7, <3>1, StageOne
      <3> QED
        BY <2>2, <2>4, <3>2 DEF Stays
    <2>8. CASE cur = Remove(n) /\ PublishOrStage(e)
      BY <2>5, <2>6, <2>7, <2>8, PublishOrStageCases
    <2> QED
      BY <1>5, <2>5, <2>8, HandleCases DEF e
  <1>6. ASSUME RunPublish PROVE SteadyInv'
    <2> SUFFICES ASSUME NEW q \in steady' PROVE Stays(q)'
      BY DEF SteadyInv

    <2>1. UNCHANGED <<kstate, sock, watchPc, todo, found, steady>> /\ cur' \in {cur, <<>>}
      BY <1>6 DEF RunPublish, kernel, fds, watchVars
    <2>2. Stays(q) /\ q \in Names
      BY <2>1 DEF SteadyInv, TypeOK
    <2>3. ~RemovalComes(q)'
      BY <2>1, <2>2, NoRemovalComes DEF Stays
    <2>4. (\A k \in Hits(startupEvents', q) : startupEvents'[k][1] = "connected") => Stays(q)'
      BY <2>1, <2>2, <2>3 DEF Stays, Attached
    <2>5. CASE UNCHANGED startupEvents
      BY <2>2, <2>4, <2>5 DEF Stays, Hits

    <2>6. ASSUME NEW e \in Event, e[1] = "connected", startupEvents' = Append(startupEvents, e)
          PROVE  Stays(q)'
      <3>1. /\ \A k \in Hits(startupEvents, q) : startupEvents'[k] = startupEvents[k]
            /\ startupEvents'[Len(startupEvents) + 1] = e
            /\ \/ Hits(startupEvents', q) = Hits(startupEvents, q)
               \/ Hits(startupEvents', q) = Hits(startupEvents, q) \union {Len(startupEvents) + 1}
        BY <2>2, <2>6, StageOne
      <3> QED
        BY <2>2, <2>4, <2>6, <3>1 DEF Stays
    <2>7. ASSUME NEW n \in Names, PublishOrStage(Connected(n, info)) PROVE Stays(q)'
      <3>1. Connected(n, info) \in Event /\ Connected(n, info)[1] = "connected"
        BY EventForms DEF TypeOK
      <3> QED
        BY <2>5, <2>6, <2>7, <3>1, PublishOrStageCases
    <2> QED
      BY <1>6, <2>5, <2>7, PublishCases
  <1>7. ASSUME RunCheck \/ RunPoll \/ RunDrain \/ RunLoadUsage \/ RunLoadIds \/ RunCloseQueue \/
                RunCloseStopped \/ RunReadFails
         PROVE  SteadyInv'
    <2>1. /\ UNCHANGED <<kstate, sock, cur, todo, found, startupEvents, steady>>
          /\ watchPc' \in Scanning \ {"list"} => watchPc \in Scanning \ {"list"}
      BY <1>7 DEF Scanning, RunCheck, RunPoll, RunDrain, RunLoadUsage, RunLoadIds,
         RunCloseQueue, RunCloseStopped, RunReadFails, Fail, kernel, fds, guarded, ends,
         runVars, watchVars, closeVars, history, vars
    <2> QED
      BY <2>1 DEF SteadyInv, Stays, Attached, Hits, RemovalComes
  <1>8. ASSUME RunStop PROVE SteadyInv'
    <2> SUFFICES ASSUME NEW q \in steady' PROVE Stays(q)'
      BY DEF SteadyInv

    <2>1. /\ UNCHANGED <<kstate, watchPc, todo, found, startupEvents, steady, cur>>
          /\ sock' = <<>>
      BY <1>8 DEF RunStop, kernel, watchVars, history
    <2>2. Stays(q) /\ q \in Names
      BY <2>1 DEF SteadyInv, TypeOK
    <2>3. ~RemovalComes(q)'
      BY <2>1, <2>2, NoRemovalComes DEF Stays
    <2> QED
      BY <2>1, <2>2, <2>3 DEF Stays, Attached, Hits
  <1>9. ASSUME WatchOpen PROVE SteadyInv'
    <2> SUFFICES ASSUME NEW q \in steady' PROVE Stays(q)'
      BY DEF SteadyInv

    <2>1. /\ watchPc = "open" /\ watchPc' \in {"list", "failed"}
          /\ UNCHANGED <<kstate, sock, cur, startupEvents>>
          /\ steady' = {n \in Names : Attached(n)} \/ steady' = steady
      BY <1>9 DEF WatchOpen, kernel, guarded
    <2>2. startupEvents' = <<>> /\ steady = {} /\ sock' = <<>> /\ cur' = <<>>
      BY <2>1 DEF WatchInv, PhaseInv
    <2>3. q \in Names /\ Attached(q)'
      BY <2>1, <2>2 DEF Attached
    <2>4. ~RemovalComes(q)'
      BY <2>2, <2>3, MessageForms DEF RemovalComes, In
    <2>5. Hits(startupEvents', q) = {}
      BY <2>2 DEF Hits
    <2> QED
      BY <2>1, <2>3, <2>4, <2>5 DEF Stays, Scanning
  <1>10. ASSUME WatchList PROVE SteadyInv'
    <2> SUFFICES ASSUME NEW q \in steady' PROVE Stays(q)'
      BY DEF SteadyInv

    <2>1. UNCHANGED <<kstate, sock, cur, found, startupEvents, steady>>
      BY <1>10 DEF WatchList, kernel, fds, guarded, runVars, watchVars, history
    <2>2. Stays(q) /\ q \in Names
      BY <2>1 DEF SteadyInv, TypeOK

    <2>3. watchPc' = "close" \/ q \in todo'
      BY <1>10, <2>2 DEF WatchList, Stays
    <2> QED
      BY <2>1, <2>2, <2>3 DEF Stays, Attached, Hits, RemovalComes, Scanning
  <1>11. ASSUME WatchScanned \/ WatchCheckErr \/ WatchFailed PROVE SteadyInv'
    <2>1. /\ UNCHANGED <<kstate, sock, cur, todo, found, startupEvents, steady>>
          /\ watchPc' \in Scanning \ {"list"} => watchPc \in Scanning \ {"list"}
      BY <1>11 DEF Scanning, WatchScanned, WatchCheckErr, WatchFailed, kernel, fds, guarded,
         ends, runVars, watchVars, closeVars, history, vars
    <2> QED
      BY <2>1 DEF SteadyInv, Stays, Attached, Hits, RemovalComes
  <1>12. ASSUME NEW n \in Names, WatchLoadUsage(n) \/ WatchLoadIds(n) PROVE SteadyInv'
    <2> SUFFICES ASSUME NEW q \in steady' PROVE Stays(q)'
      BY DEF SteadyInv

    <2>1. UNCHANGED <<kstate, sock, cur, startupEvents, steady>>
      BY <1>12 DEF WatchLoadUsage, WatchLoadIds, kernel, fds, guarded, runVars, watchVars, history
    <2>2. Stays(q) /\ q \in Names
      BY <2>1 DEF SteadyInv, TypeOK

    <2>3. q \in todo' \/ found'[q] # Absent
      <3>1. watchPc \in Scanning \ {"list"}
        BY <1>12 DEF WatchLoadUsage, WatchLoadIds, Scanning
      <3>2. q \in todo \/ found[q] # Absent
        BY <2>2, <3>1 DEF Stays
      <3>3. PICK u, i : /\ found' = [found EXCEPT ![n] = <<u, i>>]
                        /\ todo' = todo \ {n} \/ todo' = {n} \union todo
        BY <1>12 DEF WatchLoadUsage, WatchLoadIds
      <3>4. <<u, i>> # Absent
        BY DEF Absent
      <3>5. q = n => found'[q] # Absent
        BY <2>2, <3>3, <3>4 DEF TypeOK
      <3>6. q # n => found'[q] = found[q] /\ (q \in todo => q \in todo')
        BY <2>2, <3>3 DEF TypeOK
      <3> QED
        BY <3>2, <3>5, <3>6
    <2> QED
      BY <2>1, <2>2, <2>3 DEF Stays, Attached, Hits, RemovalComes, Scanning
  <1>13. ASSUME WatchPublishStartup PROVE SteadyInv'
    <2> SUFFICES ASSUME NEW q \in steady' PROVE Stays(q)'
      BY DEF SteadyInv

    <2>1. /\ UNCHANGED <<kstate, sock, cur, steady>> /\ watchPc' = "checkErr"
          /\ startupEvents' = startupEvents \/ startupEvents' = <<>>
      BY <1>13 DEF WatchPublishStartup, kernel, fds, guarded, runVars
    <2>2. Stays(q) /\ q \in Names
      BY <2>1 DEF SteadyInv, TypeOK
    <2>3. \A k \in Hits(startupEvents', q) : startupEvents'[k][1] = "connected"
      BY <2>1, <2>2 DEF Stays, Hits
    <2> QED
      BY <2>1, <2>2, <2>3 DEF Stays, Attached, RemovalComes, Scanning
  <1>14. ASSUME NEW c \in Callers, CloseCall(c) \/ CloseEnter(c) \/ CloseLock(c) \/
                CloseAwait(c) \/ CloseResult(c)
         PROVE  SteadyInv'
    <2>1. /\ UNCHANGED <<kstate, sock, cur, todo, found, startupEvents, steady>>
          /\ watchPc' \in Scanning \ {"list"} => watchPc \in Scanning \ {"list"}
      BY <1>14 DEF Scanning, CloseCall, CloseEnter, CloseLock, CloseAwait, CloseResult, kernel,
         fds, guarded, ends, runVars, watchVars, closeVars, history, vars
    <2> QED
      BY <2>1 DEF SteadyInv, Stays, Attached, Hits, RemovalComes
  <1>15. ASSUME UNCHANGED vars PROVE SteadyInv'
    <2>1. /\ UNCHANGED <<kstate, sock, cur, todo, found, startupEvents, steady>>
          /\ watchPc' \in Scanning \ {"list"} => watchPc \in Scanning \ {"list"}
      BY <1>15 DEF Scanning, kernel, fds, guarded, ends, runVars, watchVars, closeVars, history,
         vars
    <2> QED
      BY <2>1 DEF SteadyInv, Stays, Attached, Hits, RemovalComes
  <1> QED
    BY <1>1, <1>2, <1>3, <1>4, <1>5, <1>6, <1>7, <1>8, <1>9, <1>10, <1>11, <1>12, <1>13, <1>14,
       <1>15 DEF Next, Kernel, Run, OnUevent, Watch, CloseBody

-----------------------------------------------------------------------------
\* The invariant is inductive.
LEMMA InvStep == IInv /\ [Next]_vars => IInv'
  BY TypeStep, PhaseStep, WatchStep, CloseStep, MessagesStep, InfoStep, StagedStep, StartStep,
     LiveStep, SteadyStep DEF IInv

\* It holds in every state of the receiver.
LEMMA Inductive == Spec => []IInv
  BY InitInv, InvStep, PTL DEF Spec

(***************************************************************************)
(* Whatever fails, and whenever run ends: Watch and Close say so, nothing  *)
(* is left behind, and the wake descriptor is not written after it was     *)
(* closed (run, Watch, Close).                                             *)
(***************************************************************************)
THEOREM FailureCorrect == Spec => []FailureHandled
  <1>1. IInv => FailureHandled
    <2> SUFFICES ASSUME TypeOK, PhaseInv, WatchInv, CloseInv PROVE FailureHandled
      BY DEF IInv
    <2>1. NoSignalAfterClose /\ ReturnedIsLive
      BY DEF PhaseInv, WatchInv, NoSignalAfterClose, ReturnedIsLive
    <2>2. FailedWatchReleases
      BY DEF PhaseInv, CloseInv, FailedWatchReleases, Callers, Alive
    <2>3. NoSilentFailure
      <3>1. ASSUME queueClosed, \A c \in Callers : closePc[c] = "idle" PROVE runErr
        <4>1. closed
          BY <3>1 DEF PhaseInv, Ended
        <4> QED
          BY <3>1, <4>1 DEF CloseInv, PastLock
      <3>2. ASSUME NEW c \in Callers, result[c] = "nil"
            PROVE  queueClosed /\ ~fdsOpen /\ ~failed
        BY <3>2 DEF PhaseInv, CloseInv, Alive
      <3> QED
        BY <3>1, <3>2 DEF NoSilentFailure
    <2> QED
      BY <2>1, <2>2, <2>3 DEF FailureHandled
  <1> QED
    BY <1>1, Inductive, PTL

(***************************************************************************)
(* Once no message is on its way the client's view holds the devices that  *)
(* are there, described by nothing but themselves, however the scan, the   *)
(* staged changes and the loads raced with the kernel (onUevent,           *)
(* publishStartup, reconcileLinuxStartupEvents).                           *)
(***************************************************************************)
THEOREM ViewCorrect == Spec => []ViewAccurateWhenQuiet
  <1>1. IInv => ViewAccurateWhenQuiet
    <2> SUFFICES ASSUME TypeOK, PhaseInv, LiveInv, Quiet, NEW n \in Names PROVE ViewIsRight(n)
      BY DEF IInv, ViewAccurateWhenQuiet
    <2>1. /\ Listening /\ ~initializing /\ sock = <<>> /\ cur = <<>>
          /\ kstate[n] \in {"on", "off"}
      BY DEF Quiet, Live, Listening, PhaseInv, Alive
    <2>2. ~Unheard(n) /\ ~RemovalComes(n)
      BY <2>1, MessageForms DEF Unheard, RemovalComes, In
    <2>3. Fits(n, view[n])
      BY <2>1 DEF LiveInv
    <2>4. /\ view[n] # Absent <=> Attached(n)
          /\ Current(n, view[n])
      BY <2>1, <2>2, <2>3 DEF Fits, Attached
    <2> QED
      BY <2>4 DEF ViewIsRight, Current
  <1> QED
    BY <1>1, Inductive, PTL

\* Only publishStartup ends the start-up, while the receiver runs.
LEMMA StartupEnds ==
  [Next]_vars /\ initializing /\ ~initializing' =>
    WatchPublishStartup /\ ~closed /\ view' = Reconcile(found, startupEvents)
  <1> SUFFICES ASSUME [Next]_vars
               PROVE  initializing /\ ~initializing' =>
                        WatchPublishStartup /\ ~closed /\ view' = Reconcile(found, startupEvents)
    OBVIOUS
  <1>1. WatchPublishStartup \/ UNCHANGED initializing
    BY DEF Next, Kernel, Run, OnUevent, Watch, CloseBody, Appear, Vanish, Announce, OtherMessage,
       RunCheck, RunPoll, RunDrain, RunReceive, RunHandle, RunLoadUsage, RunLoadIds, RunPublish,
       RunStop, RunCloseQueue, RunCloseStopped, RunReadFails, WatchOpen, WatchList,
       WatchScanned, WatchLoadUsage, WatchLoadIds, WatchCheckErr, WatchFailed, CloseCall,
       CloseEnter, CloseLock, CloseAwait, CloseResult, guarded, vars
  <1>2. WatchPublishStartup /\ ~UNCHANGED initializing =>
          ~closed /\ view' = Reconcile(found, startupEvents)
    BY DEF WatchPublishStartup, guarded
  <1> QED
    BY <1>1, <1>2

(***************************************************************************)
(* A device that is there from before the scan until the snapshot goes     *)
(* live is in the snapshot, whatever was staged (Watch, publishStartup).   *)
(***************************************************************************)
THEOREM SnapshotCorrect == Spec => SnapshotCoversSteadyDevices
  <1>1. IInv /\ [Next]_vars =>
          [initializing /\ ~initializing' => \A n \in steady : view'[n] # Absent]_vars
    <2> SUFFICES ASSUME TypeOK, WatchInv, StagedInv, SteadyInv, [Next]_vars,
                        initializing, ~initializing', NEW n \in steady
                 PROVE  view'[n] # Absent
      BY DEF IInv
    <2>1. n \in Names /\ Stays(n)
      BY DEF TypeOK, SteadyInv
    <2>2. watchPc = "publish" /\ view'[n] = Pending(n)
      BY StartupEnds DEF WatchPublishStartup, Pending
    <2>3. found[n] # Absent
      BY <2>1, <2>2 DEF WatchInv, Stays, Scanning
    <2>4. CASE Hits(startupEvents, n) = {}
      BY <2>1, <2>2, <2>3, <2>4, PendingForm
    <2>5. CASE Hits(startupEvents, n) # {}
      <3>1. Newest(startupEvents, n) \in Event /\ Newest(startupEvents, n)[1] = "connected"
        BY <2>1, <2>5, NewestForm DEF Stays
      <3>2. Newest(startupEvents, n)[3] # Absent
        BY <3>1, Metadata DEF Event
      <3> QED
        BY <2>1, <2>2, <2>5, <3>1, <3>2, PendingForm
    <2> QED
      BY <2>4, <2>5
  <1> QED
    BY <1>1, Inductive, PTL DEF Spec, SnapshotCoversSteadyDevices

(***************************************************************************)
(* The receiver implements Watcher: publishStartup captures the snapshot,  *)
(* every uevent handled after it sends a change to the client's view (an   *)
(* arrival of a device the view does not hold, or a removal with what the  *)
(* client was told), and closing the queue is the end.                     *)
(***************************************************************************)
THEOREM WatcherCorrect == Spec => ImplementsWatcher
  <1>1. Init => Client!Init
    BY DEF Init, Client!Init, phase
  <1>2. IInv /\ IInv' /\ [Next]_vars => [Client!Next]_(Client!vars)
    <2> SUFFICES ASSUME IInv, IInv', [Next]_vars
                 PROVE  Client!Next \/ UNCHANGED <<phase, view, last>>
      BY DEF Client!vars
    <2> USE DEF IInv
    <2>1. ~closed => ~queueClosed
      BY DEF PhaseInv, Ended
    <2>2. CASE WatchPublishStartup
      <3>1. CASE closed
        BY <2>2, <3>1 DEF WatchPublishStartup, guarded, ends, phase
      <3>2. CASE ~closed
        <4>1. initializing /\ ~queueClosed /\ UNCHANGED <<queueClosed, last>> /\ ~initializing'
          BY <2>1, <2>2, <3>2 DEF WatchPublishStartup, WatchInv, Scanning, ends
        <4>2. view' \in [Names -> Infos \union {Absent}]
          BY DEF TypeOK, MaybeInfos
        <4>3. Client!CaptureSnapshot
          BY <4>1, <4>2 DEF Client!CaptureSnapshot, phase
        <4> QED
          BY <4>3 DEF Client!Next
      <3> QED
        BY <3>1, <3>2
    <2>3. ASSUME NEW n \in Names, NEW i \in Infos, ~closed,
                 UNCHANGED <<initializing, queueClosed>>,
                 \/ /\ i = IF devices[n] = Absent THEN PathOnly ELSE devices[n]
                    /\ PublishOrStage(Disconnected(n, i))
                 \/ /\ ~initializing => devices[n] = Absent
                    /\ PublishOrStage(Connected(n, i))
          PROVE  Client!Next \/ UNCHANGED <<phase, view, last>>
      <3>1. CASE initializing
        BY <2>3, <3>1 DEF PublishOrStage, phase
      <3>2. CASE ~initializing
        <4>1. phase = "live" /\ UNCHANGED phase /\ devices = view
          BY <2>1, <2>3, <3>2 DEF phase, WatchInv
        <4>2. CASE PublishOrStage(Disconnected(n, i)) /\
                   i = IF devices[n] = Absent THEN PathOnly ELSE devices[n]
          <5>1. last' = <<"disconnected", n, i>> /\ view' = [view EXCEPT ![n] = Absent]
            BY <3>2, <4>2 DEF PublishOrStage, Disconnected, Apply
          <5>2. Client!Disconnected(n)
            BY <4>1, <4>2, <5>1 DEF Client!Disconnected
          <5> QED
            BY <5>2 DEF Client!Next
        <4>3. CASE PublishOrStage(Connected(n, i)) /\ devices[n] = Absent
          <5>1. last' = <<"connected", n, i>> /\ view' = [view EXCEPT ![n] = i]
            BY <3>2, <4>3 DEF PublishOrStage, Connected, Apply
          <5>2. Client!Connected(n)
            BY <4>1, <4>3, <5>1 DEF Client!Connected
          <5> QED
            BY <5>2 DEF Client!Next
        <4> QED
          BY <2>3, <3>2, <4>2, <4>3
      <3> QED
        BY <3>1, <3>2
    <2>4. CASE \E n \in Names : RunHandle(n)
      <3>1. PICK n \in Names : RunHandle(n)
        BY <2>4
      <3>2. UNCHANGED <<initializing, queueClosed>>
        BY <3>1 DEF RunHandle, ends
      <3>3. (IF devices[n] = Absent THEN PathOnly ELSE devices[n]) \in Infos
        BY Metadata DEF TypeOK, MaybeInfos
      <3>4. CASE UNCHANGED <<view, last>>
        BY <3>2, <3>4 DEF phase
      <3> QED
        BY <2>3, <3>1, <3>2, <3>3, <3>4, HandleCases
    <2>5. CASE RunPublish
      <3>1. UNCHANGED <<initializing, queueClosed>> /\ info \in Infos
        BY <2>5 DEF RunPublish, ends, TypeOK
      <3>2. CASE UNCHANGED <<view, last>>
        BY <3>1, <3>2 DEF phase
      <3> QED
        BY <2>3, <2>5, <3>1, <3>2, PublishCases
    <2>6. CASE RunCloseQueue
      <3>1. phase # "ended" /\ phase' = "ended" /\ UNCHANGED <<view, last>>
        BY <2>6 DEF RunCloseQueue, PhaseInv, phase, history
      <3> QED
        BY <3>1 DEF Client!Next, Client!End
    <2>7. CASE UNCHANGED <<initializing, queueClosed, view, last>>
      BY <2>7 DEF phase
    <2>8. \/ WatchPublishStartup \/ (\E n \in Names : RunHandle(n)) \/ RunPublish
          \/ RunCloseQueue \/ UNCHANGED <<initializing, queueClosed, view, last>>
      BY DEF Next, Kernel, Run, OnUevent, Watch, CloseBody, Appear, Vanish, Announce,
         OtherMessage, RunCheck, RunPoll, RunDrain, RunReceive, RunLoadUsage, RunLoadIds,
         RunStop, RunCloseStopped, RunReadFails, WatchOpen, WatchList, WatchScanned,
         WatchLoadUsage, WatchLoadIds, WatchCheckErr, WatchFailed, CloseCall, CloseEnter,
         CloseLock, CloseAwait, CloseResult, guarded, ends, history, vars
    <2> QED
      BY <2>2, <2>4, <2>5, <2>6, <2>7, <2>8
  <1> QED
    BY <1>1, <1>2, Inductive, PTL DEF Spec, ImplementsWatcher, Client!Spec
=============================================================================
