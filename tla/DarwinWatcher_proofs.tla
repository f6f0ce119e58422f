------------------------ MODULE DarwinWatcher_proofs ------------------------
(***************************************************************************)
(* Proofs about DarwinWatcher for any devices, closers and reuse of        *)
(* references: the receiver implements Watcher, its snapshot holds the     *)
(* devices that stayed, and the end leaves nothing behind.                 *)
(***************************************************************************)
EXTENDS DarwinWatcher, SequenceTheorems, TLAPS

Before   == {"create", "setLoop", "match"}
Starting == {"copy", "snapshot", "live"}
Running  == {"ready", "check", "enter", "loop", "send"}

(***************************************************************************)
(* Where run is says what is open: nobody can close before Watch has       *)
(* returned, which waits for run to be past the snapshot.                  *)
(***************************************************************************)
PhaseInv ==
  /\ runPc \in Before \union Starting =>
       initializing /\ ~closed /\ ready = "none" /\ watchPc = "wait"
  /\ runPc \in Running => ~initializing
  /\ runPc = "teardown" => closed
  /\ manager = "matching" => runPc \in Starting \union Running \union {"teardown"}
  /\ runPc \in Starting \union Running \union {"teardown"} => manager = "matching"
  /\ known <=> runPc \notin {"closeQueue", "closeStopped", "halted"}
  /\ queueClosed <=> runPc \in {"closeStopped", "halted"}
  /\ stopped => runPc = "halted"
  /\ sending # <<>> <=> runPc = "send"

ClientInv ==
  /\ \A c \in Closers : closePc[c] # "idle" => watchPc = "returned"
  /\ \A c \in Closers : closePc[c] = "returned" => stopped
  /\ once = "finished" => stopped
  /\ watchPc = "failed" => stopped

Arrived     == <<"match">>
ArrivedLeft == <<"match", "remove">>
Left        == <<"remove">>

(***************************************************************************)
(* A reference is not used again before its removal was called back, so    *)
(* that an arrival and a removal are the most that wait for a reference.   *)
(***************************************************************************)
CallsInv ==
  /\ manager # "matching" => \A r \in Refs : calls[r] = <<>>
  /\ \A r \in Refs : \/ calls[r] = <<>>
                     \/ calls[r] = Arrived /\ present[r]
                     \/ calls[r] = ArrivedLeft /\ ~present[r]
                     \/ calls[r] = Left /\ ~present[r]

\* Nothing was called back yet while the snapshot is made.
StartInv ==
  /\ runPc \in Before \union Starting => snapshot = devices
  /\ runPc \in Before => \A r \in Refs : devices[r] = Absent
  /\ runPc \in Starting =>
       /\ \A r \in Refs : calls[r] # Left
       /\ \A r \in Refs : calls[r] = <<>> => ~present[r] /\ devices[r] = Absent /\ r \notin todo
       /\ \A r \in steady : r \in todo \/ devices[r] # Absent
  /\ runPc = "live" => todo = {}

(***************************************************************************)
(* Up to Close devices holds what is there once the waiting callbacks are  *)
(* made, and a removal is called back only for a device in it.             *)
(***************************************************************************)
DevicesInv ==
  runPc \in Running /\ ~closed =>
    \A r \in Refs : /\ calls[r] = <<>> => (present[r] <=> devices[r] # Absent)
                    /\ calls[r] = Left => devices[r] # Absent

\* The client's view is devices but for the event that is being sent.
ViewInv ==
  ~initializing =>
    \A r \in Refs :
      IF sending # <<>> /\ sending[2] = r
      THEN \/ sending = <<"connected", r, devices[r]>> /\ view[r] = Absent
           \/ sending = <<"disconnected", r, view[r]>> /\ view[r] # Absent /\ devices[r] = Absent
      ELSE devices[r] = view[r]

IInv ==
  /\ TypeOK /\ PhaseInv /\ ClientInv /\ CallsInv /\ StartInv /\ DevicesInv /\ ViewInv

-----------------------------------------------------------------------------
\* How metadata and the absence of a device are numbered.
LEMMA Numbers == /\ Absent \in MaybeInfos /\ Infos \subseteq MaybeInfos /\ Absent \notin Infos
                 /\ Empty \in Infos /\ 0..MaxGen = Infos
  BY DarwinAssumption DEF Absent, MaybeInfos, Infos, Empty

\* The initial states satisfy the invariant.
LEMMA InitInv == Init => IInv
  <1> SUFFICES ASSUME Init PROVE IInv
    OBVIOUS
  <1>1. gen \in [Refs -> 0..MaxGen]
    BY DarwinAssumption DEF Init
  <1>2. TypeOK
    BY <1>1, Numbers, EmptySeq DEF Init, TypeOK
  <1>3. PhaseInv /\ ClientInv /\ CallsInv /\ StartInv /\ DevicesInv /\ ViewInv
    BY DEF Init, PhaseInv, ClientInv, CallsInv, StartInv, DevicesInv, ViewInv, Before, Starting,
       Running
  <1> QED
    BY <1>2, <1>3 DEF IInv

\* The three contents calls may have, and what appending to and taking from them does.
LEMMA Callbacks ==
  /\ Append(<<>>, "match") = Arrived /\ Append(<<>>, "remove") = Left
  /\ Append(Arrived, "remove") = ArrivedLeft
  /\ Tail(Arrived) = <<>> /\ Tail(Left) = <<>> /\ Tail(ArrivedLeft) = Left
  /\ Head(Arrived) = "match" /\ Head(Left) = "remove" /\ Head(ArrivedLeft) = "match"
  /\ Arrived # <<>> /\ Left # <<>> /\ ArrivedLeft # <<>>
  /\ Arrived # Left /\ Arrived # ArrivedLeft /\ Left # ArrivedLeft
  <1>a. Append(<<>>, "match") = Arrived
    BY DEF Arrived
  <1>b. Append(<<>>, "remove") = Left
    BY DEF Left
  <1>c. Append(Arrived, "remove") = ArrivedLeft
    <2> DEFINE Calls == {"match", "remove"}
    <2>1. Arrived \in Seq(Calls) /\ ArrivedLeft \in Seq(Calls)
      BY DEF Arrived, ArrivedLeft
    <2>2. Len(Arrived) = 1 /\ Arrived[1] = "match"
      BY DEF Arrived
    <2>3. Len(ArrivedLeft) = 2 /\ ArrivedLeft[1] = "match" /\ ArrivedLeft[2] = "remove"
      BY DEF ArrivedLeft
    <2>4. "remove" \in Calls
      OBVIOUS
    <2> HIDE DEF Calls
    <2>a. Append(Arrived, "remove") \in Seq(Calls)
      BY <2>1, <2>4, AppendProperties
    <2>b. Len(Append(Arrived, "remove")) = Len(Arrived) + 1
      BY <2>1, <2>4, AppendProperties
    <2>c. Append(Arrived, "remove")[Len(Arrived) + 1] = "remove"
      BY <2>1, <2>4, AppendProperties
    <2>d. \A i \in 1..Len(Arrived) : Append(Arrived, "remove")[i] = Arrived[i]
      BY <2>1, <2>4, AppendProperties
    <2>5. Append(Arrived, "remove")[1] = "match" /\ Append(Arrived, "remove")[2] = "remove"
      BY <2>2, <2>c, <2>d
    <2>6. \A i \in 1..2 : i = 1 \/ i = 2
      OBVIOUS
    <2> QED
      BY <2>1, <2>2, <2>3, <2>a, <2>b, <2>5, <2>6, SeqEqual
  <1>1. /\ Append(<<>>, "match") = Arrived /\ Append(<<>>, "remove") = Left
        /\ Append(Arrived, "remove") = ArrivedLeft
    BY <1>a, <1>b, <1>c
  <1>2. Tail(Arrived) = <<>> /\ Tail(Left) = <<>> /\ Tail(ArrivedLeft) = Left
    BY DEF Arrived, Left, ArrivedLeft
  <1>3. Head(Arrived) = "match" /\ Head(Left) = "remove" /\ Head(ArrivedLeft) = "match"
    BY DEF Arrived, Left, ArrivedLeft
  <1>4. Arrived # <<>> /\ Left # <<>> /\ ArrivedLeft # <<>>
    BY DEF Arrived, Left, ArrivedLeft
  <1>5. Arrived # Left /\ Arrived # ArrivedLeft /\ Left # ArrivedLeft
    BY DEF Arrived, Left, ArrivedLeft
  <1> QED
    BY <1>1, <1>2, <1>3, <1>4, <1>5

\* Queueing a callback keeps the type of calls (IOKit).
LEMMA QueueType ==
  ASSUME TypeOK, NEW r \in Refs, NEW call \in {"match", "remove"}
  PROVE  Queue(r, call) \in [Refs -> Seq({"match", "remove"})]
  <1>1. Append(calls[r], call) \in Seq({"match", "remove"})
    BY AppendProperties DEF TypeOK
  <1> QED
    BY <1>1 DEF Queue, TypeOK

\* What getDeviceInfo gives is metadata.
LEMMA LoadsType ==
  ASSUME TypeOK, NEW r \in Refs, NEW i \in Loads(r)
  PROVE  i \in Infos /\ i \in MaybeInfos
  <1>1. gen[r] \in 0..MaxGen
    BY DEF TypeOK
  <1>2. gen[r] \in Infos
    BY <1>1, Numbers
  <1>3. i = Empty \/ i = gen[r]
    BY DEF Loads
  <1>4. i \in Infos
    BY <1>2, <1>3, Numbers
  <1> QED
    BY <1>4, Numbers

\* Making a callback keeps the type of calls.
LEMMA TailType ==
  ASSUME TypeOK, NEW r \in Refs, calls[r] # <<>>
  PROVE  [calls EXCEPT ![r] = Tail(@)] \in [Refs -> Seq({"match", "remove"})]
  <1>1. Tail(calls[r]) \in Seq({"match", "remove"})
    BY HeadTailProperties DEF TypeOK
  <1> QED
    BY <1>1 DEF TypeOK

\* Every step of IOKit, run, Watch and Close keeps the types.
LEMMA TypeStep == IInv /\ [Next]_vars => TypeOK'
  <1> SUFFICES ASSUME TypeOK, PhaseInv, [Next]_vars PROVE TypeOK'
    BY DEF IInv
  <1>1. ASSUME NEW r \in Refs, Arrive(r) PROVE TypeOK'
    <2>1. calls' \in [Refs -> Seq({"match", "remove"})]
      BY <1>1, QueueType DEF Arrive
    <2>2. gen' \in [Refs -> 0..MaxGen]
      BY <1>1, DarwinAssumption DEF Arrive, TypeOK
    <2>3. present' \in [Refs -> BOOLEAN]
      BY <1>1 DEF Arrive, TypeOK
    <2> QED
      BY <1>1, <2>1, <2>2, <2>3, Numbers DEF TypeOK, Arrive, guarded, iokit, ends, runVars,
         clientVars, history, vars
  <1>2. ASSUME NEW r \in Refs, Leave(r) PROVE TypeOK'
    <2>1. calls' \in [Refs -> Seq({"match", "remove"})]
      BY <1>2, QueueType DEF Leave
    <2>2. present' \in [Refs -> BOOLEAN] /\ steady' \in SUBSET Refs
      BY <1>2 DEF Leave, TypeOK
    <2> QED
      BY <1>2, <2>1, <2>2, Numbers DEF TypeOK, Leave, guarded, iokit, ends, runVars, clientVars,
         history, vars
  <1>3. ASSUME NEW r \in Refs, RunSnapshot(r) PROVE TypeOK'
    <2>1. \A i \in Loads(r) : i \in MaybeInfos
      BY LoadsType
    <2>2. devices' \in [Refs -> MaybeInfos] /\ snapshot' \in [Refs -> MaybeInfos]
      BY <1>3, <2>1 DEF RunSnapshot, TypeOK, guarded
    <2>3. todo' \in SUBSET Refs
      BY <1>3 DEF RunSnapshot, TypeOK
    <2> QED
      BY <1>3, <2>1, <2>2, <2>3, Numbers DEF TypeOK, RunSnapshot, guarded, iokit, ends, runVars,
         clientVars, history, vars
  <1>4. ASSUME NEW r \in Refs, Match(r) PROVE TypeOK'
    <2>1. calls' \in [Refs -> Seq({"match", "remove"})]
      BY <1>4, TailType DEF Match
    <2>2. \A i \in Loads(r) : <<"connected", r, i>> \in Event
      BY LoadsType DEF Event
    <2>3. sending' \in Event \union {<<>>}
      BY <1>4, <2>2 DEF Match, TypeOK
    <2>4. devices' \in [Refs -> MaybeInfos]
      BY <1>4, LoadsType DEF Match, TypeOK
    <2> QED
      BY <1>4, <2>1, <2>2, <2>3, <2>4, Numbers DEF TypeOK, Match, guarded, iokit, ends, runVars,
         clientVars, history, vars
  <1>5. ASSUME NEW r \in Refs, Remove(r) PROVE TypeOK'
    <2>1. calls' \in [Refs -> Seq({"match", "remove"})]
      BY <1>5, TailType DEF Remove
    <2>2. devices' \in [Refs -> MaybeInfos]
      BY <1>5, Numbers DEF Remove, TypeOK
    <2>3. \A i \in Loads(r) : i \in Infos
      BY LoadsType
    <2>4. devices[r] # Absent => devices[r] \in Infos
      BY DarwinAssumption DEF TypeOK, MaybeInfos, Absent, Infos
    <2>5. sending' \in Event \union {<<>>}
      BY <1>5, <2>3, <2>4 DEF Remove, TypeOK, Event
    <2> QED
      BY <1>5, <2>1, <2>2, <2>3, <2>4, <2>5, Numbers DEF TypeOK, Remove, guarded, iokit, ends,
         runVars, clientVars, history, vars
  <1>6. ASSUME RunCreate PROVE TypeOK'
    BY <1>6, Numbers DEF TypeOK, RunCreate, guarded, iokit, ends, runVars, clientVars, history,
       vars
  <1>7. ASSUME RunSetLoop PROVE TypeOK'
    BY <1>7, Numbers DEF TypeOK, RunSetLoop, guarded, iokit, ends, runVars, clientVars, history,
       vars
  <1>8. ASSUME RunMatch PROVE TypeOK'
    <2>1. <<"match">> \in Seq({"match", "remove"}) /\ <<>> \in Seq({"match", "remove"})
      BY EmptySeq, ElementOfSeq
    <2>2. calls' \in [Refs -> Seq({"match", "remove"})]
      BY <1>8, <2>1 DEF RunMatch
    <2>3. todo' \in SUBSET Refs /\ steady' \in SUBSET Refs
      BY <1>8 DEF RunMatch
    <2> QED
      BY <1>8, <2>1, <2>2, <2>3, Numbers DEF TypeOK, RunMatch, guarded, iokit, ends, runVars,
         clientVars, history, vars
  <1>9. ASSUME RunCopy PROVE TypeOK'
    BY <1>9, Numbers DEF TypeOK, RunCopy, guarded, iokit, ends, runVars, clientVars, history, vars
  <1>10. ASSUME RunSnapshotEnd PROVE TypeOK'
    BY <1>10, Numbers DEF TypeOK, RunSnapshotEnd, guarded, iokit, ends, runVars, clientVars,
       history, vars
  <1>11. ASSUME RunLive PROVE TypeOK'
    <2>1. initializing' \in BOOLEAN
      BY <1>11 DEF RunLive
    <2>2. view' \in [Refs -> MaybeInfos]
      BY <1>11 DEF RunLive, TypeOK
    <2> QED
      BY <1>11, <2>1, <2>2, Numbers DEF TypeOK, RunLive, guarded, iokit, ends, runVars,
         clientVars, history, vars
  <1>12. ASSUME RunReady PROVE TypeOK'
    BY <1>12, Numbers DEF TypeOK, RunReady, guarded, iokit, ends, runVars, clientVars, history,
       vars
  <1>13. ASSUME RunCheck PROVE TypeOK'
    BY <1>13, Numbers DEF TypeOK, RunCheck, guarded, iokit, ends, runVars, clientVars, history,
       vars
  <1>14. ASSUME RunEnter PROVE TypeOK'
    <2>1. stop' \in BOOLEAN
      BY <1>14 DEF RunEnter
    <2> QED
      BY <1>14, <2>1, Numbers DEF TypeOK, RunEnter, guarded, iokit, ends, runVars, clientVars,
         history, vars
  <1>15. ASSUME RunLoopReturns PROVE TypeOK'
    BY <1>15, Numbers DEF TypeOK, RunLoopReturns, guarded, iokit, ends, runVars, clientVars,
       history, vars
  <1>16. ASSUME RunSend PROVE TypeOK'
    <2>1. sending \in Event
      BY <1>16 DEF RunSend, PhaseInv, TypeOK
    <2>2. view' \in [Refs -> MaybeInfos]
      BY <1>16, Numbers, <2>1 DEF RunSend, TypeOK, Event
    <2>3. last' \in Event \union {<<>>}
      BY <1>16 DEF RunSend, TypeOK
    <2> QED
      BY <1>16, <2>1, <2>2, <2>3, Numbers DEF TypeOK, RunSend, guarded, iokit, ends, runVars,
         clientVars, history, vars
  <1>17. ASSUME RunTeardown PROVE TypeOK'
    <2>1. calls' \in [Refs -> Seq({"match", "remove"})]
      BY <1>17, EmptySeq DEF RunTeardown
    <2> QED
      BY <1>17, <2>1, Numbers DEF TypeOK, RunTeardown, guarded, iokit, ends, runVars, clientVars,
         history, vars
  <1>18. ASSUME RunClear PROVE TypeOK'
    <2>1. runLoop' \in BOOLEAN
      BY <1>18 DEF RunClear
    <2> QED
      BY <1>18, <2>1, Numbers DEF TypeOK, RunClear, guarded, iokit, ends, runVars, clientVars,
         history, vars
  <1>19. ASSUME RunDelete PROVE TypeOK'
    <2>1. known' \in BOOLEAN
      BY <1>19 DEF RunDelete
    <2> QED
      BY <1>19, <2>1, Numbers DEF TypeOK, RunDelete, guarded, iokit, ends, runVars, clientVars,
         history, vars
  <1>20. ASSUME RunCloseQueue PROVE TypeOK'
    BY <1>20, Numbers DEF TypeOK, RunCloseQueue, guarded, iokit, ends, runVars, clientVars,
       history, vars
  <1>21. ASSUME RunCloseStopped PROVE TypeOK'
    BY <1>21, Numbers DEF TypeOK, RunCloseStopped, guarded, iokit, ends, runVars, clientVars,
       history, vars
  <1>22. ASSUME WatchReady PROVE TypeOK'
    BY <1>22, Numbers DEF TypeOK, WatchReady, guarded, iokit, ends, runVars, clientVars, history,
       vars
  <1>23. ASSUME WatchFailed PROVE TypeOK'
    BY <1>23, Numbers DEF TypeOK, WatchFailed, guarded, iokit, ends, runVars, clientVars, history,
       vars
  <1>24. ASSUME NEW c \in Closers, CloseCall(c) PROVE TypeOK'
    BY <1>24, Numbers DEF TypeOK, CloseCall, guarded, iokit, ends, runVars, clientVars, history,
       vars
  <1>25. ASSUME NEW c \in Closers, CloseEnter(c) PROVE TypeOK'
    <2>1. once' \in {"fresh", "running", "finished"}
      BY <1>25 DEF CloseEnter, TypeOK
    <2>2. closePc' \in [Closers -> {"idle", "called", "lock", "stop", "await", "returned"}]
      BY <1>25 DEF CloseEnter, TypeOK
    <2> QED
      BY <1>25, <2>1, <2>2, Numbers DEF TypeOK, CloseEnter, guarded, iokit, ends, runVars,
         clientVars, history, vars
  <1>26. ASSUME NEW c \in Closers, CloseLock(c) PROVE TypeOK'
    BY <1>26, Numbers DEF TypeOK, CloseLock, guarded, iokit, ends, runVars, clientVars, history,
       vars
  <1>27. ASSUME NEW c \in Closers, CloseStop(c) PROVE TypeOK'
    BY <1>27, Numbers DEF TypeOK, CloseStop, guarded, iokit, ends, runVars, clientVars, history,
       vars
  <1>28. ASSUME NEW c \in Closers, CloseAwait(c) PROVE TypeOK'
    BY <1>28, Numbers DEF TypeOK, CloseAwait, guarded, iokit, ends, runVars, clientVars, history,
       vars
  <1>29. ASSUME UNCHANGED vars PROVE TypeOK'
    BY <1>29 DEF TypeOK, guarded, iokit, ends, runVars, clientVars, history, vars
  <1> QED
    BY <1>1, <1>2, <1>3, <1>4, <1>5, <1>6, <1>7, <1>8, <1>9, <1>10, <1>11, <1>12, <1>13, <1>14,
       <1>15, <1>16, <1>17, <1>18, <1>19, <1>20, <1>21, <1>22, <1>23, <1>24, <1>25, <1>26, <1>27,
       <1>28, <1>29
       DEF Next, Run, Startup, Teardown, Callback, CloseBody

\* Every step keeps what the place of run says of its flags.
LEMMA PhaseStep == IInv /\ [Next]_vars => PhaseInv'
  <1> SUFFICES ASSUME TypeOK, PhaseInv, ClientInv, [Next]_vars PROVE PhaseInv'
    BY DEF IInv
  <1>1. ASSUME NEW r \in Refs, Arrive(r) PROVE PhaseInv'
    BY <1>1 DEF TypeOK, PhaseInv, ClientInv, Before, Starting, Running, Arrive, guarded, iokit,
       ends, runVars, clientVars, history, vars
  <1>2. ASSUME NEW r \in Refs, Leave(r) PROVE PhaseInv'
    BY <1>2 DEF TypeOK, PhaseInv, ClientInv, Before, Starting, Running, Leave, guarded, iokit,
       ends, runVars, clientVars, history, vars
  <1>3. ASSUME NEW r \in Refs, RunSnapshot(r) PROVE PhaseInv'
    BY <1>3 DEF TypeOK, PhaseInv, ClientInv, Before, Starting, Running, RunSnapshot, guarded,
       iokit, ends, runVars, clientVars, history, vars
  <1>4. ASSUME NEW r \in Refs, Match(r) PROVE PhaseInv'
    <2>1. \A i : <<"connected", r, i>> # <<>>
      OBVIOUS
    <2>2. \/ UNCHANGED <<runPc, sending>>
          \/ runPc = "loop" /\ runPc' = "send" /\ sending' # <<>>
      BY <1>4, <2>1 DEF Match
    <2> QED
      BY <1>4, <2>1, <2>2 DEF Match, PhaseInv, Before, Starting, Running, guarded, iokit, ends,
         runVars, clientVars, history
  <1>5. ASSUME NEW r \in Refs, Remove(r) PROVE PhaseInv'
    <2>1. \/ UNCHANGED <<runPc, sending>>
          \/ runPc = "loop" /\ runPc' = "send" /\ sending' # <<>>
      BY <1>5 DEF Remove
    <2> QED
      BY <1>5, <2>1 DEF Remove, PhaseInv, Before, Starting, Running, guarded, iokit, ends,
         runVars, clientVars, history
  <1>6. ASSUME RunCreate \/ RunSetLoop \/ RunMatch \/ RunCopy \/ RunSnapshotEnd \/ RunLive \/
                RunReady \/ RunCheck \/ RunEnter
         PROVE  PhaseInv'
    BY <1>6 DEF TypeOK, PhaseInv, ClientInv, Before, Starting, Running, RunCreate, RunSetLoop,
       RunMatch, RunCopy, RunSnapshotEnd, RunLive, RunReady, RunCheck, RunEnter, guarded, iokit,
       ends, runVars, clientVars, history, vars
  <1>7. ASSUME RunLoopReturns \/ RunSend \/ RunTeardown \/ RunClear \/ RunDelete \/
                RunCloseQueue \/ RunCloseStopped \/ WatchReady \/ WatchFailed
         PROVE  PhaseInv'
    BY <1>7 DEF TypeOK, PhaseInv, ClientInv, Before, Starting, Running, RunLoopReturns, RunSend,
       RunTeardown, RunClear, RunDelete, RunCloseQueue, RunCloseStopped, WatchReady, WatchFailed,
       guarded, iokit, ends, runVars, clientVars, history, vars
  <1>8. ASSUME NEW c \in Closers, CloseCall(c) \/ CloseEnter(c) \/ CloseLock(c) \/ CloseStop(c)
                                   \/ CloseAwait(c)
         PROVE  PhaseInv'
    BY <1>8 DEF TypeOK, PhaseInv, ClientInv, Before, Starting, Running, CloseCall, CloseEnter,
       CloseLock, CloseStop, CloseAwait, guarded, iokit, ends, runVars, clientVars, history, vars
  <1>9. ASSUME UNCHANGED vars PROVE PhaseInv'
    BY <1>9 DEF TypeOK, PhaseInv, ClientInv, Before, Starting, Running, guarded, iokit, ends,
       runVars, clientVars, history, vars
  <1> QED
    BY <1>1, <1>2, <1>3, <1>4, <1>5, <1>6, <1>7, <1>8, <1>9
       DEF Next, Run, Startup, Teardown, Callback, CloseBody

\* Watch and Close return as they should.
LEMMA ClientStep == IInv /\ [Next]_vars => ClientInv'
  <1> SUFFICES ASSUME TypeOK, PhaseInv, ClientInv, [Next]_vars PROVE ClientInv'
    BY DEF IInv
  <1>1. ASSUME NEW r \in Refs, Arrive(r) PROVE ClientInv'
    BY <1>1 DEF TypeOK, PhaseInv, ClientInv, Before, Starting, Running, Arrive, guarded, iokit,
       ends, runVars, clientVars, history, vars
  <1>2. ASSUME NEW r \in Refs, Leave(r) PROVE ClientInv'
    BY <1>2 DEF TypeOK, PhaseInv, ClientInv, Before, Starting, Running, Leave, guarded, iokit,
       ends, runVars, clientVars, history, vars
  <1>3. ASSUME NEW r \in Refs, RunSnapshot(r) PROVE ClientInv'
    BY <1>3 DEF TypeOK, PhaseInv, ClientInv, Before, Starting, Running, RunSnapshot, guarded,
       iokit, ends, runVars, clientVars, history, vars
  <1>4. ASSUME NEW r \in Refs, Match(r) PROVE ClientInv'
    BY <1>4 DEF TypeOK, PhaseInv, ClientInv, Before, Starting, Running, Match, guarded, iokit,
       ends, runVars, clientVars, history, vars
  <1>5. ASSUME NEW r \in Refs, Remove(r) PROVE ClientInv'
    BY <1>5 DEF TypeOK, PhaseInv, ClientInv, Before, Starting, Running, Remove, guarded, iokit,
       ends, runVars, clientVars, history, vars
  <1>6. ASSUME RunCreate \/ RunSetLoop \/ RunMatch \/ RunCopy \/ RunSnapshotEnd \/ RunLive \/
                RunReady \/ RunCheck \/ RunEnter
         PROVE  ClientInv'
    BY <1>6 DEF TypeOK, PhaseInv, ClientInv, Before, Starting, Running, RunCreate, RunSetLoop,
       RunMatch, RunCopy, RunSnapshotEnd, RunLive, RunReady, RunCheck, RunEnter, guarded, iokit,
       ends, runVars, clientVars, history, vars
  <1>7. ASSUME RunLoopReturns \/ RunSend \/ RunTeardown \/ RunClear \/ RunDelete \/
                RunCloseQueue \/ RunCloseStopped \/ WatchReady \/ WatchFailed
         PROVE  ClientInv'
    BY <1>7 DEF TypeOK, PhaseInv, ClientInv, Before, Starting, Running, RunLoopReturns, RunSend,
       RunTeardown, RunClear, RunDelete, RunCloseQueue, RunCloseStopped, WatchReady, WatchFailed,
       guarded, iokit, ends, runVars, clientVars, history, vars
  <1>8. ASSUME NEW c \in Closers, CloseCall(c) \/ CloseEnter(c) \/ CloseLock(c) \/ CloseStop(c)
                                   \/ CloseAwait(c)
         PROVE  ClientInv'
    BY <1>8 DEF TypeOK, PhaseInv, ClientInv, Before, Starting, Running, CloseCall, CloseEnter,
       CloseLock, CloseStop, CloseAwait, guarded, iokit, ends, runVars, clientVars, history, vars
  <1>9. ASSUME UNCHANGED vars PROVE ClientInv'
    BY <1>9 DEF TypeOK, PhaseInv, ClientInv, Before, Starting, Running, guarded, iokit, ends,
       runVars, clientVars, history, vars
  <1> QED
    BY <1>1, <1>2, <1>3, <1>4, <1>5, <1>6, <1>7, <1>8, <1>9
       DEF Next, Run, Startup, Teardown, Callback, CloseBody

\* At most an arrival and a removal wait for a reference.
LEMMA CallsStep == IInv /\ [Next]_vars => CallsInv'
  <1> SUFFICES ASSUME TypeOK, PhaseInv, CallsInv, [Next]_vars PROVE CallsInv'
    BY DEF IInv
  <1>1. ASSUME NEW r \in Refs, Arrive(r) PROVE CallsInv'
    BY <1>1 DEF TypeOK, PhaseInv, CallsInv, Before, Starting, Running, Queue, Arrived, Left,
       ArrivedLeft, Arrive, guarded, iokit, ends, runVars, clientVars, history, vars
  <1>2. ASSUME NEW r \in Refs, Leave(r) PROVE CallsInv'
    <2>1. manager = "matching" => calls' = [calls EXCEPT ![r] = Append(@, "remove")]
      BY <1>2 DEF Leave, Queue
    <2>2. manager # "matching" => calls' = calls
      BY <1>2 DEF Leave, Queue
    <2>3. present' = [present EXCEPT ![r] = FALSE] /\ present[r] /\ manager' = manager
      BY <1>2 DEF Leave
    <2> QED
      BY <1>2, <2>1, <2>2, <2>3, Callbacks DEF CallsInv, TypeOK
  <1>3. ASSUME NEW r \in Refs, RunSnapshot(r) PROVE CallsInv'
    BY <1>3 DEF TypeOK, PhaseInv, CallsInv, Before, Starting, Running, Queue, Arrived, Left,
       ArrivedLeft, RunSnapshot, guarded, iokit, ends, runVars, clientVars, history, vars
  <1>4. ASSUME NEW r \in Refs, Match(r) PROVE CallsInv'
    <2>1. calls' = [calls EXCEPT ![r] = Tail(@)] /\ calls[r] # <<>> /\ Head(calls[r]) = "match"
      BY <1>4 DEF Match
    <2>2. present' = present /\ manager' = manager
      BY <1>4 DEF Match
    <2> QED
      BY <1>4, <2>1, <2>2, Callbacks DEF CallsInv, TypeOK
  <1>5. ASSUME NEW r \in Refs, Remove(r) PROVE CallsInv'
    <2>1. calls' = [calls EXCEPT ![r] = Tail(@)] /\ calls[r] # <<>> /\ Head(calls[r]) = "remove"
      BY <1>5 DEF Remove
    <2>2. present' = present /\ manager' = manager
      BY <1>5 DEF Remove
    <2> QED
      BY <1>5, <2>1, <2>2, Callbacks DEF CallsInv, TypeOK
  <1>6. ASSUME RunCreate \/ RunSetLoop \/ RunMatch \/ RunCopy \/ RunSnapshotEnd \/ RunLive \/
                RunReady \/ RunCheck \/ RunEnter
         PROVE  CallsInv'
    BY <1>6 DEF TypeOK, PhaseInv, CallsInv, Before, Starting, Running, Queue, Arrived, Left,
       ArrivedLeft, RunCreate, RunSetLoop, RunMatch, RunCopy, RunSnapshotEnd, RunLive, RunReady,
       RunCheck, RunEnter, guarded, iokit, ends, runVars, clientVars, history, vars
  <1>7. ASSUME RunLoopReturns \/ RunSend \/ RunTeardown \/ RunClear \/ RunDelete \/
                RunCloseQueue \/ RunCloseStopped \/ WatchReady \/ WatchFailed
         PROVE  CallsInv'
    BY <1>7 DEF TypeOK, PhaseInv, CallsInv, Before, Starting, Running, Queue, Arrived, Left,
       ArrivedLeft, RunLoopReturns, RunSend, RunTeardown, RunClear, RunDelete, RunCloseQueue,
       RunCloseStopped, WatchReady, WatchFailed, guarded, iokit, ends, runVars, clientVars,
       history, vars
  <1>8. ASSUME NEW c \in Closers, CloseCall(c) \/ CloseEnter(c) \/ CloseLock(c) \/ CloseStop(c)
                                   \/ CloseAwait(c)
         PROVE  CallsInv'
    BY <1>8 DEF TypeOK, PhaseInv, CallsInv, Before, Starting, Running, Queue, Arrived, Left,
       ArrivedLeft, CloseCall, CloseEnter, CloseLock, CloseStop, CloseAwait, guarded, iokit, ends,
       runVars, clientVars, history, vars
  <1>9. ASSUME UNCHANGED vars PROVE CallsInv'
    BY <1>9 DEF TypeOK, PhaseInv, CallsInv, Before, Starting, Running, Queue, Arrived, Left,
       ArrivedLeft, guarded, iokit, ends, runVars, clientVars, history, vars
  <1> QED
    BY <1>1, <1>2, <1>3, <1>4, <1>5, <1>6, <1>7, <1>8, <1>9
       DEF Next, Run, Startup, Teardown, Callback, CloseBody

\* While run starts, the snapshot follows what was copied.
LEMMA StartStep == IInv /\ [Next]_vars => StartInv'
  <1> SUFFICES ASSUME TypeOK, PhaseInv, CallsInv, StartInv, [Next]_vars PROVE StartInv'
    BY DEF IInv
  <1>1. ASSUME NEW r \in Refs, Arrive(r) PROVE StartInv'
    BY <1>1, Numbers DEF TypeOK, PhaseInv, CallsInv, StartInv, Before, Starting, Running, Queue,
       Loads, Arrived, Left, ArrivedLeft, Arrive, guarded, iokit, ends, runVars, clientVars,
       history, vars
  <1>2. ASSUME NEW r \in Refs, Leave(r) PROVE StartInv'
    <2>1. runPc \in Starting =>
            calls' = [calls EXCEPT ![r] = Append(@, "remove")] /\ calls[r] # <<>>
      BY <1>2 DEF Leave, Queue, PhaseInv, StartInv
    <2>2. runPc \in Starting => calls[r] = Arrived /\ calls'[r] = ArrivedLeft
      BY <1>2, <2>1, Callbacks DEF CallsInv, Leave, TypeOK
    <2>3. /\ present' = [present EXCEPT ![r] = FALSE] /\ steady' = steady \ {r}
          /\ UNCHANGED <<runPc, devices, snapshot, todo>>
      BY <1>2 DEF Leave, guarded, runVars
    <2> QED
      BY <2>1, <2>2, <2>3, Callbacks DEF StartInv, TypeOK
  <1>3. ASSUME NEW r \in Refs, RunSnapshot(r) PROVE StartInv'
    <2>1. runPc \in Starting /\ ~closed
      BY <1>3 DEF RunSnapshot, Starting, PhaseInv
    <2>2. snapshot = devices
      BY <2>1 DEF StartInv
    <2>3. snapshot' = devices'
      BY <1>3, <2>2 DEF RunSnapshot
    <2>4. /\ devices'[r] # Absent
          /\ \A q \in Refs \ {r} : devices'[q] = devices[q]
      BY <1>3, <2>1, LoadsType, Numbers DEF RunSnapshot, TypeOK
    <2>5. /\ todo' = todo \ {r} /\ r \in todo /\ runPc = "snapshot"
          /\ UNCHANGED <<runPc, calls, present, steady>>
      BY <1>3 DEF RunSnapshot, iokit, history
    <2> QED
      BY <2>1, <2>2, <2>3, <2>4, <2>5 DEF StartInv, TypeOK, Before, Starting
  <1>4. ASSUME NEW r \in Refs, Match(r) PROVE StartInv'
    BY <1>4, Numbers DEF TypeOK, PhaseInv, CallsInv, StartInv, Before, Starting, Running, Queue,
       Loads, Arrived, Left, ArrivedLeft, Match, guarded, iokit, ends, runVars, clientVars,
       history, vars
  <1>5. ASSUME NEW r \in Refs, Remove(r) PROVE StartInv'
    BY <1>5, Numbers DEF TypeOK, PhaseInv, CallsInv, StartInv, Before, Starting, Running, Queue,
       Loads, Arrived, Left, ArrivedLeft, Remove, guarded, iokit, ends, runVars, clientVars,
       history, vars
  <1>6. ASSUME RunMatch PROVE StartInv'
    BY <1>6, Numbers DEF TypeOK, PhaseInv, CallsInv, StartInv, Before, Starting, Running, Queue,
       Loads, Arrived, Left, ArrivedLeft, RunMatch, guarded, iokit, ends, runVars, clientVars,
       history, vars
  <1>7. ASSUME RunCopy PROVE StartInv'
    BY <1>7, Numbers DEF TypeOK, PhaseInv, CallsInv, StartInv, Before, Starting, Running, Queue,
       Loads, Arrived, Left, ArrivedLeft, RunCopy, guarded, iokit, ends, runVars, clientVars,
       history, vars
  <1>8. ASSUME RunSnapshotEnd PROVE StartInv'
    BY <1>8, Numbers DEF TypeOK, PhaseInv, CallsInv, StartInv, Before, Starting, Running, Queue,
       Loads, Arrived, Left, ArrivedLeft, RunSnapshotEnd, guarded, iokit, ends, runVars,
       clientVars, history, vars
  <1>9. ASSUME RunLive PROVE StartInv'
    BY <1>9, Numbers DEF TypeOK, PhaseInv, CallsInv, StartInv, Before, Starting, Running, Queue,
       Loads, Arrived, Left, ArrivedLeft, RunLive, guarded, iokit, ends, runVars, clientVars,
       history, vars
  <1>10. ASSUME RunReady PROVE StartInv'
    BY <1>10, Numbers DEF TypeOK, PhaseInv, CallsInv, StartInv, Before, Starting, Running, Queue,
       Loads, Arrived, Left, ArrivedLeft, RunReady, guarded, iokit, ends, runVars, clientVars,
       history, vars
  <1>11. ASSUME RunCreate \/ RunSetLoop \/ RunCheck \/ RunEnter \/ RunLoopReturns \/ RunSend \/
                RunTeardown
         PROVE  StartInv'
    BY <1>11, Numbers DEF TypeOK, PhaseInv, CallsInv, StartInv, Before, Starting, Running, Queue,
       Loads, Arrived, Left, ArrivedLeft, RunCreate, RunSetLoop, RunCheck, RunEnter,
       RunLoopReturns, RunSend, RunTeardown, guarded, iokit, ends, runVars, clientVars, history,
       vars
  <1>12. ASSUME RunClear \/ RunDelete \/ RunCloseQueue \/ RunCloseStopped \/ WatchReady \/
                WatchFailed
         PROVE  StartInv'
    BY <1>12, Numbers DEF TypeOK, PhaseInv, CallsInv, StartInv, Before, Starting, Running, Queue,
       Loads, Arrived, Left, ArrivedLeft, RunClear, RunDelete, RunCloseQueue, RunCloseStopped,
       WatchReady, WatchFailed, guarded, iokit, ends, runVars, clientVars, history, vars
  <1>13. ASSUME NEW c \in Closers, CloseCall(c) \/ CloseEnter(c) \/ CloseLock(c) \/ CloseStop(c)
                                   \/ CloseAwait(c)
         PROVE  StartInv'
    <2>1. UNCHANGED <<runPc, todo, calls, present, devices, snapshot, steady>>
      BY <1>13 DEF CloseCall, CloseEnter, CloseLock, CloseStop, CloseAwait, guarded, iokit,
         runVars, history
    <2> QED
      BY <2>1 DEF StartInv
  <1>14. ASSUME UNCHANGED vars PROVE StartInv'
    BY <1>14, Numbers DEF TypeOK, PhaseInv, CallsInv, StartInv, Before, Starting, Running, Queue,
       Loads, Arrived, Left, ArrivedLeft, guarded, iokit, ends, runVars, clientVars, history, vars
  <1> QED
    BY <1>1, <1>2, <1>3, <1>4, <1>5, <1>6, <1>7, <1>8, <1>9, <1>10, <1>11, <1>12, <1>13, <1>14
       DEF Next, Run, Startup, Teardown, Callback, CloseBody

\* The callbacks keep devices in line with what is plugged in.
LEMMA DevicesStep == IInv /\ [Next]_vars => DevicesInv'
  <1> SUFFICES ASSUME TypeOK, PhaseInv, CallsInv, StartInv, DevicesInv, [Next]_vars
               PROVE  DevicesInv'
    BY DEF IInv
  <1>1. ASSUME NEW r \in Refs, Arrive(r) PROVE DevicesInv'
    <2>1. runPc \in Running => calls' = [calls EXCEPT ![r] = <<"match">>] /\ calls[r] = <<>>
      BY <1>1, Callbacks DEF Arrive, Queue, PhaseInv, TypeOK, Arrived
    <2>2. present' = [present EXCEPT ![r] = TRUE] /\ UNCHANGED <<runPc, closed, devices>>
      BY <1>1 DEF Arrive, guarded, runVars
    <2> QED
      BY <1>1, <2>1, <2>2, Callbacks DEF DevicesInv, TypeOK, Arrived
  <1>2. ASSUME NEW r \in Refs, Leave(r) PROVE DevicesInv'
    <2>1. runPc \in Running => calls' = [calls EXCEPT ![r] = Append(@, "remove")]
      BY <1>2 DEF Leave, Queue, PhaseInv
    <2>2. /\ present[r] /\ present' = [present EXCEPT ![r] = FALSE]
          /\ UNCHANGED <<runPc, closed, devices>>
      BY <1>2 DEF Leave, guarded, runVars
    <2>3. \/ runPc \notin Running
          \/ calls[r] = <<>> /\ calls'[r] = Left
          \/ calls[r] = Arrived /\ calls'[r] = ArrivedLeft
      BY <2>1, <2>2, Callbacks DEF CallsInv, TypeOK
    <2> QED
      BY <2>1, <2>2, <2>3, Callbacks DEF DevicesInv, TypeOK
  <1>3. ASSUME NEW r \in Refs, RunSnapshot(r) PROVE DevicesInv'
    BY <1>3, Numbers DEF TypeOK, PhaseInv, CallsInv, StartInv, DevicesInv, Before, Starting,
       Running, Queue, Loads, Arrived, Left, ArrivedLeft, RunSnapshot, guarded, iokit, ends,
       runVars, clientVars, history, vars
  <1>4. ASSUME NEW r \in Refs, Match(r) PROVE DevicesInv'
    <2>1. calls' = [calls EXCEPT ![r] = Tail(@)] /\ calls[r] # <<>> /\ Head(calls[r]) = "match"
      BY <1>4 DEF Match
    <2>2. /\ runPc \in Running /\ runPc' \in Running /\ closed' = closed /\ present' = present
          /\ known
      BY <1>4 DEF Match, PhaseInv, Running
    <2>3. ~closed => devices'[r] # Absent /\ \A q \in Refs \ {r} : devices'[q] = devices[q]
      BY <1>4, <2>2, LoadsType, Numbers DEF Match, TypeOK
    <2>4. \/ calls[r] = Arrived /\ present[r] /\ calls'[r] = <<>>
          \/ calls[r] = ArrivedLeft /\ calls'[r] = Left
      BY <2>1, Callbacks DEF CallsInv, TypeOK
    <2> QED
      BY <2>1, <2>2, <2>3, <2>4, Callbacks DEF DevicesInv, TypeOK
  <1>5. ASSUME NEW r \in Refs, Remove(r) PROVE DevicesInv'
    <2>1. calls' = [calls EXCEPT ![r] = Tail(@)] /\ calls[r] # <<>> /\ Head(calls[r]) = "remove"
      BY <1>5 DEF Remove
    <2>2. /\ runPc \in Running /\ runPc' \in Running /\ closed' = closed /\ present' = present
          /\ known
      BY <1>5 DEF Remove, PhaseInv, Running
    <2>3. ~closed => devices'[r] = Absent /\ \A q \in Refs \ {r} : devices'[q] = devices[q]
      BY <1>5, <2>2 DEF Remove, TypeOK
    <2>4. calls[r] = Left /\ ~present[r] /\ calls'[r] = <<>>
      BY <2>1, Callbacks DEF CallsInv, TypeOK
    <2> QED
      BY <2>1, <2>2, <2>3, <2>4, Callbacks DEF DevicesInv, TypeOK
  <1>6. ASSUME RunCreate \/ RunSetLoop \/ RunMatch \/ RunCopy \/ RunSnapshotEnd \/ RunLive \/
                RunReady \/ RunCheck \/ RunEnter
         PROVE  DevicesInv'
    BY <1>6, Numbers DEF TypeOK, PhaseInv, CallsInv, StartInv, DevicesInv, Before, Starting,
       Running, Queue, Loads, Arrived, Left, ArrivedLeft, RunCreate, RunSetLoop, RunMatch,
       RunCopy, RunSnapshotEnd, RunLive, RunReady, RunCheck, RunEnter, guarded, iokit, ends,
       runVars, clientVars, history, vars
  <1>7. ASSUME RunLoopReturns \/ RunSend \/ RunTeardown \/ RunClear \/ RunDelete \/
                RunCloseQueue \/ RunCloseStopped \/ WatchReady \/ WatchFailed
         PROVE  DevicesInv'
    BY <1>7, Numbers DEF TypeOK, PhaseInv, CallsInv, StartInv, DevicesInv, Before, Starting,
       Running, Queue, Loads, Arrived, Left, ArrivedLeft, RunLoopReturns, RunSend, RunTeardown,
       RunClear, RunDelete, RunCloseQueue, RunCloseStopped, WatchReady, WatchFailed, guarded,
       iokit, ends, runVars, clientVars, history, vars
  <1>8. ASSUME NEW c \in Closers, CloseCall(c) \/ CloseEnter(c) \/ CloseLock(c) \/ CloseStop(c)
                                   \/ CloseAwait(c)
         PROVE  DevicesInv'
    BY <1>8, Numbers DEF TypeOK, PhaseInv, CallsInv, StartInv, DevicesInv, Before, Starting,
       Running, Queue, Loads, Arrived, Left, ArrivedLeft, CloseCall, CloseEnter, CloseLock,
       CloseStop, CloseAwait, guarded, iokit, ends, runVars, clientVars, history, vars
  <1>9. ASSUME UNCHANGED vars PROVE DevicesInv'
    BY <1>9, Numbers DEF TypeOK, PhaseInv, CallsInv, StartInv, DevicesInv, Before, Starting,
       Running, Queue, Loads, Arrived, Left, ArrivedLeft, guarded, iokit, ends, runVars,
       clientVars, history, vars
  <1> QED
    BY <1>1, <1>2, <1>3, <1>4, <1>5, <1>6, <1>7, <1>8, <1>9
       DEF Next, Run, Startup, Teardown, Callback, CloseBody

\* What is sent keeps the view in line with devices.
LEMMA ViewStep == IInv /\ [Next]_vars => ViewInv'
  <1> SUFFICES ASSUME TypeOK, PhaseInv, CallsInv, StartInv, DevicesInv, ViewInv, [Next]_vars
               PROVE  ViewInv'
    BY DEF IInv
  <1>1. ASSUME NEW r \in Refs, Arrive(r) PROVE ViewInv'
    BY <1>1, Numbers DEF TypeOK, PhaseInv, CallsInv, StartInv, DevicesInv, ViewInv, Before,
       Starting, Running, Loads, Event, Left, Arrive, guarded, iokit, ends, runVars, clientVars,
       history, vars
  <1>2. ASSUME NEW r \in Refs, Leave(r) PROVE ViewInv'
    BY <1>2, Numbers DEF TypeOK, PhaseInv, CallsInv, StartInv, DevicesInv, ViewInv, Before,
       Starting, Running, Loads, Event, Left, Leave, guarded, iokit, ends, runVars, clientVars,
       history, vars
  <1>3. ASSUME NEW r \in Refs, RunSnapshot(r) PROVE ViewInv'
    BY <1>3, Numbers DEF TypeOK, PhaseInv, CallsInv, StartInv, DevicesInv, ViewInv, Before,
       Starting, Running, Loads, Event, Left, RunSnapshot, guarded, iokit, ends, runVars,
       clientVars, history, vars
  <1>4. ASSUME NEW r \in Refs, Match(r) PROVE ViewInv'
    BY <1>4, Numbers DEF TypeOK, PhaseInv, CallsInv, StartInv, DevicesInv, ViewInv, Before,
       Starting, Running, Loads, Event, Left, Match, guarded, iokit, ends, runVars, clientVars,
       history, vars
  <1>5. ASSUME NEW r \in Refs, Remove(r) PROVE ViewInv'
    <2>1. /\ runPc = "loop" /\ known /\ view' = view /\ sending = <<>>
          /\ UNCHANGED initializing /\ ~initializing
      BY <1>5 DEF Remove, PhaseInv, history, Running
    <2>2. \A q \in Refs : devices[q] = view[q]
      BY <2>1 DEF ViewInv
    <2>3. calls[r] = Left
      BY <1>5, Callbacks DEF Remove, CallsInv
    <2>4. ~closed => devices[r] # Absent
      BY <2>1, <2>3 DEF DevicesInv, Running, Left
    <2>5. ~closed => /\ devices' = [devices EXCEPT ![r] = Absent]
                     /\ sending' = <<"disconnected", r, view[r]>>
      BY <1>5, <2>1, <2>2, <2>4 DEF Remove, PhaseInv
    <2>6. closed => UNCHANGED <<devices, sending>>
      BY <1>5 DEF Remove
    <2>7. ~closed => sending' # <<>> /\ sending'[2] = r
      BY <2>5
    <2>8. ~closed => \A q \in Refs : devices'[q] = IF q = r THEN Absent ELSE view[q]
      BY <2>2, <2>5 DEF TypeOK
    <2>9. CASE closed
      BY <2>1, <2>2, <2>6, <2>9 DEF ViewInv
    <2>10. CASE ~closed
      BY <2>1, <2>2, <2>4, <2>5, <2>7, <2>8, <2>10 DEF ViewInv
    <2> QED
      BY <2>9, <2>10
  <1>6. ASSUME RunLive PROVE ViewInv'
    BY <1>6, Numbers DEF TypeOK, PhaseInv, CallsInv, StartInv, DevicesInv, ViewInv, Before,
       Starting, Running, Loads, Event, Left, RunLive, guarded, iokit, ends, runVars, clientVars,
       history, vars
  <1>7. ASSUME RunReady PROVE ViewInv'
    BY <1>7, Numbers DEF TypeOK, PhaseInv, CallsInv, StartInv, DevicesInv, ViewInv, Before,
       Starting, Running, Loads, Event, Left, RunReady, guarded, iokit, ends, runVars, clientVars,
       history, vars
  <1>8. ASSUME RunSend PROVE ViewInv'
    BY <1>8, Numbers DEF TypeOK, PhaseInv, CallsInv, StartInv, DevicesInv, ViewInv, Before,
       Starting, Running, Loads, Event, Left, RunSend, guarded, iokit, ends, runVars, clientVars,
       history, vars
  <1>9. ASSUME RunCreate \/ RunSetLoop \/ RunMatch \/ RunCopy \/ RunSnapshotEnd \/ RunCheck \/
                RunEnter \/ RunLoopReturns
         PROVE  ViewInv'
    BY <1>9, Numbers DEF TypeOK, PhaseInv, CallsInv, StartInv, DevicesInv, ViewInv, Before,
       Starting, Running, Loads, Event, Left, RunCreate, RunSetLoop, RunMatch, RunCopy,
       RunSnapshotEnd, RunCheck, RunEnter, RunLoopReturns, guarded, iokit, ends, runVars,
       clientVars, history, vars
  <1>10. ASSUME RunTeardown \/ RunClear \/ RunDelete \/ RunCloseQueue \/ RunCloseStopped \/
                WatchReady \/ WatchFailed
         PROVE  ViewInv'
    BY <1>10, Numbers DEF TypeOK, PhaseInv, CallsInv, StartInv, DevicesInv, ViewInv, Before,
       Starting, Running, Loads, Event, Left, RunTeardown, RunClear, RunDelete, RunCloseQueue,
       RunCloseStopped, WatchReady, WatchFailed, guarded, iokit, ends, runVars, clientVars,
       history, vars
  <1>11. ASSUME NEW c \in Closers, CloseCall(c) \/ CloseEnter(c) \/ CloseLock(c) \/ CloseStop(c)
                                   \/ CloseAwait(c)
         PROVE  ViewInv'
    BY <1>11, Numbers DEF TypeOK, PhaseInv, CallsInv, StartInv, DevicesInv, ViewInv, Before,
       Starting, Running, Loads, Event, Left, CloseCall, CloseEnter, CloseLock, CloseStop,
       CloseAwait, guarded, iokit, ends, runVars, clientVars, history, vars
  <1>12. ASSUME UNCHANGED vars PROVE ViewInv'
    BY <1>12, Numbers DEF TypeOK, PhaseInv, CallsInv, StartInv, DevicesInv, ViewInv, Before,
       Starting, Running, Loads, Event, Left, guarded, iokit, ends, runVars, clientVars, history,
       vars
  <1> QED
    BY <1>1, <1>2, <1>3, <1>4, <1>5, <1>6, <1>7, <1>8, <1>9, <1>10, <1>11, <1>12
       DEF Next, Run, Startup, Teardown, Callback, CloseBody

-----------------------------------------------------------------------------
\* The invariant is inductive.
LEMMA InvStep == IInv /\ [Next]_vars => IInv'
  BY TypeStep, PhaseStep, ClientStep, CallsStep, StartStep, DevicesStep, ViewStep DEF IInv

\* It holds in every state of the receiver.
LEMMA Inductive == Spec => []IInv
  BY InitInv, InvStep, PTL DEF Spec

(***************************************************************************)
(* A Watch that failed and a Close that returned leave no manager, no      *)
(* registration and no open channel behind: both have waited for stopped,  *)
(* which run closes last (run's deferred calls, Watch, Close).             *)
(***************************************************************************)
THEOREM ReleaseCorrect == Spec => []LeavesNothing
  <1>1. IInv => LeavesNothing
    BY DEF IInv, PhaseInv, ClientInv, LeavesNothing, Starting, Running
  <1> QED
    BY <1>1, Inductive, PTL

(***************************************************************************)
(* The snapshot holds every device that was there from the start of the    *)
(* matching to the end of initializing: it is in the set that was copied,  *)
(* and run has gone through all of it (run, deviceConnected).              *)
(***************************************************************************)
THEOREM SnapshotCorrect == Spec => SnapshotCoversSteadyDevices
  <1> DEFINE Covered == initializing /\ ~initializing' => \A r \in steady : view'[r] # Absent
  <1>1. IInv /\ [Next]_vars => [Covered]_vars
    <2> SUFFICES ASSUME IInv, [Next]_vars, initializing, ~initializing'
                 PROVE  \A r \in steady : view'[r] # Absent
      OBVIOUS
    <2>1. RunLive
      <3>1. UNCHANGED initializing \/ RunLive
        BY DEF Next, Run, Startup, Teardown, Callback, CloseBody, Arrive, Leave, RunSnapshot,
           Match, Remove, RunCreate, RunSetLoop, RunMatch, RunCopy, RunSnapshotEnd, RunReady,
           RunCheck, RunEnter, RunLoopReturns, RunSend, RunTeardown, RunClear, RunDelete,
           RunCloseQueue, RunCloseStopped, WatchReady, WatchFailed, CloseCall, CloseEnter,
           CloseLock, CloseStop, CloseAwait, guarded, ends, history, vars
      <3> QED
        BY <3>1
    <2> QED
      BY <2>1 DEF RunLive, IInv, StartInv, Before, Starting
  <1> QED
    BY <1>1, Inductive, PTL DEF Spec, SnapshotCoversSteadyDevices

(***************************************************************************)
(* The receiver implements Watcher: the end of the snapshot captures it,   *)
(* every Send is a change to the client's view, and closing the queue is   *)
(* the end; no other step shows to the client.                             *)
(***************************************************************************)
THEOREM WatcherCorrect == Spec => ImplementsWatcher
  <1> USE DEF Client!vars
  <1>1. Init => Client!Init
    BY DEF Init, Client!Init, phase
  <1>2. IInv /\ [Next]_vars => [Client!Next]_(Client!vars)
    <2> SUFFICES ASSUME IInv, [Next]_vars PROVE [Client!Next]_(Client!vars)
      OBVIOUS
    <2>1. CASE RunLive
      <3>1. phase = "starting" /\ phase' = "live" /\ UNCHANGED last
        BY <2>1 DEF RunLive, IInv, PhaseInv, StartInv, Starting, phase, ends
      <3>2. view' \in [Refs -> MaybeInfos] /\ MaybeInfos = Infos \union {Absent}
        BY <2>1, TypeStep, DarwinAssumption DEF IInv, TypeOK, MaybeInfos, Infos, Absent
      <3> QED
        BY <3>1, <3>2 DEF Client!Next, Client!CaptureSnapshot
    <2>2. CASE RunSend
      <3>1. phase = "live" /\ UNCHANGED phase
        BY <2>2 DEF RunSend, IInv, PhaseInv, Running, phase, guarded, ends
      <3>2. sending \in Event
        BY <2>2 DEF RunSend, IInv, TypeOK, PhaseInv
      <3> DEFINE r == sending[2]
      <3>3. r \in Refs /\ ~initializing /\ sending # <<>>
        BY <2>2, <3>2 DEF RunSend, IInv, PhaseInv, Running, Event
      <3>4. \/ sending = <<"connected", r, devices[r]>> /\ view[r] = Absent
            \/ sending = <<"disconnected", r, view[r]>> /\ view[r] # Absent
        BY <3>3 DEF IInv, ViewInv
      <3>5. last' = sending
        BY <2>2 DEF RunSend
      <3>6. CASE sending = <<"connected", r, devices[r]>> /\ view[r] = Absent
        <4>1. devices[r] \in Infos
          BY <3>2, <3>6 DEF Event
        <4> sending[1] = "connected" /\ sending[3] = devices[r]
          BY <3>6
        <4>2. view' = [view EXCEPT ![r] = devices[r]]
          BY <2>2 DEF RunSend
        <4>3. Client!Connected(r)
          BY <3>1, <3>5, <3>6, <4>1, <4>2 DEF Client!Connected
        <4> QED
          BY <3>3, <4>3 DEF Client!Next
      <3>7. CASE sending = <<"disconnected", r, view[r]>> /\ view[r] # Absent
        <4> sending[1] # "connected"
          BY <3>7
        <4>1. view' = [view EXCEPT ![r] = Absent]
          BY <2>2 DEF RunSend
        <4>2. Client!Disconnected(r)
          BY <3>1, <3>5, <3>7, <4>1 DEF Client!Disconnected
        <4> QED
          BY <3>3, <4>2 DEF Client!Next
      <3> QED
        BY <3>4, <3>6, <3>7
    <2>3. CASE RunCloseQueue
      <3>1. phase # "ended" /\ phase' = "ended" /\ UNCHANGED <<view, last>>
        BY <2>3 DEF RunCloseQueue, IInv, PhaseInv, phase, history
      <3> QED
        BY <3>1 DEF Client!Next, Client!End
    <2>4. CASE UNCHANGED <<initializing, queueClosed, view, last>>
      BY <2>4 DEF phase
    <2>5. \/ RunLive \/ RunSend \/ RunCloseQueue
          \/ UNCHANGED <<initializing, queueClosed, view, last>>
      BY DEF Next, Run, Startup, Teardown, Callback, CloseBody, Arrive, Leave, RunSnapshot, Match,
         Remove, RunCreate, RunSetLoop, RunMatch, RunCopy, RunSnapshotEnd, RunReady, RunCheck,
         RunEnter, RunLoopReturns, RunSend, RunTeardown, RunClear, RunDelete, RunCloseQueue,
         RunCloseStopped, WatchReady, WatchFailed, CloseCall, CloseEnter, CloseLock, CloseStop,
         CloseAwait, guarded, ends, history, vars
    <2> QED
      BY <2>1, <2>2, <2>3, <2>4, <2>5
  <1> QED
    BY <1>1, <1>2, Inductive, PTL DEF Spec, ImplementsWatcher, Client!Spec
=============================================================================
