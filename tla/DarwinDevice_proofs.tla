------------------------ MODULE DarwinDevice_proofs ------------------------
(***************************************************************************)
(* Proofs about DarwinDevice for any number of calls, reports and closers. *)
(* The device reference is released once and when nobody uses it, because  *)
(* one call of Close at most is under way (OneCloser), and it comes to the *)
(* native calls only after both threads have said that they end            *)
(* (CloseOrder).  A report stays in the channel until a read has it, and a *)
(* write is handed over once (RequestsInv).                                *)
(***************************************************************************)
EXTENDS DarwinDevice, SequenceTheorems, TLAPS

UnderWay(k) == closePc[k] \notin {"idle", "returned"}

OneCloser ==
  /\ \A k \in Closers : UnderWay(k) => closed
  /\ \A k, l \in Closers : UnderWay(k) /\ UnderWay(l) => k = l

Threads ==
  /\ stopped => runPc = "halted"
  /\ writeStopped => workPc = "halted"

CloseOrder ==
  /\ \A k \in Closers :
       /\ closePc[k] \in {"waitWorker", "unregister", "close", "release"} => runPc = "halted"
       /\ closePc[k] \in {"unregister", "close", "release"} => workPc = "halted"
       /\ closePc[k] \in {"close", "release"} => ~known
       /\ closePc[k] \in {"waitRun", "waitWorker", "unregister", "close"} => device = "open"
       /\ closePc[k] = "release" => device = "closed"
  /\ device # "open" => closed

Quiet == OneCloser /\ Threads /\ CloseOrder /\ ReleasedIsQuiet

-----------------------------------------------------------------------------
\* OpenPath has returned: every variable has its type.
LEMMA TypeInit == Init => TypeOK
  <1> SUFFICES ASSUME Init PROVE TypeOK
    OBVIOUS
  <1>1. /\ reports \in Seq(1..MaxReports) /\ Len(reports) <= ReportsCap
        /\ sent \in 0..MaxReports
    BY EmptySeq, DarwinDeviceAssumption DEF Init
  <1>2. got \in [Readers -> 0..MaxReports]
    BY DarwinDeviceAssumption DEF Init
  <1>3. /\ result \in [Writers -> Outcomes] /\ answer \in [Calls -> Outcomes]
        /\ ctxDone \subseteq Calls /\ submitted \subseteq Writers
    BY DEF Init, Outcomes
  <1>4. /\ working \in Writers \union {NoWrite}
        /\ (workPc \in {"check", "submit", "native"}) <=> (working # NoWrite)
    BY DEF Init
  <1> QED
    BY <1>1, <1>2, <1>3, <1>4 DEF Init, TypeOK

\* Nothing is in use before the first call.
LEMMA QuietInit == Init => Quiet
  BY DEF Init, Quiet, OneCloser, Threads, CloseOrder, ReleasedIsQuiet, UnderWay

(***************************************************************************)
(* Every step keeps every variable in its type.                            *)
(***************************************************************************)
LEMMA TypeStep == TypeOK /\ [Next]_vars => TypeOK'
  <1> SUFFICES ASSUME TypeOK, [Next]_vars PROVE TypeOK'
    OBVIOUS
  <1> USE DarwinDeviceAssumption DEF TypeOK, Outcomes
  <1>1. CASE Unplug
    BY <1>1 DEF Unplug, guarded, channels, worker, callers
  <1>2. CASE Input
    <2>1. sent + 1 \in 1..MaxReports
      BY <1>2 DEF Input
    <2>2. /\ Append(reports, sent + 1) \in Seq(1..MaxReports)
          /\ Len(Append(reports, sent + 1)) = Len(reports) + 1
      BY <2>1, AppendProperties
    <2>3. Len(reports) \in Nat
      BY LenProperties
    <2>4. /\ reports' \in Seq(1..MaxReports) /\ Len(reports') <= ReportsCap
      <3>1. CASE Len(reports) < ReportsCap
        BY <1>2, <2>2, <2>3, <3>1 DEF Input
      <3>2. CASE ~(Len(reports) < ReportsCap)
        BY <1>2, <3>2 DEF Input
      <3> QED
        BY <3>1, <3>2
    <2>5. sent' \in 0..MaxReports
      BY <1>2, <2>1 DEF Input
    <2> QED
      BY <1>2, <2>4, <2>5 DEF Input, guarded, worker, callers
  <1>3. CASE Removal
    BY <1>3 DEF Removal, guarded, worker, callers
  <1>4. CASE RunLoopFinished
    <2>1. stop' \in BOOLEAN
      BY <1>4 DEF RunLoopFinished
    <2> QED
      BY <1>4, <2>1 DEF RunLoopFinished, RunPcTo, channels, worker, callers
  <1>5. CASE NativeEnds
    BY <1>5 DEF NativeEnds, Reply, nonworker, iokit, guarded, channels, callers
  <1>6. CASE RunGoesOn
    <2>1. CASE RunCheck
      BY <2>1 DEF RunCheck, RunPcTo, channels, worker, callers
    <2>2. CASE RunEnter
      BY <2>2 DEF RunEnter, RunPcTo, channels, worker, callers
    <2>3. CASE RunLoopReturns
      <3>1. stop' \in BOOLEAN
        BY <2>3 DEF RunLoopReturns
      <3> QED
        BY <2>3, <3>1 DEF RunLoopReturns, RunPcTo, channels, worker, callers
    <2>4. CASE RemovalStop
      BY <2>4 DEF RemovalStop, CFRunLoopStop, RunPcTo, channels, worker, callers
    <2>5. CASE RunUnschedule
      <3>1. runLoop' \in BOOLEAN
        BY <2>5 DEF RunUnschedule
      <3> QED
        BY <2>5, <3>1 DEF RunUnschedule, RunPcTo, channels, worker, callers
    <2>6. CASE RunCloseReports
      BY <2>6 DEF RunCloseReports, RunPcTo, worker, callers
    <2>7. CASE RunCloseStopped
      BY <2>7 DEF RunCloseStopped, RunPcTo, worker, callers
    <2> QED
      BY <1>6, <2>1, <2>2, <2>3, <2>4, <2>5, <2>6, <2>7 DEF RunGoesOn
  <1>7. CASE WorkGoesOn
    <2> USE DEF nonworker, iokit, guarded, channels, callers
    <2>1. CASE WorkSelect
      BY <2>1 DEF WorkSelect
    <2>2. CASE WorkRefuse
      <3>1. \A outcome \in {"closed", "removed"} :
               Reply(outcome, "stop") => result' \in [Writers -> Outcomes]
        BY DEF Reply
      <3> QED
        BY <2>2, <3>1 DEF WorkRefuse, Reply
    <2>3. CASE WorkAccept
      BY <2>3 DEF WorkAccept
    <2>4. CASE Submit
      BY <2>4 DEF Submit
    <2>5. CASE WorkStop
      BY <2>5 DEF WorkStop
    <2>6. ASSUME NEW w \in Writers, Take(w) PROVE TypeOK'
      BY <2>6 DEF Take, Calls
    <2> QED
      BY <1>7, <2>1, <2>2, <2>3, <2>4, <2>5, <2>6 DEF WorkGoesOn
  <1>8. ASSUME NEW c \in Calls, Call(c) PROVE TypeOK'
    BY <1>8 DEF Call, call, iokit, guarded, worker
  <1>9. ASSUME NEW c \in Calls, ContextDone(c) PROVE TypeOK'
    BY <1>9 DEF ContextDone, call, iokit, guarded, worker
  <1>10. ASSUME NEW c \in Calls, CallGoesOn(c) PROVE TypeOK'
    <2> USE DEF Return, call, iokit, guarded, worker
    <2>1. CASE SelectContext(c)
      BY <2>1 DEF SelectContext
    <2>2. CASE SelectRemoved(c)
      BY <2>2 DEF SelectRemoved
    <2>3. CASE c \in Readers /\ SelectReport(c)
      <3>1. /\ Head(reports) \in 1..MaxReports /\ Tail(reports) \in Seq(1..MaxReports)
            /\ Len(Tail(reports)) = Len(reports) - 1
        BY <2>3, HeadTailProperties DEF SelectReport
      <3>2. Len(reports) \in Nat
        BY LenProperties
      <3> QED
        BY <2>3, <3>1, <3>2 DEF SelectReport
    <2>4. CASE c \in Readers /\ SelectNoReports(c)
      BY <2>4 DEF SelectNoReports
    <2>5. CASE c \in Readers /\ Ended(c)
      BY <2>5 DEF Ended
    <2>6. CASE c \in Writers /\ SelectClosing(c)
      BY <2>6 DEF SelectClosing
    <2>7. CASE c \in Writers /\ SelectResult(c)
      BY <2>7 DEF SelectResult
    <2> QED
      BY <1>10, <2>1, <2>2, <2>3, <2>4, <2>5, <2>6, <2>7 DEF CallGoesOn
  <1>11. ASSUME NEW k \in Closers, CloseEnter(k) PROVE TypeOK'
    <2>1. stop' \in BOOLEAN /\ closed' \in BOOLEAN
      BY <1>11 DEF CloseEnter, CFRunLoopStop
    <2>2. closePc' \in [Closers -> {"idle", "waitRun", "waitWorker", "unregister", "close",
                                    "release", "returned"}]
      BY <1>11 DEF CloseEnter, ClosePcTo
    <2> QED
      BY <1>11, <2>1, <2>2 DEF CloseEnter, channels, worker, callers
  <1>12. ASSUME NEW k \in Closers, CloseGoesOn(k) PROVE TypeOK'
    <2>1. /\ closePc' \in [Closers -> {"idle", "waitRun", "waitWorker", "unregister", "close",
                                       "release", "returned"}]
          /\ known' \in BOOLEAN /\ device' \in {"open", "closed", "released"}
      BY <1>12 DEF CloseGoesOn, CloseWaitRun, CloseWaitWorker, CloseUnregister, CloseDevice,
         CloseRelease, ClosePcTo
    <2>2. UNCHANGED closer
      BY <1>12 DEF CloseGoesOn, CloseWaitRun, CloseWaitWorker, CloseUnregister, CloseDevice,
         CloseRelease
    <2> QED
      BY <2>1, <2>2 DEF closer, guarded, channels, worker, callers
  <1>13. CASE UNCHANGED vars
    BY <1>13 DEF vars, iokit, guarded, channels, worker, callers
  <1> QED
    BY <1>1, <1>2, <1>3, <1>4, <1>5, <1>6, <1>7, <1>8, <1>9, <1>10, <1>11, <1>12, <1>13
    DEF Next

(***************************************************************************)
(* The handshake between Close and the two threads.                        *)
(***************************************************************************)
LEMMA QuietStep == TypeOK /\ Quiet /\ [Next]_vars => Quiet'
  <1> SUFFICES ASSUME TypeOK, Quiet, [Next]_vars PROVE Quiet'
    OBVIOUS
  <1> USE DEF Quiet, OneCloser, Threads, CloseOrder, ReleasedIsQuiet, UnderWay
  <1>0. closePc \in [Closers -> {"idle", "waitRun", "waitWorker", "unregister", "close",
                                 "release", "returned"}]
    BY DEF TypeOK
  <1>1. CASE Unplug \/ Input
    BY <1>1 DEF Unplug, Input, guarded, channels, worker
  <1>2. CASE Removal
    BY <1>2 DEF Removal, guarded, worker
  <1>3. CASE RunLoopFinished
    BY <1>3 DEF RunLoopFinished, RunPcTo, channels, worker
  <1>4. CASE NativeEnds
    BY <1>4 DEF NativeEnds, Reply, nonworker, iokit, guarded, channels
  <1>5. CASE RunGoesOn
    BY <1>5 DEF RunGoesOn, RunCheck, RunEnter, RunLoopReturns, RemovalStop, RunUnschedule,
       RunCloseReports, RunCloseStopped, RunPcTo, channels, worker
  <1>6. CASE WorkGoesOn
    BY <1>6 DEF WorkGoesOn, WorkSelect, WorkRefuse, WorkAccept, Submit, WorkStop, Take, Reply,
       nonworker, iokit, guarded, channels
  <1>7. ASSUME NEW c \in Calls, Call(c) \/ ContextDone(c) \/ CallGoesOn(c) PROVE Quiet'
    BY <1>7 DEF Call, ContextDone, CallGoesOn, SelectContext, SelectRemoved, SelectReport,
       SelectNoReports, Ended, SelectClosing, SelectResult, call, iokit, guarded, worker
  <1>8. ASSUME NEW k \in Closers, CloseEnter(k) PROVE Quiet'
    <2>1. closePc[k] = "idle"
      BY <1>8 DEF CloseEnter, InTurn
    <2>2. CASE closed
      BY <1>0, <1>8, <2>1, <2>2 DEF CloseEnter, ClosePcTo, channels, worker
    <2>3. CASE ~closed
      <3>1. \A l \in Closers : ~UnderWay(l)
        BY <2>3
      <3> QED
        BY <1>0, <1>8, <2>1, <2>3, <3>1 DEF CloseEnter, ClosePcTo, CFRunLoopStop, channels, worker
    <2> QED
      BY <2>2, <2>3
  <1>9. ASSUME NEW k \in Closers, CloseGoesOn(k) PROVE Quiet'
    <2> USE DEF ClosePcTo, closer, guarded, channels, worker
    <2>1. CASE CloseWaitRun(k)
      BY <1>0, <2>1 DEF CloseWaitRun
    <2>2. CASE CloseWaitWorker(k)
      BY <1>0, <2>2 DEF CloseWaitWorker
    <2>3. CASE CloseUnregister(k)
      BY <1>0, <2>3 DEF CloseUnregister
    <2>4. CASE CloseDevice(k)
      BY <1>0, <2>4 DEF CloseDevice
    <2>5. CASE CloseRelease(k)
      BY <1>0, <2>5 DEF CloseRelease
    <2> QED
      BY <1>9, <2>1, <2>2, <2>3, <2>4, <2>5 DEF CloseGoesOn
  <1>10. CASE UNCHANGED vars
    BY <1>10 DEF vars, iokit, guarded, channels, worker
  <1> QED
    BY <1>1, <1>2, <1>3, <1>4, <1>5, <1>6, <1>7, <1>8, <1>9, <1>10 DEF Next

(***************************************************************************)
(* A released device stays released: only a Close that has not closed it   *)
(* yet touches it, and there is none once it is released.                  *)
(***************************************************************************)
LEMMA ReleasedStep ==
  TypeOK /\ Quiet /\ [Next]_vars => [device = "released" => device' = "released"]_vars
  <1> SUFFICES ASSUME Quiet, Next, device = "released" PROVE device' = "released"
    BY DEF vars, iokit
  <1>1. ASSUME NEW k \in Closers PROVE ~CloseDevice(k)
    BY <1>1 DEF CloseDevice, Quiet, CloseOrder
  <1>2. ASSUME NEW k \in Closers, CloseEnter(k) \/ CloseGoesOn(k) PROVE device' = "released"
    BY <1>1, <1>2 DEF CloseEnter, CloseGoesOn, CloseWaitRun, CloseWaitWorker, CloseUnregister,
       CloseRelease
  <1>3. ASSUME NEW c \in Calls, Call(c) \/ ContextDone(c) \/ CallGoesOn(c)
        PROVE device' = "released"
    BY <1>3 DEF Call, ContextDone, CallGoesOn, SelectContext, SelectRemoved, SelectReport,
       SelectNoReports, Ended, SelectClosing, SelectResult, call, iokit
  <1>4. CASE Unplug \/ Input \/ Removal \/ RunLoopFinished \/ RunGoesOn
    BY <1>4 DEF Unplug, Input, Removal, RunLoopFinished, RunGoesOn, RunCheck, RunEnter,
       RunLoopReturns, RemovalStop, RunUnschedule, RunCloseReports, RunCloseStopped, RunPcTo
  <1>5. CASE NativeEnds \/ WorkGoesOn
    BY <1>5 DEF NativeEnds, WorkGoesOn, WorkSelect, WorkRefuse, WorkAccept, Submit, WorkStop, Take,
       nonworker, iokit
  <1> QED
    BY <1>2, <1>3, <1>4, <1>5 DEF Next

(***************************************************************************)
(* Close gives the device up once, after the last use by either thread,    *)
(* with any number of calls under way (hid_darwin.go:366-386).             *)
(***************************************************************************)
THEOREM ReleaseCorrect == Spec => ReleasedOnceWhenQuiet
  <1>1. Init => TypeOK /\ Quiet
    BY TypeInit, QuietInit
  <1>2. TypeOK /\ Quiet /\ [Next]_vars => (TypeOK /\ Quiet)'
    BY TypeStep, QuietStep
  <1>3. TypeOK /\ Quiet => TypeOK /\ ReleasedIsQuiet
    BY DEF Quiet
  <1> QED
    BY <1>1, <1>2, <1>3, ReleasedStep, PTL DEF Spec, ReleasedOnceWhenQuiet, ReleasedOnce
-----------------------------------------------------------------------------
(***************************************************************************)
(* Input and SelectReport change the channel reports, nothing else does.   *)
(***************************************************************************)
LEMMA ReportsStep ==
  TypeOK /\ [Next]_vars =>
    \/ UNCHANGED reports
    \/ \E n \in 1..MaxReports : reports' = Append(reports, n)
    \/ \E r \in Readers : SelectReport(r)
  <1> SUFFICES ASSUME TypeOK, [Next]_vars
               PROVE \/ UNCHANGED reports
                     \/ \E n \in 1..MaxReports : reports' = Append(reports, n)
                     \/ \E r \in Readers : SelectReport(r)
    OBVIOUS
  <1>1. CASE Input
    <2>1. sent + 1 \in 1..MaxReports
      BY <1>1, DarwinDeviceAssumption DEF Input, TypeOK
    <2> QED
      BY <1>1, <2>1 DEF Input
  <1>2. CASE Unplug \/ Removal \/ RunLoopFinished \/ RunGoesOn
    BY <1>2 DEF Unplug, Removal, RunLoopFinished, RunGoesOn, RunCheck, RunEnter, RunLoopReturns,
       RemovalStop, RunUnschedule, RunCloseReports, RunCloseStopped, channels
  <1>3. CASE NativeEnds \/ WorkGoesOn
    BY <1>3 DEF NativeEnds, WorkGoesOn, WorkSelect, WorkRefuse, WorkAccept, Submit, WorkStop, Take,
       nonworker, channels
  <1>4. ASSUME NEW c \in Calls, Call(c) \/ ContextDone(c) \/ CallGoesOn(c)
        PROVE UNCHANGED reports \/ \E r \in Readers : SelectReport(r)
    BY <1>4 DEF Call, ContextDone, CallGoesOn, SelectContext, SelectRemoved, SelectNoReports,
       Ended, SelectClosing, SelectResult
  <1>5. ASSUME NEW k \in Closers, CloseEnter(k) \/ CloseGoesOn(k) PROVE UNCHANGED reports
    BY <1>5 DEF CloseEnter, CloseGoesOn, CloseWaitRun, CloseWaitWorker, CloseUnregister,
       CloseDevice, CloseRelease, closer, channels
  <1>6. CASE UNCHANGED vars
    BY <1>6 DEF vars, channels
  <1> QED
    BY <1>1, <1>2, <1>3, <1>4, <1>5, <1>6 DEF Next

(***************************************************************************)
(* A read that has no answer yet gets "closed" only when the device was    *)
(* not removed: its other outcomes have other names.                       *)
(***************************************************************************)
LEMMA NamedStep ==
  ASSUME TypeOK, [Next]_vars, NEW r \in Readers, removed, answer[r] = "none"
  PROVE  answer'[r] # "closed"
  <1>1. ASSUME NEW c \in Calls, Call(c) \/ ContextDone(c) PROVE UNCHANGED answer
    BY <1>1 DEF Call, ContextDone
  <1>2. ASSUME NEW c \in Calls, CallGoesOn(c) PROVE answer'[r] # "closed"
    <2>1. ASSUME NEW o, Return(c, o), o # "closed" \/ c # r PROVE answer'[r] # "closed"
      BY <2>1 DEF Return, TypeOK, Calls
    <2>2. CASE c \in Readers
      <3>1. c \notin Writers
        BY <2>2, DarwinDeviceAssumption
      <3>2. SelectNoReports(c) \/ \E o \in {"ok", "error", "removed"} : Return(c, o)
        BY <1>2, <3>1 DEF CallGoesOn, SelectContext, SelectRemoved, SelectReport, Ended
      <3>3. CASE SelectNoReports(c)
        BY <3>3 DEF SelectNoReports
      <3> QED
        BY <2>1, <3>2, <3>3
    <2>3. CASE c \notin Readers
      <3>1. c # r
        BY <2>3
      <3>2. \E o \in Outcomes : Return(c, o)
        BY <1>2, <2>3 DEF CallGoesOn, SelectContext, SelectRemoved, SelectClosing, SelectResult,
           TypeOK, Outcomes
      <3> QED
        BY <2>1, <3>1, <3>2
    <2> QED
      BY <2>2, <2>3
  <1>3. CASE Unplug \/ Input \/ Removal \/ RunLoopFinished \/ RunGoesOn
    BY <1>3 DEF Unplug, Input, Removal, RunLoopFinished, RunGoesOn, RunCheck, RunEnter,
       RunLoopReturns, RemovalStop, RunUnschedule, RunCloseReports, RunCloseStopped, RunPcTo,
       callers
  <1>4. CASE NativeEnds \/ WorkGoesOn
    BY <1>4 DEF NativeEnds, WorkGoesOn, WorkSelect, WorkRefuse, WorkAccept, Submit, WorkStop, Take,
       callers
  <1>5. ASSUME NEW k \in Closers, CloseEnter(k) \/ CloseGoesOn(k) PROVE UNCHANGED answer
    BY <1>5 DEF CloseEnter, CloseGoesOn, CloseWaitRun, CloseWaitWorker, CloseUnregister,
       CloseDevice, CloseRelease, closer, callers
  <1>6. CASE UNCHANGED vars
    BY <1>6 DEF vars, callers
  <1> QED
    BY <1>1, <1>2, <1>3, <1>4, <1>5, <1>6 DEF Next

(***************************************************************************)
(* A report in the channel stays there before the later ones until a read  *)
(* has it, and a read after the removal is not told that the device was    *)
(* closed (hid_darwin.go:219-230, :453).                                   *)
(***************************************************************************)
THEOREM ReadsCorrect == Spec => ReadsAreRight
  <1>1. ASSUME TypeOK, [Next]_vars
        PROVE \/ Len(reports) <= Len(reports') /\ reports = SubSeq(reports', 1, Len(reports))
              \/ reports' = Tail(reports) /\ \E r \in Readers : got'[r] = Head(reports)
    <2>1. reports \in Seq(1..MaxReports)
      BY <1>1 DEF TypeOK
    <2>2. Len(reports) \in Nat
      BY <2>1, LenProperties
    <2>3. CASE UNCHANGED reports
      BY <2>1, <2>2, <2>3, SubSeqFull
    <2>4. ASSUME NEW n \in 1..MaxReports, reports' = Append(reports, n)
          PROVE Len(reports) <= Len(reports') /\ reports = SubSeq(reports', 1, Len(reports))
      BY <2>1, <2>2, <2>4
    <2>5. ASSUME NEW r \in Readers, SelectReport(r)
          PROVE reports' = Tail(reports) /\ got'[r] = Head(reports)
      BY <1>1, <2>5 DEF SelectReport, TypeOK
    <2> QED
      BY <1>1, <2>3, <2>4, <2>5, ReportsStep
  <1>2. TypeOK /\ [Next]_vars =>
          [\/ Len(reports) <= Len(reports') /\ reports = SubSeq(reports', 1, Len(reports))
           \/ reports' = Tail(reports) /\ \E r \in Readers : got'[r] = Head(reports)]_vars
    BY <1>1
  <1>3. TypeOK /\ [Next]_vars =>
          [\A r \in Readers : removed /\ answer[r] = "none" => answer'[r] # "closed"]_vars
    BY NamedStep
  <1> QED
    BY <1>2, <1>3, TypeInit, TypeStep, PTL DEF Spec, ReadsAreRight, KeptUntilRead, RemovalIsNamed
-----------------------------------------------------------------------------
(***************************************************************************)
(* What the worker has, what it has submitted and what the result channels *)
(* hold: a request is taken from a caller in its first select, so that it  *)
(* is not taken again, and answered after it is put down.                  *)
(***************************************************************************)
Begun(w) == callPc[w] \in {"wait", "returned"}

RequestsInv ==
  /\ \A w \in submitted : Begun(w)
  /\ working # NoWrite => Begun(working)
  /\ workPc \in {"check", "submit"} => working \notin submitted
  /\ workPc = "native" => working \in submitted
  /\ \A w \in Writers : result[w] # "none" => callPc[w] = "wait" /\ w # working
  /\ \A w \in Writers : result[w] = "ok" => w \in submitted
  /\ \A w \in Writers : callPc[w] # "returned" => answer[w] = "none"

\* No write is under way before the first call.
LEMMA RequestsInit == Init => RequestsInv
  BY DEF Init, RequestsInv, Calls

\* Every step of a writer and of the worker keeps what relates the two.
LEMMA RequestsStep == TypeOK /\ RequestsInv /\ [Next]_vars => RequestsInv'
  <1> SUFFICES ASSUME TypeOK, RequestsInv, [Next]_vars PROVE RequestsInv'
    OBVIOUS
  <1> USE DEF RequestsInv, Begun
  <1>w. Writers \subseteq Calls /\ NoWrite \notin Writers
    BY DarwinDeviceAssumption DEF Calls
  <1>t. /\ working \in Writers \union {NoWrite} /\ submitted \subseteq Writers
        /\ (workPc \in {"check", "submit", "native"}) <=> (working # NoWrite)
        /\ result \in [Writers -> Outcomes] /\ answer \in [Calls -> Outcomes]
        /\ callPc \in [Calls -> {"idle", "select", "ended", "wait", "returned"}]
    BY DEF TypeOK
  <1>1. CASE Unplug \/ Input \/ Removal \/ RunLoopFinished \/ RunGoesOn
    BY <1>1 DEF Unplug, Input, Removal, RunLoopFinished, RunGoesOn, RunCheck, RunEnter,
       RunLoopReturns, RemovalStop, RunUnschedule, RunCloseReports, RunCloseStopped, RunPcTo,
       worker, callers
  <1>2. ASSUME NEW k \in Closers, CloseEnter(k) \/ CloseGoesOn(k) PROVE RequestsInv'
    BY <1>2 DEF CloseEnter, CloseGoesOn, CloseWaitRun, CloseWaitWorker, CloseUnregister,
       CloseDevice, CloseRelease, closer, worker, callers
  <1>3. CASE NativeEnds
    <2>1. PICK outcome \in {"ok", "error"} : Reply(outcome, "select")
      BY <1>3 DEF NativeEnds
    <2> QED
      BY <1>3, <1>w, <1>t, <2>1 DEF NativeEnds, Reply, callers
  <1>4. CASE WorkRefuse
    <2>1. PICK outcome \in {"closed", "removed"} : Reply(outcome, "stop")
      BY <1>4 DEF WorkRefuse
    <2> QED
      BY <1>4, <1>w, <1>t, <2>1 DEF WorkRefuse, Reply, callers
  <1>5. CASE WorkSelect \/ WorkAccept \/ WorkStop
    BY <1>5, <1>w, <1>t DEF WorkSelect, WorkAccept, WorkStop, callers
  <1>6. CASE Submit
    BY <1>6, <1>w, <1>t DEF Submit, callers
  <1>7. ASSUME NEW w \in Writers, Take(w) PROVE RequestsInv'
    BY <1>7, <1>w, <1>t DEF Take
  <1>8. ASSUME NEW c \in Calls, Call(c) PROVE RequestsInv'
    BY <1>8, <1>w, <1>t DEF Call, call, worker, InTurn
  <1>9. ASSUME NEW c \in Calls, ContextDone(c) PROVE RequestsInv'
    BY <1>9, <1>w, <1>t DEF ContextDone, call, worker
  <1>10. ASSUME NEW c \in Calls, CallGoesOn(c) PROVE RequestsInv'
    <2>1. CASE c \in Readers /\ SelectNoReports(c)
      <3>1. c \notin Writers
        BY <2>1, DarwinDeviceAssumption
      <3> QED
        BY <2>1, <3>1, <1>w, <1>t DEF SelectNoReports, call, worker
    <2>2. ASSUME NEW o, Return(c, o), UNCHANGED worker PROVE RequestsInv'
      BY <2>2, <1>w, <1>t DEF Return, worker
    <2>3. \/ SelectNoReports(c) /\ c \in Readers
          \/ \E o \in Outcomes : Return(c, o) /\ UNCHANGED worker
      BY <1>10, <1>t DEF CallGoesOn, SelectContext, SelectRemoved, SelectReport, Ended,
         SelectClosing, SelectResult, Outcomes, call
    <2> QED
      BY <2>1, <2>2, <2>3
  <1>11. CASE UNCHANGED vars
    BY <1>11 DEF vars, worker, callers
  <1> QED
    BY <1>1, <1>2, <1>3, <1>4, <1>5, <1>6, <1>7, <1>8, <1>9, <1>10, <1>11 DEF Next, WorkGoesOn
(***************************************************************************)
(* What SerialIO knows as the calls asked for, the operation under way and *)
(* the answers, and the steps that leave them alone.                       *)
(***************************************************************************)
Asked == {w \in Writers : callPc[w] # "idle"}
Active == IF workPc = "native" THEN {working} ELSE {}
Answers == [w \in Writers |-> IF answer[w] \in {"none", "ok"} THEN answer[w] ELSE "error"]

\* A native write begins only when no other one is under way.
LEMMA SerialStep ==
  TypeOK /\ RequestsInv /\ [Next]_vars => [WriteSerial!Next]_(WriteSerial!vars)
  <1> DEFINE Stutter == UNCHANGED <<Asked, submitted, Active, Answers>>
  <1> SUFFICES ASSUME TypeOK, RequestsInv, [Next]_vars
               PROVE  Stutter \/ WriteSerial!Next
    BY DEF WriteSerial!vars, Asked, Active, Answers
  <1> USE DEF Asked, Active, Answers
  <1>w. Writers \subseteq Calls /\ NoWrite \notin Writers
    BY DarwinDeviceAssumption DEF Calls
  <1>t. /\ working \in Writers \union {NoWrite} /\ submitted \subseteq Writers
        /\ (workPc \in {"check", "submit", "native"}) <=> (working # NoWrite)
        /\ result \in [Writers -> Outcomes] /\ answer \in [Calls -> Outcomes]
        /\ callPc \in [Calls -> {"idle", "select", "ended", "wait", "returned"}]
    BY DEF TypeOK
  <1>1. CASE Unplug \/ Input \/ Removal \/ RunLoopFinished \/ RunGoesOn
    BY <1>1 DEF Unplug, Input, Removal, RunLoopFinished, RunGoesOn, RunCheck, RunEnter,
       RunLoopReturns, RemovalStop, RunUnschedule, RunCloseReports, RunCloseStopped, RunPcTo,
       worker, callers
  <1>2. ASSUME NEW k \in Closers, CloseEnter(k) \/ CloseGoesOn(k) PROVE Stutter
    BY <1>2 DEF CloseEnter, CloseGoesOn, CloseWaitRun, CloseWaitWorker, CloseUnregister,
       CloseDevice, CloseRelease, closer, worker, callers
  <1>3. CASE NativeEnds
    <2>1. working \in Writers /\ workPc = "native" /\ workPc' = "select"
      BY <1>3, <1>t DEF NativeEnds, Reply
    <2>2. UNCHANGED <<Asked, submitted, Answers>>
      BY <1>3 DEF NativeEnds, callers
    <2>3. WriteSerial!End(working)
      BY <2>1, <2>2 DEF WriteSerial!End
    <2> QED
      BY <2>1, <2>3 DEF WriteSerial!Next
  <1>4. CASE WorkSelect \/ WorkRefuse \/ WorkAccept \/ WorkStop
    BY <1>4 DEF WorkSelect, WorkRefuse, WorkAccept, WorkStop, Reply, callers
  <1>5. CASE Submit
    <2>1. /\ working \in Writers /\ workPc = "submit" /\ workPc' = "native"
          /\ working' = working /\ submitted' = submitted \union {working}
      BY <1>5, <1>t DEF Submit
    <2>2. UNCHANGED <<Asked, Answers>>
      BY <1>5 DEF Submit, callers
    <2>3. working \in Asked \ submitted
      BY <1>w, <2>1 DEF RequestsInv, Begun
    <2>4. WriteSerial!Begin(working)
      BY <2>1, <2>2, <2>3 DEF WriteSerial!Begin
    <2> QED
      BY <2>1, <2>4 DEF WriteSerial!Next
  <1>6. ASSUME NEW w \in Writers, Take(w) PROVE Stutter
    <2>1. UNCHANGED Asked
      BY <1>6, <1>w, <1>t DEF Take
    <2> QED
      BY <1>6, <2>1 DEF Take
  <1>7. ASSUME NEW c \in Calls, Call(c) PROVE Stutter \/ WriteSerial!Next
    <2>1. /\ callPc[c] = "idle" /\ callPc' = [callPc EXCEPT ![c] = "select"]
          /\ UNCHANGED <<submitted, Active, Answers>>
      BY <1>7 DEF Call, InTurn, call, worker
    <2>2. CASE c \in Writers
      <3>1. WriteSerial!Ask(c)
        BY <1>w, <1>t, <2>1, <2>2 DEF WriteSerial!Ask
      <3> QED
        BY <2>2, <3>1 DEF WriteSerial!Next
    <2>3. CASE c \notin Writers
      BY <1>w, <1>t, <2>1, <2>3
    <2> QED
      BY <2>2, <2>3
  <1>8. ASSUME NEW c \in Calls, ContextDone(c) PROVE Stutter
    BY <1>8 DEF ContextDone, call, worker
  <1>9. ASSUME NEW c \in Calls, CallGoesOn(c) PROVE Stutter \/ WriteSerial!Next
    <2>1. CASE c \in Readers /\ SelectNoReports(c)
      <3>1. c \notin Writers
        BY <2>1, DarwinDeviceAssumption
      <3> QED
        BY <2>1, <3>1, <1>w, <1>t DEF SelectNoReports, call, worker
    <2>2. ASSUME c \in Readers, NEW o, Return(c, o), UNCHANGED worker PROVE Stutter
      <3>1. c \notin Writers
        BY <2>2, DarwinDeviceAssumption
      <3> QED
        BY <2>2, <3>1, <1>w, <1>t DEF Return, worker
    <2>3. ASSUME c \in Writers, NEW o \in Outcomes \ {"none"}, Return(c, o), UNCHANGED worker,
                 callPc[c] \in {"select", "wait"},
                 o = "ok" => callPc[c] = "wait" /\ result[c] = "ok"
          PROVE WriteSerial!Next
      <3>1. UNCHANGED <<Asked, submitted, Active>> /\ c \in Asked
        BY <2>3, <1>w, <1>t DEF Return, worker
      <3>2. Answers[c] = "none"
        BY <2>3, <1>w, <1>t DEF RequestsInv
      <3>3. CASE o = "ok"
        <4>1. Answers' = [Answers EXCEPT ![c] = "ok"]
          BY <2>3, <3>3, <1>w, <1>t DEF Return
        <4>2. c \in submitted \ Active
          BY <2>3, <3>3, <1>w, <1>t DEF RequestsInv
        <4>3. WriteSerial!Succeed(c)
          BY <3>1, <3>2, <4>1, <4>2 DEF WriteSerial!Succeed
        <4> QED
          BY <2>3, <4>3 DEF WriteSerial!Next
      <3>4. CASE o # "ok"
        <4>1. Answers' = [Answers EXCEPT ![c] = "error"]
          BY <2>3, <3>4, <1>w, <1>t DEF Return
        <4>2. WriteSerial!Fail(c)
          BY <3>1, <3>2, <4>1 DEF WriteSerial!Fail
        <4> QED
          BY <2>3, <4>2 DEF WriteSerial!Next
      <3> QED
        BY <3>3, <3>4
    <2>4. CASE c \in Readers
      <3>1. c \notin Writers
        BY <2>4, DarwinDeviceAssumption
      <3>2. SelectNoReports(c) \/ \E o \in Outcomes : Return(c, o) /\ UNCHANGED worker
        BY <1>9, <3>1 DEF CallGoesOn, SelectContext, SelectRemoved, SelectReport, Ended, Outcomes,
           call
      <3> QED
        BY <2>1, <2>2, <2>4, <3>2
    <2>5. CASE c \in Writers
      <3>1. c \notin Readers
        BY <2>5, DarwinDeviceAssumption
      <3>2. CASE SelectContext(c)
        BY <2>3, <2>5, <3>2 DEF SelectContext, Outcomes, call
      <3>3. CASE SelectRemoved(c)
        BY <2>3, <2>5, <3>3 DEF SelectRemoved, Outcomes, call
      <3>4. CASE SelectClosing(c)
        BY <2>3, <2>5, <3>4 DEF SelectClosing, Outcomes, call
      <3>5. CASE SelectResult(c)
        <4>1. result[c] \in Outcomes \ {"none"}
          BY <2>5, <3>5, <1>t DEF SelectResult
        <4> QED
          BY <2>3, <2>5, <3>5, <4>1 DEF SelectResult, call
      <3> QED
        BY <1>9, <3>1, <3>2, <3>3, <3>4, <3>5 DEF CallGoesOn
    <2> QED
      BY <2>4, <2>5 DEF Calls
  <1>10. CASE UNCHANGED vars
    BY <1>10 DEF vars, worker, callers
  <1> QED
    BY <1>1, <1>2, <1>3, <1>4, <1>5, <1>6, <1>7, <1>8, <1>9, <1>10 DEF Next, WorkGoesOn

(***************************************************************************)
(* The worker implements SerialIO: one native write at a time, none made   *)
(* twice, and success only for one that has ended (README.md:70, :110).    *)
(***************************************************************************)
THEOREM WritesCorrect == Spec => WritesOnce
  <1>1. Init => WriteSerial!Init
    BY DarwinDeviceAssumption DEF Init, WriteSerial!Init, Calls
  <1> QED
    BY <1>1, TypeInit, TypeStep, RequestsInit, RequestsStep, SerialStep, PTL
    DEF Spec, WritesOnce, WriteSerial!Spec
=============================================================================
