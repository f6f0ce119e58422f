---------------------------- MODULE DarwinDevice ----------------------------
(***************************************************************************)
(* An open HID device on macOS (hid_darwin.go).  One thread runs the run   *)
(* loop in which IOKit calls back with input reports and with the removal  *)
(* of the device; another one makes the native writes that callers hand to *)
(* it over an unbuffered channel.  Read, Write and Close meet both through *)
(* channels that are closed: closing, removed, reports.                    *)
(***************************************************************************)
EXTENDS Naturals, Sequences, FiniteSets

CONSTANTS Readers, Writers,   \* calls of Read and of Write, by their number
          Closers,            \* calls of Close, by their number
          NoWrite,            \* what the worker has when it has no request
          ReportsCap,         \* capacity of the channel reports, 16 in the code
          MaxReports,         \* bound: input reports IOKit calls back with
          MaxCalls            \* bound: calls of Read and Write made altogether

ASSUME DarwinDeviceAssumption ==
  /\ Readers \union Writers \union Closers \subseteq Nat
  /\ NoWrite \notin Writers /\ Readers \intersect Writers = {}
  /\ ReportsCap \in Nat /\ MaxReports \in Nat /\ MaxCalls \in Nat

Calls == Readers \union Writers

VARIABLES
  (* IOKit *)
  plug,        \* "in", "out", or "told": the removal has been called back
  device,      \* d.device: "open", "closed" or "released"
  sent,        \* number of the last input report
  stop,        \* CFRunLoopStop has been called for the running loop
  (* Device *)
  known,       \* activeDevices has it under its callback ID
  closed,      \* guarded by closeMu; closing is closed with it
  runLoop,     \* guarded by closeMu: d.runLoop # 0
  removed,     \* the channel is closed
  reports, reportsClosed, stopped, writeStopped,
  (* threads and callers *)
  runPc, workPc,
  working,     \* the request of the worker
  closePc, callPc, ctxDone,
  result,      \* content of a request's result channel, which holds one
  answer, got, \* what a call returned, and the report a read returned
  (* history *)
  submitted    \* writes handed to IOKit

iokit == <<plug, device, sent, stop>>
guarded == <<closed, runLoop>>
channels == <<removed, reports, reportsClosed, stopped, writeStopped>>
worker == <<workPc, working, submitted>>
callers == <<callPc, ctxDone, answer, got>>
vars == <<iokit, known, guarded, channels, runPc, worker, closePc, callers, result>>

\* "error" stands for ctx.Err() as well as for a native write that failed.
Outcomes == {"none", "ok", "closed", "removed", "error"}

TypeOK ==
  /\ plug \in {"in", "out", "told"} /\ device \in {"open", "closed", "released"}
  /\ sent \in 0..MaxReports /\ stop \in BOOLEAN /\ known \in BOOLEAN
  /\ closed \in BOOLEAN /\ runLoop \in BOOLEAN
  /\ removed \in BOOLEAN /\ reportsClosed \in BOOLEAN
  /\ stopped \in BOOLEAN /\ writeStopped \in BOOLEAN
  /\ reports \in Seq(1..MaxReports) /\ Len(reports) <= ReportsCap
  /\ runPc \in {"check", "enter", "loop", "removal", "unschedule", "closeReports",
                "closeStopped", "halted"}
  /\ workPc \in {"select", "check", "submit", "native", "stop", "halted"}
  /\ working \in Writers \union {NoWrite}
  /\ (workPc \in {"check", "submit", "native"}) <=> (working # NoWrite)
  /\ closePc \in [Closers -> {"idle", "waitRun", "waitWorker", "unregister", "close", "release",
                              "returned"}]
  /\ callPc \in [Calls -> {"idle", "select", "ended", "wait", "returned"}]
  /\ ctxDone \subseteq Calls /\ submitted \subseteq Writers
  /\ result \in [Writers -> Outcomes] /\ answer \in [Calls -> Outcomes]
  /\ got \in [Readers -> 0..MaxReports]

(***************************************************************************)
(* OpenPath returns: run has closed ready, its callbacks are registered    *)
(* and scheduled, and the worker waits for requests.                       *)
(***************************************************************************)
Init ==
  /\ plug = "in" /\ device = "open" /\ sent = 0 /\ stop = FALSE
  /\ known = TRUE /\ closed = FALSE /\ runLoop = TRUE
  /\ removed = FALSE /\ reports = <<>> /\ reportsClosed = FALSE
  /\ stopped = FALSE /\ writeStopped = FALSE
  /\ runPc = "check" /\ workPc = "select" /\ working = NoWrite /\ submitted = {}
  /\ closePc = [k \in Closers |-> "idle"]
  /\ callPc = [c \in Calls |-> "idle"] /\ ctxDone = {}
  /\ result = [w \in Writers |-> "none"] /\ answer = [c \in Calls |-> "none"]
  /\ got = [r \in Readers |-> 0]

-----------------------------------------------------------------------------
(* The device and the run loop                                             *)

\* CFRunLoopStop is lost on a loop that is not entered yet or has been left.
CFRunLoopStop == stop' = (stop \/ (runLoop /\ runPc \in {"loop", "removal"}))

Unplug ==
  /\ plug = "in" /\ plug' = "out"
  /\ UNCHANGED <<device, sent, stop, known, guarded, channels, runPc, worker, closePc, callers,
                 result>>

RunPcTo(pc) ==
  /\ runPc' = pc
  /\ UNCHANGED <<plug, device, sent, known, closed, worker, closePc, callers, result>>

\* Only this thread's callback closes removed, so that one step does.
RunCheck ==
  /\ runPc = "check"
  /\ RunPcTo(IF closed \/ removed THEN "unschedule" ELSE "enter")
  /\ UNCHANGED <<stop, runLoop, channels>>

RunEnter ==
  /\ runPc = "enter"
  /\ RunPcTo("loop")
  /\ UNCHANGED <<stop, runLoop, channels>>

RunLoopForever ==    \* mutant: the run loop is entered without a timeout
  /\ runPc = "loop" /\ stop /\ stop' = FALSE
  /\ RunPcTo("check")
  /\ UNCHANGED <<runLoop, channels>>

\* CFRunLoopRunInMode was stopped, or one second has passed.
RunLoopReturns ==
  /\ runPc = "loop" /\ stop' = FALSE
  /\ RunPcTo("check")
  /\ UNCHANGED <<runLoop, channels>>

\* kCFRunLoopRunFinished: a device that is gone may leave the loop no source.
RunLoopFinished ==
  /\ runPc = "loop" /\ plug # "in" /\ stop' = FALSE
  /\ RunPcTo("unschedule")
  /\ UNCHANGED <<runLoop, channels>>

InputOverwrites ==   \* mutant: a full channel has its oldest report overwritten
  /\ runPc = "loop" /\ ~stop /\ known /\ sent < MaxReports
  /\ sent' = sent + 1
  /\ reports' = IF Len(reports) < ReportsCap THEN Append(reports, sent + 1)
                                             ELSE [reports EXCEPT ![1] = sent + 1]
  /\ UNCHANGED <<plug, device, stop, known, guarded, removed, reportsClosed, stopped,
                 writeStopped, runPc, worker, closePc, callers, result>>

\* inputReportCallback: a report that finds the channel full is dropped.
Input ==
  /\ runPc = "loop" /\ ~stop /\ known /\ sent < MaxReports
  /\ sent' = sent + 1
  /\ reports' = IF Len(reports) < ReportsCap THEN Append(reports, sent + 1) ELSE reports
  /\ UNCHANGED <<plug, device, stop, known, guarded, removed, reportsClosed, stopped,
                 writeStopped, runPc, worker, closePc, callers, result>>

\* deviceRemovalCallback, up to and after its wait for closeMu.
Removal ==
  /\ runPc = "loop" /\ ~stop /\ known /\ plug = "out"
  /\ plug' = "told" /\ removed' = TRUE /\ runPc' = "removal"
  /\ UNCHANGED <<device, sent, stop, known, guarded, reports, reportsClosed, stopped,
                 writeStopped, worker, closePc, callers, result>>

RemovalStop ==
  /\ runPc = "removal" /\ CFRunLoopStop
  /\ RunPcTo("loop")
  /\ UNCHANGED <<runLoop, channels>>

RunUnschedule ==
  /\ runPc = "unschedule" /\ runLoop' = FALSE
  /\ RunPcTo("closeReports")
  /\ UNCHANGED <<stop, channels>>

RunKeepsReports ==   \* mutant: the channel is left open
  /\ runPc = "closeReports"
  /\ RunPcTo("closeStopped")
  /\ UNCHANGED <<stop, runLoop, channels>>

RunCloseReports ==
  /\ runPc = "closeReports" /\ reportsClosed' = TRUE
  /\ RunPcTo("closeStopped")
  /\ UNCHANGED <<stop, runLoop, removed, reports, stopped, writeStopped>>

RunCloseStopped ==
  /\ runPc = "closeStopped" /\ stopped' = TRUE
  /\ RunPcTo("halted")
  /\ UNCHANGED <<stop, runLoop, removed, reports, reportsClosed, writeStopped>>

-----------------------------------------------------------------------------
(* runWrites                                                               *)

nonworker == <<iokit, known, guarded, channels, runPc, closePc>>

WorkSelect ==
  /\ workPc = "select" /\ (closed \/ removed)
  /\ workPc' = "stop"
  /\ UNCHANGED <<nonworker, working, submitted, callers, result>>

\* A caller in its first select and the worker in its own meet on d.writes.
Take(w) ==
  /\ workPc = "select" /\ callPc[w] = "select"
  /\ workPc' = "check" /\ working' = w
  /\ callPc' = [callPc EXCEPT ![w] = "wait"]
  /\ UNCHANGED <<nonworker, submitted, ctxDone, answer, got, result>>

ReplyKeeps(outcome, pc) ==   \* mutant: the worker holds on to the request
  /\ result' = IF callPc[working] = "wait" THEN [result EXCEPT ![working] = outcome] ELSE result
  /\ workPc' = pc /\ UNCHANGED working

\* Sent to a buffered channel, for a caller that may have returned by now.
Reply(outcome, pc) ==
  /\ result' = IF callPc[working] = "wait" THEN [result EXCEPT ![working] = outcome] ELSE result
  /\ workPc' = pc /\ working' = NoWrite

WorkRefuse ==
  /\ workPc = "check" /\ (closed \/ removed)
  /\ \/ closed /\ Reply("closed", "stop")
     \/ removed /\ Reply("removed", "stop")
  /\ UNCHANGED <<nonworker, submitted, callers>>

WorkAccept ==
  /\ workPc = "check" /\ ~(closed \/ removed)
  /\ workPc' = "submit"
  /\ UNCHANGED <<nonworker, working, submitted, callers, result>>

Submit ==
  /\ workPc = "submit"
  /\ workPc' = "native" /\ submitted' = submitted \union {working}
  /\ UNCHANGED <<nonworker, working, callers, result>>

NativeErrorStops ==  \* mutant: the worker returns when a native write fails
  /\ workPc = "native"
  /\ (Reply("ok", "select") \/ Reply("error", "stop"))
  /\ UNCHANGED <<nonworker, submitted, callers>>

NativeRetries ==     \* mutant: a write that failed is made again
  /\ workPc = "native"
  /\ \/ Reply("ok", "select")
     \/ workPc' = "submit" /\ UNCHANGED <<working, result>>
  /\ UNCHANGED <<nonworker, submitted, callers>>

\* IOHIDDeviceSetReport returns, after a time that nothing bounds.
NativeEnds ==
  /\ workPc = "native"
  /\ \E outcome \in {"ok", "error"} : Reply(outcome, "select")
  /\ UNCHANGED <<nonworker, submitted, callers>>

WorkStop ==
  /\ workPc = "stop" /\ workPc' = "halted" /\ writeStopped' = TRUE
  /\ UNCHANGED <<iokit, known, guarded, removed, reports, reportsClosed, stopped, runPc,
                 working, submitted, closePc, callers, result>>

-----------------------------------------------------------------------------
(* Read and Write                                                          *)

call == <<iokit, known, guarded, removed, reportsClosed, stopped, writeStopped, runPc, worker,
          closePc>>

Return(c, outcome) ==
  /\ callPc' = [callPc EXCEPT ![c] = "returned"] /\ answer' = [answer EXCEPT ![c] = outcome]
  /\ ctxDone' = ctxDone \ {c}
  /\ result' = [w \in Writers |-> IF w = c THEN "none" ELSE result[w]]

\* Calls of a kind are numbered in the order they are made.
InTurn(pc, cs, c) == pc[c] = "idle" /\ \A d \in cs : d < c => pc[d] # "idle"

\* A call whose context is done when it is made returns with no effect.
Call(c) ==
  /\ InTurn(callPc, IF c \in Readers THEN Readers ELSE Writers, c)
  /\ Cardinality({d \in Calls : callPc[d] # "idle"}) < MaxCalls
  /\ callPc' = [callPc EXCEPT ![c] = "select"]
  /\ UNCHANGED <<call, reports, ctxDone, answer, got, result>>

ContextDone(c) ==
  /\ callPc[c] \in {"select", "wait"} /\ c \notin ctxDone
  /\ ctxDone' = ctxDone \union {c}
  /\ UNCHANGED <<call, reports, callPc, answer, got, result>>

\* Several cases of a select may be ready; Go takes any of them.
SelectContext(c) ==
  /\ callPc[c] \in {"select", "wait"} /\ c \in ctxDone
  /\ Return(c, "error")
  /\ UNCHANGED <<call, reports, got>>

SelectRemoved(c) ==
  /\ callPc[c] \in {"select", "wait"} /\ removed
  /\ Return(c, "removed")
  /\ UNCHANGED <<call, reports, got>>

SelectClosingLate(w) ==    \* mutant: only the second select of Write has the case
  /\ callPc[w] = "wait" /\ closed
  /\ Return(w, "closed")
  /\ UNCHANGED <<call, reports, got>>

SelectClosing(w) ==
  /\ callPc[w] \in {"select", "wait"} /\ closed
  /\ Return(w, "closed")
  /\ UNCHANGED <<call, reports, got>>

SelectResult(w) ==
  /\ callPc[w] = "wait" /\ result[w] # "none"
  /\ Return(w, result[w])
  /\ UNCHANGED <<call, reports, got>>

SelectReport(r) ==
  /\ callPc[r] = "select" /\ reports # <<>>
  /\ reports' = Tail(reports) /\ got' = [got EXCEPT ![r] = Head(reports)]
  /\ Return(r, "ok")
  /\ UNCHANGED call

SelectNoReports(r) ==
  /\ callPc[r] = "select" /\ reports = <<>> /\ reportsClosed
  /\ callPc' = [callPc EXCEPT ![r] = "ended"]
  /\ UNCHANGED <<call, reports, ctxDone, answer, got, result>>

EndedIsClosed(r) ==        \* mutant: the second look at removed is left out
  /\ callPc[r] = "ended" /\ Return(r, "closed")
  /\ UNCHANGED <<call, reports, got>>

Ended(r) ==
  /\ callPc[r] = "ended" /\ Return(r, IF removed THEN "removed" ELSE "closed")
  /\ UNCHANGED <<call, reports, got>>

-----------------------------------------------------------------------------
(* Close                                                                   *)

ClosePcTo(k, pc) == closePc' = [closePc EXCEPT ![k] = pc]

CloseEnterEach(k) ==       \* mutant: the flag is set and not looked at
  /\ InTurn(closePc, Closers, k)
  /\ closed' = TRUE /\ CFRunLoopStop
  /\ ClosePcTo(k, "waitRun")
  /\ UNCHANGED <<plug, device, sent, known, runLoop, channels, runPc, worker, callers, result>>

\* Up to the unlock of closeMu.
CloseEnter(k) ==
  /\ InTurn(closePc, Closers, k)
  /\ closed' = TRUE
  /\ IF closed THEN ClosePcTo(k, "returned") /\ UNCHANGED stop
               ELSE ClosePcTo(k, "waitRun") /\ CFRunLoopStop
  /\ UNCHANGED <<plug, device, sent, known, runLoop, channels, runPc, worker, callers, result>>

closer == <<plug, sent, stop, guarded, channels, runPc, worker, callers, result>>

CloseWaitRun(k) ==
  /\ closePc[k] = "waitRun" /\ stopped /\ ClosePcTo(k, "waitWorker")
  /\ UNCHANGED <<closer, device, known>>

CloseSkipsWorker(k) ==     \* mutant: the worker is not waited for
  /\ closePc[k] = "waitWorker" /\ ClosePcTo(k, "unregister")
  /\ UNCHANGED <<closer, device, known>>

CloseWaitWorker(k) ==
  /\ closePc[k] = "waitWorker" /\ writeStopped /\ ClosePcTo(k, "unregister")
  /\ UNCHANGED <<closer, device, known>>

CloseUnregister(k) ==
  /\ closePc[k] = "unregister" /\ known' = FALSE /\ ClosePcTo(k, "close")
  /\ UNCHANGED <<closer, device>>

CloseDevice(k) ==
  /\ closePc[k] = "close" /\ device' = "closed" /\ ClosePcTo(k, "release")
  /\ UNCHANGED <<closer, known>>

CloseRelease(k) ==
  /\ closePc[k] = "release" /\ device' = "released" /\ ClosePcTo(k, "returned")
  /\ UNCHANGED <<closer, known>>
-----------------------------------------------------------------------------

RunGoesOn ==
  \/ RunCheck \/ RunEnter \/ RunLoopReturns \/ RemovalStop
  \/ RunUnschedule \/ RunCloseReports \/ RunCloseStopped

WorkGoesOn ==
  \/ WorkSelect \/ WorkRefuse \/ WorkAccept \/ Submit \/ WorkStop
  \/ \E w \in Writers : Take(w)

CallGoesOn(c) ==
  \/ SelectContext(c) \/ SelectRemoved(c)
  \/ c \in Readers /\ (SelectReport(c) \/ SelectNoReports(c) \/ Ended(c))
  \/ c \in Writers /\ (SelectClosing(c) \/ SelectResult(c))

CloseGoesOn(k) ==
  \/ CloseWaitRun(k) \/ CloseWaitWorker(k) \/ CloseUnregister(k)
  \/ CloseDevice(k) \/ CloseRelease(k)

Next ==
  \/ Unplug \/ Input \/ Removal \/ RunLoopFinished \/ NativeEnds
  \/ RunGoesOn \/ WorkGoesOn
  \/ \E c \in Calls : Call(c) \/ ContextDone(c) \/ CallGoesOn(c)
  \/ \E k \in Closers : CloseEnter(k) \/ CloseGoesOn(k)

Spec == Init /\ [][Next]_vars

(***************************************************************************)
(* Threads that can run do, and a run loop that was stopped or has had its *)
(* second returns.  Reports, removal, contexts and the end of a native     *)
(* write are not assumed.                                                  *)
(***************************************************************************)
Fairness ==
  /\ WF_vars(RunGoesOn) /\ WF_vars(WorkGoesOn)
  /\ \A c \in Calls : WF_vars(CallGoesOn(c))
  /\ \A k \in Closers : WF_vars(CloseGoesOn(k))

FairSpec == Spec /\ Fairness

-----------------------------------------------------------------------------
(***************************************************************************)
(* IOHIDDeviceClose and CFRelease come after the last use of the device by *)
(* either thread and after the last callback, with any number of Reads and *)
(* Writes under way (hid_darwin.go:379-383).                               *)
(***************************************************************************)
ReleasedIsQuiet ==
  device # "open" => runPc = "halted" /\ workPc = "halted" /\ ~known

\* Calls of Close that overlap release the device once (hid_darwin.go:368).
ReleasedOnce == [][device = "released" => device' = "released"]_vars

\* Close gives the device up once, and when nobody uses it (hid_darwin.go:366-386).
ReleasedOnceWhenQuiet == [](TypeOK /\ ReleasedIsQuiet) /\ ReleasedOnce

(***************************************************************************)
(* A burst costs the newest reports: one that waits in the channel stays   *)
(* there, before those that came later, until a read has it                *)
(* (hid_darwin.go:453).                                                    *)
(***************************************************************************)
KeptUntilRead ==
  [][\/ Len(reports) <= Len(reports') /\ reports = SubSeq(reports', 1, Len(reports))
     \/ reports' = Tail(reports) /\ \E r \in Readers : got'[r] = Head(reports)]_vars

(***************************************************************************)
(* From the removal callback on, a Read that is told that the reports have *)
(* ended says that the device was removed and not that it was closed       *)
(* (hid_darwin.go:221).                                                    *)
(***************************************************************************)
RemovalIsNamed ==
  [][\A r \in Readers : removed /\ answer[r] = "none" => answer'[r] # "closed"]_vars

\* Read says what has happened to reports and device (hid_darwin.go:219-230).
ReadsAreRight == KeptUntilRead /\ RemovalIsNamed

WriteSerial == INSTANCE SerialIO
  WITH Calls  <- Writers,
       asked  <- {w \in Writers : callPc[w] # "idle"},
       begun  <- submitted,
       active <- IF workPc = "native" THEN {working} ELSE {},
       answer <- [w \in Writers |-> IF answer[w] \in {"none", "ok"} THEN answer[w] ELSE "error"]

\* A report is handed to IOKit once, and only success means it was sent (README.md:70, :110).
WritesOnce == WriteSerial!Spec

NativeWritesEnd == []<>(workPc # "native")

(***************************************************************************)
(* Close returns if the native write does that it may find under way; a    *)
(* CFRunLoopStop that is lost costs it a second (hid_darwin.go:379, :420). *)
(***************************************************************************)
CloseReturns ==
  NativeWritesEnd => (closed ~> device = "released")

\* Cancellation, removal and Close each end a Read (hid_darwin.go:213).
ReadsEnd ==
  \A r \in Readers :
    (callPc[r] # "idle" /\ (removed \/ closed \/ r \in ctxDone)) ~> (callPc[r] = "returned")

\* The same for a Write, although its native write may never end (hid_darwin.go:242, :252).
WritesEnd ==
  \A w \in Writers :
    (callPc[w] # "idle" /\ (removed \/ closed \/ w \in ctxDone)) ~> (callPc[w] = "returned")

(***************************************************************************)
(* A Write whose caller has gone does not keep the worker from the next    *)
(* one, which is taken, or ended by Close or removal (hid_darwin.go:299).  *)
(***************************************************************************)
NextWriteIsTaken ==
  NativeWritesEnd =>
    ((\E w \in Writers : callPc[w] = "select") ~> (\A w \in Writers : callPc[w] # "select"))

(***************************************************************************)
(* Nobody waits for ever: readers, writers, the closer and the next writer *)
(* (hid_darwin.go:213, :242, :275, :379).                                  *)
(***************************************************************************)
CallsReturn == CloseReturns /\ ReadsEnd /\ WritesEnd /\ NextWriteIsTaken
=============================================================================
