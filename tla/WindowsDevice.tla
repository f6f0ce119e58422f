---------------------------- MODULE WindowsDevice ----------------------------
(***************************************************************************)
(* An open HID device on Windows (hid_windows.go): overlapped reads and    *)
(* writes, each in a goroutine that keeps the mutex of its kind, callers   *)
(* that give up and ask for CancelIoEx, read timeouts, and Close under all *)
(* of them.  The driver answers requests, aborts those it was asked to     *)
(* cancel, and sends input reports on its own.                             *)
(***************************************************************************)
EXTENDS Naturals, Sequences, FiniteSets

CONSTANTS Readers, Writers,   \* calls of Read and of Write, by their number
          Closers,            \* calls of Close, by their number
          Nobody,             \* the holder of a free mutex
          MaxReports,         \* bound: input reports the device sends
          MaxCalls            \* bound: calls of Read and Write made altogether

ASSUME WindowsDeviceAssumption ==
  /\ MaxReports \in Nat /\ MaxCalls \in Nat
  /\ Readers \union Writers \union Closers \subseteq Nat
  /\ Nobody \notin Readers \union Writers /\ Readers \intersect Writers = {}

Calls == Readers \union Writers
Foreign == MaxReports + 1

VARIABLES
  (* system and driver *)
  handle,      \* what the handle value stands for: "open", "free" or
               \* "foreign", an object that somebody else has opened
  queue, sent, \* reports the driver buffers, and how many the device sent
  request,     \* the OVERLAPPED of a call: "none", "pending", "done",
               \* or "failed"
  asked,       \* pending requests the driver was asked to cancel
  (* Device *)
  timed,       \* WithReadTimeout was given, and not as INFINITE
  readMu, writeMu,
  once, closePc,
  (* Read and Write, and their goroutines *)
  callPc, workPc, ctxDone,
  buf,         \* what is in the buffer of a read: 0 for nothing
  result,      \* content of the result channel, which holds one
  answer,
  (* history *)
  early,       \* calls that gave up before their request was issued
  expired      \* reads that timed out

driver == <<handle, queue, sent>>
requests == <<request, asked, buf>>
mutexes == <<readMu, writeMu>>
closing == <<once, closePc>>
callers == <<callPc, ctxDone, answer>>
workers == <<workPc, result>>
history == <<early, expired>>
vars == <<driver, requests, timed, mutexes, closing, callers, workers, history>>

TypeOK ==
  /\ handle \in {"open", "free", "foreign"}
  /\ queue \in Seq(1..MaxReports) /\ sent \in 0..MaxReports
  /\ request \in [Calls -> {"none", "pending", "done", "failed"}]
  /\ asked \subseteq {c \in Calls : request[c] = "pending"}
  /\ timed \in BOOLEAN
  /\ readMu \in Readers \union {Nobody} /\ writeMu \in Writers \union {Nobody}
  /\ once \in {"fresh", "running", "finished"}
  /\ closePc \in [Closers -> {"idle", "cancel", "close", "returned"}]
  /\ callPc \in [Calls -> {"idle", "lock", "check", "select", "returned"}]
  /\ workPc \in [Calls -> {"none", "issue", "wait", "expired", "drain", "result", "unlock", "done"}]
  /\ ctxDone \subseteq Calls /\ early \subseteq ctxDone /\ expired \subseteq Readers
  /\ buf \in [Calls -> 0..Foreign]
  /\ result \in [Calls -> {"none", "ok", "error"}]
  /\ answer \in [Calls -> {"none", "ok", "error"}]

Init ==
  /\ handle = "open" /\ queue = <<>> /\ sent = 0
  /\ request = [c \in Calls |-> "none"] /\ asked = {} /\ buf = [c \in Calls |-> 0]
  /\ timed \in BOOLEAN
  /\ readMu = Nobody /\ writeMu = Nobody
  /\ once = "fresh" /\ closePc = [k \in Closers |-> "idle"]
  /\ callPc = [c \in Calls |-> "idle"] /\ workPc = [c \in Calls |-> "none"] /\ ctxDone = {}
  /\ result = [c \in Calls |-> "none"] /\ answer = [c \in Calls |-> "none"]
  /\ early = {} /\ expired = {}

Pending == {c \in Calls : request[c] = "pending"}

-----------------------------------------------------------------------------
(* The driver and the rest of the program                                  *)

\* A report completes the read that is pending or is buffered.
Report ==
  /\ sent < MaxReports /\ sent' = sent + 1
  /\ LET reads == Pending \intersect Readers
     IN \/ /\ reads = {}
           /\ queue' = IF handle = "open" THEN Append(queue, sent + 1) ELSE queue
           /\ UNCHANGED requests
        \/ \E r \in reads : /\ request' = [request EXCEPT ![r] = "done"]
                            /\ buf' = [buf EXCEPT ![r] = sent + 1]
                            /\ asked' = asked \ {r}
                            /\ UNCHANGED queue
  /\ UNCHANGED <<handle, timed, mutexes, closing, callers, workers, history>>

End(c, how) ==
  /\ c \in Pending /\ request' = [request EXCEPT ![c] = how] /\ asked' = asked \ {c}
  /\ UNCHANGED <<driver, buf, timed, mutexes, closing, callers, workers, history>>

WriteEnds(w) == End(w, "done")

\* The driver gives up a request it was asked to cancel, sooner or later.
Abort(c) == c \in asked /\ End(c, "failed")

\* The transfer fails, or the device is gone.
Fail(c) == End(c, "failed")

Reuse ==
  /\ handle = "free" /\ handle' = "foreign"
  /\ UNCHANGED <<queue, sent, requests, timed, mutexes, closing, callers, workers,
                 history>>

\* CancelIoEx has an effect on what is pending on this very file only.
CancelIoEx(cs) ==
  asked' = IF handle = "open" THEN asked \union (cs \intersect Pending) ELSE asked

-----------------------------------------------------------------------------
(* The caller                                                              *)

Free(c) == IF c \in Readers THEN readMu = Nobody ELSE writeMu = Nobody

LockBy(c) == IF c \in Readers THEN readMu' = c /\ UNCHANGED writeMu
                              ELSE writeMu' = c /\ UNCHANGED readMu

Unlock(c) == IF c \in Readers THEN readMu' = Nobody /\ UNCHANGED writeMu
                              ELSE writeMu' = Nobody /\ UNCHANGED readMu

CallPcTo(c, pc) == callPc' = [callPc EXCEPT ![c] = pc]
WorkPcTo(c, pc) == workPc' = [workPc EXCEPT ![c] = pc]

Return(c, outcome) ==
  CallPcTo(c, "returned") /\ answer' = [answer EXCEPT ![c] = outcome]

\* Calls of a kind are numbered in the order they are made.
InTurn(pc, cs, c) == pc[c] = "idle" /\ \A d \in cs : d < c => pc[d] # "idle"

Call(c) ==
  /\ InTurn(callPc, IF c \in Readers THEN Readers ELSE Writers, c)
  /\ Cardinality({d \in Calls : callPc[d] # "idle"}) < MaxCalls
  /\ CallPcTo(c, "lock")
  /\ UNCHANGED <<driver, requests, timed, mutexes, closing, ctxDone, answer, workers, history>>

\* A deadline passes or somebody cancels, perhaps at once.
ContextDone(c) ==
  /\ callPc[c] \in {"lock", "check", "select"} /\ c \notin ctxDone
  /\ ctxDone' = ctxDone \union {c}
  /\ UNCHANGED <<driver, requests, timed, mutexes, closing, callPc, answer, workers, history>>

Lock(c) ==
  /\ callPc[c] = "lock" /\ Free(c) /\ LockBy(c)
  /\ CallPcTo(c, "check")
  /\ UNCHANGED <<driver, requests, timed, closing, ctxDone, answer, workers, history>>

\* The context is done, or CreateEvent fails.
Refuse(c) ==
  /\ callPc[c] = "check" /\ Unlock(c)
  /\ Return(c, "error")
  /\ UNCHANGED <<driver, requests, timed, closing, ctxDone, workers, history>>

Spawn(c) ==
  /\ callPc[c] = "check" /\ c \notin ctxDone
  /\ CallPcTo(c, "select") /\ WorkPcTo(c, "issue")
  /\ UNCHANGED <<driver, requests, timed, mutexes, closing, ctxDone, answer, result, history>>

GaveUpEarly(c) == early' = IF workPc[c] = "issue" THEN early \union {c} ELSE early

GiveUpOnly(c) ==        \* mutant: the request is left with the driver
  /\ callPc[c] = "select" /\ c \in ctxDone
  /\ GaveUpEarly(c) /\ Return(c, "error")
  /\ UNCHANGED <<driver, requests, timed, mutexes, closing, ctxDone, workers, expired>>

GiveUpUnlocks(c) ==     \* mutant: the mutex is released as soon as the caller returns
  /\ callPc[c] = "select" /\ c \in ctxDone
  /\ CancelIoEx({c}) /\ GaveUpEarly(c) /\ Return(c, "error") /\ Unlock(c)
  /\ UNCHANGED <<driver, request, buf, timed, closing, ctxDone, workers, expired>>

GiveUp(c) ==
  /\ callPc[c] = "select" /\ c \in ctxDone
  /\ CancelIoEx({c}) /\ GaveUpEarly(c) /\ Return(c, "error")
  /\ UNCHANGED <<driver, request, buf, timed, mutexes, closing, ctxDone, workers, expired>>

Receive(c) ==
  /\ callPc[c] = "select" /\ result[c] # "none"
  /\ Return(c, result[c])
  /\ UNCHANGED <<driver, requests, timed, mutexes, closing, ctxDone, workers, history>>

-----------------------------------------------------------------------------
(* The goroutine: read and write                                           *)

worker == <<driver, timed, mutexes, closing, callers>>

Answer(c, outcome) == WorkPcTo(c, "unlock") /\ result' = [result EXCEPT ![c] = outcome]

AfterIssue(c) == IF c \in Readers THEN "wait" ELSE "result"

\* ReadFile or WriteFile is accepted: ERROR_IO_PENDING, or done at once.
Issue(c) ==
  /\ workPc[c] = "issue" /\ handle = "open"
  /\ IF c \in Readers /\ queue # <<>>
     THEN /\ request' = [request EXCEPT ![c] = "done"]
          /\ buf' = [buf EXCEPT ![c] = Head(queue)] /\ queue' = Tail(queue)
     ELSE /\ request' = [request EXCEPT ![c] = "pending"]
          /\ UNCHANGED <<buf, queue>>
  /\ WorkPcTo(c, AfterIssue(c))
  /\ UNCHANGED <<handle, sent, asked, timed, mutexes, closing, callers, result, history>>

IssueAnyError(c) ==     \* mutant: every error is taken for ERROR_IO_PENDING
  /\ workPc[c] = "issue"
  /\ request' = [request EXCEPT ![c] = "pending"]
  /\ WorkPcTo(c, AfterIssue(c))
  /\ UNCHANGED <<worker, asked, buf, result, history>>

\* The handle is closed, the device is gone, or the driver refuses.
IssueFails(c) ==
  /\ workPc[c] = "issue" /\ Answer(c, "error")
  /\ UNCHANGED <<worker, requests, history>>

\* A closed handle's value may be somebody else's by now.
IssueForeign(c) ==
  /\ workPc[c] = "issue" /\ handle = "foreign"
  /\ request' = [request EXCEPT ![c] = "done"] /\ buf' = [buf EXCEPT ![c] = Foreign]
  /\ WorkPcTo(c, AfterIssue(c))
  /\ UNCHANGED <<worker, asked, result, history>>

\* WaitForSingleObject: the event is signalled when the request has ended.
Signalled(c) ==
  /\ workPc[c] = "wait" /\ request[c] # "pending"
  /\ WorkPcTo(c, "result")
  /\ UNCHANGED <<worker, requests, result, history>>

Expire(c) ==
  /\ workPc[c] = "wait" /\ request[c] = "pending" /\ timed
  /\ WorkPcTo(c, "expired") /\ expired' = expired \union {c}
  /\ UNCHANGED <<worker, requests, result, early>>

ExpiredWaits(c) ==      \* mutant: the timed-out request is waited for, not cancelled
  /\ workPc[c] = "expired" /\ WorkPcTo(c, "drain")
  /\ UNCHANGED <<worker, requests, result, history>>

ExpiredAsksAnyway(c) == \* mutant: a request that has ended is still recorded as to be cancelled
  /\ workPc[c] = "expired" /\ asked' = asked \union {c}
  /\ WorkPcTo(c, "drain")
  /\ UNCHANGED <<worker, request, buf, result, history>>

ExpiredCancel(c) ==
  /\ workPc[c] = "expired" /\ CancelIoEx({c})
  /\ WorkPcTo(c, "drain")
  /\ UNCHANGED <<worker, request, buf, result, history>>

\* The buffer is the driver's until the request has ended.
ExpiredDrain(c) ==
  /\ workPc[c] = "drain" /\ request[c] # "pending"
  /\ Answer(c, "error")
  /\ UNCHANGED <<worker, requests, history>>

ResultUnlessClosed(c) ==   \* mutant: what arrived before Close is thrown away
  /\ workPc[c] = "result" /\ request[c] # "pending"
  /\ Answer(c, IF request[c] = "done" /\ handle = "open" THEN "ok" ELSE "error")
  /\ UNCHANGED <<worker, requests, history>>

ResultNow(c) ==         \* mutant: GetOverlappedResult does not wait
  /\ workPc[c] = "result"
  /\ Answer(c, IF request[c] = "done" THEN "ok" ELSE "error")
  /\ UNCHANGED <<worker, requests, history>>

Result(c) ==
  /\ workPc[c] = "result" /\ request[c] # "pending"
  /\ Answer(c, IF request[c] = "done" THEN "ok" ELSE "error")
  /\ UNCHANGED <<worker, requests, history>>

WorkUnlock(c) ==
  /\ workPc[c] = "unlock" /\ Unlock(c)
  /\ WorkPcTo(c, "done")
  /\ UNCHANGED <<driver, requests, timed, closing, callers, result, history>>

-----------------------------------------------------------------------------
(* Close                                                                   *)

ClosePcTo(k, pc) == closePc' = [closePc EXCEPT ![k] = pc]

CloseEnterEach(k) ==    \* mutant: every Close closes the handle
  /\ InTurn(closePc, Closers, k) /\ ClosePcTo(k, "cancel")
  /\ UNCHANGED <<driver, requests, timed, mutexes, once, callers, workers, history>>

CloseEnter(k) ==
  /\ InTurn(closePc, Closers, k)
  /\ \/ once = "fresh" /\ once' = "running" /\ ClosePcTo(k, "cancel")
     \/ once = "finished" /\ UNCHANGED once /\ ClosePcTo(k, "returned")
  /\ UNCHANGED <<driver, requests, timed, mutexes, callers, workers, history>>

CloseCancel(k) ==
  /\ closePc[k] = "cancel" /\ CancelIoEx(Calls)
  /\ ClosePcTo(k, "close")
  /\ UNCHANGED <<driver, request, buf, timed, mutexes, once, callers, workers, history>>

\* With its last handle gone the driver is asked to cancel what is left.
CloseHandle(k) ==
  /\ closePc[k] = "close"
  /\ handle' = "free" /\ asked' = asked \union Pending
  /\ once' = "finished" /\ ClosePcTo(k, "returned")
  /\ UNCHANGED <<queue, sent, request, buf, timed, mutexes, callers, workers, history>>

-----------------------------------------------------------------------------

CallerGoesOn(c) == Lock(c) \/ Refuse(c) \/ Spawn(c) \/ GiveUp(c) \/ Receive(c)

WorkerGoesOn(c) ==
  \/ Issue(c) \/ IssueFails(c) \/ IssueForeign(c) \/ Signalled(c)
  \/ ExpiredCancel(c) \/ ExpiredDrain(c) \/ Result(c) \/ WorkUnlock(c)

Close(k) == CloseEnter(k) \/ CloseCancel(k) \/ CloseHandle(k)

Next ==
  \/ Report \/ Reuse
  \/ \E w \in Writers : WriteEnds(w)
  \/ \E r \in Readers : Expire(r)
  \/ \E c \in Calls : Call(c) \/ ContextDone(c) \/ CallerGoesOn(c) \/ WorkerGoesOn(c)
                      \/ Abort(c) \/ Fail(c)
  \/ \E k \in Closers : Close(k)

Spec == Init /\ [][Next]_vars

(***************************************************************************)
(* Goroutines that can run do, time passes, and a driver ends a request it *)
(* was asked to cancel, as Windows demands of it.  Reports, contexts and   *)
(* the end of a write are not assumed.                                     *)
(***************************************************************************)
Fairness ==
  /\ \A c \in Calls : WF_vars(CallerGoesOn(c)) /\ WF_vars(WorkerGoesOn(c)) /\ WF_vars(Abort(c))
  /\ \A r \in Readers : WF_vars(Expire(r))
  /\ \A k \in Closers : WF_vars(CloseCancel(k)) /\ WF_vars(CloseHandle(k))

FairSpec == Spec /\ Fairness

-----------------------------------------------------------------------------
(***************************************************************************)
(* A report that reached a read is returned by it unless its context ended *)
(* or it timed out; Close alone loses none (hid_windows.go:642, :648).     *)
(***************************************************************************)
LostOnlyToTheImpatient ==
  \A r \in Readers :
    (buf[r] # 0 /\ answer[r] = "error") => r \in ctxDone \union expired

(***************************************************************************)
(* The OVERLAPPED and the buffer of a request are not given up while the   *)
(* driver owns them: even a read that timed out waits for the driver to be *)
(* through before its goroutine ends (hid_windows.go:644).                 *)
(***************************************************************************)
BufferIsOwned ==
  \A c \in Calls : workPc[c] \in {"unlock", "done"} => request[c] # "pending"

\* Cancellation, timeouts and Close treat requests and reports as they should (hid_windows.go:643).
RequestsSafe == TypeOK /\ LostOnlyToTheImpatient /\ BufferIsOwned

\* Close closes the device's handle and never one that got its value (hid_windows.go:758).
ClosesOwnHandleOnly == [][handle = "foreign" => handle' = "foreign"]_vars

ReadSerial == INSTANCE SerialIO
  WITH Calls  <- Readers,
       asked  <- {c \in Readers : callPc[c] # "idle"},
       begun  <- {c \in Readers : request[c] # "none"},
       active <- {c \in Readers : workPc[c] \in {"wait", "expired", "drain", "result"}},
       answer <- [c \in Readers |-> answer[c]]

WriteSerial == INSTANCE SerialIO
  WITH Calls  <- Writers,
       asked  <- {c \in Writers : callPc[c] # "idle"},
       begun  <- {c \in Writers : request[c] # "none"},
       active <- {c \in Writers : workPc[c] = "result"},
       answer <- [c \in Writers |-> answer[c]]

\* Overlapped operations of one kind do not overlap each other (README.md:110).
OneAtATime == ReadSerial!Spec /\ WriteSerial!Spec

(***************************************************************************)
(* A read with a timeout returns, and gives the next one its turn, however *)
(* silent the device is (hid_windows.go:642).                              *)
(***************************************************************************)
TimeoutEndsRead ==
  \A r \in Readers : (timed /\ callPc[r] = "lock") ~> (workPc[r] \in {"none", "done"}
                                                         /\ callPc[r] = "returned")

(***************************************************************************)
(* A call that gives up once its request is with the driver lets the next  *)
(* one have its turn (hid_windows.go:616).  One that gives up earlier does *)
(* not: CancelIoEx finds nothing and the read stays for the next report.   *)
(***************************************************************************)
CancelFreesMutex ==
  \A c \in Calls :
    (callPc[c] = "returned" /\ c \in ctxDone \ early) ~> (workPc[c] \in {"none", "done"})

(***************************************************************************)
(* After Close no Read or Write waits, whatever was under way or waiting   *)
(* for its turn, unless the handle's value is used again                   *)
(* (hid_windows.go:754).                                                   *)
(***************************************************************************)
CloseEndsCalls ==
  (once = "finished")
    ~> (\/ handle = "foreign"
        \/ \A c \in Calls : callPc[c] # "idle" =>
                             callPc[c] = "returned" /\ workPc[c] \in {"none", "done"})

(***************************************************************************)
(* A timeout, a cancellation and Close each end the calls that they are    *)
(* for, goroutine and mutex included (hid_windows.go:616, :642, :754).     *)
(***************************************************************************)
CallsEnd == TimeoutEndsRead /\ CancelFreesMutex /\ CloseEndsCalls
=============================================================================
