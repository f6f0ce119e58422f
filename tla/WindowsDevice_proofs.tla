------------------------ MODULE WindowsDevice_proofs ------------------------
(***************************************************************************)
(* Proofs about WindowsDevice for any number of calls, reports and         *)
(* closers: a request's buffer is the driver's until the request has       *)
(* ended, Close closes one handle, and overlapped operations of a kind do  *)
(* not overlap each other.                                                 *)
(***************************************************************************)
EXTENDS WindowsDevice, SequenceTheorems, TLAPS

-----------------------------------------------------------------------------
(***************************************************************************)
(* A call and its goroutine: the goroutine exists once the context was     *)
(* looked at, its request is with the driver between Issue and the wait    *)
(* for it, and one of the two has the mutex until the goroutine unlocks.   *)
(***************************************************************************)
InDriver == {"wait", "expired", "drain", "result"}
HasTurn(c) == callPc[c] = "check" \/ workPc[c] \in InDriver \union {"issue", "unlock"}

CallInv ==
  /\ \A r \in Readers : readMu = r <=> HasTurn(r)
  /\ \A w \in Writers : writeMu = w <=> HasTurn(w)
  /\ \A w \in Writers : workPc[w] \notin {"wait", "expired", "drain"}
  /\ \A c \in Calls : callPc[c] \in {"idle", "lock", "check"} => workPc[c] = "none"
  /\ \A c \in Calls : workPc[c] \in {"none", "issue"} => request[c] = "none"
  /\ \A c \in Calls : workPc[c] \in InDriver => request[c] # "none"
  /\ \A c \in Calls : request[c] = "pending" => workPc[c] \in InDriver
  /\ \A c \in Calls : result[c] # "none" => workPc[c] \in {"unlock", "done"}
  /\ \A c \in Calls : result[c] = "ok" => request[c] # "none"
  /\ \A c \in Calls : callPc[c] # "returned" => answer[c] = "none"

(***************************************************************************)
(* What a read has got: its answer is an error only for a reason, or       *)
(* nothing has reached its buffer and nothing will.                        *)
(***************************************************************************)
ReportInv ==
  /\ \A r \in Readers : buf[r] # 0 => request[r] = "done"
  /\ \A r \in Readers : workPc[r] \in {"expired", "drain"} => r \in expired
  /\ \A r \in Readers : result[r] = "error" => buf[r] = 0 \/ r \in expired
  /\ \A r \in Readers : answer[r] = "error" =>
       \/ r \in ctxDone \union expired
       \/ buf[r] = 0 /\ workPc[r] \in {"none", "unlock", "done"}

(***************************************************************************)
(* One Close is in the Once's body at most, and the handle is the device's *)
(* until that has ended.                                                   *)
(***************************************************************************)
Closing(k) == closePc[k] \in {"cancel", "close"}

CloseInv ==
  /\ \A k \in Closers : Closing(k) => once = "running"
  /\ \A k, l \in Closers : Closing(k) /\ Closing(l) => k = l
  /\ once # "finished" => handle = "open"

IInv == TypeOK /\ CallInv /\ ReportInv /\ CloseInv

-----------------------------------------------------------------------------
\* OpenPath has returned: the invariant holds.
LEMMA InitInv == Init => IInv
  <1> SUFFICES ASSUME Init PROVE IInv
    OBVIOUS
  <1>1. queue \in Seq(1..MaxReports) /\ sent \in 0..MaxReports
    BY EmptySeq, WindowsDeviceAssumption DEF Init
  <1>2. buf \in [Calls -> 0..Foreign]
    BY WindowsDeviceAssumption DEF Init, Foreign
  <1>3. TypeOK
    BY <1>1, <1>2 DEF Init, TypeOK
  <1>4. CallInv
    BY WindowsDeviceAssumption DEF Init, CallInv, HasTurn, InDriver, Calls
  <1>5. ReportInv
    BY DEF Init, ReportInv, Calls
  <1>6. CloseInv
    BY DEF Init, CloseInv, Closing
  <1> QED
    BY <1>3, <1>4, <1>5, <1>6 DEF IInv

\* Every step keeps the types.
LEMMA TypeStep == IInv /\ [Next]_vars => TypeOK'
  <1> SUFFICES ASSUME TypeOK, CallInv, [Next]_vars PROVE TypeOK'
    BY DEF IInv
  <1>m. MaxReports \in Nat
    BY WindowsDeviceAssumption
  <1>c. Readers \subseteq Calls /\ Writers \subseteq Calls /\ Calls = Readers \union Writers
    BY DEF Calls
  <1>r. ASSUME NEW cs PROVE CancelIoEx(cs) => asked' \subseteq {c \in Calls : request[c] = "pending"}
    BY DEF CancelIoEx, Pending, TypeOK
  <1>a. ASSUME NEW c \in Calls, NEW o \in {"ok", "error"}, Answer(c, o)
        PROVE /\ workPc' \in [Calls -> {"none", "issue", "wait", "expired", "drain", "result",
                                        "unlock", "done"}]
              /\ result' \in [Calls -> {"none", "ok", "error"}]
    BY <1>a DEF Answer, WorkPcTo, TypeOK
  <1>e. ASSUME NEW c \in Calls, NEW o \in {"ok", "error"}, Return(c, o)
        PROVE /\ callPc' \in [Calls -> {"idle", "lock", "check", "select", "returned"}]
              /\ answer' \in [Calls -> {"none", "ok", "error"}]
    BY <1>e DEF Return, CallPcTo, TypeOK
  <1>u. ASSUME NEW c \in Calls, Unlock(c)
        PROVE readMu' \in Readers \union {Nobody} /\ writeMu' \in Writers \union {Nobody}
    BY <1>u DEF Unlock, TypeOK
  <1> USE DEF TypeOK
  <1>1. CASE Report
    <2>1. /\ Append(queue, sent + 1) \in Seq(1..MaxReports) /\ sent' \in 0..MaxReports
          /\ sent + 1 \in 0..Foreign
      BY <1>1, <1>m, AppendProperties DEF Report, Foreign
    <2>2. queue' \in Seq(1..MaxReports)
      BY <1>1, <2>1 DEF Report, requests
    <2>3. \/ UNCHANGED requests
          \/ \E r \in Readers : /\ request' = [request EXCEPT ![r] = "done"]
                                /\ buf' = [buf EXCEPT ![r] = sent + 1] /\ asked' = asked \ {r}
      BY <1>1 DEF Report
    <2>4. /\ request' \in [Calls -> {"none", "pending", "done", "failed"}]
          /\ buf' \in [Calls -> 0..Foreign]
          /\ asked' \subseteq {c \in Calls : request'[c] = "pending"}
      <3>1. CASE UNCHANGED requests
        BY <3>1 DEF requests
      <3>2. ASSUME NEW r \in Readers, request' = [request EXCEPT ![r] = "done"],
                   buf' = [buf EXCEPT ![r] = sent + 1], asked' = asked \ {r}
            PROVE  /\ request' \in [Calls -> {"none", "pending", "done", "failed"}]
                   /\ buf' \in [Calls -> 0..Foreign]
                   /\ asked' \subseteq {c \in Calls : request'[c] = "pending"}
        BY <2>1, <3>2
      <3> QED
        BY <2>3, <3>1, <3>2
    <2> QED
      BY <1>1, <2>1, <2>2, <2>4 DEF Report, mutexes, closing, callers, workers, history
  <1>2. ASSUME NEW c \in Calls, WriteEnds(c) \/ Abort(c) \/ Fail(c) PROVE TypeOK'
    BY <1>2 DEF WriteEnds, Abort, Fail, End, Pending, driver, mutexes, closing, callers, workers,
       history
  <1>3. CASE Reuse
    BY <1>3 DEF Reuse, requests, mutexes, closing, callers, workers, history
  <1>4. ASSUME NEW c \in Calls, Call(c) \/ ContextDone(c) PROVE TypeOK'
    <2>1. /\ callPc' \in [Calls -> {"idle", "lock", "check", "select", "returned"}]
          /\ ctxDone' \subseteq Calls /\ early \subseteq ctxDone'
      BY <1>4 DEF Call, ContextDone, CallPcTo
    <2>2. UNCHANGED <<driver, requests, timed, mutexes, closing, answer, workers, history>>
      BY <1>4 DEF Call, ContextDone
    <2> QED
      BY <2>1, <2>2 DEF driver, requests, mutexes, closing, workers, history
  <1>5. ASSUME NEW c \in Calls, Lock(c) PROVE TypeOK'
    <2>1. readMu' \in Readers \union {Nobody} /\ writeMu' \in Writers \union {Nobody}
      BY <1>5, <1>c DEF Lock, LockBy
    <2> QED
      BY <1>5, <2>1 DEF Lock, CallPcTo, driver, requests, closing, workers, history
  <1>6. ASSUME NEW c \in Calls, Refuse(c) PROVE TypeOK'
    BY <1>6, <1>e, <1>u DEF Refuse, driver, requests, closing, workers, history
  <1>7. ASSUME NEW c \in Calls, Spawn(c) PROVE TypeOK'
    BY <1>7 DEF Spawn, CallPcTo, WorkPcTo, driver, requests, mutexes, closing, history
  <1>8. ASSUME NEW c \in Calls, GiveUp(c) PROVE TypeOK'
    <2>1. early' \subseteq ctxDone
      BY <1>8 DEF GiveUp, GaveUpEarly
    <2>2. asked' \subseteq {d \in Calls : request[d] = "pending"}
      BY <1>8, <1>r DEF GiveUp
    <2> QED
      BY <1>8, <1>e, <2>1, <2>2 DEF GiveUp, driver, mutexes, closing, workers
  <1>9. ASSUME NEW c \in Calls, Receive(c) PROVE TypeOK'
    <2>1. result[c] \in {"ok", "error"}
      BY <1>9 DEF Receive
    <2> QED
      BY <1>9, <1>e, <2>1 DEF Receive, driver, requests, mutexes, closing, workers, history
  <1>10. ASSUME NEW c \in Calls, Issue(c) PROVE TypeOK'
    <2>1. request[c] = "none"
      BY <1>10 DEF Issue, CallInv
    <2>2. queue # <<>> => Head(queue) \in 1..MaxReports /\ Tail(queue) \in Seq(1..MaxReports)
      BY HeadTailProperties
    <2>3. /\ request' \in [Calls -> {"none", "pending", "done", "failed"}]
          /\ buf' \in [Calls -> 0..Foreign] /\ queue' \in Seq(1..MaxReports)
          /\ asked' \subseteq {d \in Calls : request'[d] = "pending"}
      <3>1. CASE c \in Readers /\ queue # <<>>
        <4>1. Head(queue) \in 0..Foreign
          BY <1>m, <2>2, <3>1 DEF Foreign
        <4> QED
          BY <1>10, <2>1, <2>2, <3>1, <4>1 DEF Issue
      <3>2. CASE ~(c \in Readers /\ queue # <<>>)
        BY <1>10, <2>1, <3>2 DEF Issue
      <3> QED
        BY <3>1, <3>2
    <2>4. workPc' \in [Calls -> {"none", "issue", "wait", "expired", "drain", "result", "unlock",
                                 "done"}]
      BY <1>10 DEF Issue, WorkPcTo, AfterIssue
    <2> QED
      BY <1>10, <2>3, <2>4 DEF Issue, mutexes, closing, callers, history
  <1>11. ASSUME NEW c \in Calls, IssueFails(c) \/ ExpiredDrain(c) \/ Result(c) PROVE TypeOK'
    <2>1. \E o \in {"ok", "error"} : Answer(c, o)
      BY <1>11 DEF IssueFails, ExpiredDrain, Result
    <2>2. UNCHANGED <<worker, requests, history>>
      BY <1>11 DEF IssueFails, ExpiredDrain, Result
    <2> QED
      BY <1>a, <2>1, <2>2 DEF worker, driver, requests, mutexes, closing, callers, history
  <1>12. ASSUME NEW c \in Calls, IssueForeign(c) PROVE TypeOK'
    <2>1. request[c] = "none"
      BY <1>12 DEF IssueForeign, CallInv
    <2>2. /\ request' \in [Calls -> {"none", "pending", "done", "failed"}]
          /\ asked' \subseteq {d \in Calls : request'[d] = "pending"}
      BY <1>12, <2>1 DEF IssueForeign
    <2>3. buf' \in [Calls -> 0..Foreign]
      BY <1>12, <1>m DEF IssueForeign, Foreign
    <2>4. workPc' \in [Calls -> {"none", "issue", "wait", "expired", "drain", "result", "unlock",
                                 "done"}]
      BY <1>12 DEF IssueForeign, WorkPcTo, AfterIssue
    <2> QED
      BY <1>12, <2>2, <2>3, <2>4
      DEF IssueForeign, worker, driver, mutexes, closing, callers, history
  <1>13. ASSUME NEW c \in Calls, Signalled(c) PROVE TypeOK'
    BY <1>13 DEF Signalled, WorkPcTo, worker, driver, requests, mutexes, closing, callers, history
  <1>14. ASSUME NEW r \in Readers, Expire(r) PROVE TypeOK'
    BY <1>14, <1>c DEF Expire, WorkPcTo, worker, driver, requests, mutexes, closing, callers
  <1>15. ASSUME NEW c \in Calls, ExpiredCancel(c) PROVE TypeOK'
    <2>1. asked' \subseteq {d \in Calls : request[d] = "pending"}
      BY <1>15, <1>r DEF ExpiredCancel
    <2> QED
      BY <1>15, <2>1 DEF ExpiredCancel, WorkPcTo, worker, driver, mutexes, closing, callers, history
  <1>16. ASSUME NEW c \in Calls, WorkUnlock(c) PROVE TypeOK'
    BY <1>16, <1>u DEF WorkUnlock, WorkPcTo, driver, requests, closing, callers, history
  <1>17. ASSUME NEW k \in Closers, CloseEnter(k) PROVE TypeOK'
    BY <1>17 DEF CloseEnter, ClosePcTo, driver, requests, mutexes, callers, workers, history
  <1>18. ASSUME NEW k \in Closers, CloseCancel(k) PROVE TypeOK'
    <2>1. asked' \subseteq {d \in Calls : request[d] = "pending"}
      BY <1>18, <1>r DEF CloseCancel
    <2> QED
      BY <1>18, <2>1 DEF CloseCancel, ClosePcTo, driver, mutexes, callers, workers, history
  <1>19. ASSUME NEW k \in Closers, CloseHandle(k) PROVE TypeOK'
    BY <1>19 DEF CloseHandle, ClosePcTo, Pending, mutexes, callers, workers, history
  <1>20. CASE UNCHANGED vars
    BY <1>20 DEF vars, driver, requests, mutexes, closing, callers, workers, history
  <1> QED
    BY <1>1, <1>2, <1>3, <1>4, <1>5, <1>6, <1>7, <1>8, <1>9, <1>10, <1>11, <1>12, <1>13, <1>14,
       <1>15, <1>16, <1>17, <1>18, <1>19, <1>20, <1>c
    DEF Next, CallerGoesOn, WorkerGoesOn, Close
-----------------------------------------------------------------------------
(***************************************************************************)
(* Each step by what it does to the calls: nothing but to requests that    *)
(* are with the driver, or one of the stages of one call.                  *)
(***************************************************************************)
callState == <<callPc, workPc, request, buf, result, answer, ctxDone, expired, readMu, writeMu>>

DriverEnds(c) ==
  /\ request[c] = "pending"
  /\ \/ request' = [request EXCEPT ![c] = "failed"] /\ UNCHANGED buf
     \/ request' = [request EXCEPT ![c] = "done"] /\ UNCHANGED buf
     \/ request' = [request EXCEPT ![c] = "done"] /\ buf' = [buf EXCEPT ![c] = sent + 1]
  /\ UNCHANGED <<callPc, workPc, result, answer, ctxDone, expired, readMu, writeMu>>

Asks(c) ==
  /\ callPc[c] = "idle" /\ callPc' = [callPc EXCEPT ![c] = "lock"]
  /\ UNCHANGED <<workPc, request, buf, result, answer, ctxDone, expired, readMu, writeMu>>

IsDone(c) ==
  /\ callPc[c] \in {"lock", "check", "select"} /\ ctxDone' = ctxDone \union {c}
  /\ UNCHANGED <<callPc, workPc, request, buf, result, answer, expired, readMu, writeMu>>

Locks(c) ==
  /\ callPc[c] = "lock" /\ Free(c) /\ LockBy(c) /\ callPc' = [callPc EXCEPT ![c] = "check"]
  /\ UNCHANGED <<workPc, request, buf, result, answer, ctxDone, expired>>

Refuses(c) ==
  /\ callPc[c] = "check" /\ Unlock(c) /\ Return(c, "error")
  /\ UNCHANGED <<workPc, request, buf, result, ctxDone, expired>>

Spawns(c) ==
  /\ callPc[c] = "check"
  /\ callPc' = [callPc EXCEPT ![c] = "select"] /\ workPc' = [workPc EXCEPT ![c] = "issue"]
  /\ UNCHANGED <<request, buf, result, answer, ctxDone, expired, readMu, writeMu>>

GivesUp(c) ==
  /\ callPc[c] = "select" /\ c \in ctxDone /\ Return(c, "error")
  /\ UNCHANGED <<workPc, request, buf, result, ctxDone, expired, readMu, writeMu>>

Receives(c) ==
  /\ callPc[c] = "select" /\ result[c] # "none" /\ Return(c, result[c])
  /\ UNCHANGED <<workPc, request, buf, result, ctxDone, expired, readMu, writeMu>>

Issues(c) ==
  /\ workPc[c] = "issue" /\ workPc' = [workPc EXCEPT ![c] = AfterIssue(c)]
  /\ \/ request' = [request EXCEPT ![c] = "pending"] /\ UNCHANGED buf
     \/ /\ request' = [request EXCEPT ![c] = "done"]
        /\ \E x \in 1..Foreign : buf' = [buf EXCEPT ![c] = x]
  /\ UNCHANGED <<callPc, result, answer, ctxDone, expired, readMu, writeMu>>

Waits(c) ==
  /\ \/ workPc[c] = "wait" /\ workPc' = [workPc EXCEPT ![c] = "result"] /\ UNCHANGED expired
     \/ /\ workPc[c] = "wait" /\ workPc' = [workPc EXCEPT ![c] = "expired"]
        /\ c \in Readers /\ expired' = expired \union {c}
     \/ workPc[c] = "expired" /\ workPc' = [workPc EXCEPT ![c] = "drain"] /\ UNCHANGED expired
  /\ UNCHANGED <<callPc, request, buf, result, answer, ctxDone, readMu, writeMu>>

\* The goroutine has its outcome.
Ends(c) ==
  /\ workPc' = [workPc EXCEPT ![c] = "unlock"]
  /\ \/ workPc[c] \in {"issue", "drain"} /\ result' = [result EXCEPT ![c] = "error"]
     \/ workPc[c] = "result" /\ request[c] = "done" /\ result' = [result EXCEPT ![c] = "ok"]
     \/ workPc[c] = "result" /\ request[c] # "done" /\ result' = [result EXCEPT ![c] = "error"]
  /\ request[c] # "pending"
  /\ UNCHANGED <<callPc, request, buf, answer, ctxDone, expired, readMu, writeMu>>

Unlocks(c) ==
  /\ workPc[c] = "unlock" /\ Unlock(c) /\ workPc' = [workPc EXCEPT ![c] = "done"]
  /\ UNCHANGED <<callPc, request, buf, result, answer, ctxDone, expired>>

Stage(c) ==
  \/ DriverEnds(c) \/ Asks(c) \/ IsDone(c) \/ Locks(c) \/ Refuses(c) \/ Spawns(c) \/ GivesUp(c)
  \/ Receives(c) \/ Issues(c) \/ Waits(c) \/ Ends(c) \/ Unlocks(c)

\* What a step may do to the calls: nothing, or one stage of one call.
LEMMA Stages == IInv /\ [Next]_vars => UNCHANGED callState \/ \E c \in Calls : Stage(c)
  <1> SUFFICES ASSUME TypeOK, CallInv, [Next]_vars
               PROVE  UNCHANGED callState \/ \E c \in Calls : Stage(c)
    BY DEF IInv
  <1>m. MaxReports \in Nat
    BY WindowsDeviceAssumption
  <1>c. Readers \subseteq Calls /\ Writers \subseteq Calls
    BY DEF Calls
  <1> USE DEF callState
  <1>1. CASE Report
    <2>1. CASE UNCHANGED requests
      BY <1>1, <2>1 DEF Report, requests, mutexes, callers, workers, history
    <2>2. ASSUME NEW r \in Pending \intersect Readers,
                 request' = [request EXCEPT ![r] = "done"], buf' = [buf EXCEPT ![r] = sent + 1]
          PROVE \E c \in Calls : Stage(c)
      <3>1. r \in Calls /\ request[r] = "pending"
        BY <1>c DEF Pending
      <3>2. DriverEnds(r)
        BY <1>1, <2>2, <3>1 DEF Report, DriverEnds, mutexes, callers, workers, history
      <3> QED
        BY <3>1, <3>2 DEF Stage
    <2> QED
      BY <1>1, <2>1, <2>2 DEF Report
  <1>2. ASSUME NEW c \in Calls, WriteEnds(c) \/ Abort(c) \/ Fail(c) PROVE Stage(c)
    <2>1. DriverEnds(c)
      BY <1>2
      DEF WriteEnds, Abort, Fail, End, Pending, DriverEnds, mutexes, callers, workers, history
    <2> QED
      BY <2>1 DEF Stage
  <1>3. CASE Reuse
    BY <1>3 DEF Reuse, requests, mutexes, callers, workers, history
  <1>4. ASSUME NEW c \in Calls, Call(c) \/ ContextDone(c) PROVE Stage(c)
    <2>1. Asks(c) \/ IsDone(c)
      BY <1>4 DEF Call, ContextDone, InTurn, CallPcTo, Asks, IsDone, requests, mutexes, workers,
         history
    <2> QED
      BY <2>1 DEF Stage
  <1>5. ASSUME NEW c \in Calls, CallerGoesOn(c) PROVE Stage(c)
    <2>1. CASE Lock(c) \/ Refuse(c) \/ Spawn(c)
      <3>1. Locks(c) \/ Refuses(c) \/ Spawns(c)
        BY <2>1 DEF Lock, Refuse, Spawn, CallPcTo, WorkPcTo, Locks, Refuses, Spawns, requests,
           mutexes, workers, history
      <3> QED
        BY <3>1 DEF Stage
    <2>2. CASE GiveUp(c) \/ Receive(c)
      <3>1. GivesUp(c) \/ Receives(c)
        BY <2>2 DEF GiveUp, Receive, GivesUp, Receives, requests, mutexes, workers, history
      <3> QED
        BY <3>1 DEF Stage
    <2> QED
      BY <1>5, <2>1, <2>2 DEF CallerGoesOn
  <1>6. ASSUME NEW c \in Calls, Issue(c) PROVE Stage(c)
    <2>1. queue # <<>> => Head(queue) \in 1..Foreign
      BY <1>m, HeadTailProperties DEF TypeOK, Foreign
    <2>2. Issues(c)
      BY <1>6, <2>1 DEF Issue, Issues, WorkPcTo, mutexes, callers, history
    <2> QED
      BY <2>2 DEF Stage
  <1>7. ASSUME NEW c \in Calls, IssueForeign(c) PROVE Stage(c)
    <2>1. Foreign \in 1..Foreign
      BY <1>m DEF Foreign
    <2>2. Issues(c)
      BY <1>7, <2>1 DEF IssueForeign, Issues, WorkPcTo, worker, mutexes, callers, history
    <2> QED
      BY <2>2 DEF Stage
  <1>8. ASSUME NEW c \in Calls, Signalled(c) \/ ExpiredCancel(c) PROVE Stage(c)
    <2>1. Waits(c)
      BY <1>8
      DEF Signalled, ExpiredCancel, WorkPcTo, Waits, worker, requests, mutexes, callers, history
    <2> QED
      BY <2>1 DEF Stage
  <1>9. ASSUME NEW r \in Readers, Expire(r) PROVE Stage(r)
    <2>1. Waits(r)
      BY <1>9 DEF Expire, WorkPcTo, Waits, worker, requests, mutexes, callers
    <2> QED
      BY <2>1 DEF Stage
  <1>10. ASSUME NEW c \in Calls, IssueFails(c) \/ ExpiredDrain(c) \/ Result(c) PROVE Stage(c)
    <2>1. workPc[c] = "issue" => request[c] # "pending"
      BY DEF CallInv
    <2>2. Ends(c)
      BY <1>10, <2>1 DEF IssueFails, ExpiredDrain, Result, Answer, WorkPcTo, Ends, worker, requests,
         mutexes, callers, history
    <2> QED
      BY <2>2 DEF Stage
  <1>11. ASSUME NEW c \in Calls, WorkUnlock(c) PROVE Stage(c)
    <2>1. Unlocks(c)
      BY <1>11 DEF WorkUnlock, WorkPcTo, Unlocks, requests, callers, history
    <2> QED
      BY <2>1 DEF Stage
  <1>12. ASSUME NEW k \in Closers, Close(k) PROVE UNCHANGED callState
    BY <1>12 DEF Close, CloseEnter, CloseCancel, CloseHandle, requests, mutexes, callers, workers,
       history
  <1>13. CASE UNCHANGED vars
    BY <1>13 DEF vars, requests, mutexes, callers, workers, history
  <1> QED
    BY <1>1, <1>2, <1>3, <1>4, <1>5, <1>6, <1>7, <1>8, <1>9, <1>10, <1>11, <1>12, <1>13, <1>c
    DEF Next, WorkerGoesOn
-----------------------------------------------------------------------------
\* A call is a Read or a Write and not both.
LEMMA Kinds ==
  /\ Readers \subseteq Calls /\ Writers \subseteq Calls
  /\ \A c \in Calls : c \in Readers <=> c \notin Writers
  /\ Nobody \notin Calls
  BY WindowsDeviceAssumption DEF Calls

\* Every stage keeps the mutexes with the calls whose turn it is.
LEMMA CallStep == IInv /\ [Next]_vars => CallInv'
  <1> SUFFICES ASSUME TypeOK, CallInv,
                      UNCHANGED callState \/ \E c \in Calls : Stage(c)
               PROVE  CallInv'
    BY Stages DEF IInv
  <1>t. /\ callPc \in [Calls -> {"idle", "lock", "check", "select", "returned"}]
        /\ workPc \in [Calls -> {"none", "issue", "wait", "expired", "drain", "result", "unlock",
                                 "done"}]
        /\ request \in [Calls -> {"none", "pending", "done", "failed"}]
        /\ result \in [Calls -> {"none", "ok", "error"}]
        /\ answer \in [Calls -> {"none", "ok", "error"}]
        /\ readMu \in Readers \union {Nobody} /\ writeMu \in Writers \union {Nobody}
    BY DEF TypeOK
  <1> USE <1>t, Kinds DEF CallInv, HasTurn, InDriver
  <1>1. CASE UNCHANGED callState
    BY <1>1 DEF callState
  <1>2. ASSUME NEW c \in Calls, DriverEnds(c) PROVE CallInv'
    BY <1>2 DEF DriverEnds
  <1>3. ASSUME NEW c \in Calls, Asks(c) \/ IsDone(c) PROVE CallInv'
    BY <1>3 DEF Asks, IsDone
  <1>4. ASSUME NEW c \in Calls, Locks(c) PROVE CallInv'
    <2>1. CASE c \in Readers
      BY <1>4, <2>1 DEF Locks, Free, LockBy
    <2>2. CASE c \in Writers
      BY <1>4, <2>2 DEF Locks, Free, LockBy
    <2> QED
      BY <2>1, <2>2 DEF Calls
  <1>5. ASSUME NEW c \in Calls, Refuses(c) PROVE CallInv'
    <2>1. CASE c \in Readers
      BY <1>5, <2>1 DEF Refuses, Unlock, Return, CallPcTo
    <2>2. CASE c \in Writers
      BY <1>5, <2>2 DEF Refuses, Unlock, Return, CallPcTo
    <2> QED
      BY <2>1, <2>2 DEF Calls
  <1>6. ASSUME NEW c \in Calls, Spawns(c) PROVE CallInv'
    BY <1>6 DEF Spawns
  <1>7. ASSUME NEW c \in Calls, GivesUp(c) PROVE CallInv'
    BY <1>7 DEF GivesUp, Return, CallPcTo
  <1>8. ASSUME NEW c \in Calls, Receives(c) PROVE CallInv'
    BY <1>8 DEF Receives, Return, CallPcTo
  <1>9. ASSUME NEW c \in Calls, Issues(c) PROVE CallInv'
    BY <1>9 DEF Issues, AfterIssue
  <1>10. ASSUME NEW c \in Calls, Waits(c) PROVE CallInv'
    BY <1>10 DEF Waits
  <1>11. ASSUME NEW c \in Calls, Ends(c) PROVE CallInv'
    BY <1>11 DEF Ends
  <1>12. ASSUME NEW c \in Calls, Unlocks(c) PROVE CallInv'
    <2>1. CASE c \in Readers
      BY <1>12, <2>1 DEF Unlocks, Unlock
    <2>2. CASE c \in Writers
      BY <1>12, <2>2 DEF Unlocks, Unlock
    <2> QED
      BY <2>1, <2>2 DEF Calls
  <1> QED
    BY <1>1, <1>2, <1>3, <1>4, <1>5, <1>6, <1>7, <1>8, <1>9, <1>10, <1>11, <1>12 DEF Stage

\* Every step keeps what a read has got.
LEMMA ReportStep == IInv /\ [Next]_vars => ReportInv'
  <1> SUFFICES ASSUME TypeOK, CallInv, ReportInv,
                      UNCHANGED callState \/ \E c \in Calls : Stage(c)
               PROVE  ReportInv'
    BY Stages DEF IInv
  <1>t. /\ callPc \in [Calls -> {"idle", "lock", "check", "select", "returned"}]
        /\ workPc \in [Calls -> {"none", "issue", "wait", "expired", "drain", "result", "unlock",
                                 "done"}]
        /\ request \in [Calls -> {"none", "pending", "done", "failed"}]
        /\ result \in [Calls -> {"none", "ok", "error"}]
        /\ answer \in [Calls -> {"none", "ok", "error"}]
        /\ buf \in [Calls -> 0..Foreign] /\ expired \subseteq Readers
    BY DEF TypeOK
  <1> USE <1>t, Kinds DEF ReportInv
  <1>1. CASE UNCHANGED callState
    BY <1>1 DEF callState
  <1>2. ASSUME NEW c \in Calls, DriverEnds(c) PROVE ReportInv'
    BY <1>2 DEF DriverEnds, CallInv, InDriver
  <1>3. ASSUME NEW c \in Calls, Asks(c) \/ IsDone(c) PROVE ReportInv'
    BY <1>3 DEF Asks, IsDone
  <1>4. ASSUME NEW c \in Calls, Locks(c) PROVE ReportInv'
    BY <1>4 DEF Locks
  <1>5. ASSUME NEW c \in Calls, Refuses(c) PROVE ReportInv'
    BY <1>5 DEF Refuses, Return, CallPcTo, CallInv
  <1>6. ASSUME NEW c \in Calls, Spawns(c) PROVE ReportInv'
    BY <1>6 DEF Spawns, CallInv
  <1>7. ASSUME NEW c \in Calls, GivesUp(c) PROVE ReportInv'
    BY <1>7 DEF GivesUp, Return, CallPcTo
  <1>8. ASSUME NEW c \in Calls, Receives(c) PROVE ReportInv'
    BY <1>8 DEF Receives, Return, CallPcTo, CallInv
  <1>9. ASSUME NEW c \in Calls, Issues(c) PROVE ReportInv'
    BY <1>9 DEF Issues, AfterIssue, CallInv
  <1>10. ASSUME NEW c \in Calls, Waits(c) PROVE ReportInv'
    BY <1>10 DEF Waits
  <1>11. ASSUME NEW c \in Calls, Ends(c) PROVE ReportInv'
    BY <1>11 DEF Ends, CallInv
  <1>12. ASSUME NEW c \in Calls, Unlocks(c) PROVE ReportInv'
    BY <1>12 DEF Unlocks
  <1> QED
    BY <1>1, <1>2, <1>3, <1>4, <1>5, <1>6, <1>7, <1>8, <1>9, <1>10, <1>11, <1>12 DEF Stage

\* Every step keeps the one Close that is in the body of the Once.
LEMMA CloseStep == IInv /\ [Next]_vars => CloseInv'
  <1> SUFFICES ASSUME TypeOK, CloseInv, [Next]_vars PROVE CloseInv'
    BY DEF IInv
  <1>t. closePc \in [Closers -> {"idle", "cancel", "close", "returned"}]
    BY DEF TypeOK
  <1> USE <1>t DEF CloseInv, Closing
  <1>1. CASE Report \/ Reuse
    BY <1>1 DEF Report, Reuse, closing
  <1>2. ASSUME NEW c \in Calls, \/ WriteEnds(c) \/ Abort(c) \/ Fail(c) \/ Call(c) \/ ContextDone(c)
                                \/ CallerGoesOn(c)
        PROVE CloseInv'
    BY <1>2 DEF WriteEnds, Abort, Fail, End, Call, ContextDone, CallerGoesOn, Lock, Refuse, Spawn,
       GiveUp, Receive, driver, closing
  <1>3. ASSUME NEW c \in Calls, Expire(c) \/ WorkerGoesOn(c) PROVE CloseInv'
    BY <1>3 DEF Expire, WorkerGoesOn, Issue, IssueFails, IssueForeign, Signalled, ExpiredCancel,
       ExpiredDrain, Result, WorkUnlock, worker, driver, closing
  <1>4. ASSUME NEW k \in Closers, CloseEnter(k) PROVE CloseInv'
    BY <1>4 DEF CloseEnter, ClosePcTo, driver
  <1>5. ASSUME NEW k \in Closers, CloseCancel(k) PROVE CloseInv'
    BY <1>5 DEF CloseCancel, ClosePcTo, driver
  <1>6. ASSUME NEW k \in Closers, CloseHandle(k) PROVE CloseInv'
    BY <1>6 DEF CloseHandle, ClosePcTo
  <1>7. CASE UNCHANGED vars
    BY <1>7 DEF vars, driver, closing
  <1> QED
    BY <1>1, <1>2, <1>3, <1>4, <1>5, <1>6, <1>7 DEF Next, Close, Calls

\* The invariant holds in every state of the device.
LEMMA Invariance == Spec => []IInv
  <1>1. IInv /\ [Next]_vars => IInv'
    BY TypeStep, CallStep, ReportStep, CloseStep DEF IInv
  <1> QED
    BY <1>1, InitInv, PTL DEF Spec

(***************************************************************************)
(* Whatever timeouts, cancellations and Close do, the driver's buffers are *)
(* left alone and no report is lost but to them (hid_windows.go:643).      *)
(***************************************************************************)
THEOREM RequestsCorrect == Spec => []RequestsSafe
  <1>1. IInv => RequestsSafe
    BY DEF IInv, CallInv, ReportInv, InDriver, RequestsSafe, LostOnlyToTheImpatient, BufferIsOwned,
       Calls
  <1> QED
    BY <1>1, Invariance, PTL

(***************************************************************************)
(* However many calls of Close overlap, the handle is closed once and a    *)
(* value that was given to somebody else is left to him                    *)
(* (hid_windows.go:758).                                                   *)
(***************************************************************************)
THEOREM CloseCorrect == Spec => ClosesOwnHandleOnly
  <1>1. ASSUME IInv, [Next]_vars, handle = "foreign" PROVE handle' = "foreign"
    <2>1. ASSUME NEW k \in Closers PROVE ~CloseHandle(k)
      BY <1>1 DEF CloseHandle, IInv, CloseInv, Closing
    <2>2. CASE Report \/ Reuse
      BY <1>1, <2>2 DEF Report, Reuse
    <2>3. ASSUME NEW c \in Calls, \/ WriteEnds(c) \/ Abort(c) \/ Fail(c) \/ Call(c)
                                  \/ ContextDone(c) \/ CallerGoesOn(c)
          PROVE UNCHANGED handle
      BY <2>3 DEF WriteEnds, Abort, Fail, End, Call, ContextDone, CallerGoesOn, Lock, Refuse, Spawn,
         GiveUp, Receive, driver
    <2>4. ASSUME NEW c \in Calls, Expire(c) \/ WorkerGoesOn(c) PROVE UNCHANGED handle
      BY <2>4 DEF Expire, WorkerGoesOn, Issue, IssueFails, IssueForeign, Signalled, ExpiredCancel,
         ExpiredDrain, Result, WorkUnlock, worker, driver
    <2>5. ASSUME NEW k \in Closers, CloseEnter(k) \/ CloseCancel(k) PROVE UNCHANGED handle
      BY <2>5 DEF CloseEnter, CloseCancel, driver
    <2>6. CASE UNCHANGED vars
      BY <1>1, <2>6 DEF vars, driver
    <2> QED
      BY <1>1, <2>1, <2>2, <2>3, <2>4, <2>5, <2>6 DEF Next, Close, Calls
  <1>2. IInv /\ [Next]_vars => [handle = "foreign" => handle' = "foreign"]_vars
    BY <1>1
  <1> QED
    BY <1>2, Invariance, PTL DEF Spec, ClosesOwnHandleOnly

-----------------------------------------------------------------------------
(***************************************************************************)
(* The operations of one kind, for the readers and then the writers: each  *)
(* stage of a call is a step of SerialIO or a stutter.  The calls of the   *)
(* other kind are not seen.                                                *)
(***************************************************************************)
LEMMA ReadSerialStep == IInv /\ [Next]_vars => [ReadSerial!Next]_(ReadSerial!vars)
  <1> DEFINE asks    == {c \in Readers : callPc[c] # "idle"}
             begun   == {c \in Readers : request[c] # "none"}
             active  == {c \in Readers : workPc[c] \in {"wait", "expired", "drain", "result"}}
             answers == [c \in Readers |-> answer[c]]
             Stutter == UNCHANGED <<asks, begun, active, answers>>
  <1> SUFFICES ASSUME TypeOK, CallInv, UNCHANGED callState \/ \E c \in Calls : Stage(c)
               PROVE  Stutter \/ ReadSerial!Next
    BY Stages DEF IInv, ReadSerial!vars
  <1>t. /\ callPc \in [Calls -> {"idle", "lock", "check", "select", "returned"}]
        /\ workPc \in [Calls -> {"none", "issue", "wait", "expired", "drain", "result", "unlock",
                                 "done"}]
        /\ request \in [Calls -> {"none", "pending", "done", "failed"}]
        /\ result \in [Calls -> {"none", "ok", "error"}]
        /\ answer \in [Calls -> {"none", "ok", "error"}]
    BY DEF TypeOK
  <1> USE <1>t, Kinds DEF CallInv, HasTurn, InDriver
  <1>1. CASE UNCHANGED callState
    BY <1>1 DEF callState
  <1>2. ASSUME NEW c \in Calls, c \notin Readers, Stage(c) PROVE Stutter
    <2>1. \A r \in Readers : /\ callPc'[r] = callPc[r] /\ request'[r] = request[r]
                             /\ workPc'[r] = workPc[r] /\ answer'[r] = answer[r]
      BY <1>2 DEF Stage, DriverEnds, Asks, IsDone, Locks, Refuses, Spawns, GivesUp, Receives,
         Issues, Waits, Ends, Unlocks, Return, CallPcTo
    <2> QED
      BY <2>1
  <1>3. ASSUME NEW r \in Readers, DriverEnds(r) \/ IsDone(r) \/ Locks(r) \/ Spawns(r) PROVE Stutter
    BY <1>3 DEF DriverEnds, IsDone, Locks, Spawns
  <1>4. ASSUME NEW r \in Readers, Waits(r) \/ Unlocks(r) PROVE Stutter
    BY <1>4 DEF Waits, Unlocks
  <1>5. ASSUME NEW r \in Readers, Asks(r) PROVE ReadSerial!Next
    <2>1. ReadSerial!Ask(r)
      BY <1>5 DEF Asks, ReadSerial!Ask
    <2> QED
      BY <2>1 DEF ReadSerial!Next
  <1>6. ASSUME NEW r \in Readers, Refuses(r) \/ GivesUp(r) PROVE ReadSerial!Next
    <2>1. /\ answers[r] = "none" /\ r \in asks /\ answers' = [answers EXCEPT ![r] = "error"]
          /\ UNCHANGED <<asks, begun, active>>
      <3>1. CASE Refuses(r)
        BY <3>1 DEF Refuses, Return, CallPcTo
      <3>2. CASE GivesUp(r)
        BY <3>2 DEF GivesUp, Return, CallPcTo
      <3> QED
        BY <1>6, <3>1, <3>2
    <2>2. ReadSerial!Fail(r)
      BY <2>1 DEF ReadSerial!Fail
    <2> QED
      BY <2>2 DEF ReadSerial!Next
  <1>7. ASSUME NEW r \in Readers, Issues(r) PROVE ReadSerial!Next
    <2>1. active = {}
      BY <1>7 DEF Issues
    <2>2. /\ r \in asks \ begun /\ active' = {r} /\ begun' = begun \union {r}
          /\ UNCHANGED <<asks, answers>>
      BY <1>7, <2>1 DEF Issues, AfterIssue
    <2>3. ReadSerial!Begin(r)
      BY <2>1, <2>2 DEF ReadSerial!Begin
    <2> QED
      BY <2>3 DEF ReadSerial!Next
  <1>8. ASSUME NEW r \in Readers, Ends(r) PROVE Stutter \/ ReadSerial!Next
    <2>1. active' = active \ {r} /\ UNCHANGED <<asks, begun, answers>>
      BY <1>8 DEF Ends
    <2>2. CASE r \in active
      <3>1. ReadSerial!End(r)
        BY <2>1, <2>2 DEF ReadSerial!End
      <3> QED
        BY <3>1 DEF ReadSerial!Next
    <2>3. CASE r \notin active
      BY <2>1, <2>3
    <2> QED
      BY <2>2, <2>3
  <1>9. ASSUME NEW r \in Readers, Receives(r) PROVE ReadSerial!Next
    <2>1. /\ answers[r] = "none" /\ r \in asks /\ answers' = [answers EXCEPT ![r] = result[r]]
          /\ UNCHANGED <<asks, begun, active>>
          /\ result[r] = "ok" => r \in begun \ active
      BY <1>9 DEF Receives, Return, CallPcTo
    <2>2. result[r] \in {"ok", "error"}
      BY <1>9 DEF Receives
    <2>3. ReadSerial!Succeed(r) \/ ReadSerial!Fail(r)
      BY <2>1, <2>2 DEF ReadSerial!Succeed, ReadSerial!Fail
    <2> QED
      BY <2>3 DEF ReadSerial!Next
  <1> QED
    BY <1>1, <1>2, <1>3, <1>4, <1>5, <1>6, <1>7, <1>8, <1>9 DEF Stage

\* A step of the device is a step of the serial order of writes.
LEMMA WriteSerialStep == IInv /\ [Next]_vars => [WriteSerial!Next]_(WriteSerial!vars)
  <1> DEFINE asks    == {c \in Writers : callPc[c] # "idle"}
             begun   == {c \in Writers : request[c] # "none"}
             active  == {c \in Writers : workPc[c] = "result"}
             answers == [c \in Writers |-> answer[c]]
             Stutter == UNCHANGED <<asks, begun, active, answers>>
  <1> SUFFICES ASSUME TypeOK, CallInv, UNCHANGED callState \/ \E c \in Calls : Stage(c)
               PROVE  Stutter \/ WriteSerial!Next
    BY Stages DEF IInv, WriteSerial!vars
  <1>t. /\ callPc \in [Calls -> {"idle", "lock", "check", "select", "returned"}]
        /\ workPc \in [Calls -> {"none", "issue", "wait", "expired", "drain", "result", "unlock",
                                 "done"}]
        /\ request \in [Calls -> {"none", "pending", "done", "failed"}]
        /\ result \in [Calls -> {"none", "ok", "error"}]
        /\ answer \in [Calls -> {"none", "ok", "error"}]
    BY DEF TypeOK
  <1> USE <1>t, Kinds DEF CallInv, HasTurn, InDriver
  <1>1. CASE UNCHANGED callState
    BY <1>1 DEF callState
  <1>2. ASSUME NEW c \in Calls, c \notin Writers, Stage(c) PROVE Stutter
    <2>1. \A w \in Writers : /\ callPc'[w] = callPc[w] /\ request'[w] = request[w]
                             /\ workPc'[w] = workPc[w] /\ answer'[w] = answer[w]
      BY <1>2 DEF Stage, DriverEnds, Asks, IsDone, Locks, Refuses, Spawns, GivesUp, Receives,
         Issues, Waits, Ends, Unlocks, Return, CallPcTo
    <2> QED
      BY <2>1
  <1>3. ASSUME NEW w \in Writers, DriverEnds(w) \/ IsDone(w) \/ Locks(w) \/ Spawns(w) PROVE Stutter
    BY <1>3 DEF DriverEnds, IsDone, Locks, Spawns
  <1>4. ASSUME NEW w \in Writers, Waits(w) \/ Unlocks(w) PROVE Stutter
    BY <1>4 DEF Waits, Unlocks
  <1>5. ASSUME NEW w \in Writers, Asks(w) PROVE WriteSerial!Next
    <2>1. WriteSerial!Ask(w)
      BY <1>5 DEF Asks, WriteSerial!Ask
    <2> QED
      BY <2>1 DEF WriteSerial!Next
  <1>6. ASSUME NEW w \in Writers, Refuses(w) \/ GivesUp(w) PROVE WriteSerial!Next
    <2>1. /\ answers[w] = "none" /\ w \in asks /\ answers' = [answers EXCEPT ![w] = "error"]
          /\ UNCHANGED <<asks, begun, active>>
      <3>1. CASE Refuses(w)
        BY <3>1 DEF Refuses, Return, CallPcTo
      <3>2. CASE GivesUp(w)
        BY <3>2 DEF GivesUp, Return, CallPcTo
      <3> QED
        BY <1>6, <3>1, <3>2
    <2>2. WriteSerial!Fail(w)
      BY <2>1 DEF WriteSerial!Fail
    <2> QED
      BY <2>2 DEF WriteSerial!Next
  <1>7. ASSUME NEW w \in Writers, Issues(w) PROVE WriteSerial!Next
    <2>1. active = {}
      BY <1>7 DEF Issues
    <2>2. /\ w \in asks \ begun /\ active' = {w} /\ begun' = begun \union {w}
          /\ UNCHANGED <<asks, answers>>
      BY <1>7, <2>1 DEF Issues, AfterIssue
    <2>3. WriteSerial!Begin(w)
      BY <2>1, <2>2 DEF WriteSerial!Begin
    <2> QED
      BY <2>3 DEF WriteSerial!Next
  <1>8. ASSUME NEW w \in Writers, Ends(w) PROVE Stutter \/ WriteSerial!Next
    <2>1. active' = active \ {w} /\ UNCHANGED <<asks, begun, answers>>
      BY <1>8 DEF Ends
    <2>2. CASE w \in active
      <3>1. WriteSerial!End(w)
        BY <2>1, <2>2 DEF WriteSerial!End
      <3> QED
        BY <3>1 DEF WriteSerial!Next
    <2>3. CASE w \notin active
      BY <2>1, <2>3
    <2> QED
      BY <2>2, <2>3
  <1>9. ASSUME NEW w \in Writers, Receives(w) PROVE WriteSerial!Next
    <2>1. /\ answers[w] = "none" /\ w \in asks /\ answers' = [answers EXCEPT ![w] = result[w]]
          /\ UNCHANGED <<asks, begun, active>>
          /\ result[w] = "ok" => w \in begun \ active
      BY <1>9 DEF Receives, Return, CallPcTo
    <2>2. result[w] \in {"ok", "error"}
      BY <1>9 DEF Receives
    <2>3. WriteSerial!Succeed(w) \/ WriteSerial!Fail(w)
      BY <2>1, <2>2 DEF WriteSerial!Succeed, WriteSerial!Fail
    <2> QED
      BY <2>3 DEF WriteSerial!Next
  <1> QED
    BY <1>1, <1>2, <1>3, <1>4, <1>5, <1>6, <1>7, <1>8, <1>9 DEF Stage

(***************************************************************************)
(* One native read and one native write at a time, each begun once for its *)
(* call, and success only for one that has ended (README.md:110).          *)
(***************************************************************************)
THEOREM TurnsCorrect == Spec => OneAtATime
  <1>1. Init => ReadSerial!Init /\ WriteSerial!Init
    BY Kinds DEF Init, ReadSerial!Init, WriteSerial!Init
  <1> QED
    BY <1>1, Invariance, ReadSerialStep, WriteSerialStep, PTL
    DEF Spec, OneAtATime, ReadSerial!Spec, WriteSerial!Spec
=============================================================================
