-------------------------- MODULE DeviceEventQueue --------------------------
(***************************************************************************)
(* deviceEventQueue (event.go): the unbounded queue between the native     *)
(* device callbacks of a Watcher and the consumer of Listen().             *)
(*                                                                         *)
(* Three kinds of goroutine meet here: senders (callbacks), closers        *)
(* (Close() may be called by anyone, any number of times) and the one      *)
(* forwarding goroutine, run().  A critical section of q.mu is one action; *)
(* everything outside the mutex, the wake-up after an append, the close of *)
(* done after the flag is set, the wait for stopped, is a step of its own. *)
(***************************************************************************)
EXTENDS Naturals, Sequences

CONSTANTS Senders,    \* goroutines and threads that call Send
          Closers,    \* goroutines that call Close
          Events,     \* what they send
          MaxSends    \* bound: how many events are ever accepted

ASSUME QueueAssumption == MaxSends \in Nat

VARIABLES pending,    \* q.pending
          closed,     \* q.closed
          wake,       \* a token is in the q.wake channel, whose capacity is 1
          done,       \* q.done is closed
          outClosed,  \* q.out is closed
          stopped,    \* q.stopped is closed
          once,       \* q.closeOnce: "fresh", "running" or "finished"
          runPc,      \* where run() is
          held,       \* run()'s local event: <<>> or <<event>>
          sendPc,     \* sendPc[s]: where sender s is
          closePc,    \* closePc[c]: where closer c is
          accepted,   \* history: events Send returned true for
          received,   \* history: events the consumer received
          dropped     \* history: accepted events that Close discarded

vars == <<pending, closed, wake, done, outClosed, stopped, once, runPc, held,
          sendPc, closePc, accepted, received, dropped>>

chans == <<done, outClosed, stopped>>
runVars == <<runPc, held>>
closeVars == <<once, closePc>>
history == <<accepted, received, dropped>>

TypeOK ==
  /\ pending \in Seq(Events) /\ held \in Seq(Events) /\ Len(held) <= 1
  /\ accepted \in Seq(Events) /\ received \in Seq(Events) /\ dropped \in Seq(Events)
  /\ closed \in BOOLEAN /\ wake \in BOOLEAN /\ done \in BOOLEAN
  /\ outClosed \in BOOLEAN /\ stopped \in BOOLEAN
  /\ once \in {"fresh", "running", "finished"}
  /\ runPc \in {"check", "wait", "offer", "closeOut", "closeStopped", "halted"}
  /\ sendPc \in [Senders -> {"idle", "wake"}]
  /\ closePc \in [Closers -> {"idle", "called", "lock", "signal", "await", "returned"}]

Init ==
  /\ pending = <<>> /\ held = <<>>
  /\ accepted = <<>> /\ received = <<>> /\ dropped = <<>>
  /\ closed = FALSE /\ wake = FALSE /\ done = FALSE
  /\ outClosed = FALSE /\ stopped = FALSE
  /\ once = "fresh"
  /\ runPc = "check"
  /\ sendPc = [s \in Senders |-> "idle"]
  /\ closePc = [c \in Closers |-> "idle"]

-----------------------------------------------------------------------------
(* Send                                                                    *)

SendAppendUnguarded(s) ==   \* mutant: the closed flag is not looked at
  /\ sendPc[s] = "idle"
  /\ Len(accepted) < MaxSends
  /\ \E e \in Events : /\ pending' = Append(pending, e)
                       /\ accepted' = Append(accepted, e)
  /\ sendPc' = [sendPc EXCEPT ![s] = "wake"]
  /\ UNCHANGED <<closed, wake, chans, runVars, closeVars, received, dropped>>

SendPrepend(s) ==           \* mutant: the newest event is put in front
  /\ sendPc[s] = "idle" /\ ~closed
  /\ Len(accepted) < MaxSends
  /\ \E e \in Events : /\ pending' = <<e>> \o pending
                       /\ accepted' = Append(accepted, e)
  /\ sendPc' = [sendPc EXCEPT ![s] = "wake"]
  /\ UNCHANGED <<closed, wake, chans, runVars, closeVars, received, dropped>>

\* The critical section of Send on an open queue.
SendAppend(s) ==
  /\ sendPc[s] = "idle" /\ ~closed
  /\ Len(accepted) < MaxSends
  /\ \E e \in Events : /\ pending' = Append(pending, e)
                       /\ accepted' = Append(accepted, e)
  /\ sendPc' = [sendPc EXCEPT ![s] = "wake"]
  /\ UNCHANGED <<closed, wake, chans, runVars, closeVars, received, dropped>>

\* Once closing has begun Send returns false and changes nothing.
SendReject(s) == sendPc[s] = "idle" /\ closed /\ UNCHANGED vars

SendWakeForgotten(s) ==     \* mutant: the token is not sent
  /\ sendPc[s] = "wake"
  /\ sendPc' = [sendPc EXCEPT ![s] = "idle"]
  /\ UNCHANGED <<pending, closed, wake, chans, runVars, closeVars, history>>

\* The non-blocking send to wake: a token already there is enough.
SendWake(s) ==
  /\ sendPc[s] = "wake"
  /\ wake' = TRUE
  /\ sendPc' = [sendPc EXCEPT ![s] = "idle"]
  /\ UNCHANGED <<pending, closed, chans, runVars, closeVars, history>>

-----------------------------------------------------------------------------
(* run                                                                     *)

RunTakeAll ==               \* mutant: everything pending is taken at once
  /\ runPc = "check"
  /\ IF pending = <<>>
     THEN runPc' = "wait" /\ UNCHANGED <<pending, held>>
     ELSE held' = pending /\ pending' = <<>> /\ runPc' = "offer"
  /\ UNCHANGED <<closed, wake, chans, sendPc, closeVars, history>>

\* The critical section of run: the head of pending, or nothing to do.
RunTake ==
  /\ runPc = "check"
  /\ IF pending = <<>>
     THEN runPc' = "wait" /\ UNCHANGED <<pending, held>>
     ELSE /\ held' = <<Head(pending)>>
          /\ pending' = Tail(pending)
          /\ runPc' = "offer"
  /\ UNCHANGED <<closed, wake, chans, sendPc, closeVars, history>>

RunAwoken ==
  /\ runPc = "wait" /\ wake
  /\ wake' = FALSE
  /\ runPc' = "check"
  /\ UNCHANGED <<pending, closed, chans, held, sendPc, closeVars, history>>

\* A rendezvous with the consumer on the unbuffered channel out.  If done is
\* closed as well the select may still choose this branch.
RunDeliver ==
  /\ runPc = "offer"
  /\ received' = received \o held
  /\ held' = <<>>
  /\ runPc' = "check"
  /\ UNCHANGED <<pending, closed, wake, chans, sendPc, closeVars, accepted, dropped>>

RunCancelIdleOnly ==        \* mutant: the offer does not listen to done
  /\ runPc = "wait" /\ done
  /\ runPc' = "closeOut"
  /\ held' = <<>>
  /\ dropped' = held \o dropped
  /\ UNCHANGED <<pending, closed, wake, chans, sendPc, closeVars, accepted, received>>

\* done is closed: run returns from either select; a held event is given up.
RunCancel ==
  /\ runPc \in {"wait", "offer"} /\ done
  /\ runPc' = "closeOut"
  /\ held' = <<>>
  /\ dropped' = held \o dropped
  /\ UNCHANGED <<pending, closed, wake, chans, sendPc, closeVars, accepted, received>>

\* The deferred calls run in reverse: out first, then stopped.
RunCloseOut ==
  /\ runPc = "closeOut"
  /\ outClosed' = TRUE
  /\ runPc' = "closeStopped"
  /\ UNCHANGED <<pending, closed, wake, done, stopped, held, sendPc, closeVars, history>>

RunCloseStopped ==
  /\ runPc = "closeStopped"
  /\ stopped' = TRUE
  /\ runPc' = "halted"
  /\ UNCHANGED <<pending, closed, wake, done, outClosed, held, sendPc, closeVars, history>>

-----------------------------------------------------------------------------
(* Close                                                                   *)

CloseCall(c) ==
  /\ closePc[c] = "idle"
  /\ closePc' = [closePc EXCEPT ![c] = "called"]
  /\ UNCHANGED <<pending, closed, wake, chans, runVars, once, sendPc, history>>

CloseEnterNoWait(c) ==      \* mutant: a second closer does not wait for the first
  /\ closePc[c] = "called"
  /\ once' = IF once = "fresh" THEN "running" ELSE once
  /\ closePc' = [closePc EXCEPT ![c] = IF once = "fresh" THEN "lock" ELSE "returned"]
  /\ UNCHANGED <<pending, closed, wake, chans, runVars, sendPc, history>>

\* closeOnce.Do: the first caller runs the body, and a caller that comes
\* while the body runs is blocked until it has finished.
CloseEnter(c) ==
  /\ closePc[c] = "called"
  /\ \/ once = "fresh" /\ once' = "running" /\ closePc' = [closePc EXCEPT ![c] = "lock"]
     \/ once = "finished" /\ closePc' = [closePc EXCEPT ![c] = "returned"] /\ UNCHANGED once
  /\ UNCHANGED <<pending, closed, wake, chans, runVars, sendPc, history>>

CloseLockKeepPending(c) ==  \* mutant: pending is not cleared
  /\ closePc[c] = "lock"
  /\ closed' = TRUE
  /\ closePc' = [closePc EXCEPT ![c] = "signal"]
  /\ UNCHANGED <<pending, dropped, wake, chans, runVars, once, sendPc, accepted, received>>

\* The critical section of Close.
CloseLock(c) ==
  /\ closePc[c] = "lock"
  /\ closed' = TRUE
  /\ pending' = <<>>
  /\ dropped' = pending
  /\ closePc' = [closePc EXCEPT ![c] = "signal"]
  /\ UNCHANGED <<wake, chans, runVars, once, sendPc, accepted, received>>

CloseSignal(c) ==
  /\ closePc[c] = "signal"
  /\ done' = TRUE
  /\ closePc' = [closePc EXCEPT ![c] = "await"]
  /\ UNCHANGED <<pending, closed, wake, outClosed, stopped, runVars, once, sendPc, history>>

CloseReturn(c) ==
  /\ closePc[c] = "await" /\ stopped
  /\ once' = "finished"
  /\ closePc' = [closePc EXCEPT ![c] = "returned"]
  /\ UNCHANGED <<pending, closed, wake, chans, runVars, sendPc, history>>

-----------------------------------------------------------------------------
Send(s) == SendAppend(s) \/ SendReject(s) \/ SendWake(s)

\* The steps of run that need nobody else.
RunInternal == RunTake \/ RunAwoken \/ RunCancel \/ RunCloseOut \/ RunCloseStopped

CloseBody(c) == CloseEnter(c) \/ CloseLock(c) \/ CloseSignal(c) \/ CloseReturn(c)

Close(c) == CloseCall(c) \/ CloseBody(c)

Next == \/ \E s \in Senders : Send(s)
        \/ RunInternal
        \/ RunDeliver
        \/ \E c \in Closers : Close(c)

Spec == Init /\ [][Next]_vars

(***************************************************************************)
(* Every goroutine that can take a step takes one: the Go scheduler runs   *)
(* each runnable goroutine eventually.  Nothing obliges anyone to call     *)
(* Send or Close, and nothing obliges a consumer to receive.               *)
(***************************************************************************)
Fairness ==
  /\ WF_vars(RunInternal)
  /\ \A s \in Senders : WF_vars(SendWake(s))
  /\ \A c \in Closers : WF_vars(CloseBody(c))

FairSpec == Spec /\ Fairness

-----------------------------------------------------------------------------
(* Properties                                                              *)

(***************************************************************************)
(* Events come out in the order in which Send accepted them, none twice    *)
(* and none skipped: what was accepted is what was received, then the      *)
(* event run holds, then what is pending, then what Close discarded.  An   *)
(* event is discarded only after Close has begun (Send, run, Close).       *)
(***************************************************************************)
InOrder ==
  /\ accepted = received \o held \o pending \o dropped
  /\ ~closed => dropped = <<>>

(***************************************************************************)
(* run never sleeps on work it will not be told of: if it waits and an     *)
(* event is pending, a wake token is there or its sender is about to send  *)
(* one.  The token has capacity 1 and is sent outside the mutex, so this   *)
(* rests on the order append-then-wake against check-then-wait.            *)
(***************************************************************************)
NoLostWakeup ==
  runPc = "wait" /\ pending # <<>> => wake \/ \E s \in Senders : sendPc[s] = "wake"

(***************************************************************************)
(* When any call of Close has returned, also one that found the Once taken *)
(* by another goroutine, the channel is closed, the forwarder is gone and  *)
(* no event is left in the queue.                                          *)
(***************************************************************************)
CloseIsFinal ==
  (\E c \in Closers : closePc[c] = "returned") =>
     /\ closed /\ outClosed /\ stopped
     /\ runPc = "halted"
     /\ pending = <<>> /\ held = <<>>

(***************************************************************************)
(* Close returns even if nobody receives from Listen(): it waits for out   *)
(* to be closed and never for out to drain (comment at event.go:87-88).    *)
(***************************************************************************)
CloseReturns == \A c \in Closers : (closePc[c] = "called") ~> (closePc[c] = "returned")

(***************************************************************************)
(* A consumer that keeps receiving (it ranges over Listen()) gets every    *)
(* accepted event unless Close begins first: a burst of Sends behind one   *)
(* wake token is drained to the last event.                                *)
(***************************************************************************)
AcceptedIsDelivered ==
  WF_vars(RunDeliver) =>
    \A n \in 1..MaxSends : (Len(accepted) >= n) ~> (Len(received) >= n \/ closed)

\* The state of the stream a queue stands for.
streamStatus == IF outClosed THEN "ended"
                ELSE IF ~closed THEN "open"
                ELSE IF runPc = "offer" THEN "closing" ELSE "drained"

Stream == INSTANCE EventStream WITH status <- streamStatus

(***************************************************************************)
(* The queue implements EventStream: order, at most one event after Close  *)
(* has begun, and no event after the channel is closed.                    *)
(***************************************************************************)
ImplementsStream == Stream!Spec
=============================================================================
