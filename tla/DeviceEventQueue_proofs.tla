----------------------- MODULE DeviceEventQueue_proofs -----------------------
(***************************************************************************)
(* Proofs about DeviceEventQueue for any number of senders, closers and    *)
(* events.  The safety properties follow from one inductive invariant:     *)
(* Shutdown says how far the closing handshake (closeOnce, closed, done,   *)
(* out, stopped) has come at every position of run and of the closers, and *)
(* InOrder needs it because Close may set dropped only once.               *)
(***************************************************************************)
EXTENDS DeviceEventQueue, SequenceTheorems, TLAPS

InBody(c) == closePc[c] \in {"lock", "signal", "await"}

RunState ==
  /\ runPc = "offer" => \E e \in Events : held = <<e>>
  /\ runPc # "offer" => held = <<>>
  /\ runPc \in {"closeOut", "closeStopped", "halted"} => done
  /\ outClosed <=> runPc \in {"closeStopped", "halted"}
  /\ stopped <=> runPc = "halted"

CloseState ==
  /\ closed => pending = <<>>
  /\ done => closed
  /\ once = "fresh" => ~closed
  /\ once = "finished" => stopped
  /\ \A c \in Closers :
       /\ closePc[c] = "returned" => once = "finished"
       /\ InBody(c) => once = "running"
       /\ closePc[c] = "lock" => ~closed
       /\ closePc[c] = "signal" => closed
       /\ closePc[c] = "await" => done
  /\ \A c, d \in Closers : InBody(c) /\ InBody(d) => c = d

Shutdown == RunState /\ CloseState

QueueInv == TypeOK /\ Shutdown /\ InOrder /\ NoLostWakeup

-----------------------------------------------------------------------------
(***************************************************************************)
(* What one step of the queue does to the four sequences InOrder adds up.  *)
(***************************************************************************)
LEMMA AppendAtEnd ==
  ASSUME NEW r \in Seq(Events), NEW h \in Seq(Events), NEW p \in Seq(Events),
         NEW e \in Events
  PROVE  Append(r \o h \o p, e) = r \o h \o Append(p, e)
  <1>1. r \o h \in Seq(Events)
    BY ConcatProperties
  <1>2. r \o h \o p \in Seq(Events)
    BY <1>1, ConcatProperties
  <1>3. Append(r \o h \o p, e) = (r \o h \o p) \o <<e>>
    BY <1>2, AppendIsConcat
  <1>4. Append(p, e) = p \o <<e>>
    BY AppendIsConcat
  <1> QED
    BY <1>1, <1>3, <1>4, ConcatAssociative

\* Taking the first event leaves the rest (run).
LEMMA TakeHead ==
  ASSUME NEW r \in Seq(Events), NEW p \in Seq(Events), NEW d \in Seq(Events), p # <<>>
  PROVE  r \o <<>> \o p \o d = r \o <<Head(p)>> \o Tail(p) \o d
  <1>1. /\ Head(p) \in Events /\ Tail(p) \in Seq(Events)
        /\ <<Head(p)>> \in Seq(Events)
    BY HeadTailProperties
  <1>2. p = <<Head(p)>> \o Tail(p)
    BY <1>1, HeadTailProperties
  <1>3. r \o <<>> = r
    BY ConcatEmptySeq
  <1>4. r \o p = r \o <<Head(p)>> \o Tail(p)
    BY <1>1, <1>2, ConcatAssociative
  <1> QED
    BY <1>3, <1>4

\* A new queue has its types.
LEMMA TypeInit == Init => TypeOK
  <1>1. <<>> \in Seq(Events) /\ Len(<<>>) <= 1
    BY EmptySeq
  <1> QED
    BY <1>1 DEF Init, TypeOK

(***************************************************************************)
(* Every step keeps every variable in its type.                            *)
(***************************************************************************)
LEMMA TypeStep == TypeOK /\ RunState /\ [Next]_vars => TypeOK'
  <1> SUFFICES ASSUME TypeOK, RunState, [Next]_vars PROVE TypeOK'
    OBVIOUS
  <1> USE DEF TypeOK
  <1>1. ASSUME NEW s \in Senders, SendAppend(s) PROVE TypeOK'
    BY <1>1 DEF SendAppend, chans, runVars, closeVars
  <1>2. ASSUME NEW s \in Senders, SendReject(s) PROVE TypeOK'
    BY <1>2 DEF SendReject, vars, chans
  <1>3. ASSUME NEW s \in Senders, SendWake(s) PROVE TypeOK'
    BY <1>3 DEF SendWake, chans, runVars, closeVars, history
  <1>4. CASE RunTake
    <2>1. CASE pending = <<>>
      BY <1>4, <2>1 DEF RunTake, chans, closeVars, history
    <2>2. CASE pending # <<>>
      <3>1. Head(pending) \in Events /\ Tail(pending) \in Seq(Events)
        BY <2>2, HeadTailProperties
      <3>2. held' = <<Head(pending)>> /\ pending' = Tail(pending) /\ runPc' = "offer"
        BY <1>4, <2>2 DEF RunTake
      <3>3. <<Head(pending)>> \in Seq(Events)
        BY <3>1
      <3> QED
        BY <1>4, <3>1, <3>2, <3>3 DEF RunTake, chans, closeVars, history
    <2> QED
      BY <2>1, <2>2
  <1>5. CASE RunAwoken
    BY <1>5 DEF RunAwoken, chans, closeVars, history
  <1>6. CASE RunDeliver
    <2>1. received \o held \in Seq(Events)
      BY ConcatProperties
    <2> QED
      BY <1>6, <2>1 DEF RunDeliver, chans, closeVars
  <1>7. CASE RunCancel
    <2>1. held \o dropped \in Seq(Events)
      BY ConcatProperties
    <2> QED
      BY <1>7, <2>1 DEF RunCancel, chans, closeVars
  <1>8. CASE RunCloseOut
    BY <1>8 DEF RunCloseOut, closeVars, history
  <1>9. CASE RunCloseStopped
    BY <1>9 DEF RunCloseStopped, closeVars, history
  <1>10. ASSUME NEW c \in Closers, CloseCall(c) PROVE TypeOK'
    BY <1>10 DEF CloseCall, chans, runVars, history
  <1>11. ASSUME NEW c \in Closers, CloseEnter(c) PROVE TypeOK'
    BY <1>11 DEF CloseEnter, chans, runVars, history
  <1>12. ASSUME NEW c \in Closers, CloseLock(c) PROVE TypeOK'
    BY <1>12 DEF CloseLock, chans, runVars
  <1>13. ASSUME NEW c \in Closers, CloseSignal(c) PROVE TypeOK'
    BY <1>13 DEF CloseSignal, runVars, history
  <1>14. ASSUME NEW c \in Closers, CloseReturn(c) PROVE TypeOK'
    BY <1>14 DEF CloseReturn, chans, runVars, history
  <1>15. CASE UNCHANGED vars
    BY <1>15 DEF vars
  <1> QED
    BY <1>1, <1>2, <1>3, <1>4, <1>5, <1>6, <1>7, <1>8, <1>9, <1>10, <1>11,
       <1>12, <1>13, <1>14, <1>15
    DEF Next, Send, RunInternal, Close, CloseBody

-----------------------------------------------------------------------------
\* A new queue satisfies the invariant.
LEMMA InvInit == Init => QueueInv
  <1> SUFFICES ASSUME Init PROVE QueueInv
    OBVIOUS
  <1>1. TypeOK
    BY TypeInit
  <1>2. Shutdown
    BY DEF Init, Shutdown, RunState, CloseState, InBody
  <1>3. <<>> = <<>> \o <<>> \o <<>> \o <<>>
    OBVIOUS
  <1>4. InOrder /\ NoLostWakeup
    BY <1>3 DEF Init, InOrder, NoLostWakeup
  <1> QED
    BY <1>1, <1>2, <1>4 DEF QueueInv

(***************************************************************************)
(* run and the closers agree on how far the shutdown has come.             *)
(***************************************************************************)
LEMMA ShutdownStep == TypeOK /\ Shutdown /\ [Next]_vars => Shutdown'
  <1> SUFFICES ASSUME TypeOK, Shutdown, [Next]_vars PROVE Shutdown'
    OBVIOUS
  <1> USE DEF Shutdown, RunState, CloseState, InBody
  <1>1. ASSUME NEW s \in Senders, SendAppend(s) PROVE Shutdown'
    BY <1>1 DEF SendAppend, chans, runVars, closeVars
  <1>2. ASSUME NEW s \in Senders, SendReject(s) PROVE Shutdown'
    BY <1>2 DEF SendReject, vars, chans
  <1>3. ASSUME NEW s \in Senders, SendWake(s) PROVE Shutdown'
    BY <1>3 DEF SendWake, chans, runVars, closeVars, history
  <1>4. CASE RunTake
    <2>1. CASE pending = <<>>
      BY <1>4, <2>1 DEF RunTake, chans, closeVars, history
    <2>2. CASE pending # <<>>
      <3>1. Head(pending) \in Events
        BY <2>2, HeadTailProperties DEF TypeOK
      <3>2. ~closed
        BY <2>2
      <3> QED
        BY <1>4, <2>2, <3>1, <3>2 DEF RunTake, chans, closeVars, history
    <2> QED
      BY <2>1, <2>2
  <1>5. CASE RunAwoken
    BY <1>5 DEF RunAwoken, chans, closeVars, history
  <1>6. CASE RunDeliver
    BY <1>6 DEF RunDeliver, chans, closeVars
  <1>7. CASE RunCancel
    BY <1>7 DEF RunCancel, chans, closeVars
  <1>8. CASE RunCloseOut
    BY <1>8 DEF RunCloseOut, closeVars, history
  <1>9. CASE RunCloseStopped
    BY <1>9 DEF RunCloseStopped, closeVars, history
  <1>10. ASSUME NEW c \in Closers, CloseCall(c) PROVE Shutdown'
    BY <1>10 DEF CloseCall, chans, runVars, history, TypeOK
  <1>11. ASSUME NEW c \in Closers, CloseEnter(c) PROVE Shutdown'
    BY <1>11 DEF CloseEnter, chans, runVars, history, TypeOK
  <1>12. ASSUME NEW c \in Closers, CloseLock(c) PROVE Shutdown'
    BY <1>12 DEF CloseLock, chans, runVars, TypeOK
  <1>13. ASSUME NEW c \in Closers, CloseSignal(c) PROVE Shutdown'
    BY <1>13 DEF CloseSignal, runVars, history, TypeOK
  <1>14. ASSUME NEW c \in Closers, CloseReturn(c) PROVE Shutdown'
    BY <1>14 DEF CloseReturn, chans, runVars, history, TypeOK
  <1>15. CASE UNCHANGED vars
    BY <1>15 DEF vars
  <1> QED
    BY <1>1, <1>2, <1>3, <1>4, <1>5, <1>6, <1>7, <1>8, <1>9, <1>10, <1>11,
       <1>12, <1>13, <1>14, <1>15
    DEF Next, Send, RunInternal, Close, CloseBody

(***************************************************************************)
(* Every step keeps the four parts of the history in order.                *)
(***************************************************************************)
LEMMA OrderStep == TypeOK /\ Shutdown /\ InOrder /\ [Next]_vars => InOrder'
  <1> SUFFICES ASSUME TypeOK, Shutdown, InOrder, [Next]_vars PROVE InOrder'
    OBVIOUS
  <1> USE DEF InOrder
  <1>1. ASSUME NEW s \in Senders, SendAppend(s) PROVE InOrder'
    <2>1. PICK e \in Events : /\ pending' = Append(pending, e)
                              /\ accepted' = Append(accepted, e)
      BY <1>1 DEF SendAppend
    <2>2. ~closed /\ dropped = <<>>
      BY <1>1 DEF SendAppend
    <2>3. /\ received \o held \o pending \in Seq(Events)
          /\ received \o held \o Append(pending, e) \in Seq(Events)
      BY ConcatProperties, AppendProperties DEF TypeOK
    <2>4. accepted = received \o held \o pending
      BY <2>2, <2>3, ConcatEmptySeq
    <2>5. accepted' = received \o held \o Append(pending, e)
      <3>1. /\ received \in Seq(Events) /\ held \in Seq(Events)
            /\ pending \in Seq(Events)
        BY DEF TypeOK
      <3>2. Append(received \o held \o pending, e) = received \o held \o Append(pending, e)
        BY <3>1, AppendAtEnd
      <3> QED
        BY <2>1, <2>4, <3>2
    <2>6. accepted' = received \o held \o pending' \o <<>>
      BY <2>1, <2>3, <2>5, ConcatEmptySeq
    <2> QED
      BY <1>1, <2>2, <2>6 DEF SendAppend, runVars
  <1>2. CASE RunTake
    <2>1. CASE pending = <<>>
      BY <1>2, <2>1 DEF RunTake, history
    <2>2. CASE pending # <<>>
      <3>1. held = <<>>
        BY <1>2 DEF RunTake, Shutdown, RunState
      <3>2. accepted = received \o <<Head(pending)>> \o Tail(pending) \o dropped
        BY <2>2, <3>1, TakeHead DEF TypeOK
      <3> QED
        BY <1>2, <2>2, <3>2 DEF RunTake, history
    <2> QED
      BY <2>1, <2>2
  <1>3. CASE RunDeliver
    <2>1. (received \o held) \o <<>> = received \o held
      BY ConcatProperties, ConcatEmptySeq DEF TypeOK
    <2> QED
      BY <1>3, <2>1 DEF RunDeliver
  <1>4. CASE RunCancel
    <2>1. done /\ closed /\ pending = <<>>
      BY <1>4 DEF RunCancel, Shutdown, CloseState
    <2>2. received \o held \o <<>> = received \o held /\ received \o <<>> = received
      BY ConcatProperties, ConcatEmptySeq DEF TypeOK
    <2>3. (received \o held) \o dropped = received \o (held \o dropped)
      BY ConcatAssociative DEF TypeOK
    <2> QED
      BY <1>4, <2>1, <2>2, <2>3 DEF RunCancel
  <1>5. ASSUME NEW c \in Closers, CloseLock(c) PROVE InOrder'
    <2>1. ~closed /\ dropped = <<>>
      BY <1>5 DEF CloseLock, Shutdown, CloseState
    <2>2. /\ received \o held \in Seq(Events)
          /\ received \o held \o pending \in Seq(Events)
      BY ConcatProperties DEF TypeOK
    <2>3. received \o held \o <<>> \o pending = received \o held \o pending
      BY <2>2, ConcatEmptySeq
    <2>4. accepted = received \o held \o <<>> \o pending
      BY <2>1, <2>2, <2>3, ConcatEmptySeq
    <2> QED
      BY <1>5, <2>4 DEF CloseLock, runVars
  <1>6. CASE UNCHANGED <<pending, held, closed, history>>
    BY <1>6 DEF history
  <1> QED
    BY <1>1, <1>2, <1>3, <1>4, <1>5, <1>6
    DEF Next, Send, RunInternal, Close, CloseBody, vars, runVars, history,
        SendReject, SendWake, RunAwoken, RunCloseOut, RunCloseStopped,
        CloseCall, CloseEnter, CloseSignal, CloseReturn

(***************************************************************************)
(* run goes to sleep only on an empty queue, and every append announces    *)
(* itself after that.                                                      *)
(***************************************************************************)
LEMMA WakeupStep == TypeOK /\ Shutdown /\ NoLostWakeup /\ [Next]_vars => NoLostWakeup'
  <1> SUFFICES ASSUME TypeOK, Shutdown, NoLostWakeup, [Next]_vars PROVE NoLostWakeup'
    OBVIOUS
  <1> USE DEF NoLostWakeup
  <1>1. ASSUME NEW s \in Senders, SendAppend(s) PROVE NoLostWakeup'
    <2>1. sendPc'[s] = "wake"
      BY <1>1 DEF SendAppend, TypeOK
    <2> QED
      BY <2>1
  <1>2. ASSUME NEW s \in Senders, SendWake(s) PROVE NoLostWakeup'
    BY <1>2 DEF SendWake
  <1>3. CASE RunTake
    <2>1. runPc' = "wait" => pending' = <<>>
      BY <1>3 DEF RunTake
    <2> QED
      BY <2>1
  <1>4. ASSUME runPc' # "wait" PROVE NoLostWakeup'
    BY <1>4
  <1>5. ASSUME NEW c \in Closers, CloseLock(c) PROVE NoLostWakeup'
    BY <1>5 DEF CloseLock
  <1>6. CASE UNCHANGED <<runPc, pending, wake, sendPc>>
    BY <1>6
  <1> QED
    BY <1>1, <1>2, <1>3, <1>4, <1>5, <1>6
    DEF Next, Send, RunInternal, Close, CloseBody, vars, runVars, chans,
        SendReject, RunAwoken, RunDeliver, RunCancel, RunCloseOut,
        RunCloseStopped, CloseCall, CloseEnter, CloseSignal, CloseReturn

(***************************************************************************)
(* QueueInv is inductive, so it holds in every reachable state.            *)
(***************************************************************************)
THEOREM QueueInvariant == Spec => []QueueInv
  <1>1. QueueInv /\ [Next]_vars => QueueInv'
    BY TypeStep, ShutdownStep, OrderStep, WakeupStep DEF QueueInv, Shutdown
  <1> QED
    BY InvInit, <1>1, PTL DEF Spec

(***************************************************************************)
(* Every variable stays in its type, whatever the interleaving of senders, *)
(* forwarder and closers.                                                  *)
(***************************************************************************)
THEOREM TypeCorrect == Spec => []TypeOK
  <1>1. QueueInv => TypeOK
    BY DEF QueueInv
  <1> QED
    BY QueueInvariant, <1>1, PTL

(***************************************************************************)
(* Events come out in the order in which Send accepted them, without loss  *)
(* before Close begins and without duplicates.                             *)
(***************************************************************************)
THEOREM OrderCorrect == Spec => []InOrder
  <1>1. QueueInv => InOrder
    BY DEF QueueInv
  <1> QED
    BY QueueInvariant, <1>1, PTL

(***************************************************************************)
(* run never waits for a wake-up that will not come.                       *)
(***************************************************************************)
THEOREM WakeupCorrect == Spec => []NoLostWakeup
  <1>1. QueueInv => NoLostWakeup
    BY DEF QueueInv
  <1> QED
    BY QueueInvariant, <1>1, PTL

(***************************************************************************)
(* Any Close that has returned, first or not, leaves a finished queue.     *)
(***************************************************************************)
THEOREM CloseCorrect == Spec => []CloseIsFinal
  <1>1. QueueInv => CloseIsFinal
    BY DEF QueueInv, Shutdown, RunState, CloseState, CloseIsFinal
  <1> QED
    BY QueueInvariant, <1>1, PTL

-----------------------------------------------------------------------------
(***************************************************************************)
(* The event run holds is the oldest one the consumer has not received.    *)
(***************************************************************************)
LEMMA NextInLine ==
  ASSUME NEW r \in Seq(Events), NEW e \in Events,
         NEW p \in Seq(Events), NEW d \in Seq(Events),
         NEW a, a = r \o <<e>> \o p \o d
  PROVE  /\ Len(r) < Len(a)
         /\ a[Len(r) + 1] = e
         /\ r \o <<e>> = Append(r, e)
  <1>1. <<e>> \in Seq(Events) /\ Len(<<e>>) = 1 /\ <<e>>[1] = e
    OBVIOUS
  <1>2. r \o <<e>> = Append(r, e)
    BY AppendIsConcat
  <1>3. /\ r \o <<e>> \in Seq(Events)
        /\ Len(r \o <<e>>) = Len(r) + 1
        /\ (r \o <<e>>)[Len(r) + 1] = e
    BY <1>2, AppendProperties, LenProperties
  <1>4. /\ r \o <<e>> \o p \in Seq(Events)
        /\ Len(r \o <<e>> \o p) >= Len(r) + 1
        /\ (r \o <<e>> \o p)[Len(r) + 1] = e
    BY <1>3, ConcatProperties, LenProperties
  <1>5. Len(a) >= Len(r) + 1 /\ a[Len(r) + 1] = e
    BY <1>4, ConcatProperties, LenProperties
  <1> QED
    BY <1>2, <1>5, LenProperties

(***************************************************************************)
(* Every step of the queue is a step of the stream or leaves it alone.     *)
(***************************************************************************)
LEMMA StreamStep == QueueInv /\ [Next]_vars => [Stream!Next]_(Stream!vars)
  <1> SUFFICES ASSUME QueueInv, [Next]_vars PROVE [Stream!Next]_(Stream!vars)
    OBVIOUS
  <1> USE DEF streamStatus
  <1>t. TypeOK /\ RunState /\ CloseState /\ InOrder
    BY DEF QueueInv, Shutdown
  <1>1. ASSUME NEW s \in Senders, SendAppend(s) PROVE Stream!Accept
    <2>1. ~closed /\ ~outClosed
      BY <1>1, <1>t DEF SendAppend, RunState, CloseState
    <2> QED
      BY <1>1, <2>1 DEF SendAppend, Stream!Accept, chans, runVars
  <1>2. CASE RunTake
    <2>1. closed => runPc' = "wait"
      BY <1>2, <1>t DEF RunTake, CloseState
    <2> QED
      BY <1>2, <2>1 DEF RunTake, chans, history, Stream!vars
  <1>3. CASE RunDeliver
    <2>1. PICK e \in Events : held = <<e>>
      BY <1>3, <1>t DEF RunDeliver, RunState
    <2>2. /\ received \in Seq(Events) /\ pending \in Seq(Events) /\ dropped \in Seq(Events)
          /\ accepted = received \o <<e>> \o pending \o dropped
      BY <2>1, <1>t DEF TypeOK, InOrder
    <2>3. /\ Len(received) < Len(accepted)
          /\ accepted[Len(received) + 1] = e
          /\ received \o <<e>> = Append(received, e)
      BY <2>2, NextInLine
    <2>4. ~outClosed /\ runPc = "offer" /\ runPc' = "check"
      BY <1>3, <1>t DEF RunDeliver, RunState
    <2>5. received' = Append(received, accepted[Len(received) + 1])
      BY <1>3, <2>1, <2>3 DEF RunDeliver
    <2>6. UNCHANGED <<closed, outClosed, accepted>>
      BY <1>3 DEF RunDeliver, chans
    <2> QED
      BY <2>3, <2>4, <2>5, <2>6 DEF Stream!Next, Stream!Deliver
  <1>4. CASE RunCancel
    <2>1. closed /\ ~outClosed
      BY <1>4, <1>t DEF RunCancel, RunState, CloseState
    <2> QED
      BY <1>4, <2>1 DEF RunCancel, chans, Stream!Next, Stream!Abandon, Stream!vars
  <1>5. CASE RunCloseOut
    <2>1. closed /\ ~outClosed
      BY <1>5, <1>t DEF RunCloseOut, RunState, CloseState
    <2> QED
      BY <1>5, <2>1 DEF RunCloseOut, history, Stream!Next, Stream!End
  <1>6. ASSUME NEW c \in Closers, CloseLock(c) PROVE Stream!Close
    <2>1. ~closed /\ ~outClosed
      BY <1>6, <1>t DEF CloseLock, RunState, CloseState
    <2> QED
      BY <1>6, <2>1 DEF CloseLock, Stream!Close, chans, runVars
  <1>7. CASE RunAwoken
    BY <1>7 DEF RunAwoken, chans, history, Stream!vars
  <1>8. CASE RunCloseStopped
    BY <1>8, <1>t DEF RunCloseStopped, RunState, history, Stream!vars
  <1>9. CASE UNCHANGED <<runPc, closed, outClosed, accepted, received>>
    BY <1>9 DEF Stream!vars
  <1> QED
    BY <1>1, <1>2, <1>3, <1>4, <1>5, <1>6, <1>7, <1>8, <1>9
    DEF Next, Send, RunInternal, Close, CloseBody, Stream!Next, vars, runVars,
        chans, history, SendReject, SendWake, CloseCall, CloseEnter,
        CloseSignal, CloseReturn

(***************************************************************************)
(* The queue implements the stream it promises.                            *)
(***************************************************************************)
THEOREM QueueImplementsStream == Spec => ImplementsStream
  <1>1. Init => Stream!Init
    BY DEF Init, Stream!Init, streamStatus
  <1> QED
    BY <1>1, QueueInvariant, StreamStep, PTL DEF Spec, ImplementsStream, Stream!Spec
=============================================================================
