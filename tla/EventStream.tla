---------------------------- MODULE EventStream ----------------------------
(***************************************************************************)
(* What a Watcher's event queue promises to the two sides that use it,     *)
(* without saying how: native callbacks offer events and are never made to *)
(* wait, one consumer receives them from Listen() in the order in which    *)
(* they were accepted, and Close() ends the stream whether or not a        *)
(* consumer is there.  DeviceEventQueue implements this specification.     *)
(***************************************************************************)
EXTENDS Naturals, Sequences

CONSTANTS Events,     \* what a callback can publish
          MaxSends    \* bound: how many events are ever accepted

VARIABLES accepted,   \* the events Send reported true for, in order
          received,   \* the events the consumer received, in order
          status      \* "open": accepts and delivers.
                      \* "closing": Close has begun, one event is on offer.
                      \* "drained": Close has begun, nothing is on offer.
                      \* "ended": the Listen() channel is closed.

vars == <<accepted, received, status>>

Init == accepted = <<>> /\ received = <<>> /\ status = "open"

Accept == /\ status = "open"
          /\ Len(accepted) < MaxSends
          /\ \E e \in Events : accepted' = Append(accepted, e)
          /\ UNCHANGED <<received, status>>

(***************************************************************************)
(* The consumer gets the oldest event it has not got.  The last event on   *)
(* offer when Close begins may still be received, no other one.            *)
(***************************************************************************)
Deliver == /\ status \in {"open", "closing"}
           /\ Len(received) < Len(accepted)
           /\ received' = Append(received, accepted[Len(received) + 1])
           /\ status' = IF status = "closing" THEN "drained" ELSE "open"
           /\ UNCHANGED accepted

Close == /\ status = "open"
         /\ status' \in {"closing", "drained"}
         /\ UNCHANGED <<accepted, received>>

\* The event on offer is given up: nobody waits for an absent consumer.
Abandon == /\ status = "closing"
           /\ status' = "drained"
           /\ UNCHANGED <<accepted, received>>

End == /\ status = "drained"
       /\ status' = "ended"
       /\ UNCHANGED <<accepted, received>>

Next == Accept \/ Deliver \/ Close \/ Abandon \/ End

Spec == Init /\ [][Next]_vars
=============================================================================
