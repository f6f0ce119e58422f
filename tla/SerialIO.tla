------------------------------ MODULE SerialIO ------------------------------
(***************************************************************************)
(* What Read and Write promise on every platform, for the calls of one     *)
(* kind on one device: the native operation is begun at most once for a    *)
(* call (a report is never submitted again), those of different calls do   *)
(* not overlap even when a caller has given up and gone (README.md:110),   *)
(* and success is reported only for a native operation that has ended.  A  *)
(* call that failed may have been carried out, or may be so later          *)
(* (README.md:71).                                                         *)
(***************************************************************************)
CONSTANT Calls      \* the calls of one kind that are ever made

VARIABLES asked,    \* the calls made so far
          begun,    \* the calls whose native operation was begun
          active,   \* the calls whose native operation is in progress
          answer    \* what each call returned: "none" yet, "ok" or "error"

vars == <<asked, begun, active, answer>>

Init == asked = {} /\ begun = {} /\ active = {} /\ answer = [c \in Calls |-> "none"]

Ask(c) == /\ c \notin asked
          /\ asked' = asked \union {c}
          /\ UNCHANGED <<begun, active, answer>>

Begin(c) == /\ c \in asked \ begun
            /\ active = {}
            /\ active' = {c} /\ begun' = begun \union {c}
            /\ UNCHANGED <<asked, answer>>

End(c) == /\ c \in active
          /\ active' = active \ {c}
          /\ UNCHANGED <<asked, begun, answer>>

Succeed(c) == /\ answer[c] = "none" /\ c \in begun \ active
              /\ answer' = [answer EXCEPT ![c] = "ok"]
              /\ UNCHANGED <<asked, begun, active>>

Fail(c) == /\ answer[c] = "none" /\ c \in asked
           /\ answer' = [answer EXCEPT ![c] = "error"]
           /\ UNCHANGED <<asked, begun, active>>

Next == \E c \in Calls : Ask(c) \/ Begin(c) \/ End(c) \/ Succeed(c) \/ Fail(c)

Spec == Init /\ [][Next]_vars
=============================================================================
