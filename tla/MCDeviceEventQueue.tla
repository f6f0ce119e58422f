------------------------- MODULE MCDeviceEventQueue -------------------------
(***************************************************************************)
(* Instances of DeviceEventQueue for TLC: two senders so that appends and  *)
(* wake-ups interleave, two closers so that one finds the Once taken, and  *)
(* more events than the wake channel holds tokens.  The configurations     *)
(* differ in the fairness they assume and in the values they give.         *)
(***************************************************************************)
EXTENDS DeviceEventQueue
=============================================================================
