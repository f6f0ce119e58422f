--------------------------- MODULE MCDarwinDevice ---------------------------
(***************************************************************************)
(* Instance of DarwinDevice for TLC: any two calls of Read or Write, so    *)
(* that one can wait for another, two of Close, and one report more than   *)
(* the channel holds.                                                      *)
(***************************************************************************)
EXTENDS DarwinDevice
=============================================================================
