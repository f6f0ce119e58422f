--------------------------- MODULE MCWindowsDevice ---------------------------
(***************************************************************************)
(* Instance of WindowsDevice for TLC.  Two calls are enough for one that   *)
(* waits for another; two closers for a Once that is taken; one report     *)
(* more than the reads that are cancelled, so that a report can be lost    *)
(* and the next one still be read.                                         *)
(***************************************************************************)
EXTENDS WindowsDevice
=============================================================================
