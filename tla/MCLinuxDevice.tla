---------------------------- MODULE MCLinuxDevice ----------------------------
(***************************************************************************)
(* Instance of LinuxDevice for TLC.  Two calls of a kind are enough for    *)
(* one that waits for another; MaxCalls lets two reads, two writes or a    *)
(* mixture with a feature report meet.                                     *)
(***************************************************************************)
EXTENDS LinuxDevice
=============================================================================
