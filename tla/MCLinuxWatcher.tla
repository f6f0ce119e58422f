--------------------------- MODULE MCLinuxWatcher ---------------------------
(***************************************************************************)
(* Instances of LinuxWatcher for TLC.  Two devices on one name are enough  *)
(* for a removal and a new arrival under the same path, two names for a    *)
(* scan that is overtaken, two closers for a Once that is taken.           *)
(***************************************************************************)
EXTENDS LinuxWatcher
=============================================================================
