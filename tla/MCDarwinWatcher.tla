--------------------------- MODULE MCDarwinWatcher ---------------------------
(***************************************************************************)
(* Instances of DarwinWatcher for TLC.  Two devices on one reference are   *)
(* enough for a reference that is reused, two references for a snapshot    *)
(* that is overtaken, two closers for a Once that is taken.                *)
(***************************************************************************)
EXTENDS DarwinWatcher
=============================================================================
