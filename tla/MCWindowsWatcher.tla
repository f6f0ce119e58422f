-------------------------- MODULE MCWindowsWatcher --------------------------
(***************************************************************************)
(* Instances of WindowsWatcher for TLC: two device interfaces whose        *)
(* callbacks overtake the enumeration and each other, two arrivals.        *)
(***************************************************************************)
EXTENDS WindowsWatcher
=============================================================================
