------------------------- MODULE MCStartupReconcile -------------------------
(***************************************************************************)
(* Every enumeration of up to two devices and every sequence of up to      *)
(* three changes: enough for a device that is removed and comes back while *)
(* another one is listed.                                                  *)
(***************************************************************************)
EXTENDS StartupReconcile
=============================================================================
