------------------------------- MODULE Watcher -------------------------------
(***************************************************************************)
(* What the Watcher interface (event.go) promises its client on every      *)
(* platform: Watch captures a snapshot, and what is published afterwards   *)
(* are changes to it.  The client folds them into a view of its own: a     *)
(* device is announced when the view does not hold it (Windows, where a    *)
(* queued arrival may repeat the snapshot, is the exception), and          *)
(* a removal carries what was announced about the device.                  *)
(***************************************************************************)
CONSTANTS Devices,   \* device paths
          Infos,     \* what can be known of a device
          PathOnly,  \* the information that is nothing but the path
          Absent,    \* the view of a device which is not there
          MayRepeat  \* a device in the view may be announced again

VARIABLES phase,     \* "starting", "live" (snapshot captured) or "ended"
          view,      \* the snapshot with the published changes applied
          last       \* the change published last, <<>> before the first one

vars == <<phase, view, last>>

Init == /\ phase = "starting"
        /\ view = [d \in Devices |-> Absent]
        /\ last = <<>>

CaptureSnapshot == /\ phase = "starting"
                   /\ phase' = "live"
                   /\ view' \in [Devices -> Infos \union {Absent}]
                   /\ UNCHANGED last

Connected(d) ==
  /\ phase = "live" /\ (view[d] = Absent \/ MayRepeat)
  /\ \E i \in Infos : /\ view' = [view EXCEPT ![d] = i]
                      /\ last' = <<"connected", d, i>>
  /\ UNCHANGED phase

\* The removal of a device nobody has announced is published as well: the
\* change may have been under way when the snapshot was captured.
Disconnected(d) ==
  /\ phase = "live"
  /\ last' = <<"disconnected", d, IF view[d] = Absent THEN PathOnly ELSE view[d]>>
  /\ view' = [view EXCEPT ![d] = Absent]
  /\ UNCHANGED phase

\* Close, or a failure of the event source.
End == phase # "ended" /\ phase' = "ended" /\ UNCHANGED <<view, last>>

Next == CaptureSnapshot \/ End \/ \E d \in Devices : Connected(d) \/ Disconnected(d)

Spec == Init /\ [][Next]_vars
=============================================================================
