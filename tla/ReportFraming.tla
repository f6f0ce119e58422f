---------------------------- MODULE ReportFraming ----------------------------
(***************************************************************************)
(* How reports are laid out in the buffers of the three platforms.  The    *)
(* client's buffers begin with the report ID, 0 for a device without them  *)
(* (README.md:54).  What hidraw, the Windows HID class driver and IOKit do *)
(* with a buffer is external.  A message is what crosses the bus: an ID    *)
(* and a payload.                                                          *)
(***************************************************************************)
EXTENDS Naturals, Sequences, SequencesExt

Padded(s, n) == [i \in 1..n |-> IF i <= Len(s) THEN s[i] ELSE 0]
Zeros(n) == [i \in 1..n |-> 0]

\* copy(dst, src): what dst holds then.
Copied(dst, src) == [i \in DOMAIN dst |-> IF i <= Len(src) THEN src[i] ELSE dst[i]]

PrepareKeepsZero(report) ==      \* mutant: the zero is left in front of the payload
  IF report = <<>> THEN [id |-> 0, data |-> report]
  ELSE [id |-> Head(report), data |-> report]

\* prepareIOHIDReport: IOKit gets the ID apart; it stays in front unless it is zero.
PrepareIOHIDReport(report) ==
  IF report = <<>> THEN [id |-> 0, data |-> report]
  ELSE [id |-> Head(report), data |-> IF Head(report) = 0 THEN Tail(report) ELSE report]

\* prepareOutputReport: cut or padded to the length of the device's reports.
PrepareOutputReport(p, length) ==
  LET prepared == PrepareIOHIDReport(p)
  IN [id |-> prepared.id, data |-> Padded(prepared.data, length)]

\* Windows Write: the buffer has the length of output reports, ID included.
WindowsOutput(p, length) == Padded(p, length)

-----------------------------------------------------------------------------
(* The drivers: what is on the bus for a buffer that is handed to them     *)

Message(buffer) == [id |-> Head(buffer), payload |-> Tail(buffer)]

\* SetReport of IOKit: a numbered report has its ID in the data as well.
MessageIOKit(prepared) ==
  [id |-> prepared.id,
   payload |-> IF prepared.id = 0 THEN prepared.data ELSE Tail(prepared.data)]

Trim(payload) ==                 \* the zeros at the end do not count
  LET n == CHOOSE n \in 0..Len(payload) :
             /\ \A i \in (n + 1)..Len(payload) : payload[i] = 0
             /\ n > 0 => payload[n] # 0
  IN SubSeq(payload, 1, n)

Same(m1, m2) == m1.id = m2.id /\ Trim(m1.payload) = Trim(m2.payload)

-----------------------------------------------------------------------------
(* Input reports                                                           *)

\* hidraw and IOKit put the ID in front for devices that number their reports.
RawInput(m) == IF m.id = 0 THEN m.payload ELSE <<m.id>> \o m.payload

\* ReadFile always has it in front, in a buffer of the length of input reports.
WindowsInput(m, length) == Padded(<<m.id>> \o m.payload, length)

WindowsReadTrims(buffer) == Tail(buffer)      \* mutant: every ID is removed

\* Windows read: a leading zero is taken for the ID of an unnumbered report.
WindowsRead(buffer) == IF buffer[1] = 0 THEN Tail(buffer) ELSE buffer

-----------------------------------------------------------------------------
(* Feature reports                                                         *)

\* What the client has after GetFeatureReport: length and buffer, for a device
\* whose report with the ID report[1] is stored.  Only what fits is copied.
LinuxGetFeature(report, stored) ==
  LET got == SubSeq(<<Head(report)>> \o stored, 1,
                    IF Len(stored) < Len(report) THEN Len(stored) + 1 ELSE Len(report))
  IN [n |-> Len(got), buffer |-> Copied(report, got)]

\* HidD_GetFeature fills a buffer of the length of feature reports.
WindowsGetFeature(report, stored, length) ==
  LET buffer == Padded(<<Head(report)>> \o stored, length)
  IN [n |-> IF Len(buffer) < Len(report) THEN Len(buffer) ELSE Len(report),
      buffer |-> Copied(report, buffer)]

\* IOKit fills data, part of the client's buffer, and says how much.
IOKitFills(id, data, stored) ==
  LET whole == IF id = 0 THEN stored ELSE <<id>> \o stored
      n == IF Len(whole) < Len(data) THEN Len(whole) ELSE Len(data)
  IN [length |-> n, data |-> Copied(data, SubSeq(whole, 1, n))]

DarwinGetFeatureShort(report, stored) ==      \* mutant: the ID is not counted again
  LET prepared == PrepareIOHIDReport(report)
      filled == IOKitFills(prepared.id, prepared.data, stored)
  IN [n |-> filled.length,
      buffer |-> IF prepared.id = 0 THEN <<0>> \o filled.data ELSE filled.data]

DarwinGetFeature(report, stored) ==
  LET prepared == PrepareIOHIDReport(report)
      filled == IOKitFills(prepared.id, prepared.data, stored)
  IN [n |-> filled.length + (IF prepared.id = 0 THEN 1 ELSE 0),
      buffer |-> IF prepared.id = 0 THEN <<0>> \o filled.data ELSE filled.data]

\* Windows SendFeatureReport, as Write.
WindowsFeature(report, length) == Padded(report, length)

\* The request number of the ioctl as its two 16-bit halves; the length has 14
\* bits below the two of the direction, which are both set.
HidIOCFeatureByte(command, length) ==         \* mutant: the length is taken for a byte
  <<3 * 16384 + (length % 256), 72 * 256 + command>>

HidIOCFeature(command, length) ==
  <<3 * 16384 + (length % 16384), 72 * 256 + command>>

IoctlSize(request) == request[1] % 16384

-----------------------------------------------------------------------------
(***************************************************************************)
(* Write and SendFeatureReport put the same message on the bus on every    *)
(* platform, if it fits the device's reports: hidraw takes the buffer as   *)
(* it is, Windows pads it, macOS moves the ID (hid_darwin.go:348,          *)
(* hid_windows.go:665).                                                    *)
(***************************************************************************)
SameOutput(p, size) ==
  Len(p) \in 1..(size + 1) =>
    /\ Same(Message(p), Message(WindowsOutput(p, size + 1)))
    /\ Same(Message(p), MessageIOKit(PrepareOutputReport(p, IF p[1] = 0 THEN size ELSE size + 1)))
    /\ Same(Message(p), Message(WindowsFeature(p, size + 1)))
    /\ Same(Message(p), MessageIOKit(PrepareIOHIDReport(p)))

(***************************************************************************)
(* Read returns the same bytes on every platform but for zeros at the end: *)
(* the ID of a numbered report and no ID otherwise, also when the payload  *)
(* begins with a zero (hid_windows.go:657).                                *)
(***************************************************************************)
SameInput(m, size) ==
  Len(m.payload) <= size =>
    Trim(RawInput(m)) = Trim(WindowsRead(WindowsInput(m, size + 1)))

(***************************************************************************)
(* GetFeatureReport into a buffer that begins with an ID says the length   *)
(* with the ID, never more than the buffer holds, and leaves the ID and as *)
(* much of the report as fits (hid_darwin.go:337).                         *)
(***************************************************************************)
SameFeature(report, stored) ==
  report # <<>> =>
    LET linux == LinuxGetFeature(report, stored)
        darwin == DarwinGetFeature(report, stored)
        windows == WindowsGetFeature(report, stored, Len(stored) + 1)
    IN darwin = linux /\ windows = linux /\ linux.n <= Len(report)

(***************************************************************************)
(* The kernel reads the length that was given from the ioctl number, as    *)
(* long as it is below 2^14 (hid_linux.go:220).                            *)
(***************************************************************************)
IoctlKeepsLength(length) ==
  \A command \in {6, 7} :
    length < 16384 => IoctlSize(HidIOCFeature(command, length)) = length
=============================================================================
