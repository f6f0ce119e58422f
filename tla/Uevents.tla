------------------------------- MODULE Uevents -------------------------------
(***************************************************************************)
(* The text that says what a device is and what happens to it: kernel      *)
(* uevents (event_linux.go) and the uevent file of a device (hid_linux.go) *)
(* on Linux, UTF-16 strings on Windows (hid_windows.go).                   *)
(*                                                                         *)
(* A field of a message is <<key, value>>, or <<word>> without a "=".  A   *)
(* path is the sequence of its components, a name an uninterpreted value.  *)
(***************************************************************************)
EXTENDS Naturals, Sequences, SequencesExt, FiniteSetsExt

CONSTANTS RawNames,    \* "hidraw" followed by digits and nothing else
          NoName         \* no name: the empty string

(***************************************************************************)
(* parseLinuxUevent.  A later field of the same key wins, an empty one and *)
(* an unknown one are passed over, and the word in front of the @ counts   *)
(* only in the first field.                                                *)
(***************************************************************************)
FieldOf(message, key, default) ==
  LET set == {i \in DOMAIN message : Len(message[i]) = 2 /\ message[i][1] = key}
  IN IF set = {} THEN default ELSE message[Max(set)][2]

HeaderAction(message) ==
  IF message # <<>> /\ Len(Head(message)) = 1 THEN Head(message)[1] ELSE "none"

IsLinuxHIDRawName(name) == name \in RawNames

NoUevent == <<"none", NoName>>

DeviceOfName(message) ==       \* mutant: a message without DEVNAME is not understood
  FieldOf(message, "DEVNAME", NoName)

\* DEVNAME, or else the last component of DEVPATH.
DeviceOf(message) ==
  LET name == FieldOf(message, "DEVNAME", NoName)
      path == FieldOf(message, "DEVPATH", <<>>)
  IN IF name = NoName /\ path # <<>> THEN Last(path) ELSE name

ParseLinuxUevent(message) ==
  LET action == FieldOf(message, "ACTION", HeaderAction(message))
      device == DeviceOf(message)
  IN IF /\ FieldOf(message, "SUBSYSTEM", "none") = "hidraw"
        /\ IsLinuxHIDRawName(device)
        /\ action \in {"add", "remove"}
     THEN <<action, device>> ELSE NoUevent

(***************************************************************************)
(* fillDeviceInfoFromUevent, as far as HID_ID goes: a line holds the parts *)
(* between its colons, each a number or Invalid.  ParseUint refuses what   *)
(* does not fit 16 bits.                                                   *)
(***************************************************************************)
Invalid == 65536
NoInfo == [vendor |-> 0, product |-> 0]

\* mutant: the vendor is stored before the product is read
FillEagerly(lines) ==
  LET fill[i \in 0..Len(lines)] ==
        IF i = 0 THEN [ok |-> TRUE, info |-> NoInfo]
        ELSE LET before == fill[i - 1]
             IN IF ~before.ok \/ Len(lines[i]) # 3 THEN before
                ELSE IF lines[i][2] >= Invalid THEN [before EXCEPT !.ok = FALSE]
                ELSE IF lines[i][3] >= Invalid
                THEN [ok |-> FALSE, info |-> [before.info EXCEPT !.vendor = lines[i][2]]]
                ELSE [before EXCEPT !.info = [vendor |-> lines[i][2], product |-> lines[i][3]]]
  IN fill[Len(lines)]

FillFromUevent(lines) ==
  LET fill[i \in 0..Len(lines)] ==
        IF i = 0 THEN [ok |-> TRUE, info |-> NoInfo]
        ELSE LET before == fill[i - 1]
             IN IF ~before.ok \/ Len(lines[i]) # 3 THEN before
                ELSE IF lines[i][2] >= Invalid \/ lines[i][3] >= Invalid
                THEN [before EXCEPT !.ok = FALSE]
                ELSE [before EXCEPT !.info = [vendor |-> lines[i][2], product |-> lines[i][3]]]
  IN fill[Len(lines)]

(***************************************************************************)
(* The strings of getDeviceInfo on Windows: 126 units of two bytes, low    *)
(* byte first.  TrimRight takes the zero bytes at the end, one is put back *)
(* and the whole is decoded; a byte that is left over becomes U+FFFD.  The *)
(* terminating zeros are bytes of the text's last unit if its high byte is *)
(* zero.                                                                   *)
(***************************************************************************)
Replacement == 65533

Bytes(units) ==
  [i \in 1..(2 * Len(units)) |->
     IF i % 2 = 1 THEN units[(i + 1) \div 2] % 256 ELSE units[i \div 2] \div 256]

TrimRight(bytes) ==
  LET n == CHOOSE n \in 0..Len(bytes) : /\ \A i \in (n + 1)..Len(bytes) : bytes[i] = 0
                                        /\ n > 0 => bytes[n] # 0
  IN SubSeq(bytes, 1, n)

Decode(bytes) ==
  [i \in 1..((Len(bytes) + 1) \div 2) |->
     IF 2 * i <= Len(bytes) THEN bytes[2 * i - 1] + 256 * bytes[2 * i] ELSE Replacement]

DecodeTrimmed(buffer) == Decode(TrimRight(buffer))   \* mutant: the zero is not put back

DecodeString(buffer) == Decode(TrimRight(buffer) \o <<0>>)

-----------------------------------------------------------------------------
(***************************************************************************)
(* A kernel uevent about a hidraw device is understood whatever the order  *)
(* of its fields, without ACTION or without DEVNAME, and one about another *)
(* device that mentions a hidraw name is not (event_linux.go:203).         *)
(***************************************************************************)
KernelMessage(action, name, subsystem) ==
  { <<"ACTION", action>>, <<"DEVPATH", <<"devices", name>> >>,
    <<"SUBSYSTEM", subsystem>>, <<"DEVNAME", name>> }

UeventUnderstood(action, name, subsystem) ==
  \A left \in {{}, {"ACTION"}, {"DEVNAME"}, {"ACTION", "DEVNAME"}} :
    \A fields \in SetToSeqs({f \in KernelMessage(action, name, subsystem) : f[1] \notin left}) :
      ParseLinuxUevent(<< <<action>> >> \o fields)
        = IF subsystem = "hidraw" /\ name \in RawNames /\ action \in {"add", "remove"}
          THEN <<action, name>> ELSE NoUevent

(***************************************************************************)
(* A device never has the vendor of one line and the product of another,   *)
(* and a line that cannot be read leaves what was known before it          *)
(* (hid_linux.go:104).                                                     *)
(***************************************************************************)
IdentityIsWhole(lines) ==
  LET filled == FillFromUevent(lines)
  IN \/ filled.info = NoInfo
     \/ \E i \in DOMAIN lines : /\ Len(lines[i]) = 3
                                /\ filled.info = [vendor |-> lines[i][2], product |-> lines[i][3]]
                                /\ filled.info.vendor < Invalid /\ filled.info.product < Invalid

(***************************************************************************)
(* A string is decoded as it was, if the last unit has a zero high byte.   *)
(* Any other, and the empty string, get one U+FFFD or one unit more        *)
(* (hid_windows.go:360).                                                   *)
(***************************************************************************)
StringSurvives(text, room) ==
  (text # <<>> /\ Last(text) \in 1..255)
    => DecodeString(Bytes(text \o [i \in 1..room |-> 0])) = text
=============================================================================
