------------------------------ MODULE PureCode ------------------------------
(***************************************************************************)
(* The parts of the code that compute and do not wait, on inputs that grow *)
(* one element at a time: every state is an input, and the invariants say  *)
(* what the code makes of it.  What an input is made of and how long it    *)
(* may get are constants.                                                  *)
(***************************************************************************)
EXTENDS ReportParser, ReportFraming, Uevents, Enumeration

CONSTANTS Items, ByteValues, Units, Lines,      \* what sequences are made of
          Names, Lengths, Options, Devices,     \* the other inputs
          MaxItems, MaxBytes, MaxText, MaxLines, MaxOptions, MaxDevices  \* bounds

ASSUME PureCodeAssumption ==
  /\ ByteValues \subseteq Nat /\ Units \subseteq Nat
  /\ Lines \subseteq Seq(Nat) /\ Lengths \subseteq Nat
  /\ MaxBytes \in Nat
  /\ \A x \in Items : IsItem(x)
  /\ \A d \in Devices : d.fails \in {"never", "early", "late"}

VARIABLES kind, given

\* The inputs that are sequences: their elements and their bounds.
Elements ==
  [descriptor |-> Items, report |-> ByteValues, text |-> Units, lines |-> Lines]

Longest ==
  [descriptor |-> MaxItems, report |-> MaxBytes, text |-> MaxText, lines |-> MaxLines]

PureInit ==
  \/ kind \in DOMAIN Elements /\ given = <<>>
  \/ kind = "uevent" /\ given \in {"add", "remove", "change"} \X Names \X {"hidraw", "input"}
  \/ kind = "length" /\ given \in Lengths
  \/ kind = "enumerate" /\ given = [options |-> <<>>, devices |-> <<>>]

Grow ==
  /\ kind \in DOMAIN Elements /\ Len(given) < Longest[kind]
  /\ \E x \in Elements[kind] : given' = Append(given, x)

AddOption ==
  /\ kind = "enumerate" /\ Len(given.options) < MaxOptions
  /\ \E o \in Options : given' = [given EXCEPT !.options = Append(@, o)]

AddDevice ==
  /\ kind = "enumerate" /\ Len(given.devices) < MaxDevices
  /\ \E d \in Devices : given' = [given EXCEPT !.devices = Append(@, d)]

PureNext == UNCHANGED kind /\ (Grow \/ AddOption \/ AddDevice)

PureSpec == PureInit /\ [][PureNext]_<<kind, given>>

-----------------------------------------------------------------------------
\* A descriptor of whole items gives them, one by one (reportparser/parser.go:26).
Parses == kind = "descriptor" => ParsesWholeItems(given)

\* No prefix of a descriptor gives an item that the whole does not (reportparser/parser.go:80).
Truncated == kind = "descriptor" => TruncationInventsNothing(given)

\* A device's usage is the first that is not zero (hid_linux.go:128).
FirstUsage == kind = "descriptor" => UsageIsTheFirst(given)

\* The platforms send the same output report, whatever the device's size (hid_darwin.go:348).
OutputsAgree == kind = "report" => \A size \in 0..MaxBytes : SameOutput(given, size)

\* They return the same input report; the first byte is its ID (hid_windows.go:657).
InputsAgree ==
  kind = "report" /\ given # <<>> =>
    SameInput([id |-> Head(given), payload |-> Tail(given)], MaxBytes)

\* They return the same feature report, shorter or longer than the buffer (hid_darwin.go:337).
FeaturesAgree ==
  kind = "report" => \A stored \in BoundedSeq(ByteValues, MaxBytes) : SameFeature(given, stored)

\* The ioctl number holds the length of the report (hid_linux.go:220).
LengthsKept == kind = "length" => IoctlKeepsLength(given)

\* Kernel uevents about hidraw devices, and no others, are understood (event_linux.go:203).
UeventsUnderstood == kind = "uevent" => UeventUnderstood(given[1], given[2], given[3])

\* Vendor and product come from one line (hid_linux.go:104).
IdentitiesWhole == kind = "lines" => IdentityIsWhole(given)

\* Windows strings are decoded as they were, with one unit to spare (hid_windows.go:360).
StringsSurvive == kind = "text" => StringSurvives(given, 1)

\* No iterator calls yield after it returned false, wherever the consumer breaks (hid_linux.go:72).
BreaksRespected ==
  kind = "enumerate" =>
    \A stop \in 1..(Len(given.devices) + 1) : NoYieldAfterBreak(given.options, stop, given.devices)

\* Enumerate finds the devices that its options ask for (types.go:123).
WantedFound == kind = "enumerate" => FindsWhatIsWanted(given.options, given.devices)

\* The dictionary for IOKit changes nothing that is found (hid_darwin.go:538).
DictionarySound == kind = "enumerate" => DictionaryLosesNothing(given.options, given.devices)

\* Descriptors, whole or cut off, give their items and their usage (reportparser/parser.go:9).
DescriptorsParsed == Parses /\ Truncated /\ FirstUsage

\* The three platforms mean the same report by the same buffer (hid_darwin.go:343).
PlatformsAgree == OutputsAgree /\ InputsAgree /\ FeaturesAgree /\ LengthsKept

\* Text of the system is read as it was meant, malformed or not (event_linux.go:203).
TextUnderstood == UeventsUnderstood /\ IdentitiesWhole /\ StringsSurvive

\* The iterators find what is asked for, as long as they are asked (hid_linux.go:58).
IteratorsSound == BreaksRespected /\ WantedFound /\ DictionarySound
=============================================================================
