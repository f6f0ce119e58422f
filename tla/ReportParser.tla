---------------------------- MODULE ReportParser ----------------------------
(***************************************************************************)
(* ParseReport (reportparser/parser.go) and the use Enumerate makes of it  *)
(* on Linux.  A descriptor is a sequence of bytes; every item starts with  *)
(* one whose lower two bits say how many data bytes follow.  A uint32 is   *)
(* the pair of its halves, low and high.  Reading past the end panics.     *)
(***************************************************************************)
EXTENDS Naturals, Sequences, SequencesExt

MainInput == 32
MainOutput == 36
MainFeature == 44
MainCollection == 40
MainEndCollection == 48
GlobalUsagePage == 1
GlobalLogicalMinimum == 5
GlobalLogicalMaximum == 9
GlobalPhysicalMaximum == 17
GlobalReportSize == 29
GlobalReportID == 33
GlobalReportCount == 37
LocalUsage == 2

\* Items whose value is the unsigned number in their data bytes ...
WordTags == {MainInput, MainOutput, MainFeature, GlobalLogicalMinimum, GlobalLogicalMaximum}
\* ... is cut to its low half ...
HalfTags == {GlobalUsagePage, LocalUsage}
\* ... or is the byte that follows, whatever the size of the item.
ByteTags == {MainCollection, GlobalReportSize, GlobalReportID, GlobalReportCount}

DataBytesThree(size) == size     \* mutant: size code 3 taken for three bytes
DataBytes(size) == IF size = 3 THEN 4 ELSE size

\* Bytes i.. of b as a number of so many bytes.
ParseUintValue(size, b, i) ==
  CASE size = 0 -> <<0, 0>>
    [] size = 1 -> <<b[i], 0>>
    [] size = 2 -> <<b[i] + 256 * b[i + 1], 0>>
    [] size = 3 -> <<b[i] + 256 * b[i + 1], b[i + 2] + 256 * b[i + 3]>>

Needs(tag, size) ==
  IF tag \in ByteTags THEN 1
  ELSE IF tag \in WordTags \union HalfTags THEN DataBytes(size) ELSE 0

\* The tags with an append; others are known but give nothing.
Kept(tag) == tag \in WordTags \union HalfTags \union ByteTags \union {MainEndCollection}

\* What is appended for one item.
ItemAt(tag, size, b, i) ==
  CASE tag \in WordTags -> <<tag, ParseUintValue(size, b, i)>>
    [] tag \in HalfTags -> <<tag, <<ParseUintValue(size, b, i)[1], 0>> >>
    [] tag \in ByteTags -> <<tag, <<b[i], 0>> >>
    [] tag = MainEndCollection -> <<tag, <<0, 0>> >>

\* The item at byte s.i of b, where the loop stands.
ParseItem(b, s) ==
  LET size == b[s.i] % 4
      tag == b[s.i] \div 4
  IN [ok |-> TRUE, i |-> s.i + 1 + DataBytes(size),
      items |-> IF Kept(tag) THEN Append(s.items, ItemAt(tag, size, b, s.i + 1)) ELSE s.items]

Panic == [ok |-> FALSE, i |-> 0, items |-> <<>>]

ParseRoundPadded(b, s) ==        \* mutant: bytes past the end are read as zeros
  IF s.i > Len(b) THEN s ELSE ParseItem(b \o <<0, 0, 0, 0>>, s)

\* One round of the loop, which may panic.
ParseRound(b, s) ==
  IF ~s.ok \/ s.i > Len(b) THEN s
  ELSE IF s.i + Needs(b[s.i] \div 4, b[s.i] % 4) > Len(b) THEN Panic
  ELSE ParseItem(b, s)

ParseBegin == [ok |-> TRUE, i |-> 1, items |-> <<>>]

\* The loop over b: every round passes at least one byte.
ParseReport(b) ==
  LET round[k \in 0..Len(b)] == IF k = 0 THEN ParseBegin ELSE ParseRound(b, round[k - 1])
  IN round[Len(b)]

LastValue(items, tag) ==       \* mutant: a later usage overwrites the first one
  LET field[k \in 0..Len(items)] ==
        IF k = 0 THEN 0
        ELSE IF items[k][1] = tag THEN items[k][2][1] ELSE field[k - 1]
  IN field[Len(items)]

\* A field of DeviceInfo that is set as long as it is zero.
FirstNonzero(items, tag) ==
  LET field[k \in 0..Len(items)] ==
        IF k = 0 THEN 0
        ELSE IF items[k][1] = tag /\ field[k - 1] = 0 THEN items[k][2][1] ELSE field[k - 1]
  IN field[Len(items)]

FillDeviceInfoUsage(b) ==
  LET parsed == ParseReport(b)
  IN [UsagePage |-> FirstNonzero(parsed.items, GlobalUsagePage),
      Usage     |-> FirstNonzero(parsed.items, LocalUsage)]

-----------------------------------------------------------------------------
(***************************************************************************)
(* The reference: an item is a tag and its data bytes, a descriptor is the *)
(* items one after the other, and a value is a sum of bytes.               *)
(***************************************************************************)
Encode(item) ==
  <<4 * item.tag + (IF Len(item.data) = 4 THEN 3 ELSE Len(item.data))>> \o item.data

\* An item with its data, also if it is read as one byte.
IsItem(x) ==
  /\ x.tag \in Nat /\ x.data \in Seq(Nat) /\ Len(x.data) \in {0, 1, 2, 4}
  /\ x.tag \in ByteTags => x.data # <<>>

EncodeAll(items) ==
  LET all[k \in 0..Len(items)] ==
        IF k = 0 THEN <<>> ELSE all[k - 1] \o Encode(items[k])
  IN all[Len(items)]

\* Byte by byte: data beyond the width of the field is cut off.
Value(item) ==
  LET at(i) == IF i <= Len(item.data) THEN item.data[i] ELSE 0
      low == at(1) + 256 * at(2)
  IN CASE item.tag \in WordTags -> <<low, at(3) + 256 * at(4)>>
       [] item.tag \in HalfTags -> <<low, 0>>
       [] item.tag \in ByteTags -> <<at(1), 0>>
       [] OTHER -> <<0, 0>>

Values(items) ==
  LET values[k \in 0..Len(items)] ==
        IF k = 0 THEN <<>>
        ELSE IF Kept(items[k].tag) THEN Append(values[k - 1], <<items[k].tag, Value(items[k])>>)
        ELSE values[k - 1]
  IN values[Len(items)]

(***************************************************************************)
(* A descriptor of whole items is parsed item by item, whatever stands in  *)
(* their data (reportparser/parser.go:26).                                 *)
(***************************************************************************)
ParsesWholeItems(items) ==
  LET parsed == ParseReport(EncodeAll(items))
  IN parsed.ok /\ parsed.items = Values(items)

(***************************************************************************)
(* A descriptor that stops within an item makes the parser panic or leave  *)
(* that item out; no value is made up (reportparser/parser.go:26, :80).    *)
(***************************************************************************)
TruncationInventsNothing(items) ==
  LET all == EncodeAll(items)
  IN \A n \in 0..Len(all) :
       LET parsed == ParseReport(SubSeq(all, 1, n))
       IN parsed.ok => IsPrefix(parsed.items, Values(items))

(***************************************************************************)
(* Usage page and usage of a device are the first in its descriptor that   *)
(* are not zero, not those of a nested or a later collection               *)
(* (hid_linux.go:128, :132).                                               *)
(***************************************************************************)
UsageIsTheFirst(items) ==
  LET first(tag) == {i \in DOMAIN items : /\ items[i].tag = tag /\ Value(items[i])[1] # 0
                                          /\ \A j \in 1..(i - 1) :
                                               items[j].tag = tag => Value(items[j])[1] = 0}
      usage == FillDeviceInfoUsage(EncodeAll(items))
      is(field, tag) == IF first(tag) = {} THEN field = 0
                        ELSE \A i \in first(tag) : field = Value(items[i])[1]
  IN is(usage.UsagePage, GlobalUsagePage) /\ is(usage.Usage, LocalUsage)
=============================================================================
