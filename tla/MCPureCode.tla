----------------------------- MODULE MCPureCode -----------------------------
(***************************************************************************)
(* The inputs that TLC tries: every class of item, byte, unit, line and    *)
(* device.                                                                 *)
(***************************************************************************)
EXTENDS PureCode, TLC

CONSTANT OtherName   \* a device name that is no raw HID name

Item(tag, data) == [tag |-> tag, data |-> data]

\* Every class of tag with every size, and data that look like items.
MCItems ==
  {Item(tag, data) : tag \in {GlobalUsagePage, LocalUsage, GlobalLogicalMaximum},
                     data \in {<<>>, <<0>>, <<6, 255>>, <<0, 1, 2, 3>>}}
    \union {Item(MainCollection, <<1>>), Item(GlobalReportSize, <<8, 0>>),
            Item(GlobalPhysicalMaximum, <<5, 9>>), Item(MainEndCollection, <<>>)}

Info2 == {[vendor |-> v, path |-> p] : v \in {0, 1}, p \in {0, 1}}

MCDevices ==
  {[info |-> i, fails |-> "never", usable |-> TRUE] : i \in Info2}
    \union {[info |-> [vendor |-> 1, path |-> 1], fails |-> f, usable |-> u] :
              f \in {"never", "early", "late"}, u \in BOOLEAN}

MCOptions == {<<f, v>> : f \in Fields, v \in {0, 1}} \union {NilOption}

MCLines == {<<1>>, <<3, 1, 2>>, <<3, 4, 65536>>, <<3, 65536, 5>>, <<3, 6, 7>>}

MCNames == RawNames \union {OtherName}
=============================================================================
