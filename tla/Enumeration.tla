----------------------------- MODULE Enumeration -----------------------------
(***************************************************************************)
(* Enumerate on the three platforms and its options (types.go): an         *)
(* iterator that calls yield for every device that matches and for every   *)
(* error.  Go panics when yield is called after it returned false.         *)
(*                                                                         *)
(* A device is what the operating system reports of it:                    *)
(*   info    its DeviceInfo, a function of Fields                          *)
(*   fails   "never", or when reading it fails: "early" for the interface, *)
(*           "late" for its metadata                                       *)
(*   usable  started, without a problem and with a driver (Windows)        *)
(* The consumer breaks out of its loop at the yield numbered stop.  listed *)
(* says whether the operating system gives a list of devices at all.       *)
(***************************************************************************)
EXTENDS Naturals, Sequences, SequencesExt

CONSTANTS Fields,      \* fields of DeviceInfo that an option can name
          MatchFields, \* those that an IOKit matching dictionary can hold
          NilOption    \* an option that is nil

\* An option sets its field, whatever it was before.
With(opts, o) ==
  [f \in DOMAIN opts \union {o[1]} |-> IF f = o[1] THEN o[2] ELSE opts[f]]

FirstOptionWins(options) ==   \* mutant: what is set is not set again
  LET opts[i \in 0..Len(options)] ==
        IF i = 0 THEN <<>>
        ELSE IF options[i] = NilOption \/ options[i][1] \in DOMAIN opts[i - 1] THEN opts[i - 1]
        ELSE With(opts[i - 1], options[i])
  IN opts[Len(options)]

\* newEnumerateOptions: a function from the fields that are not nil.
NewEnumerateOptions(options) ==
  LET opts[i \in 0..Len(options)] ==
        IF i = 0 THEN <<>>
        ELSE IF options[i] = NilOption THEN opts[i - 1] ELSE With(opts[i - 1], options[i])
  IN opts[Len(options)]

Match(opts, info) == \A f \in DOMAIN opts : info[f] = opts[f]

-----------------------------------------------------------------------------
(* The iterator                                                            *)

\* goes: the loop over the devices goes on; late: yield was called again after
\* it returned false; failed: withDevices of macOS returns an error.
Start == [yields |-> <<>>, goes |-> TRUE, late |-> FALSE, failed |-> FALSE]

Yield(s, what, stop) ==
  [s EXCEPT !.yields = Append(@, what),
            !.goes   = @ /\ Len(s.yields) + 1 < stop,
            !.late   = @ \/ Len(s.yields) >= stop]

Return(s) == [s EXCEPT !.goes = FALSE]

\* What a yield passes on: a DeviceInfo or an error.
Info(d) == <<d.info>>
Error == <<>>

LinuxStepOn(opts, stop, s, d) ==   \* mutant: the answer of yield is not looked at for an error
  IF ~s.goes THEN s
  ELSE IF d.fails # "never" THEN [Yield(s, Error, stop) EXCEPT !.goes = TRUE]
  ELSE IF ~Match(opts, d.info) THEN s ELSE Yield(s, Info(d), stop)

\* Linux goes on with the next name after an error.
LinuxStep(opts, stop, s, d) ==
  IF ~s.goes THEN s
  ELSE IF d.fails # "never" THEN Yield(s, Error, stop)
  ELSE IF ~Match(opts, d.info) THEN s ELSE Yield(s, Info(d), stop)

\* Windows returns after one, passes over devices that are not usable, and
\* numbers the interfaces.
WindowsStep(opts, stop, s, d) ==
  IF ~s.goes THEN s
  ELSE IF d.fails = "early" THEN Return(Yield(s, Error, stop))
  ELSE IF ~d.usable THEN s
  ELSE IF d.fails = "late" THEN Return(Yield(s, Error, stop))
  ELSE IF ~Match(opts, d.info) THEN s ELSE Yield(s, Info(d), stop)

DarwinStepFails(opts, stop, s, d) ==   \* mutant: withDevices is given the error as well
  IF ~s.goes THEN s
  ELSE IF d.fails # "never" THEN [Return(Yield(s, Error, stop)) EXCEPT !.failed = TRUE]
  ELSE IF ~Match(opts, d.info) THEN s ELSE Yield(s, Info(d), stop)

\* macOS goes on after an error, which it does not return to withDevices.
DarwinStep(opts, stop, s, d) ==
  IF ~s.goes THEN s
  ELSE IF d.fails # "never" THEN Yield(s, Error, stop)
  ELSE IF ~Match(opts, d.info) THEN s ELSE Yield(s, Info(d), stop)

(***************************************************************************)
(* The dictionary of deviceMatching: numbers and strings of the options it *)
(* can hold.  If one of them cannot be made there is no dictionary, which  *)
(* matches every device.                                                   *)
(***************************************************************************)
DeviceMatchingAll(opts, made) ==   \* mutant: an option it cannot hold matches no device
  IF made THEN opts ELSE <<>>

DeviceMatching(opts, made) ==
  IF ~made THEN <<>> ELSE [f \in DOMAIN opts \intersect MatchFields |-> opts[f]]

\* The elements of s that are in T, in their order.
Select(s, T) ==
  LET kept[i \in 0..Len(s)] ==
        IF i = 0 THEN <<>>
        ELSE IF s[i] \in T THEN Append(kept[i - 1], s[i]) ELSE kept[i - 1]
  IN kept[Len(s)]

\* IOHIDManagerCopyDevices: properties of the device equal those asked for.
CopyDevices(matching, devices) ==
  Select(devices, {d \in ToSet(devices) :
                     \A f \in DOMAIN matching : f \in MatchFields /\ d.info[f] = matching[f]})

Step(platform, opts, stop, s, d) ==
  CASE platform = "linux"   -> LinuxStep(opts, stop, s, d)
    [] platform = "windows" -> WindowsStep(opts, stop, s, d)
    [] platform = "darwin"  -> DarwinStep(opts, stop, s, d)

\* The loop over the devices.
Enumerate(platform, opts, stop, devices) ==
  LET round[i \in 0..Len(devices)] ==
        IF i = 0 THEN Start ELSE Step(platform, opts, stop, round[i - 1], devices[i])
  IN round[Len(devices)]

Linux(options, stop, devices, listed) ==
  IF ~listed THEN Yield(Start, Error, stop)
  ELSE Enumerate("linux", NewEnumerateOptions(options), stop, devices)

Windows(options, stop, devices, listed) ==
  IF ~listed THEN Yield(Start, Error, stop)
  ELSE Enumerate("windows", NewEnumerateOptions(options), stop, devices)

\* withDevices, and the yield for the error it may return.
Darwin(options, stop, devices, listed, made) ==
  LET opts == NewEnumerateOptions(options)
      s == IF ~listed THEN [Start EXCEPT !.failed = TRUE]
           ELSE Enumerate("darwin", opts, stop, CopyDevices(DeviceMatching(opts, made), devices))
  IN IF s.failed THEN Yield(s, Error, stop) ELSE s

-----------------------------------------------------------------------------
(***************************************************************************)
(* An iterator does not call yield again after it returned false, also if  *)
(* that was for an error (hid_linux.go:72, hid_darwin.go:138).             *)
(***************************************************************************)
NoYieldAfterBreak(options, stop, devices) ==
  \A listed, made \in BOOLEAN :
    /\ ~Linux(options, stop, devices, listed).late
    /\ ~Windows(options, stop, devices, listed).late
    /\ ~Darwin(options, stop, devices, listed, made).late

\* What was found, without the errors.
Found(s) == Select(s.yields, ToSet(s.yields) \ {Error})

\* The last option of a field counts; without an option every device matches.
Wanted(options, info) ==
  \A i \in DOMAIN options :
    (options[i] # NilOption /\ \A j \in (i + 1)..Len(options) :
                                  options[j] = NilOption \/ options[j][1] # options[i][1])
      => info[options[i][1]] = options[i][2]

(***************************************************************************)
(* With a consumer that goes on, the devices that are found are those that *)
(* have each field as the last option for it says, in their order, and     *)
(* Windows stops at the first error (README.md:33, types.go:113).          *)
(***************************************************************************)
FindsWhatIsWanted(options, devices) ==
  LET never == Len(devices) + 1
      wanted == {d \in ToSet(devices) : d.fails = "never" /\ Wanted(options, d.info)}
      infos(ds) == [i \in DOMAIN ds |-> Info(ds[i])]
  IN /\ Found(Linux(options, never, devices, TRUE)) = infos(Select(devices, wanted))
     /\ IsPrefix(Found(Windows(options, never, devices, TRUE)),
                 infos(Select(devices, {d \in wanted : d.usable})))

(***************************************************************************)
(* The dictionary given to IOKit changes nothing that is found, whether it *)
(* could be made or not, and options it cannot hold are still respected    *)
(* (hid_darwin.go:140, :502).                                              *)
(***************************************************************************)
DictionaryLosesNothing(options, devices) ==
  LET never == Len(devices) + 1
  IN \A made \in BOOLEAN : Found(Darwin(options, never, devices, TRUE, made))
                            = Found(Linux(options, never, devices, TRUE))
=============================================================================
