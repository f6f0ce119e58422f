----------------------------- MODULE LinuxDevice -----------------------------
(***************************************************************************)
(* An open hidraw device on Linux (hid_linux.go, io_linux.go): Read polls  *)
(* and reads a raw descriptor number, Write goes through runIO and         *)
(* os.File, feature reports are ioctls on the raw number, and Close closes *)
(* the file under all of them.  The program may open other files, which    *)
(* get descriptor numbers that have become free.                           *)
(***************************************************************************)
EXTENDS Naturals, Sequences, FiniteSets

CONSTANTS Readers,     \* calls of Read
          Writers,     \* calls of Write
          Features,    \* calls of SendFeatureReport and GetFeatureReport
          Nobody,      \* the holder of a free mutex
          MaxReports,  \* bound: input reports the device sends
          MaxCalls     \* bound: calls made altogether

ASSUME LinuxDeviceAssumption ==
  /\ MaxReports \in Nat /\ MaxCalls \in Nat
  /\ Nobody \notin Readers \union Writers
  /\ Readers \intersect Writers = {}
  /\ Features \intersect (Readers \union Writers) = {}

VARIABLES
  (* the kernel and package os *)
  number,      \* what the descriptor number stands for: "device", "free" or
               \* "foreign", a file that somebody else has opened
  closed,      \* os.File has been closed
  nonblock,    \* O_NONBLOCK is set on the open device
  refs,        \* writers for which os.File keeps the descriptor open
  plugged,     \* the device is there
  queue, sent, \* input reports that can be read, and how many were sent
  (* Read *)
  readMu,      \* the call that holds Device.readMu
  readPc, readDone,
  fd,          \* what Fd() returned: "none" yet, "number" or "minus1"
  readAnswer,
  got,         \* what was read: 0 for nothing, a report, or Foreign
  (* Write: see SerializedIO *)
  mu, callPc, workPc, ctxDone, result, answer, lateLocked,
  (* feature reports *)
  featPc, featFd,
  (* history *)
  foreignUse,  \* calls that acted on a foreign file
  afterClose   \* calls made when the number was no longer the device's

Foreign == MaxReports + 1

Writes == INSTANCE SerializedIO WITH Calls <- Writers

file == <<number, closed, nonblock, refs>>
hidraw == <<plugged, queue, sent>>
readVars == <<readMu, readPc, readDone, fd, readAnswer, got>>
writeVars == <<mu, callPc, workPc, ctxDone, result, answer, lateLocked>>
featVars == <<featPc, featFd>>
history == <<foreignUse, afterClose>>
vars == <<file, hidraw, readVars, writeVars, featVars, history>>

AllCalls == Readers \union Writers \union Features

TypeOK ==
  /\ number \in {"device", "free", "foreign"}
  /\ closed \in BOOLEAN /\ nonblock \in BOOLEAN
  /\ refs \subseteq {w \in Writers : workPc[w] = "native"}
  /\ plugged \in BOOLEAN /\ queue \in Seq(1..MaxReports) /\ sent \in 0..MaxReports
  /\ readMu \in Readers \union {Nobody}
  /\ readPc \in [Readers -> {"idle", "lock", "fd", "check", "poll", "read", "unlock", "returned"}]
  /\ readDone \subseteq Readers
  /\ fd \in [Readers -> {"none", "number", "minus1"}]
  /\ readAnswer \in [Readers -> {"none", "ok", "error"}]
  /\ got \in [Readers -> 0..Foreign]
  /\ Writes!TypeOK
  /\ featPc \in [Features -> {"idle", "ioctl", "returned"}]
  /\ featFd \in [Features -> {"none", "number", "minus1"}]
  /\ foreignUse \subseteq AllCalls /\ afterClose \subseteq AllCalls

\* OpenPath has set O_NONBLOCK after its own use of Fd().
Init ==
  /\ number = "device" /\ closed = FALSE /\ nonblock = TRUE /\ refs = {}
  /\ plugged = TRUE /\ queue = <<>> /\ sent = 0
  /\ readMu = Nobody /\ readPc = [r \in Readers |-> "idle"] /\ readDone = {}
  /\ fd = [r \in Readers |-> "none"] /\ readAnswer = [r \in Readers |-> "none"]
  /\ got = [r \in Readers |-> 0]
  /\ Writes!Init
  /\ featPc = [f \in Features |-> "idle"] /\ featFd = [f \in Features |-> "none"]
  /\ foreignUse = {} /\ afterClose = {}

Made == {r \in Readers : readPc[r] # "idle"} \union {w \in Writers : callPc[w] # "idle"}
          \union {f \in Features : featPc[f] # "idle"}

\* A call is made; MaxCalls bounds them.
Calling(c) ==
  /\ Cardinality(Made) < MaxCalls
  /\ afterClose' = IF number # "device" THEN afterClose \union {c} ELSE afterClose

-----------------------------------------------------------------------------
(* The kernel, package os and the rest of the program                      *)

Report ==
  /\ plugged /\ sent < MaxReports
  /\ sent' = sent + 1 /\ queue' = Append(queue, sent + 1)
  /\ UNCHANGED <<file, plugged, readVars, writeVars, featVars, history>>

Unplug ==
  /\ plugged /\ plugged' = FALSE
  /\ UNCHANGED <<file, queue, sent, readVars, writeVars, featVars, history>>

\* os.File gives the number up with the last reference to it.
Close ==
  /\ ~closed /\ closed' = TRUE
  /\ number' = IF refs = {} THEN "free" ELSE number
  /\ UNCHANGED <<nonblock, refs, hidraw, readVars, writeVars, featVars, history>>

Reuse ==
  /\ number = "free" /\ number' = "foreign"
  /\ UNCHANGED <<closed, nonblock, refs, hidraw, readVars, writeVars, featVars, history>>

\* os.File.Fd: -1 once the number was given up.  It may set the file blocking again.
FdCached == "number"    \* mutant: the number OpenPath got is used for ever

Fd == IF number = "device" THEN "number" ELSE "minus1"

FdEffect == nonblock' \in {nonblock, FALSE}

-----------------------------------------------------------------------------
(* Read                                                                    *)

ReadPcTo(r, pc) == readPc' = [readPc EXCEPT ![r] = pc]

ReadCall(r) ==
  /\ readPc[r] = "idle" /\ Calling(r)
  /\ ReadPcTo(r, "lock")
  /\ UNCHANGED <<file, hidraw, readMu, readDone, fd, readAnswer, got, writeVars, featVars,
                 foreignUse>>

ReadContextDone(r) ==
  /\ readPc[r] \notin {"idle", "returned"}
  /\ r \notin readDone /\ readDone' = readDone \union {r}
  /\ UNCHANGED <<file, hidraw, readMu, readPc, fd, readAnswer, got, writeVars, featVars, history>>

ReadLockShared(r) ==    \* mutant: Read takes no mutex
  /\ readPc[r] = "lock" /\ readMu' = r
  /\ ReadPcTo(r, "fd")
  /\ UNCHANGED <<file, hidraw, readDone, fd, readAnswer, got, writeVars, featVars, history>>

ReadLock(r) ==
  /\ readPc[r] = "lock" /\ readMu = Nobody /\ readMu' = r
  /\ ReadPcTo(r, "fd")
  /\ UNCHANGED <<file, hidraw, readDone, fd, readAnswer, got, writeVars, featVars, history>>

ReadFd(r) ==
  /\ readPc[r] = "fd"
  /\ fd' = [fd EXCEPT ![r] = Fd] /\ FdEffect
  /\ ReadPcTo(r, "check")
  /\ UNCHANGED <<number, closed, refs, hidraw, readMu, readDone, readAnswer, got, writeVars,
                 featVars, history>>

ReadCancelled(r) ==
  /\ readPc[r] = "check" /\ r \in readDone
  /\ ReadPcTo(r, "unlock")
  /\ UNCHANGED <<file, hidraw, readMu, readDone, fd, readAnswer, got, writeVars, featVars, history>>

ReadChecked(r) ==
  /\ readPc[r] = "check" /\ r \notin readDone
  /\ ReadPcTo(r, "poll")
  /\ UNCHANGED <<file, hidraw, readMu, readDone, fd, readAnswer, got, writeVars, featVars, history>>

(***************************************************************************)
(* poll ignores a negative number and reports an invalid one as ready; of  *)
(* a foreign file nothing is known.                                        *)
(***************************************************************************)
Ready(r) ==
  /\ fd[r] = "number"
  /\ (number = "device") => (queue # <<>> \/ ~plugged)

PollReady(r) ==
  /\ readPc[r] = "poll" /\ Ready(r)
  /\ ReadPcTo(r, "read")
  /\ UNCHANGED <<file, hidraw, readMu, readDone, fd, readAnswer, got, writeVars, featVars, history>>

PollForever(r) ==       \* mutant: poll has no timeout
  /\ readPc[r] = "poll" /\ Ready(r) /\ number = "foreign"
  /\ ReadPcTo(r, "check")
  /\ UNCHANGED <<file, hidraw, readMu, readDone, fd, readAnswer, got, writeVars, featVars, history>>

\* 50 ms have passed, or a signal has interrupted poll.
PollTimeout(r) ==
  /\ readPc[r] = "poll" /\ (Ready(r) => number = "foreign")
  /\ ReadPcTo(r, "check")
  /\ UNCHANGED <<file, hidraw, readMu, readDone, fd, readAnswer, got, writeVars, featVars, history>>

ReadChecksAgain(r) ==   \* mutant: a context that is done by now wins over the report
  /\ readPc[r] = "read" /\ number = "device" /\ queue # <<>>
  /\ queue' = Tail(queue)
  /\ got' = [got EXCEPT ![r] = IF r \in readDone THEN 0 ELSE Head(queue)]
  /\ ReadPcTo(r, "unlock")
  /\ UNCHANGED <<file, plugged, sent, readMu, readDone, fd, readAnswer, writeVars, featVars, history>>

ReadReport(r) ==
  /\ readPc[r] = "read" /\ number = "device" /\ queue # <<>>
  /\ queue' = Tail(queue) /\ got' = [got EXCEPT ![r] = Head(queue)]
  /\ ReadPcTo(r, "unlock")
  /\ UNCHANGED <<file, plugged, sent, readMu, readDone, fd, readAnswer, writeVars, featVars, history>>

ReadErrorRetries(r) ==  \* mutant: every error of the read is tried again
  /\ readPc[r] = "read"
  /\ number = "free" \/ (number = "device" /\ queue = <<>> /\ ~plugged)
  /\ ReadPcTo(r, "check")
  /\ UNCHANGED <<file, hidraw, readMu, readDone, fd, readAnswer, got, writeVars, featVars, history>>

\* EBADF, or EIO once the device is gone.
ReadError(r) ==
  /\ readPc[r] = "read"
  /\ number = "free" \/ (number = "device" /\ queue = <<>> /\ ~plugged)
  /\ ReadPcTo(r, "unlock")
  /\ UNCHANGED <<file, hidraw, readMu, readDone, fd, readAnswer, got, writeVars, featVars, history>>

\* EAGAIN.  A blocking descriptor keeps the call in the kernel instead.
ReadAgain(r) ==
  /\ readPc[r] = "read"
  /\ number # "free"
  /\ (number = "device") => (queue = <<>> /\ plugged /\ nonblock)
  /\ ReadPcTo(r, "check")
  /\ UNCHANGED <<file, hidraw, readMu, readDone, fd, readAnswer, got, writeVars, featVars, history>>

ReadForeign(r) ==
  /\ readPc[r] = "read" /\ number = "foreign"
  /\ got' = [got EXCEPT ![r] = Foreign] /\ foreignUse' = foreignUse \union {r}
  /\ ReadPcTo(r, "unlock")
  /\ UNCHANGED <<file, hidraw, readMu, readDone, fd, readAnswer, writeVars, featVars, afterClose>>

ReadOutcome(r) == IF got[r] # 0 THEN "ok" ELSE "error"

ReadKeepsLock(r) ==     \* mutant: the mutex is released by the successful return only
  /\ readPc[r] = "unlock"
  /\ readMu' = IF got[r] # 0 THEN Nobody ELSE readMu
  /\ readAnswer' = [readAnswer EXCEPT ![r] = ReadOutcome(r)]
  /\ ReadPcTo(r, "returned")
  /\ UNCHANGED <<file, hidraw, readDone, fd, got, writeVars, featVars, history>>

ReadReturn(r) ==
  /\ readPc[r] = "unlock"
  /\ readMu' = Nobody
  /\ readAnswer' = [readAnswer EXCEPT ![r] = ReadOutcome(r)]
  /\ ReadPcTo(r, "returned")
  /\ UNCHANGED <<file, hidraw, readDone, fd, got, writeVars, featVars, history>>

-----------------------------------------------------------------------------
(* Write: runIO around os.File.Write                                       *)

notWrite == <<number, closed, nonblock, hidraw, readVars, featVars>>

WriteCall(w) ==
  /\ Writes!Call(w) /\ Calling(w)
  /\ UNCHANGED <<notWrite, refs, foreignUse>>

WriteStep(w) ==
  /\ \/ Writes!ContextDone(w) \/ Writes!Lock(w) \/ Writes!Refuse(w) \/ Writes!Spawn(w)
     \/ Writes!Unlock(w) \/ Writes!GiveUp(w) \/ Writes!Receive(w)
  /\ UNCHANGED <<notWrite, refs, history>>

WriteStartRaw(w) ==     \* mutant: the raw descriptor is written to, as Read reads it
  /\ Writes!Start(w)
  /\ UNCHANGED <<notWrite, refs, history>>

\* os.File.Write keeps the number from being given up, or fails when closed.
WriteStart(w) ==
  /\ Writes!Start(w)
  /\ refs' = IF closed THEN refs ELSE refs \union {w}
  /\ UNCHANGED <<notWrite, history>>

WriteFinishLeaks(w) ==  \* mutant: the reference outlives the native call
  /\ \E outcome \in {"ok", "error"} :
       Writes!Finish(w, outcome) /\ (outcome = "ok" => w \in refs)
  /\ UNCHANGED <<notWrite, refs, history>>

WriteFinish(w) ==
  /\ \E outcome \in {"ok", "error"} :
       Writes!Finish(w, outcome) /\ (outcome = "ok" => w \in refs)
  /\ refs' = refs \ {w}
  /\ number' = IF closed /\ refs = {w} THEN "free" ELSE number
  /\ UNCHANGED <<closed, nonblock, hidraw, readVars, featVars, history>>

-----------------------------------------------------------------------------
(* SendFeatureReport and GetFeatureReport: Fd() and then the ioctl         *)

FeatureFd(f) ==
  /\ featPc[f] = "idle" /\ Calling(f)
  /\ featFd' = [featFd EXCEPT ![f] = Fd] /\ FdEffect
  /\ featPc' = [featPc EXCEPT ![f] = "ioctl"]
  /\ UNCHANGED <<number, closed, refs, hidraw, readVars, writeVars, foreignUse>>

FeatureIoctl(f) ==
  /\ featPc[f] = "ioctl"
  /\ featPc' = [featPc EXCEPT ![f] = "returned"]
  /\ foreignUse' = IF featFd[f] = "number" /\ number = "foreign"
                   THEN foreignUse \union {f} ELSE foreignUse
  /\ UNCHANGED <<file, hidraw, readVars, writeVars, featFd, afterClose>>

-----------------------------------------------------------------------------

Read(r) ==
  \/ ReadLock(r) \/ ReadFd(r) \/ ReadCancelled(r) \/ ReadChecked(r) \/ PollReady(r)
  \/ PollTimeout(r) \/ ReadReport(r) \/ ReadError(r) \/ ReadReturn(r)

Next ==
  \/ Report \/ Unplug \/ Close \/ Reuse
  \/ \E r \in Readers : ReadCall(r) \/ ReadContextDone(r) \/ Read(r) \/ ReadAgain(r)
                        \/ ReadForeign(r)
  \/ \E w \in Writers : WriteCall(w) \/ WriteStep(w) \/ WriteStart(w) \/ WriteFinish(w)
  \/ \E f \in Features : FeatureFd(f) \/ FeatureIoctl(f)

Spec == Init /\ [][Next]_vars

(***************************************************************************)
(* Goroutines that can run do.  Nothing is assumed of the device, of       *)
(* contexts, of foreign files, and above all not that a write ever ends.   *)
(***************************************************************************)
WriteGoesOn(w) == WriteStart(w) \/ (WriteStep(w) /\ ctxDone' = ctxDone)

Fairness ==
  /\ \A r \in Readers : WF_vars(Read(r)) /\ WF_vars(ReadAgain(r) /\ number = "device")
  /\ \A w \in Writers : WF_vars(WriteGoesOn(w))

FairSpec == Spec /\ Fairness

-----------------------------------------------------------------------------
(***************************************************************************)
(* Every report that was taken from the kernel is returned by exactly one  *)
(* Read; cancellation loses none (io_linux_test.go:17).                    *)
(***************************************************************************)
NoReportLost ==
  \A i \in 1..sent :
    \/ \E k \in DOMAIN queue : queue[k] = i
    \/ \E r \in Readers : /\ got[r] = i /\ readAnswer[r] # "error"
                          /\ \A q \in Readers : got[q] = i => q = r

(***************************************************************************)
(* A call made after the descriptor number was given up acts on nothing,   *)
(* also when the number has come into use again (hid_linux.go:158, :197).  *)
(* It may hit a call that was under way, as README.md explains.            *)
(***************************************************************************)
LateCallsHarmless == foreignUse \intersect afterClose = {}

\* The runIO half of Write: see SerializedIO.
WritesQueuedCancelNeverStarts == Writes!QueuedCancelNeverStarts

\* Close does not take the descriptor from under a write (hid_linux.go:175).
CloseSparesWrites ==
  [][closed' # closed /\ number' # number => \A w \in Writers : workPc[w] # "native"]_vars

(***************************************************************************)
(* Close and the reuse of the descriptor number harm neither a write that  *)
(* is under way nor another file (hid_linux.go:158, :175).                 *)
(***************************************************************************)
DescriptorSafe == [](TypeOK /\ LateCallsHarmless) /\ CloseSparesWrites

\* Writes never overlap and are not repeated (README.md:110).
WritesSerial == Writes!ImplementsSerialIO

\* The same of Read, from its Fd() to the end of its last system call.
ReadSerial == INSTANCE SerialIO
                WITH Calls  <- Readers,
                     asked  <- {r \in Readers : readPc[r] # "idle"},
                     begun  <- {r \in Readers : fd[r] # "none"},
                     active <- {r \in Readers : readPc[r] \in {"check", "poll", "read"}},
                     answer <- readAnswer

ReadsSerial == ReadSerial!Spec

(***************************************************************************)
(* Operations of one kind have their turn one at a time, abandoned ones    *)
(* included, and one that was cancelled while it waited is not carried out *)
(* (io_linux.go:39-63, io_linux_test.go:118).                              *)
(***************************************************************************)
OneAtATime == WritesSerial /\ ReadsSerial /\ []WritesQueuedCancelNeverStarts

Reading(r) == readPc[r] \in {"fd", "check", "poll", "read", "unlock"}

(***************************************************************************)
(* A Read that has its turn ends when its context does, whatever the       *)
(* device does and whether or not Close has been called, as long as the    *)
(* number is nobody else's (hid_linux.go:158).  It is the mutex that makes *)
(* this true: O_NONBLOCK may be off, and then a read after somebody else   *)
(* took the report would not come back.                                    *)
(***************************************************************************)
CancelledReadReturns ==
  \A r \in Readers :
    (Reading(r) /\ r \in readDone) ~> (readPc[r] = "returned" \/ number = "foreign")

(***************************************************************************)
(* A Read waits for its turn without looking at its context                *)
(* (hid_linux.go:155): it returns if the calls in front of it are          *)
(* cancelled, too.                                                         *)
(***************************************************************************)
QueuedReadsReturn ==
  (\A r \in Readers : Reading(r) ~> (r \in readDone \/ readPc[r] = "returned"))
  => \A r \in Readers :
       (readPc[r] = "lock") ~> (readPc[r] = "returned" \/ number = "foreign")

\* When the device goes, Read does not wait for ever (hid_linux.go:161).
UnplugEndsReads ==
  \A r \in Readers :
    (~plugged /\ readPc[r] # "idle") ~> (readPc[r] = "returned" \/ closed)

(***************************************************************************)
(* A Write that was started returns when its context ends although the     *)
(* driver never lets go of it (io_linux_test.go:73).                       *)
(***************************************************************************)
CancelledWriteReturns ==
  \A w \in Writers :
    (callPc[w] = "select" /\ w \in ctxDone) ~> (callPc[w] = "returned")

(***************************************************************************)
(* An abandoned write hands the mutex on when the driver lets go of it     *)
(* (io_linux.go:52): if native writes end, no Write waits for ever.        *)
(***************************************************************************)
WritesReturn ==
  (\A w \in Writers : (workPc[w] = "native") ~> (workPc[w] = "unlock"))
  => \A w \in Writers : (callPc[w] = "lock") ~> (callPc[w] = "returned")

(***************************************************************************)
(* What ends a call does end it: its context, the loss of the device, the  *)
(* calls in front of it (io_linux.go:56, hid_linux.go:155, :161).          *)
(***************************************************************************)
CallsReturn ==
  /\ CancelledReadReturns /\ QueuedReadsReturn /\ UnplugEndsReads
  /\ CancelledWriteReturns /\ WritesReturn
=============================================================================
