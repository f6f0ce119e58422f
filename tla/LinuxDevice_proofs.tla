------------------------- MODULE LinuxDevice_proofs -------------------------
(***************************************************************************)
(* Proofs about LinuxDevice for any number of calls and reports: the       *)
(* mutexes give the calls of a kind their turn one at a time, the          *)
(* descriptor number is given up under no write, and every report that was *)
(* taken from the kernel is returned.                                      *)
(***************************************************************************)
EXTENDS LinuxDevice, SequenceTheorems, TLAPS

-----------------------------------------------------------------------------
(* Types                                                                   *)

\* OpenPath has returned: every variable has its type.
LEMMA TypeInit == Init => TypeOK
  <1> SUFFICES ASSUME Init PROVE TypeOK
    OBVIOUS
  <1>1. queue \in Seq(1..MaxReports) /\ sent \in 0..MaxReports
    BY EmptySeq, LinuxDeviceAssumption DEF Init
  <1>2. got \in [Readers -> 0..Foreign]
    BY LinuxDeviceAssumption DEF Init, Foreign
  <1>3. Writes!TypeOK
    BY DEF Init, Writes!Init, Writes!TypeOK, Writes!Outcomes
  <1> QED
    BY <1>1, <1>2, <1>3 DEF Init, TypeOK

(***************************************************************************)
(* What runIO does keeps its variables in their types.                     *)
(***************************************************************************)
LEMMA WritesTypeStep == Writes!TypeOK /\ [Writes!Next]_(Writes!ioVars) => Writes!TypeOK'
  <1> SUFFICES ASSUME Writes!TypeOK, [Writes!Next]_(Writes!ioVars) PROVE Writes!TypeOK'
    OBVIOUS
  <1> USE DEF Writes!TypeOK, Writes!Outcomes
  <1>1. ASSUME NEW w \in Writers,
               \/ Writes!Call(w) \/ Writes!ContextDone(w) \/ Writes!Lock(w) \/ Writes!Refuse(w)
               \/ Writes!Spawn(w) \/ Writes!Start(w) \/ Writes!Unlock(w) \/ Writes!GiveUp(w)
        PROVE Writes!TypeOK'
    BY <1>1 DEF Writes!Call, Writes!ContextDone, Writes!Lock, Writes!Refuse, Writes!Spawn,
       Writes!Start, Writes!Unlock, Writes!GiveUp, Writes!Return
  <1>2. ASSUME NEW w \in Writers, Writes!Receive(w) PROVE Writes!TypeOK'
    BY <1>2 DEF Writes!Receive, Writes!Return
  <1>3. ASSUME NEW w \in Writers, NEW outcome \in {"ok", "error"}, Writes!Finish(w, outcome)
        PROVE Writes!TypeOK'
    BY <1>3 DEF Writes!Finish
  <1>4. CASE UNCHANGED Writes!ioVars
    BY <1>4 DEF Writes!ioVars
  <1> QED
    BY <1>1, <1>2, <1>3, <1>4 DEF Writes!Next

(***************************************************************************)
(* A step of the device is a step of runIO or leaves its variables alone.  *)
(***************************************************************************)
LEMMA WritesStep == [Next]_vars => [Writes!Next]_(Writes!ioVars)
  <1> SUFFICES ASSUME [Next]_vars PROVE Writes!Next \/ UNCHANGED Writes!ioVars
    OBVIOUS
  <1> USE DEF Writes!ioVars, writeVars
  <1>1. CASE Report \/ Unplug \/ Close \/ Reuse
    BY <1>1 DEF Report, Unplug, Close, Reuse
  <1>2. ASSUME NEW r \in Readers,
               ReadCall(r) \/ ReadContextDone(r) \/ Read(r) \/ ReadAgain(r) \/ ReadForeign(r)
        PROVE UNCHANGED Writes!ioVars
    BY <1>2 DEF ReadCall, ReadContextDone, Read, ReadAgain, ReadForeign, ReadLock, ReadFd,
       ReadCancelled, ReadChecked, PollReady, PollTimeout, ReadReport, ReadError, ReadReturn
  <1>3. ASSUME NEW w \in Writers, WriteCall(w) \/ WriteStep(w) \/ WriteStart(w) \/ WriteFinish(w)
        PROVE Writes!Next
    BY <1>3 DEF WriteCall, WriteStep, WriteStart, WriteFinish, Writes!Next, Writes!Outcomes
  <1>4. ASSUME NEW f \in Features, FeatureFd(f) \/ FeatureIoctl(f) PROVE UNCHANGED Writes!ioVars
    BY <1>4 DEF FeatureFd, FeatureIoctl
  <1>5. CASE UNCHANGED vars
    BY <1>5 DEF vars
  <1> QED
    BY <1>1, <1>2, <1>3, <1>4, <1>5 DEF Next

(***************************************************************************)
(* The call with the mutex is the one between its Lock and its spawn or    *)
(* the one whose goroutine has not unlocked; there is a goroutine only     *)
(* after the context was looked at under the mutex.                        *)
(***************************************************************************)
RunIOInv ==
  /\ \A w \in Writers :
       mu = w <=> callPc[w] = "check" \/ workPc[w] \in {"ready", "native", "unlock"}
  /\ \A w \in Writers : callPc[w] \in {"idle", "lock", "check"} => workPc[w] = "none"
  /\ \A w \in Writers : result[w] # "none" => workPc[w] \in {"unlock", "done"}
  /\ \A w \in Writers : callPc[w] # "returned" => answer[w] = "none"
  /\ \A w \in lateLocked : /\ workPc[w] = "none" /\ w \in ctxDone
                           /\ callPc[w] \in {"check", "returned"}

\* runIO has nobody in it before the first call.
LEMMA RunIOInit == Init => RunIOInv
  BY LinuxDeviceAssumption DEF Init, Writes!Init, RunIOInv

\* Every step keeps one writer in the turn of runIO at most.
LEMMA RunIOStep == TypeOK /\ RunIOInv /\ [Next]_vars => RunIOInv'
  <1> SUFFICES ASSUME Writes!TypeOK, RunIOInv, [Writes!Next]_(Writes!ioVars) PROVE RunIOInv'
    BY WritesStep DEF TypeOK
  <1> USE LinuxDeviceAssumption DEF RunIOInv, Writes!TypeOK, Writes!Outcomes
  <1>1. ASSUME NEW w \in Writers, Writes!Call(w) PROVE RunIOInv'
    BY <1>1 DEF Writes!Call
  <1>2. ASSUME NEW w \in Writers, Writes!ContextDone(w) PROVE RunIOInv'
    BY <1>2 DEF Writes!ContextDone
  <1>3. ASSUME NEW w \in Writers, Writes!Lock(w) PROVE RunIOInv'
    BY <1>3 DEF Writes!Lock
  <1>4. ASSUME NEW w \in Writers, Writes!Refuse(w) PROVE RunIOInv'
    BY <1>4 DEF Writes!Refuse, Writes!Return
  <1>5. ASSUME NEW w \in Writers, Writes!Spawn(w) PROVE RunIOInv'
    BY <1>5 DEF Writes!Spawn
  <1>6. ASSUME NEW w \in Writers, Writes!Start(w) PROVE RunIOInv'
    BY <1>6 DEF Writes!Start
  <1>7. ASSUME NEW w \in Writers, NEW outcome \in {"ok", "error"}, Writes!Finish(w, outcome)
        PROVE RunIOInv'
    BY <1>7 DEF Writes!Finish
  <1>8. ASSUME NEW w \in Writers, Writes!Unlock(w) PROVE RunIOInv'
    BY <1>8 DEF Writes!Unlock
  <1>9. ASSUME NEW w \in Writers, Writes!GiveUp(w) \/ Writes!Receive(w) PROVE RunIOInv'
    BY <1>9 DEF Writes!GiveUp, Writes!Receive, Writes!Return
  <1>10. CASE UNCHANGED Writes!ioVars
    BY <1>10 DEF Writes!ioVars
  <1> QED
    BY <1>1, <1>2, <1>3, <1>4, <1>5, <1>6, <1>7, <1>8, <1>9, <1>10 DEF Writes!Next

\* Every step keeps the types; runIO keeps those of its own variables.
LEMMA TypeStep == TypeOK /\ RunIOInv /\ [Next]_vars => TypeOK'
  <1> SUFFICES ASSUME TypeOK, RunIOInv, [Next]_vars PROVE TypeOK'
    OBVIOUS
  <1>w. Writes!TypeOK'
    BY WritesTypeStep, WritesStep DEF TypeOK
  <1>m. MaxReports \in Nat
    BY LinuxDeviceAssumption
  <1>c. ASSUME NEW c \in AllCalls, Calling(c) PROVE afterClose' \subseteq AllCalls
    BY <1>c DEF TypeOK, Calling
  <1>f. Fd \in {"none", "number", "minus1"} /\ (FdEffect => nonblock' \in BOOLEAN)
    BY DEF TypeOK, Fd, FdEffect
  <1> USE <1>w DEF TypeOK
  <1>1. CASE Report
    <2>1. /\ Append(queue, sent + 1) \in Seq(1..MaxReports) /\ sent' \in 0..MaxReports
          /\ queue' = Append(queue, sent + 1)
      BY <1>1, <1>m, AppendProperties DEF Report
    <2> QED
      BY <1>1, <2>1 DEF Report, file, readVars, writeVars, featVars, history
  <1>2. CASE Unplug \/ Close \/ Reuse
    BY <1>2 DEF Unplug, Close, Reuse, file, hidraw, readVars, writeVars, featVars, history
  <1>3. ASSUME NEW r \in Readers, ReadCall(r) PROVE TypeOK'
    BY <1>3, <1>c DEF ReadCall, ReadPcTo, AllCalls, file, hidraw, writeVars, featVars
  <1>4. ASSUME NEW r \in Readers, ReadContextDone(r) PROVE TypeOK'
    BY <1>4 DEF ReadContextDone, file, hidraw, writeVars, featVars, history
  <1>5. ASSUME NEW r \in Readers, ReadFd(r) PROVE TypeOK'
    <2>1. /\ fd' \in [Readers -> {"none", "number", "minus1"}] /\ nonblock' \in BOOLEAN
          /\ readPc' \in [Readers -> {"idle", "lock", "fd", "check", "poll", "read", "unlock",
                                      "returned"}]
      BY <1>5, <1>f DEF ReadFd, ReadPcTo
    <2> QED
      BY <1>5, <2>1 DEF ReadFd, hidraw, writeVars, featVars, history
  <1>6. ASSUME NEW r \in Readers,
               \/ ReadLock(r) \/ ReadCancelled(r) \/ ReadChecked(r) \/ PollReady(r)
               \/ PollTimeout(r) \/ ReadError(r) \/ ReadAgain(r)
        PROVE TypeOK'
    BY <1>6 DEF ReadLock, ReadCancelled, ReadChecked, PollReady, PollTimeout, ReadError, ReadAgain,
       ReadPcTo, file, hidraw, writeVars, featVars, history
  <1>7. ASSUME NEW r \in Readers, ReadReport(r) PROVE TypeOK'
    <2>1. Head(queue) \in 1..MaxReports /\ Tail(queue) \in Seq(1..MaxReports)
      BY <1>7, HeadTailProperties DEF ReadReport
    <2>2. got' \in [Readers -> 0..Foreign]
      BY <1>7, <1>m, <2>1 DEF ReadReport, Foreign
    <2> QED
      BY <1>7, <2>1, <2>2 DEF ReadReport, ReadPcTo, file, writeVars, featVars, history
  <1>8. ASSUME NEW r \in Readers, ReadForeign(r) PROVE TypeOK'
    <2>1. got' \in [Readers -> 0..Foreign]
      BY <1>8, <1>m DEF ReadForeign, Foreign
    <2> QED
      BY <1>8, <2>1 DEF ReadForeign, ReadPcTo, AllCalls, file, hidraw, writeVars, featVars
  <1>9. ASSUME NEW r \in Readers, ReadReturn(r) PROVE TypeOK'
    BY <1>9 DEF ReadReturn, ReadOutcome, ReadPcTo, file, hidraw, writeVars, featVars, history
  <1>10. ASSUME NEW w \in Writers, WriteCall(w) PROVE TypeOK'
    BY <1>10, <1>c DEF WriteCall, Writes!Call, AllCalls, notWrite, hidraw, readVars, featVars
  <1>11. ASSUME NEW w \in Writers, WriteStep(w) PROVE TypeOK'
    <2>1. \A v \in refs : workPc'[v] = "native"
      BY <1>11 DEF WriteStep, Writes!ContextDone, Writes!Lock, Writes!Refuse, Writes!Spawn,
         Writes!Unlock, Writes!GiveUp, Writes!Receive, Writes!TypeOK, RunIOInv
    <2> QED
      BY <1>11, <2>1 DEF WriteStep, notWrite, hidraw, readVars, featVars, history
  <1>12. ASSUME NEW w \in Writers, WriteStart(w) PROVE TypeOK'
    <2>1. refs' \subseteq {v \in Writers : workPc'[v] = "native"}
      BY <1>12 DEF WriteStart, Writes!Start, Writes!TypeOK
    <2> QED
      BY <1>12, <2>1 DEF WriteStart, notWrite, hidraw, readVars, featVars, history
  <1>13. ASSUME NEW w \in Writers, WriteFinish(w) PROVE TypeOK'
    <2>1. refs' \subseteq {v \in Writers : workPc'[v] = "native"}
      BY <1>13 DEF WriteFinish, Writes!Finish, Writes!TypeOK
    <2> QED
      BY <1>13, <2>1 DEF WriteFinish, hidraw, readVars, featVars, history
  <1>14. ASSUME NEW f \in Features, FeatureFd(f) PROVE TypeOK'
    <2>1. /\ featFd' \in [Features -> {"none", "number", "minus1"}] /\ nonblock' \in BOOLEAN
          /\ featPc' \in [Features -> {"idle", "ioctl", "returned"}]
          /\ afterClose' \subseteq AllCalls
      BY <1>14, <1>f, <1>c DEF FeatureFd, AllCalls
    <2> QED
      BY <1>14, <2>1 DEF FeatureFd, hidraw, readVars, writeVars
  <1>15. ASSUME NEW f \in Features, FeatureIoctl(f) PROVE TypeOK'
    BY <1>15 DEF FeatureIoctl, AllCalls, file, hidraw, readVars, writeVars
  <1>16. CASE UNCHANGED vars
    BY <1>16 DEF vars, file, hidraw, readVars, writeVars, featVars, history
  <1> QED
    BY <1>1, <1>2, <1>3, <1>4, <1>5, <1>6, <1>7, <1>8, <1>9, <1>10, <1>11, <1>12, <1>13, <1>14,
       <1>15, <1>16 DEF Next, Read
-----------------------------------------------------------------------------
(* Writes have their turn one at a time                                    *)

\* A step of the device is a step of the serial order of writes.
LEMMA WritesSerialStep ==
  TypeOK /\ RunIOInv /\ [Next]_vars => [Writes!Serial!Next]_(Writes!Serial!vars)
  <1> DEFINE asked  == {w \in Writers : callPc[w] # "idle"}
             begun  == {w \in Writers : workPc[w] \in {"native", "unlock", "done"}}
             active == {w \in Writers : workPc[w] = "native"}
  <1> SUFFICES ASSUME Writes!TypeOK, RunIOInv, [Writes!Next]_(Writes!ioVars)
               PROVE  UNCHANGED <<asked, begun, active, answer>> \/ Writes!Serial!Next
    BY WritesStep DEF TypeOK, Writes!Serial!vars
  <1> USE LinuxDeviceAssumption DEF RunIOInv, Writes!TypeOK
  <1>1. ASSUME NEW w \in Writers, Writes!Call(w) PROVE Writes!Serial!Next
    <2>1. Writes!Serial!Ask(w)
      BY <1>1 DEF Writes!Call, Writes!Serial!Ask
    <2> QED
      BY <2>1 DEF Writes!Serial!Next
  <1>2. ASSUME NEW w \in Writers, Writes!ContextDone(w) \/ Writes!Lock(w) \/ Writes!Spawn(w)
        PROVE UNCHANGED <<asked, begun, active, answer>>
    BY <1>2 DEF Writes!ContextDone, Writes!Lock, Writes!Spawn
  <1>3. ASSUME NEW w \in Writers, Writes!Refuse(w) \/ Writes!GiveUp(w) PROVE Writes!Serial!Next
    <2>1. Writes!Serial!Fail(w)
      BY <1>3 DEF Writes!Refuse, Writes!GiveUp, Writes!Return, Writes!Serial!Fail
    <2> QED
      BY <2>1 DEF Writes!Serial!Next
  <1>4. ASSUME NEW w \in Writers, Writes!Start(w) PROVE Writes!Serial!Next
    <2>1. active = {}
      BY <1>4 DEF Writes!Start
    <2>2. callPc[w] # "idle"
      BY <1>4 DEF Writes!Start
    <2>3. Writes!Serial!Begin(w)
      BY <1>4, <2>1, <2>2 DEF Writes!Start, Writes!Serial!Begin
    <2> QED
      BY <2>3 DEF Writes!Serial!Next
  <1>5. ASSUME NEW w \in Writers, NEW outcome \in {"ok", "error"}, Writes!Finish(w, outcome)
        PROVE Writes!Serial!Next
    <2>1. Writes!Serial!End(w)
      BY <1>5 DEF Writes!Finish, Writes!Serial!End
    <2> QED
      BY <2>1 DEF Writes!Serial!Next
  <1>6. ASSUME NEW w \in Writers, Writes!Unlock(w)
        PROVE UNCHANGED <<asked, begun, active, answer>>
    BY <1>6 DEF Writes!Unlock
  <1>7. ASSUME NEW w \in Writers, Writes!Receive(w) PROVE Writes!Serial!Next
    <2>1. w \in asked /\ w \in begun \ active /\ answer[w] = "none"
      BY <1>7 DEF Writes!Receive
    <2>2. result[w] \in {"ok", "error"}
      BY <1>7 DEF Writes!Receive, Writes!Outcomes
    <2>3. Writes!Serial!Succeed(w) \/ Writes!Serial!Fail(w)
      BY <1>7, <2>1, <2>2
      DEF Writes!Receive, Writes!Return, Writes!Serial!Succeed, Writes!Serial!Fail
    <2> QED
      BY <2>3 DEF Writes!Serial!Next
  <1>8. CASE UNCHANGED Writes!ioVars
    BY <1>8 DEF Writes!ioVars
  <1> QED
    BY <1>1, <1>2, <1>3, <1>4, <1>5, <1>6, <1>7, <1>8 DEF Writes!Next, Writes!Outcomes

-----------------------------------------------------------------------------
(* Reads have their turn one at a time                                     *)

(***************************************************************************)
(* The read with the mutex is the one that is neither before its Lock nor  *)
(* after its Unlock, and it asks for the descriptor once.                  *)
(***************************************************************************)
ReadInv ==
  /\ \A r \in Readers : readMu = r <=> Reading(r)
  /\ \A r \in Readers : fd[r] = "none" <=> readPc[r] \in {"idle", "lock", "fd"}
  /\ \A r \in Readers : readPc[r] # "returned" => readAnswer[r] = "none"
  /\ \A r \in Readers : readPc[r] = "read" => fd[r] = "number"

\* Nobody reads before the first call.
LEMMA ReadInit == Init => ReadInv
  BY LinuxDeviceAssumption DEF Init, ReadInv, Reading

\* Every step keeps the read mutex with its reader.
LEMMA ReadStep == TypeOK /\ ReadInv /\ [Next]_vars => ReadInv'
  <1> SUFFICES ASSUME TypeOK, ReadInv, [Next]_vars PROVE ReadInv'
    OBVIOUS
  <1>n. Nobody \notin Readers
    BY LinuxDeviceAssumption
  <1>t. /\ readMu \in Readers \union {Nobody}
        /\ readPc \in [Readers -> {"idle", "lock", "fd", "check", "poll", "read", "unlock",
                                   "returned"}]
        /\ fd \in [Readers -> {"none", "number", "minus1"}]
        /\ readAnswer \in [Readers -> {"none", "ok", "error"}]
    BY DEF TypeOK
  <1> USE <1>n, <1>t DEF ReadInv, Reading
  <1>1. CASE Report \/ Unplug \/ Close \/ Reuse
    BY <1>1 DEF Report, Unplug, Close, Reuse, readVars
  <1>2. ASSUME NEW r \in Readers, ReadCall(r) PROVE ReadInv'
    BY <1>2 DEF ReadCall, ReadPcTo
  <1>3. ASSUME NEW r \in Readers, ReadContextDone(r) PROVE ReadInv'
    BY <1>3 DEF ReadContextDone
  <1>4. ASSUME NEW r \in Readers, ReadLock(r) PROVE ReadInv'
    BY <1>4 DEF ReadLock, ReadPcTo
  <1>5. ASSUME NEW r \in Readers, ReadFd(r) PROVE ReadInv'
    <2>1. Fd # "none"
      BY DEF Fd
    <2> QED
      BY <1>5, <2>1 DEF ReadFd, ReadPcTo
  <1>6. ASSUME NEW r \in Readers,
               \/ ReadCancelled(r) \/ ReadChecked(r) \/ PollTimeout(r) \/ ReadReport(r)
               \/ ReadError(r) \/ ReadAgain(r) \/ ReadForeign(r)
        PROVE ReadInv'
    BY <1>6 DEF ReadCancelled, ReadChecked, PollTimeout, ReadReport, ReadError, ReadAgain,
       ReadForeign, ReadPcTo
  <1>7. ASSUME NEW r \in Readers, PollReady(r) PROVE ReadInv'
    BY <1>7 DEF PollReady, Ready, ReadPcTo
  <1>8. ASSUME NEW r \in Readers, ReadReturn(r) PROVE ReadInv'
    BY <1>8 DEF ReadReturn, ReadPcTo
  <1>9. ASSUME NEW w \in Writers, WriteCall(w) \/ WriteStep(w) \/ WriteStart(w) \/ WriteFinish(w)
        PROVE ReadInv'
    BY <1>9 DEF WriteCall, WriteStep, WriteStart, WriteFinish, notWrite, readVars
  <1>10. ASSUME NEW f \in Features, FeatureFd(f) \/ FeatureIoctl(f) PROVE ReadInv'
    BY <1>10 DEF FeatureFd, FeatureIoctl, readVars
  <1>11. CASE UNCHANGED vars
    BY <1>11 DEF vars, readVars
  <1> QED
    BY <1>1, <1>2, <1>3, <1>4, <1>5, <1>6, <1>7, <1>8, <1>9, <1>10, <1>11 DEF Next, Read

\* A step of the device is a step of the serial order of reads.
LEMMA ReadsSerialStep ==
  TypeOK /\ ReadInv /\ [Next]_vars => [ReadSerial!Next]_(ReadSerial!vars)
  <1> DEFINE asked  == {r \in Readers : readPc[r] # "idle"}
             begun  == {r \in Readers : fd[r] # "none"}
             active == {r \in Readers : readPc[r] \in {"check", "poll", "read"}}
             Stutter == UNCHANGED <<asked, begun, active, readAnswer>>
  <1> SUFFICES ASSUME TypeOK, ReadInv, [Next]_vars PROVE Stutter \/ ReadSerial!Next
    BY DEF ReadSerial!vars
  <1>n. Nobody \notin Readers
    BY LinuxDeviceAssumption
  <1>t. /\ readMu \in Readers \union {Nobody}
        /\ readPc \in [Readers -> {"idle", "lock", "fd", "check", "poll", "read", "unlock",
                                   "returned"}]
        /\ fd \in [Readers -> {"none", "number", "minus1"}]
        /\ readAnswer \in [Readers -> {"none", "ok", "error"}]
    BY DEF TypeOK
  <1> USE <1>n, <1>t DEF ReadInv, Reading
  <1>1. CASE Report \/ Unplug \/ Close \/ Reuse
    BY <1>1 DEF Report, Unplug, Close, Reuse, readVars
  <1>2. ASSUME NEW r \in Readers, ReadCall(r) PROVE ReadSerial!Next
    <2>1. ReadSerial!Ask(r)
      BY <1>2 DEF ReadCall, ReadPcTo, ReadSerial!Ask
    <2> QED
      BY <2>1 DEF ReadSerial!Next
  <1>3. ASSUME NEW r \in Readers,
               ReadContextDone(r) \/ ReadLock(r) \/ ReadChecked(r) \/ PollReady(r) \/ PollTimeout(r)
               \/ ReadAgain(r)
        PROVE Stutter
    BY <1>3 DEF ReadContextDone, ReadLock, ReadChecked, PollReady, PollTimeout, ReadAgain, ReadPcTo
  <1>4. ASSUME NEW r \in Readers, ReadFd(r) PROVE ReadSerial!Next
    <2>1. active = {}
      BY <1>4 DEF ReadFd
    <2>2. Fd # "none"
      BY DEF Fd
    <2>3. ReadSerial!Begin(r)
      BY <1>4, <2>1, <2>2 DEF ReadFd, ReadPcTo, ReadSerial!Begin
    <2> QED
      BY <2>3 DEF ReadSerial!Next
  <1>5. ASSUME NEW r \in Readers,
               ReadCancelled(r) \/ ReadReport(r) \/ ReadError(r) \/ ReadForeign(r)
        PROVE ReadSerial!Next
    <2>1. ReadSerial!End(r)
      BY <1>5 DEF ReadCancelled, ReadReport, ReadError, ReadForeign, ReadPcTo, ReadSerial!End
    <2> QED
      BY <2>1 DEF ReadSerial!Next
  <1>6. ASSUME NEW r \in Readers, ReadReturn(r) PROVE ReadSerial!Next
    <2>1. r \in asked /\ r \in begun \ active /\ readAnswer[r] = "none"
      BY <1>6 DEF ReadReturn
    <2>2. ReadOutcome(r) \in {"ok", "error"}
      BY DEF ReadOutcome
    <2>3. ReadSerial!Succeed(r) \/ ReadSerial!Fail(r)
      BY <1>6, <2>1, <2>2 DEF ReadReturn, ReadPcTo, ReadSerial!Succeed, ReadSerial!Fail
    <2> QED
      BY <2>3 DEF ReadSerial!Next
  <1>7. ASSUME NEW w \in Writers, WriteCall(w) \/ WriteStep(w) \/ WriteStart(w) \/ WriteFinish(w)
        PROVE Stutter
    BY <1>7 DEF WriteCall, WriteStep, WriteStart, WriteFinish, notWrite, readVars
  <1>8. ASSUME NEW f \in Features, FeatureFd(f) \/ FeatureIoctl(f) PROVE Stutter
    BY <1>8 DEF FeatureFd, FeatureIoctl, readVars
  <1>9. CASE UNCHANGED vars
    BY <1>9 DEF vars, readVars
  <1> QED
    BY <1>1, <1>2, <1>3, <1>4, <1>5, <1>6, <1>7, <1>8, <1>9 DEF Next, Read

(***************************************************************************)
(* Operations of a kind have their turn one at a time, and a write that    *)
(* was cancelled while it waited for its own never reaches the device      *)
(* (io_linux.go:39-63, hid_linux.go:155).                                  *)
(***************************************************************************)
THEOREM TurnsCorrect == Spec => OneAtATime
  <1>1. Init => Writes!Serial!Init
    BY DEF Init, Writes!Init, Writes!Serial!Init
  <1>2. Init => ReadSerial!Init
    BY DEF Init, ReadSerial!Init
  <1>3. RunIOInv => WritesQueuedCancelNeverStarts
    BY DEF RunIOInv, WritesQueuedCancelNeverStarts, Writes!QueuedCancelNeverStarts
  <1> QED
    BY <1>1, <1>2, <1>3, TypeInit, TypeStep, RunIOInit, RunIOStep, ReadInit, ReadStep,
       WritesSerialStep, ReadsSerialStep, PTL
    DEF Spec, OneAtATime, WritesSerial, Writes!ImplementsSerialIO, Writes!Serial!Spec, ReadsSerial,
        ReadSerial!Spec
-----------------------------------------------------------------------------
(* The descriptor number                                                   *)

(***************************************************************************)
(* The number is the device's until the file is closed, which knows of     *)
(* every native write; a call made later gets no number at all, and one    *)
(* that has acted on a foreign file was made before.                       *)
(***************************************************************************)
NumberInv ==
  /\ ~closed => number = "device" /\ refs = {w \in Writers : workPc[w] = "native"}
  /\ afterClose # {} => number # "device"
  /\ \A r \in Readers : r \in afterClose => fd[r] # "number"
  /\ \A f \in Features : f \in afterClose => featFd[f] # "number"
  /\ foreignUse \subseteq Readers \union Features
  /\ \A r \in Readers : r \in foreignUse => readPc[r] # "idle"
  /\ \A f \in Features : f \in foreignUse => featPc[f] # "idle"
  /\ LateCallsHarmless

\* The descriptor number is the device's at first.
LEMMA NumberInit == Init => NumberInv
  BY DEF Init, Writes!Init, NumberInv, LateCallsHarmless

\* Every step keeps what calls know of the descriptor number.
LEMMA NumberStep == TypeOK /\ RunIOInv /\ ReadInv /\ NumberInv /\ [Next]_vars => NumberInv'
  <1> SUFFICES ASSUME TypeOK, RunIOInv, ReadInv, NumberInv, [Next]_vars PROVE NumberInv'
    OBVIOUS
  <1>d. /\ Readers \intersect Writers = {}
        /\ Features \intersect (Readers \union Writers) = {}
    BY LinuxDeviceAssumption
  <1>t. /\ readPc \in [Readers -> {"idle", "lock", "fd", "check", "poll", "read", "unlock",
                                   "returned"}]
        /\ fd \in [Readers -> {"none", "number", "minus1"}]
        /\ workPc \in [Writers -> {"none", "ready", "native", "unlock", "done"}]
        /\ featPc \in [Features -> {"idle", "ioctl", "returned"}]
        /\ featFd \in [Features -> {"none", "number", "minus1"}]
    BY DEF TypeOK, Writes!TypeOK
  <1> USE DEF NumberInv, LateCallsHarmless
  <1>1. CASE Report \/ Unplug
    BY <1>1 DEF Report, Unplug, file, readVars, writeVars, featVars, history
  <1>2. CASE Close \/ Reuse
    BY <1>2 DEF Close, Reuse, readVars, writeVars, featVars, history
  <1>3. ASSUME NEW r \in Readers, ReadCall(r) PROVE NumberInv'
    <2>1. fd[r] = "none" /\ r \notin foreignUse
      BY <1>3 DEF ReadCall, ReadInv
    <2> QED
      BY <1>3, <1>d, <1>t, <2>1
      DEF ReadCall, Calling, ReadPcTo, file, writeVars, featVars
  <1>4. ASSUME NEW r \in Readers, ReadFd(r) PROVE NumberInv'
    <2>1. r \in afterClose => Fd # "number"
      BY DEF Fd
    <2> QED
      BY <1>4, <1>t, <2>1 DEF ReadFd, ReadPcTo, writeVars, featVars, history
  <1>5. ASSUME NEW r \in Readers,
               \/ ReadContextDone(r) \/ ReadLock(r) \/ ReadCancelled(r) \/ ReadChecked(r)
               \/ PollReady(r) \/ PollTimeout(r) \/ ReadReport(r) \/ ReadError(r) \/ ReadAgain(r)
               \/ ReadReturn(r)
        PROVE NumberInv'
    BY <1>5, <1>t DEF ReadContextDone, ReadLock, ReadCancelled, ReadChecked, PollReady,
       PollTimeout, ReadReport, ReadError, ReadAgain, ReadReturn, ReadPcTo, file, writeVars,
       featVars, history
  <1>6. ASSUME NEW r \in Readers, ReadForeign(r) PROVE NumberInv'
    <2>1. fd[r] = "number"
      BY <1>6 DEF ReadForeign, ReadInv
    <2>2. foreignUse' = foreignUse \union {r} /\ r \notin afterClose /\ UNCHANGED afterClose
      BY <1>6, <2>1 DEF ReadForeign
    <2> QED
      BY <1>6, <1>d, <1>t, <2>2 DEF ReadForeign, ReadPcTo, file, writeVars, featVars
  <1>7. ASSUME NEW w \in Writers, WriteCall(w) PROVE NumberInv'
    BY <1>7, <1>d DEF WriteCall, Writes!Call, Calling, notWrite, readVars, featVars
  <1>8. ASSUME NEW w \in Writers, WriteStep(w) PROVE NumberInv'
    <2>1. {v \in Writers : workPc'[v] = "native"} = {v \in Writers : workPc[v] = "native"}
      BY <1>8, <1>t DEF WriteStep, Writes!ContextDone, Writes!Lock, Writes!Refuse, Writes!Spawn,
         Writes!Unlock, Writes!GiveUp, Writes!Receive, RunIOInv
    <2> QED
      BY <1>8, <2>1 DEF WriteStep, notWrite, readVars, featVars, history
  <1>9. ASSUME NEW w \in Writers, WriteStart(w) PROVE NumberInv'
    <2>1. {v \in Writers : workPc'[v] = "native"} = {v \in Writers : workPc[v] = "native"} \union {w}
      BY <1>9, <1>t DEF WriteStart, Writes!Start
    <2> QED
      BY <1>9, <2>1 DEF WriteStart, notWrite, readVars, featVars, history
  <1>10. ASSUME NEW w \in Writers, WriteFinish(w) PROVE NumberInv'
    <2>1. {v \in Writers : workPc'[v] = "native"} = {v \in Writers : workPc[v] = "native"} \ {w}
      BY <1>10, <1>t DEF WriteFinish, Writes!Finish
    <2> QED
      BY <1>10, <2>1 DEF WriteFinish, readVars, featVars, history
  <1>11. ASSUME NEW f \in Features, FeatureFd(f) PROVE NumberInv'
    <2>1. f \notin foreignUse /\ (number # "device" => Fd = "minus1")
      BY <1>11 DEF FeatureFd, Fd
    <2>2. /\ featFd' = [featFd EXCEPT ![f] = Fd] /\ featPc' = [featPc EXCEPT ![f] = "ioctl"]
          /\ afterClose' = IF number # "device" THEN afterClose \union {f} ELSE afterClose
          /\ UNCHANGED <<number, closed, refs, readVars, writeVars, foreignUse>>
      BY <1>11 DEF FeatureFd, Calling
    <2> QED
      BY <1>d, <1>t, <2>1, <2>2 DEF readVars, writeVars
  <1>12. ASSUME NEW f \in Features, FeatureIoctl(f) PROVE NumberInv'
    BY <1>12, <1>d, <1>t DEF FeatureIoctl, file, readVars, writeVars
  <1>13. CASE UNCHANGED vars
    BY <1>13 DEF vars, file, readVars, writeVars, featVars, history
  <1> QED
    BY <1>1, <1>2, <1>3, <1>4, <1>5, <1>6, <1>7, <1>8, <1>9, <1>10, <1>11, <1>12, <1>13
    DEF Next, Read

(***************************************************************************)
(* Close alone sets closed, and gives the number up only without           *)
(* references.                                                             *)
(***************************************************************************)
LEMMA CloseStep ==
  ASSUME NumberInv, [Next]_vars, closed' # closed, number' # number
  PROVE  \A w \in Writers : workPc[w] # "native"
  <1>1. CASE Close
    BY <1>1 DEF Close, NumberInv
  <1>2. CASE Report \/ Unplug \/ Reuse
    BY <1>2 DEF Report, Unplug, Reuse, file
  <1>3. ASSUME NEW r \in Readers,
               ReadCall(r) \/ ReadContextDone(r) \/ Read(r) \/ ReadAgain(r) \/ ReadForeign(r)
        PROVE UNCHANGED closed
    BY <1>3 DEF ReadCall, ReadContextDone, Read, ReadAgain, ReadForeign, ReadLock, ReadFd,
       ReadCancelled, ReadChecked, PollReady, PollTimeout, ReadReport, ReadError, ReadReturn, file
  <1>4. ASSUME NEW w \in Writers, WriteCall(w) \/ WriteStep(w) \/ WriteStart(w) \/ WriteFinish(w)
        PROVE UNCHANGED closed
    BY <1>4 DEF WriteCall, WriteStep, WriteStart, WriteFinish, notWrite
  <1>5. ASSUME NEW f \in Features, FeatureFd(f) \/ FeatureIoctl(f) PROVE UNCHANGED closed
    BY <1>5 DEF FeatureFd, FeatureIoctl, file
  <1>6. CASE UNCHANGED vars
    BY <1>6 DEF vars, file
  <1> QED
    BY <1>1, <1>2, <1>3, <1>4, <1>5, <1>6 DEF Next

(***************************************************************************)
(* Close and the reuse of the number harm neither a write that is under    *)
(* way nor, through later calls, another file (hid_linux.go:158, :175).    *)
(***************************************************************************)
THEOREM DescriptorCorrect == Spec => DescriptorSafe
  <1>1. NumberInv => LateCallsHarmless
    BY DEF NumberInv
  <1>2. NumberInv /\ [Next]_vars =>
          [closed' # closed /\ number' # number => \A w \in Writers : workPc[w] # "native"]_vars
    BY CloseStep
  <1> QED
    BY <1>1, <1>2, TypeInit, TypeStep, RunIOInit, RunIOStep, ReadInit, ReadStep, NumberInit,
       NumberStep, PTL
    DEF Spec, DescriptorSafe, CloseSparesWrites
-----------------------------------------------------------------------------
(* Reports                                                                 *)

(***************************************************************************)
(* A report that was sent is in the kernel's queue or with one read, and   *)
(* nowhere twice; a read that has one returns it.                          *)
(***************************************************************************)
Queued == {queue[k] : k \in 1..Len(queue)}

ReportInv ==
  /\ \A i \in 1..sent : i \in Queued \/ \E r \in Readers : got[r] = i
  /\ \A k \in 1..Len(queue) : queue[k] <= sent
  /\ \A j, k \in 1..Len(queue) : queue[j] = queue[k] => j = k
  /\ \A r \in Readers : got[r] <= sent \/ got[r] = Foreign
  /\ \A r \in Readers : got[r] \notin Queued
  /\ \A q, r \in Readers : got[q] = got[r] /\ got[q] \in 1..sent => q = r
  /\ \A r \in Readers : got[r] # 0 => readPc[r] \in {"unlock", "returned"}
  /\ \A r \in Readers : readAnswer[r] = "error" => got[r] = 0

\* No report was taken before the first call.
LEMMA ReportInit == Init => ReportInv
  BY LinuxDeviceAssumption, EmptySeq DEF Init, ReportInv, Queued

\* Every step keeps a report that was taken with the Read that took it.
LEMMA ReportStep == TypeOK /\ ReadInv /\ ReportInv /\ [Next]_vars => ReportInv'
  <1> SUFFICES ASSUME TypeOK, ReadInv, ReportInv, [Next]_vars PROVE ReportInv'
    OBVIOUS
  <1>m. MaxReports \in Nat
    BY LinuxDeviceAssumption
  <1>t. /\ queue \in Seq(1..MaxReports) /\ sent \in 0..MaxReports
        /\ readPc \in [Readers -> {"idle", "lock", "fd", "check", "poll", "read", "unlock",
                                   "returned"}]
        /\ readAnswer \in [Readers -> {"none", "ok", "error"}]
        /\ got \in [Readers -> 0..Foreign]
    BY DEF TypeOK
  <1>l. Len(queue) \in Nat /\ \A k \in 1..Len(queue) : queue[k] \in 1..MaxReports
    BY <1>t, LenProperties, ElementOfSeq
  <1>1. CASE Report
    <2>1. /\ sent' = sent + 1 /\ sent + 1 \in 1..MaxReports
          /\ Len(queue') = Len(queue) + 1 /\ queue'[Len(queue) + 1] = sent + 1
          /\ \A k \in 1..Len(queue) : queue'[k] = queue[k]
      BY <1>1, <1>m, <1>t, AppendProperties DEF Report
    <2>2. Queued' = Queued \union {sent + 1}
      BY <1>l, <2>1 DEF Queued
    <2>3. UNCHANGED <<got, readPc, readAnswer>>
      BY <1>1 DEF Report, readVars
    <2>4. \A r \in Readers : got[r] # sent + 1
      BY <1>m, <1>t, <2>1 DEF ReportInv, Foreign
    <2>5. \A i \in 1..sent' : i \in Queued' \/ \E r \in Readers : got'[r] = i
      BY <1>t, <2>1, <2>2, <2>3 DEF ReportInv
    <2>6. /\ \A k \in 1..Len(queue') : queue'[k] <= sent'
          /\ \A j, k \in 1..Len(queue') : queue'[j] = queue'[k] => j = k
      <3>1. \A k \in 1..Len(queue) : queue'[k] <= sent
        BY <2>1 DEF ReportInv
      <3>2. \A k \in 1..Len(queue') : k \in 1..Len(queue) \/ k = Len(queue) + 1
        BY <1>l, <2>1
      <3>3. \A j, k \in 1..Len(queue) : queue'[j] = queue'[k] => j = k
        BY <2>1 DEF ReportInv
      <3>4. \A k \in 1..Len(queue) : queue'[k] # sent + 1
        BY <1>t, <1>l, <2>1, <3>1
      <3>5. \A k \in 1..Len(queue) : queue'[k] <= sent + 1
        BY <1>t, <1>l, <2>1, <3>1
      <3> QED
        BY <1>t, <2>1, <3>2, <3>3, <3>4, <3>5
    <2>7. /\ \A r \in Readers : got'[r] <= sent' \/ got'[r] = Foreign
          /\ \A r \in Readers : got'[r] \notin Queued'
          /\ \A q, r \in Readers : got'[q] = got'[r] /\ got'[q] \in 1..sent' => q = r
      BY <1>m, <1>t, <2>1, <2>2, <2>3, <2>4 DEF ReportInv, Foreign
    <2> QED
      BY <2>3, <2>5, <2>6, <2>7 DEF ReportInv, Foreign
  <1>2. ASSUME NEW r \in Readers, ReadReport(r) PROVE ReportInv'
    <2>1. /\ queue # <<>> /\ queue' = Tail(queue) /\ sent' = sent
          /\ got' = [got EXCEPT ![r] = queue[1]]
          /\ readPc' = [readPc EXCEPT ![r] = "unlock"] /\ UNCHANGED readAnswer
          /\ readPc[r] = "read"
      BY <1>2, <1>t, HeadTailProperties DEF ReadReport, ReadPcTo
    <2>2. /\ Len(queue') = Len(queue) - 1 /\ Len(queue) >= 1
          /\ \A k \in 1..Len(queue) - 1 : queue'[k] = queue[k + 1]
      BY <1>t, <1>l, <2>1, HeadTailProperties, EmptySeq
    <2>3. Queued' = Queued \ {queue[1]} /\ queue[1] \in Queued
      <3>1. \A x \in Queued' : x \in Queued \ {queue[1]}
        BY <1>l, <2>2 DEF Queued, ReportInv
      <3>2. ASSUME NEW k \in 1..Len(queue), queue[k] # queue[1] PROVE queue[k] \in Queued'
        <4>1. k - 1 \in 1..Len(queue) - 1
          BY <1>l, <2>2, <3>2
        <4>2. queue'[k - 1] = queue[k]
          BY <1>l, <2>2, <4>1
        <4> QED
          BY <2>2, <4>1, <4>2 DEF Queued
      <3>3. \A x \in Queued \ {queue[1]} : x \in Queued'
        BY <3>2 DEF Queued
      <3>4. queue[1] \in Queued
        BY <1>l, <2>2 DEF Queued
      <3> QED
        BY <3>1, <3>3, <3>4
    <2>4. /\ \A i \in 1..sent' : i \in Queued' \/ \E q \in Readers : got'[q] = i
          /\ \A q \in Readers : got'[q] \notin Queued'
      <3>1. got[r] = 0
        BY <2>1 DEF ReportInv
      <3> QED
        BY <1>t, <2>1, <2>3, <3>1 DEF ReportInv
    <2>5. /\ \A k \in 1..Len(queue') : queue'[k] <= sent'
          /\ \A j, k \in 1..Len(queue') : queue'[j] = queue'[k] => j = k
      BY <1>l, <2>1, <2>2 DEF ReportInv
    <2>6. /\ \A q \in Readers : got'[q] <= sent' \/ got'[q] = Foreign
          /\ \A p, q \in Readers : got'[p] = got'[q] /\ got'[p] \in 1..sent' => p = q
      BY <1>t, <1>l, <2>1, <2>2, <2>3 DEF ReportInv
    <2>7. /\ \A q \in Readers : got'[q] # 0 => readPc'[q] \in {"unlock", "returned"}
          /\ \A q \in Readers : readAnswer'[q] = "error" => got'[q] = 0
      BY <1>t, <2>1 DEF ReportInv, ReadInv
    <2> QED
      BY <2>4, <2>5, <2>6, <2>7 DEF ReportInv, Foreign
  <1>3. ASSUME NEW r \in Readers, ReadForeign(r) PROVE ReportInv'
    <2>1. /\ got' = [got EXCEPT ![r] = Foreign] /\ UNCHANGED <<queue, sent, readAnswer>>
          /\ readPc' = [readPc EXCEPT ![r] = "unlock"] /\ readPc[r] = "read"
      BY <1>3 DEF ReadForeign, ReadPcTo, hidraw
    <2>2. Foreign \notin 1..sent /\ Foreign \notin Queued /\ Queued' = Queued
      BY <1>m, <1>t, <1>l, <2>1 DEF Foreign, Queued
    <2>3. got[r] = 0 /\ readAnswer[r] = "none"
      BY <2>1 DEF ReportInv, ReadInv
    <2> QED
      BY <1>t, <2>1, <2>2, <2>3 DEF ReportInv, Foreign
  <1>4. ASSUME NEW r \in Readers, ReadReturn(r) PROVE ReportInv'
    <2>1. /\ readPc' = [readPc EXCEPT ![r] = "returned"] /\ UNCHANGED <<queue, sent, got>>
          /\ readAnswer' = [readAnswer EXCEPT ![r] = IF got[r] # 0 THEN "ok" ELSE "error"]
      BY <1>4 DEF ReadReturn, ReadOutcome, ReadPcTo, hidraw
    <2>2. /\ \A q \in Readers : got[q] # 0 => readPc'[q] \in {"unlock", "returned"}
          /\ \A q \in Readers : readAnswer'[q] = "error" => got[q] = 0
      BY <1>t, <2>1 DEF ReportInv
    <2> QED
      BY <2>1, <2>2 DEF ReportInv, Queued, Foreign
  <1>5. ASSUME NEW r \in Readers,
               \/ ReadCall(r) \/ ReadContextDone(r) \/ ReadLock(r) \/ ReadFd(r)
               \/ ReadCancelled(r) \/ ReadChecked(r) \/ PollReady(r) \/ PollTimeout(r)
               \/ ReadError(r) \/ ReadAgain(r)
        PROVE ReportInv'
    <2>1. /\ UNCHANGED <<queue, sent, got, readAnswer>>
          /\ \A q \in Readers : readPc[q] \in {"unlock", "returned"} => readPc'[q] = readPc[q]
      BY <1>5, <1>t DEF ReadCall, ReadContextDone, ReadLock, ReadFd, ReadCancelled, ReadChecked,
         PollReady, PollTimeout, ReadError, ReadAgain, ReadPcTo, hidraw
    <2> QED
      BY <2>1 DEF ReportInv, Queued, Foreign
  <1>6. CASE Unplug \/ Close \/ Reuse
    BY <1>6 DEF Unplug, Close, Reuse, hidraw, readVars, ReportInv, Queued, Foreign
  <1>7. ASSUME NEW w \in Writers, WriteCall(w) \/ WriteStep(w) \/ WriteStart(w) \/ WriteFinish(w)
        PROVE ReportInv'
    BY <1>7 DEF WriteCall, WriteStep, WriteStart, WriteFinish, notWrite, hidraw, readVars,
       ReportInv, Queued, Foreign
  <1>8. ASSUME NEW f \in Features, FeatureFd(f) \/ FeatureIoctl(f) PROVE ReportInv'
    BY <1>8 DEF FeatureFd, FeatureIoctl, hidraw, readVars, ReportInv, Queued, Foreign
  <1>9. CASE UNCHANGED vars
    BY <1>9 DEF vars, hidraw, readVars, ReportInv, Queued, Foreign
  <1> QED
    BY <1>1, <1>2, <1>3, <1>4, <1>5, <1>6, <1>7, <1>8, <1>9 DEF Next, Read

(***************************************************************************)
(* Cancellation loses no report (io_linux_test.go:17).                     *)
(***************************************************************************)
THEOREM ReportsCorrect == Spec => []NoReportLost
  <1>1. TypeOK /\ ReportInv => NoReportLost
    <2> SUFFICES ASSUME TypeOK, ReportInv, NEW i \in 1..sent
                 PROVE  \/ \E k \in DOMAIN queue : queue[k] = i
                        \/ \E r \in Readers : /\ got[r] = i /\ readAnswer[r] # "error"
                                              /\ \A q \in Readers : got[q] = i => q = r
      BY DEF NoReportLost
    <2>1. DOMAIN queue = 1..Len(queue)
      BY LenProperties DEF TypeOK
    <2>2. CASE i \in Queued
      BY <2>1, <2>2 DEF Queued
    <2>3. ASSUME NEW r \in Readers, got[r] = i
          PROVE readAnswer[r] # "error" /\ \A q \in Readers : got[q] = i => q = r
      BY <2>3 DEF ReportInv, TypeOK
    <2> QED
      BY <2>2, <2>3 DEF ReportInv
  <1> QED
    BY <1>1, TypeInit, TypeStep, RunIOInit, RunIOStep, ReadInit, ReadStep, ReportInit, ReportStep,
       PTL DEF Spec
=============================================================================
