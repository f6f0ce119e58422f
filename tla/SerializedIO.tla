---------------------------- MODULE SerializedIO ----------------------------
(***************************************************************************)
(* runIO (io_linux.go): operations of one kind, each in a goroutine of its *)
(* own that keeps the mutex until the native call has ended, while the     *)
(* caller may give up before.  The module is instantiated by LinuxDevice,  *)
(* which says what the native call does.                                   *)
(***************************************************************************)
CONSTANTS Calls,     \* calls of runIO with the same mutex
          Nobody     \* the holder of a free mutex, none of Calls

VARIABLES
  mu,          \* the call that holds the mutex, itself or with its goroutine
  callPc,      \* where the caller is
  workPc,      \* where its goroutine is
  ctxDone,     \* the calls whose context is done
  result,      \* content of the result channel, which holds one
  answer,      \* what the call returned
  (* history *)
  lateLocked   \* calls whose context was done when they got the mutex

ioVars == <<mu, callPc, workPc, ctxDone, result, answer, lateLocked>>

Outcomes == {"ok", "error"}

TypeOK ==
  /\ mu \in Calls \union {Nobody}
  /\ callPc \in [Calls -> {"idle", "lock", "check", "select", "returned"}]
  /\ workPc \in [Calls -> {"none", "ready", "native", "unlock", "done"}]
  /\ ctxDone \subseteq Calls /\ lateLocked \subseteq Calls
  /\ result \in [Calls -> Outcomes \union {"none"}]
  /\ answer \in [Calls -> Outcomes \union {"none"}]

Init ==
  /\ mu = Nobody
  /\ callPc = [c \in Calls |-> "idle"] /\ workPc = [c \in Calls |-> "none"]
  /\ ctxDone = {} /\ lateLocked = {}
  /\ result = [c \in Calls |-> "none"] /\ answer = [c \in Calls |-> "none"]

Call(c) ==
  /\ callPc[c] = "idle"
  /\ callPc' = [callPc EXCEPT ![c] = "lock"]
  /\ UNCHANGED <<mu, workPc, ctxDone, result, answer, lateLocked>>

\* A deadline passes or somebody cancels, perhaps at once.
ContextDone(c) ==
  /\ callPc[c] \in {"lock", "check", "select"}
  /\ c \notin ctxDone
  /\ ctxDone' = ctxDone \union {c}
  /\ UNCHANGED <<mu, callPc, workPc, result, answer, lateLocked>>

Lock(c) ==
  /\ callPc[c] = "lock" /\ mu = Nobody
  /\ mu' = c
  /\ callPc' = [callPc EXCEPT ![c] = "check"]
  /\ lateLocked' = IF c \in ctxDone THEN lateLocked \union {c} ELSE lateLocked
  /\ UNCHANGED <<workPc, ctxDone, result, answer>>

Return(c, outcome) ==
  /\ callPc' = [callPc EXCEPT ![c] = "returned"]
  /\ answer' = [answer EXCEPT ![c] = outcome]

RefuseKeepsLock(c) ==   \* mutant: the early return leaves the mutex locked
  /\ callPc[c] = "check" /\ c \in ctxDone
  /\ Return(c, "error")
  /\ UNCHANGED <<mu, workPc, ctxDone, result, lateLocked>>

Refuse(c) ==
  /\ callPc[c] = "check" /\ c \in ctxDone
  /\ mu' = Nobody
  /\ Return(c, "error")
  /\ UNCHANGED <<workPc, ctxDone, result, lateLocked>>

SpawnUnchecked(c) ==    \* mutant: the context is not looked at under the mutex
  /\ callPc[c] = "check"
  /\ callPc' = [callPc EXCEPT ![c] = "select"]
  /\ workPc' = [workPc EXCEPT ![c] = "ready"]
  /\ UNCHANGED <<mu, ctxDone, result, answer, lateLocked>>

Spawn(c) ==
  /\ callPc[c] = "check" /\ c \notin ctxDone
  /\ callPc' = [callPc EXCEPT ![c] = "select"]
  /\ workPc' = [workPc EXCEPT ![c] = "ready"]
  /\ UNCHANGED <<mu, ctxDone, result, answer, lateLocked>>

-----------------------------------------------------------------------------
(* The goroutine: operation(), the send of its result, the deferred Unlock *)

Start(c) ==
  /\ workPc[c] = "ready"
  /\ workPc' = [workPc EXCEPT ![c] = "native"]
  /\ UNCHANGED <<mu, callPc, ctxDone, result, answer, lateLocked>>

Finish(c, outcome) ==
  /\ workPc[c] = "native"
  /\ result' = [result EXCEPT ![c] = outcome]
  /\ workPc' = [workPc EXCEPT ![c] = "unlock"]
  /\ UNCHANGED <<mu, callPc, ctxDone, answer, lateLocked>>

Unlock(c) ==
  /\ workPc[c] = "unlock"
  /\ mu' = Nobody
  /\ workPc' = [workPc EXCEPT ![c] = "done"]
  /\ UNCHANGED <<callPc, ctxDone, result, answer, lateLocked>>

-----------------------------------------------------------------------------
(* The caller's select; when both are ready Go takes either                *)

GiveUpUnlocks(c) ==     \* mutant: the caller unlocks, not the goroutine
  /\ callPc[c] = "select" /\ c \in ctxDone
  /\ mu' = Nobody
  /\ Return(c, "error")
  /\ UNCHANGED <<workPc, ctxDone, result, lateLocked>>

GiveUpWaits(c) ==       \* mutant: a cancelled caller waits for the native call
  /\ callPc[c] = "select" /\ c \in ctxDone /\ result[c] # "none"
  /\ Return(c, "error")
  /\ UNCHANGED <<mu, workPc, ctxDone, result, lateLocked>>

GiveUp(c) ==
  /\ callPc[c] = "select" /\ c \in ctxDone
  /\ Return(c, "error")
  /\ UNCHANGED <<mu, workPc, ctxDone, result, lateLocked>>

Receive(c) ==
  /\ callPc[c] = "select" /\ result[c] # "none"
  /\ Return(c, result[c])
  /\ UNCHANGED <<mu, workPc, ctxDone, result, lateLocked>>

Next ==
  \E c \in Calls :
    \/ Call(c) \/ ContextDone(c) \/ Lock(c) \/ Refuse(c) \/ Spawn(c)
    \/ Start(c) \/ Unlock(c) \/ GiveUp(c) \/ Receive(c)
    \/ \E outcome \in Outcomes : Finish(c, outcome)

Spec == Init /\ [][Next]_ioVars

-----------------------------------------------------------------------------
(***************************************************************************)
(* A call whose context is done while it waits for the mutex never reaches *)
(* the device (io_linux_test.go:118).                                      *)
(***************************************************************************)
QueuedCancelNeverStarts == \A c \in lateLocked : workPc[c] = "none"

(***************************************************************************)
(* Native calls of one kind never overlap, each is begun once, and success *)
(* is the success of one's own (io_linux.go:39).                           *)
(***************************************************************************)
Serial == INSTANCE SerialIO
            WITH asked  <- {c \in Calls : callPc[c] # "idle"},
                 begun  <- {c \in Calls : workPc[c] \in {"native", "unlock", "done"}},
                 active <- {c \in Calls : workPc[c] = "native"}

ImplementsSerialIO == Serial!Spec
=============================================================================
