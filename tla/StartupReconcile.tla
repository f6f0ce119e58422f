-------------------------- MODULE StartupReconcile --------------------------
(***************************************************************************)
(* reconcileLinuxStartupEvents and reconcileCMStartupEvents: the changes   *)
(* that were reported while the initial enumeration was running are        *)
(* applied to its result.  Both are the same loop over the snapshot and    *)
(* then the changes; the Windows one compares paths without regard to      *)
(* case.  The loop is given step by step and compared, at its end, with a  *)
(* definition that looks at the whole input at once.                       *)
(***************************************************************************)
EXTENDS Naturals, Sequences

CONSTANTS Devs,         \* devices
          MaxSnapshot,  \* bound: length of the enumeration's result
          MaxChanges    \* bound: number of staged changes

ASSUME ReconcileAssumption ==
  MaxSnapshot \in Nat /\ MaxChanges \in Nat

(***************************************************************************)
(* A path is a device and a spelling.  NoPath stands for an event that has *)
(* no DeviceInfo or an empty path.                                         *)
(***************************************************************************)
NoPath == <<>>
Paths == Devs \X {"lower", "UPPER"}
Connects == {"connected"} \X (Paths \union {NoPath})
Changes == {"connected", "disconnected"} \X (Paths \union {NoPath})

UpTo(S, n) == UNION {[1..k -> S] : k \in 0..n}

VARIABLES foldCase,            \* TRUE on Windows, FALSE on Linux
          snapshot, changes,   \* the input
          pos,                 \* events of the input handled so far
          state,               \* key to the position of the event kept for it
          order,               \* keys in the order of their first put
          collected,           \* keys of order looked up at the end so far
          result               \* positions of the events returned

vars == <<foldCase, snapshot, changes, pos, state, order, collected, result>>

ExactKey(path) == path   \* mutant: spellings are told apart

Key(path) == IF foldCase THEN <<path[1], "lower">> ELSE path

input == snapshot \o changes
Keys == Paths
None == 0

TypeOK == /\ foldCase \in BOOLEAN
          /\ snapshot \in Seq(Connects) /\ changes \in Seq(Changes)
          /\ pos \in 0..Len(input)
          /\ state \in [Keys -> 0..pos]
          /\ order \in Seq(Keys)
          /\ \A i, j \in DOMAIN order : order[i] = order[j] => i = j   \* no key twice
          /\ collected \in 0..Len(order)
          /\ result \in Seq(1..Len(input))

Init == /\ foldCase \in BOOLEAN
        /\ snapshot \in UpTo(Connects, MaxSnapshot)
        /\ changes \in UpTo(Changes, MaxChanges)
        /\ pos = 0
        /\ state = [k \in Keys |-> None]
        /\ order = <<>>
        /\ collected = 0
        /\ result = <<>>

Current == input[pos + 1]

Listed(key) == \E i \in DOMAIN order : order[i] = key

PutAgain ==        \* mutant: a key that comes back is listed once more
  /\ pos < Len(input) /\ Current[1] = "connected" /\ Current[2] # NoPath
  /\ LET key == Key(Current[2])
     IN /\ order' = IF state[key] # None THEN order ELSE Append(order, key)
        /\ state' = [state EXCEPT ![key] = pos + 1]
  /\ pos' = pos + 1
  /\ UNCHANGED <<foldCase, snapshot, changes, collected, result>>

Put ==
  /\ pos < Len(input) /\ Current[1] = "connected" /\ Current[2] # NoPath
  /\ LET key == Key(Current[2])
     IN /\ order' = IF Listed(key) THEN order ELSE Append(order, key)
        /\ state' = [state EXCEPT ![key] = pos + 1]
  /\ pos' = pos + 1
  /\ UNCHANGED <<foldCase, snapshot, changes, collected, result>>

DeleteUnlists ==   \* mutant: a removal also gives up the place in the order
  /\ pos < Len(input) /\ Current[1] = "disconnected" /\ Current[2] # NoPath
  /\ LET key == Key(Current[2])
         Other(k) == k # key
     IN /\ state' = [state EXCEPT ![key] = None]
        /\ order' = SelectSeq(order, Other)
  /\ pos' = pos + 1
  /\ UNCHANGED <<foldCase, snapshot, changes, collected, result>>

Delete ==
  /\ pos < Len(input) /\ Current[1] = "disconnected" /\ Current[2] # NoPath
  /\ state' = [state EXCEPT ![Key(Current[2])] = None]
  /\ pos' = pos + 1
  /\ UNCHANGED <<foldCase, snapshot, changes, order, collected, result>>

Skip ==
  /\ pos < Len(input) /\ Current[2] = NoPath
  /\ pos' = pos + 1
  /\ UNCHANGED <<foldCase, snapshot, changes, state, order, collected, result>>

\* The last loop: the events of the keys that are still present, in order.
Collect ==
  /\ pos = Len(input) /\ collected < Len(order)
  /\ LET kept == state[order[collected + 1]]
     IN result' = IF kept = None THEN result ELSE Append(result, kept)
  /\ collected' = collected + 1
  /\ UNCHANGED <<foldCase, snapshot, changes, pos, state, order>>

Next == Put \/ Delete \/ Skip \/ Collect

Spec == Init /\ [][Next]_vars

-----------------------------------------------------------------------------
(* The reference definition                                                *)

SameDevice(p, q) ==
  p # NoPath /\ q # NoPath /\ (p = q \/ (foldCase /\ p[1] = q[1]))

Later(i) == {j \in (i + 1)..Len(input) : SameDevice(input[i][2], input[j][2])}

\* The connections that nothing later in the input is about.
Expected == {i \in DOMAIN input :
               input[i][1] = "connected" /\ input[i][2] # NoPath /\ Later(i) = {}}

FirstConnection(i) ==
  CHOOSE m \in 1..i : /\ input[m][1] = "connected" /\ SameDevice(input[m][2], input[i][2])
                      /\ \A l \in 1..(m - 1) : input[l][1] = "connected" =>
                           ~SameDevice(input[l][2], input[i][2])

Done == pos = Len(input) /\ collected = Len(order)

(***************************************************************************)
(* The last word on a device decides: it is in the result if and only if   *)
(* the last event about it is a connection, with that event's information, *)
(* and it is there once, however its path is spelled.                      *)
(***************************************************************************)
LastWriterWins ==
  Done => /\ {result[i] : i \in DOMAIN result} = Expected
          /\ \A i, j \in DOMAIN result : result[i] = result[j] => i = j

(***************************************************************************)
(* Devices are listed in the order in which they were first seen, which a  *)
(* removal and a new arrival during the enumeration do not change.         *)
(***************************************************************************)
OrderOfFirstConnection ==
  Done => \A i, j \in DOMAIN result :
            i < j => FirstConnection(result[i]) < FirstConnection(result[j])

\* The reconciliation loop is right (event_linux.go:407, event_windows.go:302).
ReconcilesRight == TypeOK /\ LastWriterWins /\ OrderOfFirstConnection
=============================================================================
